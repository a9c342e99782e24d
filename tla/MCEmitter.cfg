CONSTANTS
    generated = generated
    sub = sub
    hand = hand
    x = x
    y = y
    Root <- generated
    Sorted <- OneSub
    HandMods <- HandAndSub
    Sources <- TwoSources
    MaxRuns = 3
SPECIFICATION EmitterSpec
INVARIANTS OutputFresh OutputExact HandwrittenKept

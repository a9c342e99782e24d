CONSTANTS
    top = top
    filter = filter
    Params <- MCParams
    LastPage = 3
SPECIFICATION FairSpec
INVARIANTS InOrder RequestComplete
PROPERTIES ReadsPages PagerEnds

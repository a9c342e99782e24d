CONSTANTS
    Marks <- MCMarks
    Crates <- MCCrates
SPECIFICATION Spec
INVARIANTS FormatsReach HelpersFit SendsAsDescribed ReadsWhatIsSent

SPECIFICATION FairSpec
CONSTANTS
    Subs = {s1, s2}
    MaxWatches = 2
INVARIANTS StarvedWasOvertaken NoLeakedTask ReadsWhatIsFilled
PROPERTY OrphansAreReleased
CHECK_DEADLOCK FALSE

SPECIFICATION Spec
CONSTANTS
    Keys = {"k", "j"}
    Values = {"v", "w"}
    Names = {"c1", "c2"}
    Tracked = {"a", "b"}
    Contents = {"1", "2"}
    ScriptLength = 3
    Codes = {"ResourceExhausted", "Internal"}
    StreamLength = 3
    Word = 4
    Frames = {1, 2}
    Ticks = {0, 1, 2}
    Top = 1
    Threshold = 20
    MinBase = 1500
    Floor = 4000
CHECK_DEADLOCK FALSE
INVARIANTS
    SelectorMeansWhatItSays
    HandleShowsLastGood
    GatewayAnswersWhole
    WritesReadBack
    DryRunForesees
    GatesJudgeWhatWasMeasured

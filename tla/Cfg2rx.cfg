\* All arguments, files and receivers; every request can fail.
SPECIFICATION CmdSpec
CONSTANTS
    Keys = {"a", "b", "c"}
    Known <- MCKnown
    Values = {0, 1}
    Default <- MCDefault
    LayerArgs <- MCLayerArgs
INVARIANTS SuccessMeansDone SkippedOnlyIfCurrent
\* The command has ended.
CHECK_DEADLOCK FALSE

\* Two windows of one receiver and every order of three clicks.
SPECIFICATION Spec
CONSTANTS
    NumWindows = 2
    PollLayers <- MCPollLayers
    StoreLayers <- MCStoreLayers
    Values = {0, 1}
    NoValue = NoValue
    Configs <- MCConfigs
    MaxClicks = 3
INVARIANTS LoadedIsReal ChangesShown

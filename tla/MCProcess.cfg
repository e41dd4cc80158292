SPECIFICATION ShellsSpec
CONSTANTS
    Setups <- MCSetups
    Inputs <- MCInputs
    HoldTimes = {10, 30}
    Default = 30
CHECK_DEADLOCK FALSE
INVARIANTS
    ShellsTypeOK
    HandlersStand
    LeavesNoTrace
    SettingsAgree
PROPERTIES
    ExitCompletes
    PromptsReturn

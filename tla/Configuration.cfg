CONSTANTS
    BuiltFormats = {"latex", "typst"}
    ExeDir <- MCExeDir
    Requested <- MCRequested
    Folders <- MCFolders
    Saves <- MCSaves
    MaxSaves = 1
    Durations = {0, 4, 10, 15, 20}
SPECIFICATION ConfigSpec
INVARIANT OfferedIsAccepted
INVARIANT TightestRuleApplies
INVARIANT ReadersAgree
INVARIANT SettingsReachTheCli
PROPERTY AliasesAreUnambiguous
CHECK_DEADLOCK FALSE

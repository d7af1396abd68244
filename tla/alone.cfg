SPECIFICATION Spec
CONSTANTS
    Width = 2
    Dev <- MCDev
    Names <- MCNames
    NonPrivate <- MCNonPrivate
    Procs = {"daemon"}
    Daemons = {"daemon"}
    Configs <- MCConfigs
    Worlds <- MCWorlds
    Kinds = {"apply", "check", "cleanup"}
    ForeignRoutes <- MCForeignRoutes
    ForeignRules <- MCForeignRules
    MaxFaults = 2
INVARIANTS TypeOK SuccessConverges SuccessCleans
PROPERTIES ForeignUntouched WantedStays CoverageKept

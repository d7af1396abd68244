SPECIFICATION Spec
CONSTANTS
    Width = 2
    Dev <- MCDev
    Names <- MCNames
    NonPrivate <- MCNonPrivate
    Procs = {"daemon", "cli"}
    Daemons = {"daemon"}
    Configs <- RaceConfigs
    Worlds <- RaceWorlds
    Kinds = {"apply", "cleanup"}
    ForeignRoutes <- RaceForeign
    ForeignRules <- MCForeignRules
    MaxFaults = 2
INVARIANTS SuccessConverges FailuresHaveACause
PROPERTIES ForeignUntouched

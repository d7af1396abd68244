SPECIFICATION Spec
CONSTANTS
    Width = 2
    Dev <- MCDev
    Names <- GroupsNames
    NonPrivate <- MCNonPrivate
    Procs = {"daemon"}
    Daemons = {"daemon"}
    Configs <- GroupsConfigs
    Worlds <- GroupsWorlds
    Kinds = {"apply", "cleanup"}
    ForeignRoutes = {}
    ForeignRules <- MCForeignRules
    MaxFaults = 3
INVARIANTS SuccessConverges
PROPERTIES OutageKeepsRoutes WantedStays

SPECIFICATION Spec
CONSTANTS
    Width = 1
    Dev <- MCDev
    Names <- MCNames
    NonPrivate = {}
    FirstFiles <- BothFiles
    Variants <- MCVariants
    Flags <- MCFlags
    MaxEdits = 2
    Host <- MCHost
    Fetched <- MCFetched
INVARIANTS CandidatesSound DualGatewaysCount RuleSettles RoutesSettle
CHECK_DEADLOCK FALSE

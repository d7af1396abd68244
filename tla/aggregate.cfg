SPECIFICATION Spec
CONSTANTS
    Width = 3
    Inputs <- MCInputs
INVARIANTS TypeOK SameAddresses RemoveCoveredMatchesLoop ReturnsShortest
PROPERTIES PassesShorten Terminates
CHECK_DEADLOCK FALSE

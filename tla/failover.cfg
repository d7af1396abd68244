SPECIFICATION Spec
CONSTANTS
    Width = 2
    Dev <- MCDev
    Hops <- MCHops
    Links <- MCLinks
    Pingable <- MCPingable
INVARIANTS SelectMatchesLoops NoTie AnsweringPreferred
PROPERTIES OthersKeepOrder

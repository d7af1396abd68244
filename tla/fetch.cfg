SPECIFICATION FairSpec
CONSTANTS
    Width = 3
    Radix = 2
    Types = {"txt", "ripe_country"}
    Lists <- ThreeLines
INVARIANT DamageIsBounded
PROPERTIES FetchEnds ImplementsFetch

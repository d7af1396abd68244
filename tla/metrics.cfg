SPECIFICATION FairSpec
CONSTANTS
    Scrapers = {s1, s2}
    Buffer = 2
    MaxRuns = 2
INVARIANT PageIsCoherent
PROPERTY RunsGoOn
CHECK_DEADLOCK FALSE

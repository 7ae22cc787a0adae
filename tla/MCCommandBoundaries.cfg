\* A start request, two turns and a finish; a stale line before a fresh one.
CONSTANTS
    Strays = {TRUE, FALSE}
    MaxRequests = 4
    MaxLines = 2
SPECIFICATION FairSpec
INVARIANTS GroupIsKilled RepliesMatch
PROPERTIES CallsEnd

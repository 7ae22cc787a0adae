\* The agenda of four items does not fit the queue of two: the None can be
\* left out only if trials are waiting before it.
CONSTANTS
    N = 3
    Workers = 1
    Exporters = {1}
    Torn = {}
    MaxRuns = 1
SPECIFICATION FairSpec
PROPERTIES CancelEnds

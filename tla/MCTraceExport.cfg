\* Three trials and two workers: the agenda of five items does not fit the
\* queue of four, and a worker takes more than one trial.
CONSTANTS
    N = 3
    Workers = 2
    Exporters = {1, 2}
    Torn = {2, 3}
    MaxRuns = 2
SPECIFICATION FairSpec
INVARIANTS TypeOK StableIdentity RecordedIsDelivered Accounted
PROPERTIES PhaseEnds

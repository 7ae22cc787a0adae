\* Two processes, two definitions, two trials; no symmetry, because liveness
\* is checked too.
CONSTANTS
    Procs = {p1, p2}
    Definitions = {d1, d2}
    Nobody = Nobody
    NoManifest = NoManifest
    N = 2
    MaxAttempts = 3
    MaxCrashes = 1

SPECIFICATION FairSpec

INVARIANTS
    SingleFlight
    FreshDirectory
    ReportIsFaithful

PROPERTIES
    ImplementsTasks
    ImplementsLedger
    EventuallyReported
    OrphansAreClosed

CONSTANTS
    Procs = {p1, p2}
    Definitions = {d1, d2}
    Nobody = Nobody
    NoManifest = NoManifest
    N = 2
    MaxAttempts = 2
    MaxCrashes = 1

SPECIFICATION Spec

INVARIANT
    Resumable

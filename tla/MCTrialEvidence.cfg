\* Evidence that a failed trial does not keep.
CONSTANTS
    Turns = 2
    Evaluators = 2
    MaxCancels = 2
SPECIFICATION Spec
INVARIANTS EvidenceIsRetained

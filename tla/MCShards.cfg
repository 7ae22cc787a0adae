\* Two cases, two variants, two roots, two campaigns.
SPECIFICATION Spec
CONSTANTS
    Cases = 2
    Samples = 1
    Variants = {baseline, candidate}
    Definitions = {d1, d2}
    Shards <- MCShares
    Verdicts = {"passed", "rejected", "interrupted"}
    Roots = {a, b}
SYMMETRY Symmetry
INVARIANTS
    ReportsArePinned
    MergedIsWhole
    ComparisonsAgree

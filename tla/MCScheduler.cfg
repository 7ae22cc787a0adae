CONSTANTS
    N = 6
    Workers = 3
    Resources <- MCResources
    Capacity <- MCCapacity
    Claim <- MCClaim

SPECIFICATION FairSpec

INVARIANTS
    NoOversubscription
    NeverStuck
    WorkConserving
    ReturnIsComplete
    NoOrphans

PROPERTIES
    ImplementsTasks
    Terminates

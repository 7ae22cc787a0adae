\* One trial of any adapter, cancelled up to twice.
SPECIFICATION FairSpec
CONSTANTS
    MaxCancels = 2
    MaxEvents = 3
    MaxTurns = 2
    MaxSegments = 3
    MaxMessages = 3
    Facts = 2
    Criteria = {quality}
    MaxExports = 2
    Sources <- MCSources
INVARIANTS
    TypeOK
    NothingIsAbandoned
    CancellationIsKept
    AnswersAreCurrent
    DialogueIsExact
    ReceiptsAreExact
    DeliveryIsWhole
PROPERTY
    TrialEnds

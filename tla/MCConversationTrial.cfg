\* Two turns and two evaluators: a loop that goes round and one that ends.
\* Two cancellations: one may be captured and another arrive after it.
CONSTANTS
    Turns = 2
    Evaluators = 2
    MaxCancels = 2
SPECIFICATION FairSpec
INVARIANTS TypeOK ClosedBeforeEnd CancelWins DeadlineIsFinal FailuresKeepEvidence CompletedIsJudged
PROPERTIES Settles

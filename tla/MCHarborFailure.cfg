\* The transcript of a failed Harbor trial hides the failure.
SPECIFICATION Spec
CONSTANTS
    MaxCancels = 2
    MaxEvents = 3
    MaxTurns = 2
    MaxSegments = 3
    MaxMessages = 3
    Facts = 2
    Criteria = {quality}
    MaxExports = 2
    Sources <- MCSources
INVARIANT
    NativeErrorIsPrimary

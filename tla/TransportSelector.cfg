CONSTANTS
  Duration <- Durations
  Latency = 1
SPECIFICATION Spec
INVARIANTS TypeOK SafetyIsSlack
PROPERTIES FailureAfterCancelStops

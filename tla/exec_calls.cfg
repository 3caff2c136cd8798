SPECIFICATION FairSpec
CONSTANTS
  Modes = {"run", "stream"}
  Never = 0
  Timeouts = {0, 2}
  Faults = {"lost", "silent"}
  Latency = 1
  Grace = 2
  Slack = 5
  MaxWritten <- MCWritten
INVARIANTS ResultWhole StreamHonest FailsOnlyForCause
PROPERTIES CallEnds
CHECK_DEADLOCK FALSE

SPECIFICATION FairSpec
CONSTANTS
  Calls <- MCCalls
  Pause = 1
  Latency = 2
  Slack = 10
  NetworkFails = TRUE
INVARIANTS OpenPortFound CrashIsNoTimeout BoundedWait AgentDecides
PROPERTIES WaitEnds
CHECK_DEADLOCK FALSE

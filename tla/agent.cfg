SPECIFICATION FairSpec
CONSTANTS
  Exec = {e1}
  Launch = {l1}
  Forks <- MCForks
INVARIANTS SurvivorKeepsStatus ShutdownWaitsForTold
PROPERTIES OrphansReaped AbandonedEnds
CHECK_DEADLOCK FALSE

\* A message and a stop; one round.
CONSTANTS
    Messages = {m1}
    Continues = {}
    Stops = {s}
    RoundCount = 1
    AgentCount = 1
    LongRun = FALSE
SPECIFICATION Spec
PROPERTY WatcherSparesCancelled
CHECK_DEADLOCK FALSE

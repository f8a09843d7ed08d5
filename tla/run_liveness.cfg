\* A message, a continue and a stop; two rounds of two agents; fair.
CONSTANTS
    Messages = {m1}
    Continues = {c}
    Stops = {s}
    RoundCount = 2
    AgentCount = 2
    LongRun = TRUE
SPECIFICATION FairSpec
PROPERTIES ExecutingEnds RequestsEnd
CHECK_DEADLOCK FALSE

\* Two messages; three rounds of one agent.
CONSTANTS
    Messages = {m1, m2}
    Continues = {}
    Stops = {}
    RoundCount = 3
    AgentCount = 1
    LongRun = FALSE
SPECIFICATION Spec
PROPERTY QueuedForARound
CHECK_DEADLOCK FALSE

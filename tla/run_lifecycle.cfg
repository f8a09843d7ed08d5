\* A message and two continues; three rounds of one agent.
CONSTANTS
    Messages = {m1}
    Continues = {c1, c2}
    Stops = {}
    RoundCount = 3
    AgentCount = 1
    LongRun = TRUE
SYMMETRY Symmetry
SPECIFICATION Spec
INVARIANTS QuietRunIsWatched RoundFieldIsOwned NoRowTwiceInAPrompt
CHECK_DEADLOCK FALSE

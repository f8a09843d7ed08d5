\* One agent, one event, one visit.
CONSTANTS
    Agents = {a}
    Transitions = {"round", "completed"}
    ApiStatuses = {"executing"}
    MaxSeq = 1
    MaxVisits = 1
    Nobody = Nobody
    NoEvent = NoEvent
SPECIFICATION Spec
INVARIANT GapFree
CHECK_DEADLOCK FALSE

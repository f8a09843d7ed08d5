\* Two agents, three events, two visits or breaks of the stream.
CONSTANTS
    Agents = {a, b}
    Transitions = {"round", "approved", "completed"}
    ApiStatuses = {"planned"}
    MaxSeq = 3
    MaxVisits = 2
    Nobody = Nobody
    NoEvent = NoEvent
SYMMETRY Symmetry
SPECIFICATION Spec
INVARIANTS TranscriptSorted NoUnexplainedGap ReloadShowsAll StatusIsLatest IndicatorAgrees
CHECK_DEADLOCK FALSE

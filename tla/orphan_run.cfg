\* One run, one request.
CONSTANTS
    Runs = {r1}
    Requests = {q1}
    Answers = {yes}
    MaxReplies = 1
    Nothing = Nothing
SPECIFICATION GovernSpec
INVARIANT NoOrphanRun
CHECK_DEADLOCK FALSE

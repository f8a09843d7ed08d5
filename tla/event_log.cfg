\* Two hub tasks, a queue writer and a watcher; h1 has two events, the rest one.
CONSTANTS
    HubTasks = {h1, h2}
    QueueWriters = {q}
    Watchers = {w}
    NoSeq = NoSeq
    MaxOps <- TwoForOne
    h1 = h1
SPECIFICATION Spec
INVARIANTS RowPerTry CollisionHasForeignCause OneLossPerForeignRow TaskOrderKept
PROPERTY ImplementsLog
CHECK_DEADLOCK FALSE

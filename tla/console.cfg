\* Bounds: two requests about two runs; five events; two links, revocations
\* and openings of the dialog; three runs in pages of one; two panels' items and
\* break-glass requests; three changes of two preferences; two endpoints in
\* two windows; two calls per three ticks; two tenants and two sign-ups.
CONSTANTS
    Runs = {1, 2}
    Requests = {1, 2}
    Answers = {yes, no}
    MaxReplies = 1
    Nothing = Nothing
    MaxEvents = 5
    NoSeq = NoSeq
    ShareLinks = {1, 2}
    Deletes = {1, 2}
    Viewers = {v1}
    MaxOpenings = 2
    NoLink = NoLink
    MaxHistory = 3
    Finishing = {2}
    SearchHits = {1, 2}
    AgentRuns = {2, 3}
    STATUSES = {"executing"}
    PAGE_SIZE = 1
    Items = {i1, i2}
    Grants = {1, 2}
    NoItem = NoItem
    Fields = {theme, tab}
    Options = {"a", "b"}
    Unset = Unset
    Default <- DefaultPreferences
    Patches = {p1, p2}
    MaxChanges = 3
    Windows = {w1, w2}
    Sends = {n1, n2}
    Endpoints = {1, 2}
    NoEndpoint = NoEndpoint
    Users = {u1}
    RATE_LIMIT_MAX = 2
    RATE_LIMIT_WINDOW_MS = 3
    LastTime = 9
    Tenants = {1, 2}
    SignUps = {1, 2}
    ALLOW_SIGNUP = TRUE
    Slugs = {s1, s2}
    Emails = {m1, m2}
    NoTenant = NoTenant
SPECIFICATION ConsoleSpec
CONSTRAINT InOrder
VIEW Moving
INVARIANTS TypesOK ToldAfterApproval OrphanBehindFailure ShownAnswersAreOwed
INVARIANTS EveryMessageHasItsPlace RevokedShownIsShut OneLinkPerOpening LoadMoreShowsAll
INVARIANTS PanelsShowWhatIsChosen OneSessionAtATime SequentialChangesKept SubscribedIsStored
INVARIANTS LimitIsExact NewUsersAreServed GoodTenantsAreMigrated
PROPERTIES CancelledIsLeftByARace PlaybackShowsAll
CHECK_DEADLOCK FALSE

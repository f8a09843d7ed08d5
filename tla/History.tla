------------------------------ MODULE History -------------------------------
(***************************************************************************)
(* The run history pages, of all runs and of one project: filters, a       *)
(* debounced search, and "Load more", which replaces the page by the next. *)
(* react-query keeps an answer per filter and offset and asks again only   *)
(* when it is 30 seconds old; a change of filter is modelled as dropping   *)
(* the answers of the old filter.  Runs are numbered as they are created.  *)
(***************************************************************************)
EXTENDS Naturals, Sequences, FiniteSets

CONSTANTS
    MaxHistory,  \* bound: runs ever created
    Finishing,   \* bound: runs that finish while the page is open
    SearchHits,  \* runs that match the text the user may search for
    AgentRuns,   \* runs in which the agent of ?agent= took part
    STATUSES,    \* the status buttons used, of those of the page
    PAGE_SIZE

ASSUME HistoryAssumption == MaxHistory \in Nat \ {0} /\ PAGE_SIZE \in Nat \ {0}

VARIABLES
    hRuns,    \* the status of each run
    hFilter,  \* the filter that is applied
    hTyped,   \* the search field holds the text
    hTimer,   \* the 300 ms timer of the search field is set
    hOffset,  \* rows skipped
    hCache,   \* per offset: the answer kept for the filter
    hStale,   \* offsets whose answer is older than 30 seconds
    hQuery,   \* per offset: the request under way
    hBegan,   \* history: what matched when the first page was read, while it does
    hFresh    \* history: offsets read in order since the first page was

pageVars == <<hFilter, hTyped, hTimer, hOffset>>
historyVars == <<hRuns, pageVars, hCache, hStale, hQuery, hBegan, hFresh>>

RunStatuses == {"executing", "completed"}
Offsets == {o \in 0..(MaxHistory - 1) : o % PAGE_SIZE = 0}
NoAnswer == [known |-> FALSE, rows |-> {}, total |-> 0]
NoQuery == [at |-> "idle", rows |-> {}]

HistoryInit ==
    /\ hRuns = [r \in 1..(MaxHistory - 1) |-> "executing"]
    /\ hFilter = [statuses |-> {}, search |-> FALSE, agent |-> FALSE]
    /\ hTyped = FALSE /\ hTimer = TRUE /\ hOffset = 0
    /\ hCache = [o \in Offsets |-> NoAnswer] /\ hStale = {}
    /\ hQuery = [o \in Offsets |-> IF o = 0 THEN [NoQuery EXCEPT !.at = "sent"] ELSE NoQuery]
    /\ hBegan = {} /\ hFresh = {}

-----------------------------------------------------------------------------
(* GET /api/runs/history: newest first.                                     *)

Matches(r, filter) ==
    /\ filter.statuses # {} => hRuns[r] \in filter.statuses
    /\ filter.search => r \in SearchHits
    /\ filter.agent => r \in AgentRuns
Matching == {r \in DOMAIN hRuns : Matches(r, hFilter)}

Newer(r) == Cardinality({t \in Matching : t > r})

RowsAt(o) == {r \in Matching : Newer(r) \in o..(o + PAGE_SIZE - 1)}

ReadRows(o) ==
    /\ hQuery[o].at = "sent"
    /\ hQuery' = [hQuery EXCEPT ![o] = [at |-> "rows", rows |-> RowsAt(o)]]
    /\ hFresh' = {p \in hFresh : p < o} \cup {o}
    /\ hBegan' = IF o = 0 THEN Matching ELSE hBegan
    /\ UNCHANGED <<hRuns, pageVars, hCache, hStale>>

\* The total is counted by a second statement.
CountRows(o) ==
    /\ hQuery[o].at = "rows"
    /\ hQuery' = [hQuery EXCEPT ![o] = NoQuery]
    /\ hCache' = [hCache EXCEPT ![o] =
                    [known |-> TRUE, rows |-> hQuery[o].rows, total |-> Cardinality(Matching)]]
    /\ hStale' = hStale \ {o}
    /\ UNCHANGED <<hRuns, pageVars, hBegan, hFresh>>

\* The request and its retries fail: what was read before stays.
HistoryFails(o) ==
    /\ hQuery[o].at # "idle"
    /\ hQuery' = [hQuery EXCEPT ![o] = NoQuery]
    /\ hFresh' = {p \in hFresh : p < o}
    /\ UNCHANGED <<hRuns, pageVars, hCache, hStale, hBegan>>

-----------------------------------------------------------------------------
(* The page.                                                                *)

\* Renders filter and offset, and asks for what is not kept or is too old.
Shows(filter, o) ==
    LET same == filter = hFilter
        kept == IF same THEN hCache ELSE [p \in Offsets |-> NoAnswer]
        asks == ~kept[o].known \/ o \in hStale
        asked == IF same THEN hQuery ELSE [p \in Offsets |-> NoQuery]
    IN  /\ hFilter' = filter /\ hOffset' = o
        /\ hCache' = kept
        /\ hQuery' = IF asks /\ asked[o].at = "idle" /\ ~(same /\ o = hOffset)
                     THEN [asked EXCEPT ![o].at = "sent"] ELSE asked
        /\ IF same THEN UNCHANGED <<hStale, hBegan, hFresh>>
           ELSE hStale' = {} /\ hBegan' = {} /\ hFresh' = {}

Type ==
    /\ hTyped' = ~hTyped /\ hTimer' = TRUE
    /\ UNCHANGED <<hRuns, hFilter, hOffset, hCache, hStale, hQuery, hBegan, hFresh>>

Debounce ==
    /\ hTimer /\ hTimer' = FALSE
    /\ Shows([hFilter EXCEPT !.search = hTyped], 0)
    /\ UNCHANGED <<hRuns, hTyped>>

ToggleStatus(s) ==
    /\ Shows([hFilter EXCEPT !.statuses = IF s \in @ THEN @ \ {s} ELSE @ \cup {s}], 0)
    /\ UNCHANGED <<hRuns, hTyped, hTimer>>

ClearFilters ==
    /\ Shows([hFilter EXCEPT !.statuses = {}], 0)
    /\ UNCHANGED <<hRuns, hTyped, hTimer>>

\* ?agent= is set by the sidebar: the offset stays.
SetAgent ==
    /\ Shows([hFilter EXCEPT !.agent = ~@], hOffset)
    /\ UNCHANGED <<hRuns, hTyped, hTimer>>

page == hCache[hOffset]

\* Variant: takes the offset for the number of the page's first row.
hasMoreFromOne == hOffset + 1 + Cardinality(page.rows) < page.total

hasMore == hOffset + Cardinality(page.rows) < page.total

LoadMore ==
    /\ hasMore /\ hOffset + PAGE_SIZE \in Offsets
    /\ Shows(hFilter, hOffset + PAGE_SIZE)
    /\ UNCHANGED <<hRuns, hTyped, hTimer>>

\* 30 seconds pass in which nothing is read.
GoStale ==
    /\ hStale' = {o \in Offsets : hCache[o].known} /\ hStale' # hStale
    /\ UNCHANGED <<hRuns, pageVars, hCache, hQuery, hBegan, hFresh>>

-----------------------------------------------------------------------------
(* What happens to the runs.                                                *)

NewRun ==
    /\ Len(hRuns) < MaxHistory
    /\ hRuns' = Append(hRuns, "executing")
    /\ UNCHANGED <<pageVars, hCache, hStale, hQuery, hBegan, hFresh>>

\* A run may leave the filter; then the pages after it move up by one.
FinishRun(r) ==
    /\ hRuns[r] = "executing" /\ r \in Finishing
    /\ hRuns' = [hRuns EXCEPT ![r] = "completed"]
    /\ hBegan' = IF hFilter.statuses \in {{}, RunStatuses} THEN hBegan ELSE {}
    /\ UNCHANGED <<pageVars, hCache, hStale, hQuery, hFresh>>

HistoryNext ==
    \/ Type \/ Debounce \/ ClearFilters \/ SetAgent \/ LoadMore \/ GoStale \/ NewRun
    \/ \E s \in STATUSES : ToggleStatus(s)
    \/ \E o \in Offsets : ReadRows(o) \/ CountRows(o) \/ HistoryFails(o)
    \/ \E r \in DOMAIN hRuns : FinishRun(r)

HistorySpec == HistoryInit /\ [][HistoryNext]_historyVars

-----------------------------------------------------------------------------
(* Properties.                                                              *)

\* The typing of the page's and the cache's state.
HistoryTypeOK ==
    /\ hRuns \in Seq(RunStatuses) /\ Len(hRuns) <= MaxHistory
    /\ hFilter \in [statuses : SUBSET STATUSES, search : BOOLEAN, agent : BOOLEAN]
    /\ hTyped \in BOOLEAN /\ hTimer \in BOOLEAN /\ hOffset \in Offsets
    /\ hCache \in [Offsets -> [known : BOOLEAN, rows : SUBSET (DOMAIN hRuns), total : 0..MaxHistory]]
    /\ hStale \subseteq Offsets /\ hFresh \subseteq Offsets
    /\ hQuery \in [Offsets -> [at : {"idle", "sent", "rows"}, rows : SUBSET (DOMAIN hRuns)]]
    /\ hBegan \subseteq DOMAIN hRuns

\* Who loads more until the button is gone has been shown every run that
\* matched when the first page was read, even if runs were created meanwhile:
\* provided each page was read after the one before it, which a page kept from
\* an earlier walk was not, and no run left the filter.
LoadMoreShowsAll ==
    LET pages == {o \in Offsets : o <= hOffset}
    IN  (/\ page.known /\ ~hasMore
         /\ \A o \in pages : o \in hFresh /\ hQuery[o].at = "idle") =>
            hBegan \subseteq UNION {hCache[o].rows : o \in pages}

=============================================================================

------------------------------ MODULE Sharing -------------------------------
(***************************************************************************)
(* Public links to a run's replay: the share dialog that makes one per     *)
(* opening, the table that lists and revokes them, and the replay page     *)
(* that a link opens.  A request is three steps: it is sent, the server    *)
(* acts, the answer arrives; the server's act or the answer may be lost.   *)
(***************************************************************************)
EXTENDS Naturals, FiniteSets

CONSTANTS
    ShareLinks,   \* links ever made
    Deletes,      \* revocations ever sent
    Viewers,      \* openings of the replay page
    MaxOpenings,  \* bound: openings of the dialog
    NoLink        \* JavaScript's null

ASSUME SharingAssumption == MaxOpenings \in Nat /\ NoLink \notin ShareLinks

VARIABLES
    sRow,      \* share_links: no row, "live", or "revoked" (revoked_at is set)
    sExpired,  \* links whose expires_at has passed
    sOpen,     \* the dialog is open
    sShown,    \* the link the dialog holds
    sLoading,  \* the dialog waits for a link
    sError,    \* the dialog's error
    sPost,     \* per link: its POST is "none", "sent", "inserted" or "over"
    sOpenings, \* times the dialog was opened
    sTable,    \* the table's rows
    sRevoking, \* the link whose button is disabled
    sDelete,   \* per DELETE: its link and where it is
    sFetch,    \* per fetchLinks: where it is, and the rows read
    sLost,     \* history: a fetchLinks got no rows
    sView      \* per viewer: where the page's request is

dialogVars == <<sOpen, sShown, sLoading, sError, sPost, sOpenings>>
tableVars == <<sTable, sRevoking, sDelete, sFetch, sLost>>
shareVars == <<sRow, sExpired, dialogVars, tableVars, sView>>

RowStates == {"none", "live", "revoked"}
NoRows == [l \in ShareLinks |-> "none"]
Fetches == Deletes \cup {NoLink}   \* NoLink: the fetch on mount

SharingInit ==
    /\ sRow = NoRows /\ sExpired = {}
    /\ sOpen = FALSE /\ sShown = NoLink /\ sLoading = FALSE /\ sError = FALSE
    /\ sPost = [l \in ShareLinks |-> "none"] /\ sOpenings = 0
    /\ sTable = NoRows /\ sRevoking = NoLink
    /\ sDelete = [d \in Deletes |-> [link |-> NoLink, at |-> "idle"]]
    /\ sFetch = [f \in Fetches |-> [at |-> "idle", rows |-> NoRows]] /\ sLost = FALSE
    /\ sView = [v \in Viewers |-> "idle"]

-----------------------------------------------------------------------------
(* The dialog.                                                              *)

\* Variant: the effect does not look at loading.
GeneratesAgain == sOpen' /\ sShown' = NoLink /\ ~sError'

\* The effect that follows open, link, loading and error.
Generates == sOpen' /\ sShown' = NoLink /\ ~sLoading /\ ~sError'

OpenShare ==
    /\ ~sOpen /\ sOpenings < MaxOpenings
    /\ sOpen' = TRUE /\ sOpenings' = sOpenings + 1
    /\ UNCHANGED <<sShown, sError>>
    /\ IF Generates
       THEN \E l \in ShareLinks :
               /\ sPost[l] = "none"
               /\ sPost' = [sPost EXCEPT ![l] = "sent"] /\ sLoading' = TRUE
       ELSE UNCHANGED <<sPost, sLoading>>
    /\ UNCHANGED <<sRow, sExpired, tableVars, sView>>

CloseShare ==
    /\ sOpen
    /\ sOpen' = FALSE /\ sShown' = NoLink /\ sError' = FALSE
    /\ UNCHANGED <<sRow, sExpired, sLoading, sPost, sOpenings, tableVars, sView>>

\* POST /api/share-links.
CreateLink(l) ==
    /\ sPost[l] = "sent"
    /\ sRow' = [sRow EXCEPT ![l] = "live"]
    /\ sPost' = [sPost EXCEPT ![l] = "inserted"]
    /\ UNCHANGED <<sExpired, sOpen, sShown, sLoading, sError, sOpenings, tableVars, sView>>

\* The answer is used although the dialog may have been closed and reopened.
LinkArrives(l) ==
    /\ sPost[l] \in {"sent", "inserted"}
    /\ sPost' = [sPost EXCEPT ![l] = "over"] /\ sLoading' = FALSE
    /\ \/ sPost[l] = "inserted" /\ sShown' = l /\ UNCHANGED sError
       \/ sError' = TRUE /\ UNCHANGED sShown
    /\ UNCHANGED <<sRow, sExpired, sOpen, sOpenings, tableVars, sView>>

-----------------------------------------------------------------------------
(* The table of links.                                                      *)

OpenTable ==
    /\ sFetch[NoLink].at = "idle"
    /\ sFetch' = [sFetch EXCEPT ![NoLink].at = "sent"]
    /\ UNCHANGED <<sRow, sExpired, dialogVars, sTable, sRevoking, sDelete, sLost, sView>>

\* GET /api/share-links.
ReadLinks(f) ==
    /\ sFetch[f].at = "sent"
    /\ sFetch' = [sFetch EXCEPT ![f] = [at |-> "read", rows |-> sRow]]
    /\ UNCHANGED <<sRow, sExpired, dialogVars, sTable, sRevoking, sDelete, sLost, sView>>

\* fetchLinks replaces the table, or leaves it as it is.
LinksArrive(f) ==
    /\ sFetch[f].at # "idle"
    /\ sFetch' = [sFetch EXCEPT ![f] = [at |-> "idle", rows |-> NoRows]]
    /\ \/ sFetch[f].at = "read" /\ sTable' = sFetch[f].rows /\ UNCHANGED sLost
       \/ sLost' = TRUE /\ UNCHANGED sTable
    /\ UNCHANGED <<sRow, sExpired, dialogVars, sRevoking, sDelete, sView>>

\* handleRevoke shows the link as revoked before it asks.
HandleRevoke(d, l) ==
    /\ sDelete[d].at = "idle" /\ sFetch[d].at = "idle"
    /\ sTable[l] = "live" /\ l \notin sExpired /\ sRevoking # l
    /\ sRevoking' = l
    /\ sTable' = [sTable EXCEPT ![l] = "revoked"]
    /\ sDelete' = [sDelete EXCEPT ![d] = [link |-> l, at |-> "sent"]]
    /\ UNCHANGED <<sRow, sExpired, dialogVars, sFetch, sLost, sView>>

\* DELETE /api/share-links/[id] looks for a live row, then revokes it.
DeleteFinds(d) ==
    /\ sDelete[d].at = "sent"
    /\ sDelete' = [sDelete EXCEPT ![d].at =
                     IF sRow[sDelete[d].link] = "live" THEN "found" ELSE "refused"]
    /\ UNCHANGED <<sRow, sExpired, dialogVars, sTable, sRevoking, sFetch, sLost, sView>>

DeleteRevokes(d) ==
    /\ sDelete[d].at = "found"
    /\ sRow' = [sRow EXCEPT ![sDelete[d].link] = "revoked"]
    /\ sDelete' = [sDelete EXCEPT ![d].at = "revoked"]
    /\ UNCHANGED <<sExpired, dialogVars, sTable, sRevoking, sFetch, sLost, sView>>

\* Variant: a refused or lost DELETE leaves the optimistic row.
DeleteSettlesQuietly(d) ==
    /\ sDelete[d].at \in {"sent", "found", "refused", "revoked"}
    /\ sDelete' = [sDelete EXCEPT ![d].at = "over"]
    /\ sRevoking' = NoLink
    /\ UNCHANGED <<sRow, sExpired, dialogVars, sTable, sFetch, sLost, sView>>

\* The answer: anything but a success fetches the table anew, and whichever
\* link's button was disabled is enabled.
DeleteSettles(d) ==
    /\ sDelete[d].at \in {"sent", "found", "refused", "revoked"}
    /\ sDelete' = [sDelete EXCEPT ![d].at = "over"]
    /\ \/ sDelete[d].at = "revoked" /\ UNCHANGED sFetch
       \/ sFetch' = [sFetch EXCEPT ![d].at = "sent"]
    /\ sRevoking' = NoLink
    /\ UNCHANGED <<sRow, sExpired, dialogVars, sTable, sLost, sView>>

Expire(l) ==
    /\ sRow[l] # "none" /\ l \notin sExpired
    /\ sExpired' = sExpired \cup {l}
    /\ UNCHANGED <<sRow, dialogVars, tableVars, sView>>

-----------------------------------------------------------------------------
(* The replay page and GET /api/replay/[token]/events.                      *)

Views(v, at) == sView' = [sView EXCEPT ![v] = at]

\* The page asks and the token is looked up in every tenant's schema; 410 when
\* the link is revoked or expired.
LookUp(v, l) ==
    /\ sView[v] = "idle" /\ sRow[l] # "none"
    /\ Views(v, IF sRow[l] = "revoked" \/ l \in sExpired THEN "answered" ELSE "admitted")
    /\ UNCHANGED <<sRow, sExpired, dialogVars, tableVars>>

\* The events are read and sent, also when the link was revoked meanwhile.
ReadEvents(v) ==
    /\ sView[v] = "admitted"
    /\ Views(v, "answered")
    /\ UNCHANGED <<sRow, sExpired, dialogVars, tableVars>>

\* The page shows what came, or an error, and is left.
ShowReplay(v) ==
    /\ sView[v] # "idle"
    /\ Views(v, "idle")
    /\ UNCHANGED <<sRow, sExpired, dialogVars, tableVars>>

-----------------------------------------------------------------------------

SharingNext ==
    \/ OpenShare \/ CloseShare \/ OpenTable
    \/ \E l \in ShareLinks : CreateLink(l) \/ LinkArrives(l) \/ Expire(l)
    \/ \E f \in Fetches : ReadLinks(f) \/ LinksArrive(f)
    \/ \E d \in Deletes : DeleteFinds(d) \/ DeleteRevokes(d) \/ DeleteSettles(d)
    \/ \E d \in Deletes, l \in ShareLinks : HandleRevoke(d, l)
    \/ \E v \in Viewers : ReadEvents(v) \/ ShowReplay(v)
    \/ \E v \in Viewers, l \in ShareLinks : LookUp(v, l)

SharingSpec == SharingInit /\ [][SharingNext]_shareVars

-----------------------------------------------------------------------------
(* Properties.                                                              *)

\* The typing of the dialog's, the table's and the routes' state.
SharingTypeOK ==
    /\ sRow \in [ShareLinks -> RowStates] /\ sTable \in [ShareLinks -> RowStates]
    /\ sExpired \subseteq ShareLinks
    /\ sOpen \in BOOLEAN /\ sLoading \in BOOLEAN /\ sError \in BOOLEAN /\ sLost \in BOOLEAN
    /\ sShown \in ShareLinks \cup {NoLink} /\ sRevoking \in ShareLinks \cup {NoLink}
    /\ sPost \in [ShareLinks -> {"none", "sent", "inserted", "over"}]
    /\ sOpenings \in 0..MaxOpenings
    /\ sDelete \in [Deletes -> [link : ShareLinks \cup {NoLink},
                       at : {"idle", "sent", "found", "refused", "revoked", "over"}]]
    /\ sFetch \in [Fetches -> [at : {"idle", "sent", "read"}, rows : [ShareLinks -> RowStates]]]
    /\ sView \in [Viewers -> {"idle", "admitted", "answered"}]

\* The table does not show a link as revoked that still opens the replay, but
\* while the DELETE or the fetch that follows its failure is under way, or when
\* a fetch brought nothing: "External viewers will immediately lose access".
RevokedShownIsShut ==
    \A l \in ShareLinks : sTable[l] = "revoked" /\ sRow[l] = "live" =>
        \/ sLost
        \/ \E d \in Deletes : /\ sDelete[d].link = l
                              /\ sDelete[d].at \in {"sent", "found", "refused"} \/ sFetch[d].at # "idle"

\* The dialog makes at most one link per opening, has a request under way
\* exactly while it waits, and open with nothing to show it is waiting.
OneLinkPerOpening ==
    LET asked == {l \in ShareLinks : sPost[l] # "none"}
        waiting == {l \in ShareLinks : sPost[l] \in {"sent", "inserted"}}
    IN  /\ Cardinality(asked) <= sOpenings
        /\ sLoading <=> waiting # {}
        /\ Cardinality(waiting) <= 1
        /\ sOpen => sLoading \/ sError \/ sShown # NoLink

=============================================================================

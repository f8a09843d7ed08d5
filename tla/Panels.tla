------------------------------- MODULE Panels -------------------------------
(***************************************************************************)
(* Panels that fetch what is chosen and show what arrives: the preview of  *)
(* an artifact, and the operator's break-glass page with its run viewer.   *)
(* Neither cancels a request it no longer wants.                           *)
(***************************************************************************)
EXTENDS Naturals, FiniteSets

CONSTANTS
    Items,    \* artifacts of the Canvas; runs of the tenant
    Grants,   \* break-glass requests ever sent, each from a page of its own
    NoItem    \* JavaScript's null

ASSUME PanelsAssumption == NoItem \notin Items

VARIABLES
    pChosen,    \* preview: the artifactId it was given
    pPreview,   \* preview: the artifact whose preview it holds
    pLoading,
    pAsked,     \* preview: artifacts with a request under way
    pOverlap,   \* history: preview, two requests were under way together
    bPost,      \* per break-glass request: where it is
    bActive,    \* break_glass_audit rows neither expired nor revoked
    bRaced,     \* history: two requests were between check and insert together
    bSessions,  \* the page's list of sessions is not empty
    bLists,     \* loadSessions: "idle", "sent", or the answer read
    bViewing,   \* viewingTenant is set
    bRuns,      \* viewer: its list of runs is "loading", "shown" or "error"
    bSelected, bDetail,
    bAsked,     \* viewer: the run's request, per run
    bOverlap    \* history: viewer, two requests were under way together

preview == <<pChosen, pPreview, pLoading, pAsked, pOverlap>>
audit == <<bPost, bActive, bRaced>>
viewer == <<bRuns, bSelected, bDetail, bAsked, bOverlap>>
panelVars == <<preview, audit, bSessions, bLists, bViewing, viewer>>

Loads == {"idle", "sent", "run", "denied"}
FreshViewer ==
    /\ bRuns' = "loading" /\ bSelected' = NoItem /\ bDetail' = NoItem
    /\ bAsked' = [i \in Items |-> "idle"] /\ bOverlap' = FALSE

PanelsInit ==
    /\ pChosen = NoItem /\ pPreview = NoItem /\ pLoading = FALSE
    /\ pAsked = {} /\ pOverlap = FALSE
    /\ bPost = [g \in Grants |-> "idle"] /\ bActive = {} /\ bRaced = FALSE
    /\ bSessions = FALSE /\ bLists = "sent" /\ bViewing = FALSE
    /\ bRuns = "loading" /\ bSelected = NoItem /\ bDetail = NoItem
    /\ bAsked = [i \in Items |-> "idle"] /\ bOverlap = FALSE

-----------------------------------------------------------------------------
(* ArtifactPreviewInline.                                                   *)

\* Variant: the former preview stays until the new one arrives.
ChooseItemKeeps(i) ==
    /\ i # pChosen /\ i \notin pAsked
    /\ pChosen' = i /\ pAsked' = pAsked \cup {i}
    /\ pOverlap' = (pOverlap \/ pAsked # {})
    /\ UNCHANGED <<pPreview, pLoading, audit, bSessions, bLists, bViewing, viewer>>

\* The effect on artifactId.
ChooseItem(i) ==
    /\ i # pChosen /\ i \notin pAsked
    /\ pChosen' = i /\ pPreview' = NoItem /\ pLoading' = TRUE
    /\ pAsked' = pAsked \cup {i}
    /\ pOverlap' = (pOverlap \/ pAsked # {})
    /\ UNCHANGED <<audit, bSessions, bLists, bViewing, viewer>>

\* A preview, or the message that there is none, of artifact i.
PreviewArrives(i) ==
    /\ i \in pAsked
    /\ pAsked' = pAsked \ {i} /\ pPreview' = i /\ pLoading' = FALSE
    /\ UNCHANGED <<pChosen, pOverlap, audit, bSessions, bLists, bViewing, viewer>>

-----------------------------------------------------------------------------
(* POST /api/operator/break-glass, for one operator and tenant.             *)

SubmitGrant(g) ==
    /\ bPost[g] = "idle"
    /\ bPost' = [bPost EXCEPT ![g] = "sent"]
    /\ UNCHANGED <<preview, bActive, bRaced, bSessions, bLists, bViewing, viewer>>

\* Variant: looks for sessions that are over.
CheckGrantOfTheOver(g) ==
    /\ bPost[g] = "sent"
    /\ bPost' = [bPost EXCEPT ![g] = "checked"]
    /\ bRaced' = (bRaced \/ \E h \in Grants : bPost[h] = "checked")
    /\ UNCHANGED <<preview, bActive, bSessions, bLists, bViewing, viewer>>

\* 409 when a session is active.
CheckGrant(g) ==
    /\ bPost[g] = "sent"
    /\ bPost' = [bPost EXCEPT ![g] = IF bActive = {} THEN "checked" ELSE "over"]
    /\ bRaced' = (bRaced \/ (bActive = {} /\ \E h \in Grants : bPost[h] = "checked"))
    /\ UNCHANGED <<preview, bActive, bSessions, bLists, bViewing, viewer>>

\* The row is inserted for four hours, or the insert rejects.
InsertGrant(g) ==
    /\ bPost[g] = "checked"
    /\ bActive' \in {bActive, bActive \cup {g}}
    /\ bPost' = [bPost EXCEPT ![g] = "over"]
    /\ UNCHANGED <<preview, bRaced, bSessions, bLists, bViewing, viewer>>

ExpireGrant(g) ==
    /\ g \in bActive
    /\ bActive' = bActive \ {g}
    /\ UNCHANGED <<preview, bPost, bRaced, bSessions, bLists, bViewing, viewer>>

-----------------------------------------------------------------------------
(* The page's list of sessions, and the viewer that a session opens.        *)

\* Every 60 seconds, and after the page's own request was granted.
LoadSessions ==
    /\ bLists = "idle"
    /\ bLists' = "sent"
    /\ UNCHANGED <<preview, audit, bSessions, bViewing, viewer>>

ReadSessions ==
    /\ bLists = "sent"
    /\ bLists' = IF bActive = {} THEN "none" ELSE "some"
    /\ UNCHANGED <<preview, audit, bSessions, bViewing, viewer>>

\* No session, or no answer: the viewer is unmounted with its session.
SessionsArrive ==
    /\ bLists # "idle" /\ bLists' = "idle"
    /\ \/ bLists = "some" /\ bSessions' = TRUE
       \/ bSessions' = FALSE
    /\ IF bSessions' /\ ~bSessions THEN FreshViewer ELSE UNCHANGED viewer
    /\ UNCHANGED <<preview, audit, bViewing>>

ViewRuns ==
    /\ bSessions
    /\ bViewing' = ~bViewing
    /\ IF bViewing' THEN FreshViewer ELSE UNCHANGED viewer
    /\ UNCHANGED <<preview, audit, bSessions, bLists>>

Mounted == bSessions /\ bViewing

\* GET .../runs: 403 without an active session.
ListRuns ==
    /\ Mounted /\ bRuns = "loading"
    /\ \/ bActive # {} /\ bRuns' = "shown"
       \/ bRuns' = "error"
    /\ UNCHANGED <<preview, audit, bSessions, bLists, bViewing, bSelected, bDetail, bAsked, bOverlap>>

\* loadRunEvents: the list stays until a run's detail is there.
SelectRun(i) ==
    /\ Mounted /\ bRuns = "shown" /\ bAsked[i] = "idle"
    /\ bSelected = NoItem \/ bDetail = NoItem
    /\ bSelected' = i
    /\ bAsked' = [bAsked EXCEPT ![i] = "sent"]
    /\ bOverlap' = (bOverlap \/ \E j \in Items : bAsked[j] # "idle")
    /\ UNCHANGED <<preview, audit, bSessions, bLists, bViewing, bRuns, bDetail>>

\* GET .../runs/[runId] checks the session again.
ReadRun(i) ==
    /\ bAsked[i] = "sent"
    /\ bAsked' = [bAsked EXCEPT ![i] = IF bActive = {} THEN "denied" ELSE "run"]
    /\ UNCHANGED <<preview, audit, bSessions, bLists, bViewing, bRuns, bSelected, bDetail, bOverlap>>

\* An error replaces the whole viewer.
RunArrives(i) ==
    /\ bAsked[i] # "idle"
    /\ bAsked' = [bAsked EXCEPT ![i] = "idle"]
    /\ \/ bAsked[i] = "run" /\ bDetail' = i /\ UNCHANGED bRuns
       \/ bRuns' = "error" /\ UNCHANGED bDetail
    /\ UNCHANGED <<preview, audit, bSessions, bLists, bViewing, bSelected, bOverlap>>

BackToRuns ==
    /\ Mounted /\ bRuns = "shown" /\ bSelected # NoItem /\ bDetail # NoItem
    /\ bSelected' = NoItem /\ bDetail' = NoItem
    /\ UNCHANGED <<preview, audit, bSessions, bLists, bViewing, bRuns, bAsked, bOverlap>>

-----------------------------------------------------------------------------

PanelsNext ==
    \/ \E i \in Items : ChooseItem(i) \/ PreviewArrives(i)
                           \/ SelectRun(i) \/ ReadRun(i) \/ RunArrives(i)
    \/ \E g \in Grants : SubmitGrant(g) \/ CheckGrant(g) \/ InsertGrant(g) \/ ExpireGrant(g)
    \/ LoadSessions \/ ReadSessions \/ SessionsArrive \/ ViewRuns \/ ListRuns \/ BackToRuns

PanelsSpec == PanelsInit /\ [][PanelsNext]_panelVars

-----------------------------------------------------------------------------
(* Properties.                                                              *)

\* The typing of the panels' and the routes' state.
PanelsTypeOK ==
    /\ {pChosen, pPreview, bSelected, bDetail} \subseteq Items \cup {NoItem}
    /\ {pLoading, pOverlap, bRaced, bSessions, bViewing, bOverlap} \subseteq BOOLEAN
    /\ pAsked \subseteq Items /\ bActive \subseteq Grants
    /\ bPost \in [Grants -> {"idle", "sent", "checked", "over"}]
    /\ bLists \in {"idle", "sent", "none", "some"}
    /\ bRuns \in {"loading", "shown", "error"}
    /\ bAsked \in [Items -> Loads]

\* What a panel shows is of what was chosen last, as long as no two of its
\* requests were under way together: neither panel tells a late answer from
\* the one it waits for.
PanelsShowWhatIsChosen ==
    /\ ~pOverlap /\ ~pLoading /\ pPreview # NoItem => pPreview = pChosen
    /\ ~bOverlap /\ bSelected # NoItem /\ bDetail # NoItem => bDetail = bSelected

\* An operator has one session with a tenant at a time, unless two requests
\* had both found none before either inserted its own.
OneSessionAtATime == bRaced \/ Cardinality(bActive) <= 1

=============================================================================

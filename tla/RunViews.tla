------------------------------ MODULE RunViews ------------------------------
(***************************************************************************)
(* The four views of a run: Writers' Room, Timeline, Boardroom and Canvas. *)
(* All are computed from the run store's events and the display mode; the  *)
(* Timeline and the Canvas add state of their own, lost when their tab is  *)
(* left.  An event's number is its place in vKinds, as the contract in     *)
(* packages/shared/src/hub-events.ts allows its kinds; presence events     *)
(* take a number and never enter the store.                                *)
(***************************************************************************)
EXTENDS Naturals, Sequences, FiniteSets, FiniteSetsExt

CONSTANTS
    MaxEvents,  \* bound: events of the run
    NoSeq       \* the null of selectedSeq and selectedArtifactId

ASSUME ViewsAssumption == MaxEvents \in Nat /\ NoSeq \notin Nat

VARIABLES
    vKinds,       \* the kinds of the run's events, in order of number
    vMode,        \* "clean" or "studio"
    vTab,         \* which tab's component is mounted
    selectedSeq,  \* Timeline: the selected event; NoSeq reads as the end
    isPlaying,    \* Timeline: playback is on
    vArtifact,    \* Canvas: the selected artifact's event
    vPlayed       \* history: events shown since Play restarted untouched, or {}

timeline == <<selectedSeq, isPlaying, vPlayed>>
viewVars == <<vKinds, vMode, vTab, selectedSeq, isPlaying, vArtifact, vPlayed>>

EventKinds == {"user", "agent", "transition", "flag", "tldr", "artifact", "presence"}
Tabs == {"timeline", "canvas", "other"}

ViewsInit ==
    /\ vKinds = <<>> /\ vMode \in {"clean", "studio"} /\ vTab = "other"
    /\ selectedSeq = NoSeq /\ isPlaying = FALSE /\ vArtifact = NoSeq /\ vPlayed = {}

-----------------------------------------------------------------------------
(* What the store derives from the events.                                  *)

eventOrder == {s \in DOMAIN vKinds : vKinds[s] # "presence"}
Of(kinds) == {s \in eventOrder : vKinds[s] \in kinds}
messages == eventOrder \ Of({"tldr"})
Author(s) == CASE vKinds[s] = "user" -> "user"
               [] vKinds[s] = "transition" -> "system"
               [] vKinds[s] = "artifact" -> "jarvis"
               [] OTHER -> "mo"

-----------------------------------------------------------------------------
(* Writers' Room and replay page: folds of more than three agent messages   *)
(* in a row.                                                                *)

Between(a, b, E) == {s \in E : a <= s /\ s <= b}

\* detectCollapsibleRanges over the events E: after event s, walk[s] holds the
\* messages collected and the ranges flushed.
RangesOf(E) ==
    LET flushed(at) == IF Cardinality(at.run) > 3 THEN at.ranges \cup {at.run} ELSE at.ranges
        walk[s \in 0..Len(vKinds)] ==
            IF s = 0 THEN [run |-> {}, ranges |-> {}]
            ELSE LET was == walk[s - 1]
                 IN  CASE s \notin E -> was
                       [] s \in E \cap Of({"agent"}) -> [was EXCEPT !.run = @ \cup {s}]
                       [] OTHER -> [run |-> {}, ranges |-> flushed(was)]
    IN  flushed(walk[Len(vKinds)])

\* Variant: only a user's message ends a fold.
foldsPastOthers == RangesOf(Of({"agent", "user"}))

\* No source sets a scene on an event: the messages are one scene.
collapsibleRanges == RangesOf(messages)

\* The list's items: folds, and the messages outside every fold.
renderedAlone == messages \ UNION collapsibleRanges
skeleton == \A s \in renderedAlone : Author(s) = "user"

\* The replay route sends the kinds of clean mode, whatever the viewer's mode.
replayed == Of({"user", "agent", "transition", "artifact"})
replayRanges == RangesOf(replayed)

-----------------------------------------------------------------------------
(* Boardroom: columns on phones, a grid of agents on wide screens.          *)

boardroomEvents ==
    IF vMode = "studio" THEN messages ELSE messages \ Of({"transition", "flag"})
columnAgents == {Author(s) : s \in boardroomEvents \ Of({"transition"})}
columns == [a \in columnAgents |->
              {s \in boardroomEvents : Author(s) = a \/ vKinds[s] = "transition"}]

\* The grid does not look at the mode.
cells == [a \in {Author(s) : s \in messages} |-> {s \in messages : Author(s) = a}]

-----------------------------------------------------------------------------
(* Timeline.                                                                *)

visible == {s \in eventOrder : /\ vKinds[s] # "tldr"
                               /\ vMode = "clean" => vKinds[s] \notin {"transition", "flag"}}
playheadSeq == IF selectedSeq \in visible THEN selectedSeq ELSE Max(visible)
atEnd == visible = {} \/ playheadSeq = Max(visible)

\* Variant: steps over one event.
AdvancedByTwo(s) ==
    LET later == {t \in visible : t > s + 1}
    IN  IF later = {} THEN Max(visible) ELSE Min(later)

\* advancePlayhead from the place of s; an event that the mode hides counts as
\* the first, so the next is the second.
AdvancedFrom(s) ==
    LET later == IF s \in visible THEN {t \in visible : t > s} ELSE visible \ {Min(visible)}
    IN  IF later = {} THEN Max(visible) ELSE Min(later)

OnTimeline == vTab = "timeline" /\ eventOrder # {}

\* One call of the interval; nothing calls it while no event is visible.
Tick ==
    /\ OnTimeline /\ isPlaying /\ visible # {}
    /\ LET from == IF selectedSeq = NoSeq THEN Max(visible) ELSE selectedSeq
           next == AdvancedFrom(from)
       IN  IF next = from
           THEN isPlaying' = FALSE /\ UNCHANGED <<selectedSeq, vPlayed>>
           ELSE /\ selectedSeq' = next
                /\ vPlayed' = IF vPlayed = {} THEN {} ELSE vPlayed \cup {next}
                /\ UNCHANGED isPlaying
    /\ UNCHANGED <<vKinds, vMode, vTab, vArtifact>>

\* Play at the end starts over; otherwise the button toggles.
PressPlay ==
    /\ OnTimeline
    /\ IF atEnd /\ ~isPlaying
       THEN /\ selectedSeq' = IF visible = {} THEN NoSeq ELSE Min(visible)
            /\ isPlaying' = TRUE
            /\ vPlayed' = IF visible = {} THEN {} ELSE {Min(visible)}
       ELSE isPlaying' = ~isPlaying /\ vPlayed' = {} /\ UNCHANGED selectedSeq
    /\ UNCHANGED <<vKinds, vMode, vTab, vArtifact>>

\* A dot selects its event or, selected already, lets go of it.
ClickDot ==
    /\ OnTimeline
    /\ \E s \in visible : selectedSeq' = IF selectedSeq = s THEN NoSeq ELSE s
    /\ vPlayed' = {}
    /\ UNCHANGED <<vKinds, vMode, vTab, isPlaying, vArtifact>>

Distance(a, b) == IF a > b THEN a - b ELSE b - a

\* The event a scrub to number n snaps to: the nearest, of two the lower.
Nearest(n) ==
    CHOOSE s \in visible : \A t \in visible :
        Distance(s, n) < Distance(t, n) \/ (Distance(s, n) = Distance(t, n) /\ s <= t)

Scrub ==
    /\ OnTimeline /\ Cardinality(visible) > 1
    /\ \E n \in Min(visible)..Max(visible) : selectedSeq' = Nearest(n)
    /\ isPlaying' = FALSE /\ vPlayed' = {}
    /\ UNCHANGED <<vKinds, vMode, vTab, vArtifact>>

CloseDetail ==
    /\ OnTimeline /\ selectedSeq # NoSeq
    /\ selectedSeq' = NoSeq /\ vPlayed' = {}
    /\ UNCHANGED <<vKinds, vMode, vTab, isPlaying, vArtifact>>

-----------------------------------------------------------------------------
(* Canvas.                                                                  *)

ChooseArtifact ==
    /\ vTab = "canvas" /\ Cardinality(Of({"artifact"})) > 1
    /\ vArtifact' \in Of({"artifact"})
    /\ UNCHANGED <<vKinds, vMode, vTab, timeline>>

\* The effect that follows the artifacts of the store: it selects the first
\* one when nothing is selected.
Resync(kinds, selected) ==
    LET artifacts == {s \in DOMAIN kinds : kinds[s] = "artifact"}
    IN  IF artifacts # {} /\ selected \notin artifacts THEN Min(artifacts) ELSE selected

-----------------------------------------------------------------------------
(* What happens around the views.                                           *)

Arrive ==
    /\ Len(vKinds) < MaxEvents
    /\ \E kind \in EventKinds : vKinds' = Append(vKinds, kind)
    /\ vArtifact' = IF vTab = "canvas" THEN Resync(vKinds', vArtifact) ELSE vArtifact
    /\ UNCHANGED <<vMode, vTab, timeline>>

ToggleMode ==
    /\ vMode' = IF vMode = "clean" THEN "studio" ELSE "clean"
    /\ vPlayed' = {}
    /\ UNCHANGED <<vKinds, vTab, selectedSeq, isPlaying, vArtifact>>

\* The panel that is left is unmounted, the other mounted afresh.
SwitchTab ==
    /\ vTab' \in Tabs \ {vTab}
    /\ selectedSeq' = NoSeq /\ isPlaying' = FALSE /\ vPlayed' = {}
    /\ vArtifact' = IF vTab' = "canvas" THEN Resync(vKinds, NoSeq) ELSE NoSeq
    /\ UNCHANGED <<vKinds, vMode>>

ViewsNext ==
    \/ Arrive \/ ToggleMode \/ SwitchTab
    \/ Tick \/ PressPlay \/ ClickDot \/ Scrub \/ CloseDetail \/ ChooseArtifact

ViewsSpec == ViewsInit /\ [][ViewsNext]_viewVars

-----------------------------------------------------------------------------
(* Properties.                                                              *)

\* The typing of the run's events and of the views' own state.
ViewsTypeOK ==
    /\ vKinds \in Seq(EventKinds) /\ Len(vKinds) <= MaxEvents
    /\ vMode \in {"clean", "studio"} /\ vTab \in Tabs
    /\ isPlaying \in BOOLEAN
    /\ selectedSeq \in eventOrder \cup {NoSeq}
    /\ vArtifact \in eventOrder \cup {NoSeq}
    /\ vPlayed \subseteq eventOrder

\* Every message has its one place in the view that shows.  A fold of the Writers' Room
\* holds the agents' messages between two messages of another kind, when they
\* are more than three, and the replay page, which is sent fewer kinds, folds
\* whatever the Writers' Room folds; the placeholder for agents that have not
\* answered shows only when every agent's message is in a fold.  The Boardroom
\* shows a message in the column and the cell of its agent and in no other.
EveryMessageHasItsPlace ==
    /\ vTab = "other" =>
          /\ \A E \in {messages, replayed} : RangesOf(E) = {R \in SUBSET (E \cap Of({"agent"})) :
                /\ Cardinality(R) > 3
                /\ R = Between(Min(R), Max(R), E)
                /\ \A s \in E \ R : \E t \in E \ Of({"agent"}) :
                      (s <= t /\ t < Min(R)) \/ (Max(R) < t /\ t <= s)}
          /\ \A R \in collapsibleRanges : \E S \in replayRanges : R \subseteq S
          /\ skeleton => Of({"agent"}) \subseteq UNION collapsibleRanges
          /\ \A s \in boardroomEvents \ Of({"transition"}) :
                {a \in columnAgents : s \in columns[a]} = {Author(s)}
          /\ \A s \in messages : {a \in DOMAIN cells : s \in cells[a]} = {Author(s)}
    /\ vTab = "canvas" /\ Of({"artifact"}) # {} => vArtifact \in Of({"artifact"})

\* Playback that Play started at the first event and nobody touched has shown
\* every visible event, those that arrived meanwhile included, when it stops.
PlaybackShowsAll ==
    [][isPlaying /\ ~isPlaying' /\ vPlayed # {} /\ vPlayed' # {} => visible \subseteq vPlayed]_viewVars

=============================================================================

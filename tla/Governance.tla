----------------------------- MODULE Governance -----------------------------
(***************************************************************************)
(* The requests with which users govern runs: starting, continuing,        *)
(* approving and stopping a run, writing to it, and answering an agent's   *)
(* question.  A route is a sequence of statements, any of which may        *)
(* reject; its hub call is a further sequence on the hub.  The hub files   *)
(* what its agents' sockets deliver under the one run it holds active.     *)
(* The idle-timeout worker reads and completes runs beside them; what its  *)
(* job and a round-table do in between is RunLifecycle.tla.                *)
(* 'planned' runs and question rows come from outside the repository.      *)
(***************************************************************************)
EXTENDS Naturals, Sequences

CONSTANTS
    Runs,        \* run ids
    Requests,    \* requests ever made
    Answers,     \* texts a user may answer with
    MaxReplies,  \* bound: replies that arrive over the agents' sockets
    Nothing      \* the SQL or JavaScript null

ASSUME GovernanceAssumption ==
    /\ MaxReplies \in Nat
    /\ Nothing \notin Runs \cup Answers

VARIABLES
    status,    \* runs.status; "none" before the row exists
    approved,  \* runs whose plans row has approved_at
    trail,     \* rows of state_transitions, per run, oldest first
    log,       \* events the hub stored, per run
    told,      \* runs whose approval was sent to Mo
    answer,    \* questions.answer of each run's question
    shown,     \* questions this tab's transcript shows as answered
    active,    \* the hub's activeRunId
    replies,   \* replies delivered so far
    watch,     \* per run: where the idle-timeout worker is with its job
    req        \* per request: what it asks for, of which run, where it is

database == <<status, approved, trail, answer>>
hub == <<log, told, active, replies>>
governVars == <<status, approved, trail, log, told, answer, shown, active, replies, watch,
                req>>

Statuses == {"none", "planned", "executing", "completed", "cancelled"}
Kinds == {"start", "continue", "message", "approve", "stop", "answer"}
Over == {"idle", "done", "refused", "failed"}
Stages == Over \cup {"read", "queue", "retry", "write", "plan", "trail", "hub", "prompt",
                     "approved", "executing", "clear"}
Events == {"prompt", "approved", "executing", "cancelled", "completed", "reply"}

\* state-machine.ts lets a run go from one status to these; the tests of the
\* approve and stop routes.
VALID_TRANSITIONS == [none |-> {}, planned |-> {"approved", "cancelled"},
    executing |-> {"completed", "cancelled"}, completed |-> {}, cancelled |-> {}]

GovernInit ==
    /\ status \in [Runs -> {"none", "planned"}]
    /\ approved = {} /\ told = {} /\ shown = {}
    /\ trail = [r \in Runs |-> <<>>] /\ log = [r \in Runs |-> <<>>]
    /\ answer = [r \in Runs |-> Nothing]
    /\ active = Nothing /\ replies = 0
    /\ watch = [r \in Runs |-> "idle"]
    /\ req = [q \in Requests |->
                [kind |-> "start", run |-> Nothing, at |-> "idle", saw |-> Nothing]]

At(q, kind, stage) == req[q].kind = kind /\ req[q].at = stage
Goes(q, stage) == req' = [req EXCEPT ![q].at = stage]
Underway(q) == req[q].at \notin Over

-----------------------------------------------------------------------------
(* What the user does.  A tab may show a status that is no longer true, so  *)
(* the buttons leave the run's present status open.                         *)

Ask(q, kind, r, stage, text) ==
    /\ req[q].at = "idle"
    /\ req' = [req EXCEPT ![q] = [kind |-> kind, run |-> r, at |-> stage, saw |-> text]]
    /\ UNCHANGED <<database, hub, watch>>

\* Start Sprint on the project's page: every request makes a run of its own.
StartSprint(q, r) ==
    /\ status[r] = "none"
    /\ \A p \in Requests : req[p].kind = "start" => req[p].run # r
    /\ Ask(q, "start", r, "write", Nothing)
    /\ UNCHANGED shown

ClickContinue(q, r) ==
    /\ status[r] # "none"
    /\ Ask(q, "continue", r, "write", Nothing)
    /\ UNCHANGED shown

\* The transcript's composer.
SendMessage(q, r) ==
    /\ status[r] # "none"
    /\ Ask(q, "message", r, "read", Nothing)
    /\ UNCHANGED shown

\* Approve and Reject of the plan card, and the Stop buttons.
ClickPlanOrStop(q, r) ==
    /\ status[r] # "none"
    /\ \E kind \in {"approve", "stop"} : Ask(q, kind, r, "read", Nothing)
    /\ UNCHANGED shown

\* The transcript's card shows the answer before it is sent, and keeps it.
SubmitAnswer(q, r) ==
    /\ status[r] # "none" /\ r \notin shown
    /\ \E a \in Answers : Ask(q, "answer", r, "read", a)
    /\ shown' = shown \cup {r}

\* The phone's card has a flag of its own.
TapAnswer(q, r) ==
    /\ status[r] # "none"
    /\ \E a \in Answers : Ask(q, "answer", r, "read", a)
    /\ UNCHANGED shown

\* A reload replays the stored events, which do not carry the answer.
Reload ==
    /\ shown # {}
    /\ shown' = {}
    /\ UNCHANGED <<database, hub, watch, req>>

-----------------------------------------------------------------------------
(* The routes, one statement a step.                                        *)

\* Variant: the route answers without awaiting the hub.
CreateRunForgets(q) ==
    /\ At(q, "start", "write")
    /\ status' = [status EXCEPT ![req[q].run] = "executing"]
    /\ Goes(q, "done")
    /\ UNCHANGED <<approved, trail, answer, shown, hub, watch>>

CreateRun(q) ==
    /\ At(q, "start", "write")
    /\ status' = [status EXCEPT ![req[q].run] = "executing"]
    /\ Goes(q, "hub")
    /\ UNCHANGED <<approved, trail, answer, shown, hub, watch>>

\* A round-table of the run was started, so current_round may be set.
RoundMayRun(r) ==
    \E q \in Requests : /\ req[q].run = r /\ req[q].kind \in {"start", "continue", "message"}
                       /\ req[q].at \in {"done", "failed"}

\* messages looks at current_round only; of the attachments some may be gone.
ReadRound(q) ==
    /\ At(q, "message", "read")
    /\ \/ \E stage \in {"write", "refused"} : Goes(q, stage)
       \/ RoundMayRun(req[q].run) /\ Goes(q, "queue")
    /\ UNCHANGED <<database, shown, hub, watch>>

\* A message that has to wait is stored by the route itself, in two attempts
\* either of which may throw with the row written.
QueueMessage(q) ==
    /\ req[q].kind = "message" /\ req[q].at \in {"queue", "retry"}
    /\ LET more == [log EXCEPT ![req[q].run] = Append(@, "prompt")]
       IN  \/ log' = more /\ Goes(q, "done")
           \/ log' \in {log, more} /\ Goes(q, IF req[q].at = "queue" THEN "retry" ELSE "failed")
    /\ UNCHANGED <<database, shown, told, active, replies, watch>>

\* continue and messages flip the row whatever its status.
FlipsUnasked(q) ==
    /\ req[q].kind \in {"continue", "message"} /\ req[q].at = "write"
    /\ status' = [status EXCEPT ![req[q].run] = "executing"]
    /\ Goes(q, "hub")
    /\ UNCHANGED <<approved, trail, answer, shown, hub, watch>>

\* Variant: assertTransition refuses only runs that completed.
AssertTransitionLoosely(q) ==
    /\ req[q].kind \in {"approve", "stop"} /\ req[q].at = "read"
    /\ LET now == status[req[q].run]
       IN  req' = [req EXCEPT ![q].saw = now, ![q].at =
                     IF now # "completed" THEN "write" ELSE "refused"]
    /\ UNCHANGED <<database, shown, hub, watch>>

\* SELECT and assertTransition: the status read now is used until the end.
AssertTransition(q) ==
    /\ req[q].kind \in {"approve", "stop"} /\ req[q].at = "read"
    /\ LET now == status[req[q].run]
           wanted == IF req[q].kind = "approve" THEN "approved" ELSE "cancelled"
       IN  req' = [req EXCEPT ![q].saw = now, ![q].at =
                     IF wanted \in VALID_TRANSITIONS[now] THEN "write" ELSE "refused"]
    /\ UNCHANGED <<database, shown, hub, watch>>

\* Variant: the flip before the plan goes straight to the hub.
ApproveFlipsAndTells(q) ==
    /\ At(q, "approve", "write")
    /\ status' = [status EXCEPT ![req[q].run] = "executing"]
    /\ Goes(q, "hub")
    /\ UNCHANGED <<approved, trail, answer, shown, hub, watch>>

ApproveFlips(q) ==
    /\ At(q, "approve", "write")
    /\ status' = [status EXCEPT ![req[q].run] = "executing"]
    /\ Goes(q, "plan")
    /\ UNCHANGED <<approved, trail, answer, shown, hub, watch>>

ApprovePlan(q) ==
    /\ At(q, "approve", "plan")
    /\ approved' = approved \cup {req[q].run}
    /\ Goes(q, "trail")
    /\ UNCHANGED <<status, trail, answer, shown, hub, watch>>

ApproveTrail(q) ==
    /\ At(q, "approve", "trail")
    /\ trail' = [trail EXCEPT ![req[q].run] =
                   @ \o << <<req[q].saw, "approved">>, <<"approved", "executing">> >>]
    /\ Goes(q, "hub")
    /\ UNCHANGED <<status, approved, answer, shown, hub, watch>>

StopFlips(q) ==
    /\ At(q, "stop", "write")
    /\ status' = [status EXCEPT ![req[q].run] = "cancelled"]
    /\ Goes(q, "trail")
    /\ UNCHANGED <<approved, trail, answer, shown, hub, watch>>

StopTrail(q) ==
    /\ At(q, "stop", "trail")
    /\ trail' = [trail EXCEPT ![req[q].run] = Append(@, <<req[q].saw, "cancelled">>)]
    /\ Goes(q, "hub")
    /\ UNCHANGED <<status, approved, answer, shown, hub, watch>>

\* Variant: the route takes a missing answer for one already given.
ReadQuestionBackwards(q) ==
    /\ At(q, "answer", "read")
    /\ Goes(q, IF answer[req[q].run] # Nothing THEN "write" ELSE "refused")
    /\ UNCHANGED <<database, shown, hub, watch>>

ReadQuestion(q) ==
    /\ At(q, "answer", "read")
    /\ Goes(q, IF answer[req[q].run] = Nothing THEN "write" ELSE "refused")
    /\ UNCHANGED <<database, shown, hub, watch>>

SaveAnswer(q) ==
    /\ At(q, "answer", "write")
    /\ answer' = [answer EXCEPT ![req[q].run] = req[q].saw]
    /\ Goes(q, "hub")
    /\ UNCHANGED <<status, approved, trail, shown, hub, watch>>

-----------------------------------------------------------------------------
(* The hub's side of a call.                                                *)

\* persistAndPublish: the event is stored; publishing it may still throw.
Stores(q, event, next) ==
    /\ log' = [log EXCEPT ![req[q].run] = Append(@, event)]
    /\ \E stage \in {next, "failed"} : Goes(q, stage)

\* handleRunStart makes the run the active one before it stores the prompt.
SetActiveRun(q) ==
    /\ req[q].kind \in {"start", "continue", "message"} /\ req[q].at = "hub"
    /\ active' = req[q].run
    /\ Goes(q, IF req[q].kind = "continue" THEN "done" ELSE "prompt")
    /\ UNCHANGED <<database, shown, log, told, replies, watch>>

StorePrompt(q) ==
    /\ req[q].kind \in {"start", "message"} /\ req[q].at = "prompt"
    /\ Stores(q, "prompt", "done")
    /\ UNCHANGED <<database, shown, told, active, replies, watch>>

\* handleRunApprove tells Mo first, then stores the two transitions.
TellMo(q) ==
    /\ At(q, "approve", "hub")
    /\ told' = told \cup {req[q].run}
    /\ Goes(q, "approved")
    /\ UNCHANGED <<database, shown, log, active, replies, watch>>

StoreApproved(q) ==
    /\ At(q, "approve", "approved")
    /\ Stores(q, "approved", "executing")
    /\ UNCHANGED <<database, shown, told, active, replies, watch>>

StoreExecuting(q) ==
    /\ At(q, "approve", "executing")
    /\ Stores(q, "executing", "done")
    /\ UNCHANGED <<database, shown, told, active, replies, watch>>

StoreCancelled(q) ==
    /\ At(q, "stop", "hub")
    /\ Stores(q, "cancelled", "clear")
    /\ UNCHANGED <<database, shown, told, active, replies, watch>>

\* clearActiveRun clears whichever run is active.
ClearActiveRun(q) ==
    /\ At(q, "stop", "clear")
    /\ active' = Nothing
    /\ Goes(q, "done")
    /\ UNCHANGED <<database, shown, log, told, replies, watch>>

\* answerQuestion sends no agentId, which QuestionAnswerBody requires: 400.
RefuseAnswer(q) ==
    /\ At(q, "answer", "hub")
    /\ Goes(q, "failed")
    /\ UNCHANGED <<database, shown, hub, watch>>

\* A statement rejects, the hub cannot be reached, or its answer is lost.
Fail(q) ==
    /\ Underway(q)
    /\ Goes(q, "failed")
    /\ UNCHANGED <<database, shown, hub, watch>>

\* An agent's message on its socket is filed under the active run.
Reply ==
    /\ active # Nothing /\ replies < MaxReplies
    /\ log' = [log EXCEPT ![active] = Append(@, "reply")]
    /\ replies' = replies + 1
    /\ UNCHANGED <<database, shown, told, active, watch, req>>

-----------------------------------------------------------------------------
(* The idle-timeout worker.                                                 *)

Watches(r, stage) ==
    /\ watch' = [watch EXCEPT ![r] = stage]
    /\ UNCHANGED <<approved, trail, answer, shown, told, active, replies, req>>

\* The job comes after a stored event has armed it.  SELECT status; what has
\* ended is left alone.
WatcherSelects(r) ==
    /\ watch[r] = "idle" /\ log[r] # <<>>
    /\ status[r] \notin {"none", "completed", "cancelled"}
    /\ Watches(r, "write")
    /\ UNCHANGED <<status, log>>

\* The UPDATE does not look at the status again.
WatcherWrites(r) ==
    /\ watch[r] = "write"
    /\ status' = [status EXCEPT ![r] = "completed"]
    /\ Watches(r, "publish")
    /\ UNCHANGED log

\* The transition is stored, or that fails and is logged.
WatcherPublishes(r) ==
    /\ watch[r] = "publish"
    /\ log' \in {log, [log EXCEPT ![r] = Append(@, "completed")]}
    /\ Watches(r, "idle")
    /\ UNCHANGED status

\* The UPDATE rejects, or the worker dies before it.
WatcherFails(r) ==
    /\ watch[r] = "write"
    /\ Watches(r, "idle")
    /\ UNCHANGED <<status, log>>

-----------------------------------------------------------------------------

User(q) == \E r \in Runs :
    StartSprint(q, r) \/ ClickContinue(q, r) \/ SendMessage(q, r) \/ ClickPlanOrStop(q, r)
        \/ SubmitAnswer(q, r) \/ TapAnswer(q, r)

Route(q) ==
    \/ CreateRun(q) \/ ReadRound(q) \/ QueueMessage(q) \/ FlipsUnasked(q)
    \/ AssertTransition(q)
    \/ ApproveFlips(q) \/ ApprovePlan(q) \/ ApproveTrail(q)
    \/ StopFlips(q) \/ StopTrail(q) \/ ReadQuestion(q) \/ SaveAnswer(q)

HubCall(q) ==
    \/ SetActiveRun(q) \/ StorePrompt(q) \/ TellMo(q) \/ StoreApproved(q)
    \/ StoreExecuting(q) \/ StoreCancelled(q) \/ ClearActiveRun(q) \/ RefuseAnswer(q)

Watcher(r) ==
    WatcherSelects(r) \/ WatcherWrites(r) \/ WatcherPublishes(r) \/ WatcherFails(r)

GovernNext ==
    \/ \E q \in Requests : User(q) \/ Route(q) \/ HubCall(q) \/ Fail(q)
    \/ \E r \in Runs : Watcher(r)
    \/ Reload \/ Reply

GovernSpec == GovernInit /\ [][GovernNext]_governVars

-----------------------------------------------------------------------------
(* Properties.                                                              *)

\* The typing of the routes' and the hub's state: no request is at a stage
\* its route does not have, and no more replies are on record than came.
GovernTypeOK ==
    /\ status \in [Runs -> Statuses]
    /\ approved \subseteq Runs /\ told \subseteq Runs /\ shown \subseteq Runs
    /\ trail \in [Runs -> Seq({"planned", "executing", "approved"}
                                \X {"approved", "executing", "cancelled"})]
    /\ log \in [Runs -> Seq(Events)]
    /\ answer \in [Runs -> Answers \cup {Nothing}]
    /\ active \in Runs \cup {Nothing}
    /\ replies \in 0..MaxReplies
    /\ watch \in [Runs -> {"idle", "write", "publish"}]
    /\ req \in [Requests -> [kind : Kinds, run : Runs \cup {Nothing}, at : Stages,
                              saw : Statuses \cup Answers \cup {Nothing}]]

\* An approval has an order: Mo is told to proceed only when the plan is marked
\* approved and the transition from 'planned' is on the trail, and the hub's
\* event of the approval comes after Mo was told.
ToldAfterApproval ==
    \A r \in Runs :
        /\ r \in told => /\ r \in approved
                         /\ \E i \in DOMAIN trail[r] : trail[r][i] = <<"planned", "approved">>
        /\ (\E i \in DOMAIN log[r] : log[r][i] = "approved") => r \in told

\* state-machine.ts lets nothing follow 'cancelled'.  What the code keeps of
\* it: a cancelled run is revived only by a continue or a message, which do not
\* ask, or by an approval that had read 'planned' before the run was cancelled;
\* and it is completed only by a worker that had read it before as well.
CancelledIsLeftByARace ==
    [][\A r \in Runs : status[r] = "cancelled" /\ status'[r] # "cancelled" =>
          \/ /\ status'[r] = "executing"
             /\ \E q \in Requests :
                   /\ req[q].run = r /\ req[q].at = "write" /\ req'[q].at # "write"
                   /\ \/ req[q].kind \in {"continue", "message"}
                      \/ req[q].kind = "approve" /\ req[q].saw = "planned"
          \/ status'[r] = "completed" /\ watch[r] = "write"]_governVars

\* A run that executes with nothing on record has a request behind it that is
\* still busy or has failed, or a continue whose round-table has not spoken yet.
OrphanBehindFailure ==
    \A r \in Runs : status[r] = "executing" /\ log[r] = <<>> =>
        \E q \in Requests :
            /\ req[q].run = r
            /\ \/ Underway(q) \/ req[q].at = "failed"
               \/ At(q, "continue", "done")

\* A question the transcript shows as answered has its answer stored, unless
\* the request that would store it is under way or failed.
ShownAnswersAreOwed ==
    \A r \in shown : answer[r] = Nothing =>
        \E q \in Requests :
            req[q].run = r /\ req[q].kind = "answer" /\ req[q].at \in {"read", "write", "failed"}

\* POST /api/runs says it fails rather than create "an orphan run with no
\* events" when the hub cannot be reached: a failed start leaves no run that
\* executes without an event.
NoOrphanRun ==
    \A q \in Requests : At(q, "start", "failed") =>
        LET r == req[q].run IN status[r] = "executing" => log[r] # <<>>

=============================================================================

--------------------------- MODULE GovernanceProofs ---------------------------
(***************************************************************************)
(* Theorems about Governance for any number of runs, requests and replies. *)
(***************************************************************************)
EXTENDS Governance, TLAPS

-----------------------------------------------------------------------------
(* The inductive invariant.                                                *)

Transition == {"planned", "executing", "approved"} \X {"approved", "executing", "cancelled"}
Asked == [kind : Kinds, run : Runs \cup {Nothing}, at : Stages,
          saw : Statuses \cup Answers \cup {Nothing}]

\* What a request has seen by the time it is at a stage.
Sane(x) ==
    /\ x.at = "idle" <=> x.run = Nothing
    /\ x.at \in {"plan", "approved", "executing"} => x.kind = "approve"
    /\ x.at = "prompt" => x.kind \in {"start", "message"}
    /\ x.at \in {"queue", "retry"} => x.kind = "message"
    /\ x.kind = "approve" /\ x.at \notin Over \cup {"read"} => x.saw = "planned"
    /\ x.kind = "stop" /\ x.at \notin Over \cup {"read"} => x.saw \in {"planned", "executing"}
    /\ x.kind = "answer" /\ x.at \in {"read", "write"} => x.saw \in Answers
ReqInv == \A q \in Requests : Sane(req[q])

\* A run has one start, before which there is no row.
StartInv ==
    /\ \A p, q \in Requests :
          /\ req[p].kind = "start" /\ req[q].kind = "start" /\ p # q
          => req[p].run # req[q].run \/ req[p].at = "idle"
    /\ \A q \in Requests :
          /\ At(q, "start", "write") => status[req[q].run] = "none"
          /\ req[q].kind # "start" /\ req[q].at # "idle" => status[req[q].run] # "none"

\* The approval's order, with the requests that are part of the way there.
Noted(r) == \E i \in DOMAIN trail[r] : trail[r][i] = <<"planned", "approved">>
ApprovalInv ==
    /\ \A q \in Requests : req[q].kind = "approve" =>
          /\ req[q].at \in {"trail", "hub", "approved", "executing"} => req[q].run \in approved
          /\ req[q].at \in {"hub", "approved", "executing"} => Noted(req[q].run)
          /\ req[q].at \in {"approved", "executing"} => req[q].run \in told
    /\ \A r \in Runs :
          /\ r \in told => r \in approved /\ Noted(r)
          /\ \A i \in DOMAIN log[r] : log[r][i] = "approved" => r \in told

\* The request that flipped the run, before it stored an event or in its stead.
Flipped(q, r) ==
    /\ req[q].run = r /\ req[q].kind \in {"start", "continue", "message", "approve"}
    /\ \/ req[q].at \in {"hub", "prompt", "plan", "trail", "approved", "executing", "failed"}
       \/ At(q, "continue", "done")
OrphanInv == \A r \in Runs :
    status[r] = "executing" /\ log[r] = <<>> => \E q \in Requests : Flipped(q, r)

\* The worker is with runs that exist.
WatchInv == \A r \in Runs : watch[r] # "idle" => status[r] # "none"

Inv == /\ GovernTypeOK /\ ReqInv /\ StartInv /\ ApprovalInv /\ OrphanInv /\ ShownAnswersAreOwed
       /\ WatchInv

LEMMA Constants == MaxReplies \in Nat /\ Nothing \notin Runs /\ Nothing \notin Answers
  BY GovernanceAssumption

\* A request that goes to another stage stays what it was.
LEMMA GoesFacts ==
    ASSUME GovernTypeOK, NEW q \in Requests, NEW stage \in Stages, Goes(q, stage)
    PROVE  /\ req' \in [Requests -> Asked]
           /\ req'[q].at = stage /\ req'[q].kind = req[q].kind
           /\ req'[q].run = req[q].run /\ req'[q].saw = req[q].saw
           /\ \A p \in Requests : p # q => req'[p] = req[p]
<1>1. req \in [Requests -> Asked]
  BY DEF GovernTypeOK, Asked
<1>2. req' = [req EXCEPT ![q].at = stage]
  BY DEF Goes
<1>3. req'[q] = [req[q] EXCEPT !.at = stage] /\ req[q] \in Asked
  BY <1>1, <1>2
<1>4. req'[q] \in Asked /\ req'[q].at = stage /\ req'[q].kind = req[q].kind
      /\ req'[q].run = req[q].run /\ req'[q].saw = req[q].saw
  BY <1>3 DEF Asked
<1> QED
  BY <1>1, <1>2, <1>4

\* A request that begins is what it asks.
LEMMA AskFacts ==
    ASSUME GovernTypeOK, NEW q \in Requests, NEW kind \in Kinds, NEW r \in Runs,
           NEW stage \in Stages, NEW text \in Answers \cup {Nothing}, Ask(q, kind, r, stage, text)
    PROVE  /\ req' \in [Requests -> Asked]
           /\ req'[q].at = stage /\ req'[q].kind = kind
           /\ req'[q].run = r /\ req'[q].saw = text
           /\ \A p \in Requests : p # q => req'[p] = req[p]
           /\ req[q].at = "idle"
<1>1. req \in [Requests -> Asked]
  BY DEF GovernTypeOK, Asked
<1>2. req' = [req EXCEPT ![q] = [kind |-> kind, run |-> r, at |-> stage, saw |-> text]]
  BY DEF Ask
<1>3. [kind |-> kind, run |-> r, at |-> stage, saw |-> text] \in Asked
  BY DEF Asked
<1>4. req'[q] = [kind |-> kind, run |-> r, at |-> stage, saw |-> text]
  BY <1>1, <1>2
<1> QED
  BY <1>1, <1>2, <1>3, <1>4 DEF Ask
-----------------------------------------------------------------------------
(* Type correctness, and what the requests have seen.                       *)

\* The stage a request goes to, by action.
LEMMA StageFacts ==
    ASSUME GovernTypeOK, NEW q \in Requests
    PROVE  /\ CreateRun(q) => Goes(q, "hub")
           /\ FlipsUnasked(q) => Goes(q, "hub")
           /\ ApproveFlips(q) => Goes(q, "plan")
           /\ ApprovePlan(q) => Goes(q, "trail")
           /\ ApproveTrail(q) => Goes(q, "hub")
           /\ StopFlips(q) => Goes(q, "trail")
           /\ StopTrail(q) => Goes(q, "hub")
           /\ SaveAnswer(q) => Goes(q, "hub")
           /\ TellMo(q) => Goes(q, "approved")
           /\ ClearActiveRun(q) => Goes(q, "done")
           /\ RefuseAnswer(q) => Goes(q, "failed")
           /\ Fail(q) => Goes(q, "failed")
  BY DEF CreateRun, ReadRound, QueueMessage, FlipsUnasked, ApproveFlips, ApprovePlan, ApproveTrail, StopFlips,
     StopTrail, SaveAnswer, TellMo, ClearActiveRun, RefuseAnswer, Fail

LEMMA ReqTyped ==
    ASSUME GovernTypeOK, NEW q \in Requests PROVE req[q] \in Asked
  BY DEF GovernTypeOK, Asked

\* A request that goes on within its route has still seen what it needs.
LEMMA ReqKept ==
    ASSUME GovernTypeOK, ReqInv, NEW q \in Requests, NEW stage \in Stages \ {"idle", "read"},
           Goes(q, stage), req[q].at \notin Over,
           stage \in {"plan", "approved", "executing"} => req[q].kind = "approve",
           stage = "prompt" => req[q].kind \in {"start", "message"},
           stage \in {"queue", "retry"} => req[q].kind = "message",
           stage = "write" => req[q].kind \in {"answer", "message"} /\ req[q].at = "read",
           stage \in Over \/ req[q].at # "read" \/ req[q].kind \in {"answer", "message"}
    PROVE  ReqInv' /\ req' \in [Requests -> Asked]
<1>1. /\ req' \in [Requests -> Asked]
      /\ req'[q].at = stage /\ req'[q].kind = req[q].kind
      /\ req'[q].run = req[q].run /\ req'[q].saw = req[q].saw
      /\ \A p \in Requests : p # q => req'[p] = req[p]
  BY GoesFacts
<1>2. Sane(req[q])
  BY DEF ReqInv
<1>3. Sane(req'[q])
  BY <1>1, <1>2 DEF Sane, Over
<1> QED
  BY <1>1, <1>3 DEF ReqInv

LEMMA AskKept ==
    ASSUME GovernTypeOK, ReqInv, NEW q \in Requests, NEW kind \in Kinds, NEW r \in Runs,
           NEW stage \in {"read", "write"}, NEW text \in Answers \cup {Nothing},
           Ask(q, kind, r, stage, text),
           kind \in {"approve", "stop"} => stage = "read",
           kind = "answer" => text \in Answers
    PROVE  ReqInv' /\ req' \in [Requests -> Asked]
<1>1. stage \in Stages
  BY DEF Stages, Over
<1>2. /\ req' \in [Requests -> Asked]
      /\ req'[q].at = stage /\ req'[q].kind = kind
      /\ req'[q].run = r /\ req'[q].saw = text
      /\ \A p \in Requests : p # q => req'[p] = req[p]
  BY <1>1, AskFacts
<1>3. Sane(req'[q])
  BY <1>2, Constants DEF Sane, Over
<1> QED
  BY <1>2, <1>3 DEF ReqInv

LEMMA UserReq ==
    ASSUME GovernTypeOK, ReqInv, NEW q \in Requests, User(q)
    PROVE  ReqInv' /\ req' \in [Requests -> Asked]
<1>1. PICK r \in Runs : StartSprint(q, r) \/ ClickContinue(q, r) \/ SendMessage(q, r)
                           \/ ClickPlanOrStop(q, r)
                           \/ SubmitAnswer(q, r) \/ TapAnswer(q, r)
  BY DEF User
<1>2. CASE StartSprint(q, r)
  BY <1>2, AskKept DEF StartSprint, Kinds
<1>3. CASE ClickContinue(q, r)
  BY <1>3, AskKept DEF ClickContinue, Kinds
<1>7. CASE SendMessage(q, r)
  BY <1>7, AskKept DEF SendMessage, Kinds
<1>4. CASE ClickPlanOrStop(q, r)
  <2>1. PICK kind \in {"approve", "stop"} : Ask(q, kind, r, "read", Nothing)
    BY <1>4 DEF ClickPlanOrStop
  <2> QED
    BY <2>1, AskKept DEF Kinds
<1>5. CASE SubmitAnswer(q, r)
  <2>1. PICK a \in Answers : Ask(q, "answer", r, "read", a)
    BY <1>5 DEF SubmitAnswer
  <2> QED
    BY <2>1, AskKept DEF Kinds
<1>6. CASE TapAnswer(q, r)
  <2>1. PICK a \in Answers : Ask(q, "answer", r, "read", a)
    BY <1>6 DEF TapAnswer
  <2> QED
    BY <2>1, AskKept DEF Kinds
<1> QED
  BY <1>1, <1>2, <1>3, <1>4, <1>5, <1>6, <1>7

\* The status an approval or a stop reads lets it go on, or refuses it.
LEMMA AssertReq ==
    ASSUME GovernTypeOK, ReqInv, NEW q \in Requests, AssertTransition(q)
    PROVE  /\ ReqInv' /\ req' \in [Requests -> Asked]
           /\ req'[q].at \in {"write", "refused"} /\ req'[q].kind = req[q].kind
           /\ req'[q].run = req[q].run
           /\ \A p \in Requests : p # q => req'[p] = req[p]
<1> DEFINE now == status[req[q].run]
           wanted == IF req[q].kind = "approve" THEN "approved" ELSE "cancelled"
           next == IF wanted \in VALID_TRANSITIONS[now] THEN "write" ELSE "refused"
           x == [req[q] EXCEPT !.saw = now, !.at = next]
<1>1. /\ req \in [Requests -> Asked] /\ req[q] \in Asked
      /\ Sane(req[q]) /\ req[q].at = "read" /\ req[q].kind \in {"approve", "stop"}
  BY ReqTyped DEF AssertTransition, ReqInv, GovernTypeOK, Asked
<1>2. req[q].run \in Runs
  BY <1>1 DEF Sane, Asked
<1>3. now \in Statuses
  BY <1>2 DEF GovernTypeOK
<1>4. req' = [req EXCEPT ![q] = x]
  <2>1. req' = [req EXCEPT ![q].saw = now, ![q].at = next]
    BY DEF AssertTransition
  <2> QED
    BY <1>1, <2>1
<1>5. /\ x \in Asked /\ x.at = next /\ x.saw = now
      /\ x.kind = req[q].kind /\ x.run = req[q].run
  BY <1>1, <1>3 DEF Asked, Stages, Over
<1>6. next = "write" => IF x.kind = "approve" THEN now = "planned" ELSE now \in {"planned", "executing"}
  <2>1. VALID_TRANSITIONS[now] = IF now = "planned" THEN {"approved", "cancelled"}
                                 ELSE IF now = "executing" THEN {"completed", "cancelled"} ELSE {}
    BY <1>3 DEF VALID_TRANSITIONS, Statuses
  <2> QED
    BY <1>1, <1>5, <2>1
<1>7. Sane(x)
  BY <1>1, <1>2, <1>5, <1>6, Constants DEF Sane, Over
<1>8. req'[q] = x /\ \A p \in Requests : p # q => req'[p] = req[p]
  BY <1>1, <1>4
<1>9. ReqInv' /\ req' \in [Requests -> Asked]
  BY <1>1, <1>4, <1>5, <1>7, <1>8 DEF ReqInv
<1> QED
  BY <1>5, <1>8, <1>9

LEMMA RouteReq ==
    ASSUME GovernTypeOK, ReqInv, NEW q \in Requests, Route(q)
    PROVE  ReqInv' /\ req' \in [Requests -> Asked]
<1>1. CASE CreateRun(q)
  BY <1>1, StageFacts, ReqKept DEF CreateRun, At, Over, Stages
<1>2. CASE FlipsUnasked(q)
  BY <1>2, StageFacts, ReqKept DEF FlipsUnasked, At, Over, Stages
<1>11. CASE ReadRound(q)
  <2>1. Goes(q, "write") \/ Goes(q, "refused") \/ Goes(q, "queue")
    BY <1>11 DEF ReadRound
  <2> QED
    BY <1>11, <2>1, ReqKept DEF ReadRound, At, Over, Stages
<1>12. CASE QueueMessage(q)
  <2>1. Goes(q, "done") \/ Goes(q, "retry") \/ Goes(q, "failed")
    BY <1>12 DEF QueueMessage
  <2> QED
    BY <1>12, <2>1, ReqKept DEF QueueMessage, Over, Stages
<1>3. CASE ApproveFlips(q)
  BY <1>3, StageFacts, ReqKept DEF ApproveFlips, At, Over, Stages
<1>4. CASE ApprovePlan(q)
  BY <1>4, StageFacts, ReqKept DEF ApprovePlan, At, Over, Stages
<1>5. CASE ApproveTrail(q)
  BY <1>5, StageFacts, ReqKept DEF ApproveTrail, At, Over, Stages
<1>6. CASE StopFlips(q)
  BY <1>6, StageFacts, ReqKept DEF StopFlips, At, Over, Stages
<1>7. CASE StopTrail(q)
  BY <1>7, StageFacts, ReqKept DEF StopTrail, At, Over, Stages
<1>8. CASE SaveAnswer(q)
  BY <1>8, StageFacts, ReqKept DEF SaveAnswer, At, Over, Stages
<1>9. CASE AssertTransition(q)
  BY <1>9, AssertReq
<1>10. CASE ReadQuestion(q)
  <2>1. Goes(q, "write") \/ Goes(q, "refused")
    BY <1>10 DEF ReadQuestion
  <2> QED
    BY <1>10, <2>1, ReqKept DEF ReadQuestion, At, Over, Stages
<1> QED
  BY <1>1, <1>2, <1>3, <1>4, <1>5, <1>6, <1>7, <1>8, <1>9, <1>10, <1>11, <1>12 DEF Route

\* Storing an event takes a request to its next stage, or fails it.
LEMMA StoresFacts ==
    ASSUME NEW q, NEW event, NEW next, Stores(q, event, next)
    PROVE  /\ Goes(q, next) \/ Goes(q, "failed")
           /\ log' = [log EXCEPT ![req[q].run] = Append(@, event)]
  BY DEF Stores

LEMMA HubReq ==
    ASSUME GovernTypeOK, ReqInv, NEW q \in Requests, HubCall(q) \/ Fail(q)
    PROVE  ReqInv' /\ req' \in [Requests -> Asked]
<1>1. CASE SetActiveRun(q)
  <2>1. \/ req[q].kind \in {"start", "message"} /\ Goes(q, "prompt")
        \/ Goes(q, "done")
    BY <1>1 DEF SetActiveRun
  <2> QED
    BY <1>1, <2>1, ReqKept DEF SetActiveRun, Over, Stages
<1>2. CASE StorePrompt(q)
  <2>1. Goes(q, "done") \/ Goes(q, "failed")
    BY <1>2, StoresFacts DEF StorePrompt
  <2> QED
    BY <1>2, <2>1, ReqKept DEF StorePrompt, At, Over, Stages
<1>3. CASE StoreApproved(q)
  <2>1. Goes(q, "executing") \/ Goes(q, "failed")
    BY <1>3, StoresFacts DEF StoreApproved
  <2> QED
    BY <1>3, <2>1, ReqKept DEF StoreApproved, At, Over, Stages
<1>4. CASE StoreExecuting(q)
  <2>1. Goes(q, "done") \/ Goes(q, "failed")
    BY <1>4, StoresFacts DEF StoreExecuting
  <2> QED
    BY <1>4, <2>1, ReqKept DEF StoreExecuting, At, Over, Stages
<1>5. CASE StoreCancelled(q)
  <2>1. Goes(q, "clear") \/ Goes(q, "failed")
    BY <1>5, StoresFacts DEF StoreCancelled
  <2> QED
    BY <1>5, <2>1, ReqKept DEF StoreCancelled, At, Over, Stages
<1>6. CASE TellMo(q)
  BY <1>6, StageFacts, ReqKept DEF TellMo, At, Over, Stages
<1>7. CASE ClearActiveRun(q)
  BY <1>7, StageFacts, ReqKept DEF ClearActiveRun, At, Over, Stages
<1>8. CASE RefuseAnswer(q)
  BY <1>8, StageFacts, ReqKept DEF RefuseAnswer, At, Over, Stages
<1>9. CASE Fail(q)
  BY <1>9, StageFacts, ReqKept DEF Fail, At, Over, Stages, Underway
<1> QED
  BY <1>1, <1>2, <1>3, <1>4, <1>5, <1>6, <1>7, <1>8, <1>9 DEF HubCall

\* The rest of the typing.
LEMMA RunOf ==
    ASSUME GovernTypeOK, ReqInv, NEW q \in Requests, req[q].at # "idle"
    PROVE  req[q].run \in Runs
  BY ReqTyped DEF ReqInv, Sane, Asked

LEMMA TrailGrows ==
    ASSUME GovernTypeOK, NEW r \in Runs, NEW s \in Seq(Transition),
           trail' = [trail EXCEPT ![r] = @ \o s]
    PROVE  trail' \in [Runs -> Seq(Transition)]
  BY DEF GovernTypeOK, Transition

LEMMA LogGrows ==
    ASSUME GovernTypeOK, NEW r \in Runs, NEW e \in Events,
           log' = [log EXCEPT ![r] = Append(@, e)]
    PROVE  log' \in [Runs -> Seq(Events)]
  BY DEF GovernTypeOK

LEMMA UserType ==
    ASSUME GovernTypeOK, ReqInv, NEW q \in Requests, User(q) PROVE GovernTypeOK'
<1>1. req' \in [Requests -> Asked]
  BY UserReq
<1>2. UNCHANGED <<database, hub, watch>> /\ shown' \subseteq Runs
  BY DEF User, StartSprint, ClickContinue, SendMessage, ClickPlanOrStop, SubmitAnswer, TapAnswer, Ask, GovernTypeOK
<1> QED
  BY <1>1, <1>2 DEF GovernTypeOK, Asked, database, hub

LEMMA RouteType ==
    ASSUME GovernTypeOK, ReqInv, NEW q \in Requests, Route(q) PROVE GovernTypeOK'
<1> DEFINE r == req[q].run
<1>1. req' \in [Requests -> Asked]
  BY RouteReq
<1>2. r \in Runs
  BY RunOf DEF Route, CreateRun, ReadRound, QueueMessage, FlipsUnasked, AssertTransition, ApproveFlips, ApprovePlan,
     ApproveTrail, StopFlips, StopTrail, ReadQuestion, SaveAnswer, At
<1>3. UNCHANGED <<shown, told, active, replies, watch>>
  BY DEF Route, CreateRun, ReadRound, QueueMessage, FlipsUnasked, AssertTransition, ApproveFlips, ApprovePlan,
     ApproveTrail, StopFlips, StopTrail, ReadQuestion, SaveAnswer, hub
<1>8. log' \in [Runs -> Seq(Events)]
  <2>1. \/ log' = [log EXCEPT ![r] = Append(@, "prompt")]
        \/ UNCHANGED log
    BY DEF Route, CreateRun, ReadRound, QueueMessage, FlipsUnasked, AssertTransition, ApproveFlips,
       ApprovePlan, ApproveTrail, StopFlips, StopTrail, ReadQuestion, SaveAnswer, hub
  <2> QED
    BY <1>2, <2>1, LogGrows DEF GovernTypeOK, Events
<1>4. status' \in [Runs -> Statuses]
  BY <1>2 DEF Route, CreateRun, ReadRound, QueueMessage, FlipsUnasked, AssertTransition, ApproveFlips, ApprovePlan,
     ApproveTrail, StopFlips, StopTrail, ReadQuestion, SaveAnswer, database, GovernTypeOK, Statuses
<1>5. approved' \subseteq Runs
  BY <1>2 DEF Route, CreateRun, ReadRound, QueueMessage, FlipsUnasked, AssertTransition, ApproveFlips, ApprovePlan,
     ApproveTrail, StopFlips, StopTrail, ReadQuestion, SaveAnswer, database, GovernTypeOK
<1>6. trail' \in [Runs -> Seq(Transition)]
  <2>1. CASE ApproveTrail(q)
    <3>1. req[q].saw = "planned"
      BY <2>1 DEF ApproveTrail, At, ReqInv, Sane, Over
    <3>2. << <<req[q].saw, "approved">>, <<"approved", "executing">> >> \in Seq(Transition)
      BY <3>1 DEF Transition
    <3> QED
      BY <1>2, <2>1, <3>2, TrailGrows DEF ApproveTrail
  <2>2. CASE StopTrail(q)
    <3>1. req[q].saw \in {"planned", "executing"}
      BY <2>2 DEF StopTrail, At, ReqInv, Sane, Over
    <3>2. <<req[q].saw, "cancelled">> \in Transition
      BY <3>1 DEF Transition
    <3> QED
      BY <1>2, <2>2, <3>2 DEF StopTrail, GovernTypeOK, Transition
  <2>3. CASE ~ApproveTrail(q) /\ ~StopTrail(q)
    <3>1. UNCHANGED trail
      BY <2>3 DEF Route, CreateRun, ReadRound, QueueMessage, FlipsUnasked, AssertTransition, ApproveFlips, ApprovePlan,
         StopFlips, ReadQuestion, SaveAnswer, database
    <3> QED
      BY <3>1 DEF GovernTypeOK, Transition
  <2> QED
    BY <2>1, <2>2, <2>3
<1>7. answer' \in [Runs -> Answers \cup {Nothing}]
  <2>1. CASE SaveAnswer(q)
    <3>1. req[q].saw \in Answers
      BY <2>1 DEF SaveAnswer, At, ReqInv, Sane
    <3> QED
      BY <1>2, <2>1, <3>1 DEF SaveAnswer, GovernTypeOK
  <2>2. CASE ~SaveAnswer(q)
    BY <2>2 DEF Route, CreateRun, ReadRound, QueueMessage, FlipsUnasked, AssertTransition, ApproveFlips, ApprovePlan,
       ApproveTrail, StopFlips, StopTrail, ReadQuestion, database, GovernTypeOK
  <2> QED
    BY <2>1, <2>2
<1> QED
  BY <1>1, <1>3, <1>4, <1>5, <1>6, <1>7, <1>8 DEF GovernTypeOK, Asked, Transition

LEMMA HubType ==
    ASSUME GovernTypeOK, ReqInv, NEW q \in Requests, HubCall(q) \/ Fail(q) PROVE GovernTypeOK'
<1> DEFINE r == req[q].run
<1>1. req' \in [Requests -> Asked]
  BY HubReq
<1>2. UNCHANGED <<database, shown, watch>>
  BY DEF HubCall, SetActiveRun, StorePrompt, TellMo, StoreApproved, StoreExecuting,
     StoreCancelled, ClearActiveRun, RefuseAnswer, Fail
<1>3. r \in Runs
  BY RunOf DEF HubCall, SetActiveRun, StorePrompt, TellMo, StoreApproved, StoreExecuting,
     StoreCancelled, ClearActiveRun, RefuseAnswer, Fail, At, Underway, Over
<1>4. log' \in [Runs -> Seq(Events)]
  <2>1. \/ \E e \in Events : log' = [log EXCEPT ![r] = Append(@, e)]
        \/ UNCHANGED log
    BY DEF HubCall, SetActiveRun, StorePrompt, TellMo, StoreApproved, StoreExecuting,
       StoreCancelled, ClearActiveRun, RefuseAnswer, Fail, Stores, hub, Events
  <2> QED
    BY <1>3, <2>1, LogGrows DEF GovernTypeOK
<1>5. /\ told' \subseteq Runs
      /\ active' \in Runs \cup {Nothing} /\ replies' = replies
  BY <1>3 DEF HubCall, SetActiveRun, StorePrompt, TellMo, StoreApproved, StoreExecuting,
     StoreCancelled, ClearActiveRun, RefuseAnswer, Fail, hub, GovernTypeOK
<1> QED
  BY <1>1, <1>2, <1>4, <1>5 DEF GovernTypeOK, Asked, database

-----------------------------------------------------------------------------
(* What a step of a request does.                                    *)

\* It keeps its kind and its run, and leaves the others alone.
LEMMA ThreadMoves ==
    ASSUME GovernTypeOK, NEW q \in Requests, Route(q) \/ HubCall(q) \/ Fail(q)
    PROVE  /\ req'[q].kind = req[q].kind /\ req'[q].run = req[q].run
           /\ req[q].at \notin Over /\ req'[q].at # "idle"
           /\ req'[q].at = "write" => req[q].at = "read" /\ req[q].kind # "start"
           /\ req'[q].at # "read"
           /\ \A p \in Requests : p # q => req'[p] = req[p]
<1>1. CASE AssertTransition(q)
  <2>1. req' = [req EXCEPT ![q].saw = req'[q].saw, ![q].at = req'[q].at]
    BY <1>1, ReqTyped DEF AssertTransition, GovernTypeOK, Asked
  <2>2. req'[q].at \in {"write", "refused"} /\ req[q].at = "read" /\ req[q].kind \in {"approve", "stop"}
    BY <1>1, ReqTyped DEF AssertTransition, GovernTypeOK, Asked
  <2> QED
    BY <2>1, <2>2 DEF GovernTypeOK, Over
<1>2. CASE ~AssertTransition(q)
  <2>1. \/ \E stage \in {"hub", "plan", "trail", "approved", "executing", "prompt", "clear",
                         "queue", "retry", "done", "failed", "refused"} : Goes(q, stage)
        \/ Goes(q, "write") /\ req[q].kind \in {"answer", "message"} /\ req[q].at = "read"
    <3>1. ASSUME ReadQuestion(q) PROVE \/ Goes(q, "refused")
                                       \/ Goes(q, "write") /\ req[q].kind = "answer" /\ req[q].at = "read"
      BY <3>1 DEF ReadQuestion, At
    <3>4. ASSUME ReadRound(q) PROVE \/ Goes(q, "refused") \/ Goes(q, "queue")
                                    \/ Goes(q, "write") /\ req[q].kind = "message" /\ req[q].at = "read"
      BY <3>4 DEF ReadRound, At
    <3>5. ASSUME QueueMessage(q) PROVE Goes(q, "done") \/ Goes(q, "retry") \/ Goes(q, "failed")
      BY <3>5 DEF QueueMessage
    <3>2. ASSUME SetActiveRun(q) PROVE Goes(q, "prompt") \/ Goes(q, "done")
      BY <3>2 DEF SetActiveRun
    <3>3. ASSUME StorePrompt(q) \/ StoreApproved(q) \/ StoreExecuting(q) \/ StoreCancelled(q)
          PROVE  \E stage \in {"done", "executing", "clear", "failed"} : Goes(q, stage)
      BY <3>3, StoresFacts DEF StorePrompt, StoreApproved, StoreExecuting, StoreCancelled
    <3> QED
      BY <1>2, <3>1, <3>2, <3>3, <3>4, <3>5, StageFacts DEF Route, HubCall
  <2>2. req[q].at \notin Over
    BY <1>2 DEF Route, CreateRun, ReadRound, QueueMessage, FlipsUnasked, AssertTransition, ApproveFlips, ApprovePlan,
     ApproveTrail, StopFlips, StopTrail, ReadQuestion, SaveAnswer,
     HubCall, SetActiveRun, StorePrompt, TellMo, StoreApproved, StoreExecuting,
     StoreCancelled, ClearActiveRun, RefuseAnswer, Fail, Over, At, Underway
  <2> QED
    BY <2>1, <2>2, GoesFacts DEF Stages, Over
<1> QED
  BY <1>1, <1>2

\* It writes the status of its own run at most.
LEMMA StatusMoves ==
    ASSUME GovernTypeOK, ReqInv, NEW q \in Requests, Route(q) \/ HubCall(q) \/ Fail(q)
    PROVE  /\ req[q].run \in Runs
           /\ \/ UNCHANGED status
              \/ \E s \in {"executing", "cancelled"} : status' = [status EXCEPT ![req[q].run] = s]
<1>1. req[q].run \in Runs
  BY ThreadMoves, RunOf DEF Over
<1>2. \/ UNCHANGED status
      \/ \E s \in {"executing", "cancelled"} : status' = [status EXCEPT ![req[q].run] = s]
  BY DEF Route, CreateRun, ReadRound, QueueMessage, FlipsUnasked, AssertTransition, ApproveFlips, ApprovePlan,
     ApproveTrail, StopFlips, StopTrail, ReadQuestion, SaveAnswer,
     HubCall, SetActiveRun, StorePrompt, TellMo, StoreApproved, StoreExecuting,
     StoreCancelled, ClearActiveRun, RefuseAnswer, Fail, database
<1> QED
  BY <1>1, <1>2

-----------------------------------------------------------------------------
(* The parts of the invariant.                                              *)

LEMMA UserStart ==
    ASSUME GovernTypeOK, ReqInv, StartInv, NEW q \in Requests, User(q) PROVE StartInv'
<1>1. PICK r \in Runs : StartSprint(q, r) \/ ClickContinue(q, r) \/ SendMessage(q, r)
                           \/ ClickPlanOrStop(q, r)
                           \/ SubmitAnswer(q, r) \/ TapAnswer(q, r)
  BY DEF User
<1>2. UNCHANGED status
  BY <1>1 DEF StartSprint, ClickContinue, SendMessage, ClickPlanOrStop, SubmitAnswer, TapAnswer, Ask, database
<1>3. \A p \in Requests : req[p].at = "idle" <=> req[p].run = Nothing
  BY DEF ReqInv, Sane
<1>4. CASE StartSprint(q, r)
  <2>1. /\ req'[q].at = "write" /\ req'[q].kind = "start" /\ req'[q].run = r
        /\ \A p \in Requests : p # q => req'[p] = req[p]
    <3>1. Ask(q, "start", r, "write", Nothing)
      BY <1>4 DEF StartSprint
    <3>2. "start" \in Kinds /\ "write" \in Stages
      BY DEF Kinds, Stages
    <3> QED
      BY <3>1, <3>2, AskFacts
  <2>2. status[r] = "none" /\ \A p \in Requests : req[p].kind = "start" => req[p].run # r
    BY <1>4 DEF StartSprint
  <2>3. \A p, p2 \in Requests :
          req'[p].kind = "start" /\ req'[p2].kind = "start" /\ p # p2
          => req'[p].run # req'[p2].run \/ req'[p].at = "idle"
    BY <2>1, <2>2 DEF StartInv
  <2>4. \A p \in Requests :
          /\ req'[p].kind = "start" /\ req'[p].at = "write" => status'[req'[p].run] = "none"
          /\ req'[p].kind # "start" /\ req'[p].at # "idle" => status'[req'[p].run] # "none"
    BY <1>2, <2>1, <2>2 DEF StartInv, At
  <2> QED
    BY <2>3, <2>4 DEF StartInv, At
<1>5. CASE ~StartSprint(q, r)
  <2>1. PICK kind \in Kinds \ {"start"}, stage \in {"read", "write"}, text \in Answers \cup {Nothing} :
          Ask(q, kind, r, stage, text)
    BY <1>1, <1>5 DEF ClickContinue, SendMessage, ClickPlanOrStop, SubmitAnswer, TapAnswer, Kinds
  <2>2. /\ req'[q].kind # "start" /\ req'[q].run = r
        /\ \A p \in Requests : p # q => req'[p] = req[p]
    BY <2>1, AskFacts DEF Stages
  <2>3. status[r] # "none"
    BY <1>1, <1>5 DEF ClickContinue, SendMessage, ClickPlanOrStop, SubmitAnswer, TapAnswer
  <2> QED
    BY <1>2, <2>2, <2>3 DEF StartInv, At
<1> QED
  BY <1>4, <1>5

LEMMA MoveStart ==
    ASSUME GovernTypeOK, ReqInv, StartInv, NEW q \in Requests, Route(q) \/ HubCall(q) \/ Fail(q)
    PROVE  StartInv'
<1>1. /\ req'[q].kind = req[q].kind /\ req'[q].run = req[q].run
      /\ req[q].at # "idle" /\ req'[q].at # "idle"
      /\ req'[q].at = "write" => req[q].kind # "start"
      /\ \A p \in Requests : p # q => req'[p] = req[p]
  BY ThreadMoves DEF Over
<1>2. \A p, p2 \in Requests :
        req'[p].kind = "start" /\ req'[p2].kind = "start" /\ p # p2
        => req'[p].run # req'[p2].run \/ req'[p].at = "idle"
  BY <1>1 DEF StartInv
<1>3. \A r \in Runs : r # req[q].run => status'[r] = status[r]
  BY StatusMoves DEF GovernTypeOK
<1>4. status[req[q].run] # "none" => status'[req[q].run] # "none"
  BY StatusMoves DEF GovernTypeOK
<1>5. \A p \in Requests : req[p].at # "idle" => req[p].run \in Runs
  BY RunOf
<1>6. ASSUME NEW p \in Requests, req'[p].kind = "start", req'[p].at = "write"
      PROVE  status'[req'[p].run] = "none"
  <2>1. p # q /\ req[p].kind = "start" /\ req[p].at = "write" /\ req'[p] = req[p]
    BY <1>1, <1>6
  <2>2. status[req[p].run] = "none" /\ req[p].run \in Runs
    BY <1>5, <2>1 DEF StartInv, At
  <2>3. req[p].run # req[q].run
    BY <1>1, <2>1, <2>2 DEF StartInv
  <2> QED
    BY <1>3, <2>1, <2>2, <2>3
<1>7. ASSUME NEW p \in Requests, req'[p].kind # "start", req'[p].at # "idle"
      PROVE  status'[req'[p].run] # "none"
  <2>1. req[p].kind # "start" /\ req[p].at # "idle" /\ req'[p].run = req[p].run
    BY <1>1, <1>7
  <2>2. status[req[p].run] # "none" /\ req[p].run \in Runs
    BY <1>5, <2>1 DEF StartInv
  <2> QED
    BY <1>3, <1>4, <2>1, <2>2
<1> QED
  BY <1>2, <1>6, <1>7 DEF StartInv, At

\* A row is never taken back, and no request touches the worker's job.
LEMMA MoveWatch ==
    ASSUME GovernTypeOK, ReqInv, WatchInv, NEW q \in Requests, Route(q) \/ HubCall(q) \/ Fail(q)
    PROVE  WatchInv'
<1>1. UNCHANGED watch
  BY DEF Route, CreateRun, ReadRound, QueueMessage, FlipsUnasked, AssertTransition, ApproveFlips, ApprovePlan,
     ApproveTrail, StopFlips, StopTrail, ReadQuestion, SaveAnswer,
     HubCall, SetActiveRun, StorePrompt, TellMo, StoreApproved, StoreExecuting,
     StoreCancelled, ClearActiveRun, RefuseAnswer, Fail
<1>2. \A r \in Runs : status[r] # "none" => status'[r] # "none"
  BY StatusMoves DEF GovernTypeOK
<1> QED
  BY <1>1, <1>2 DEF WatchInv

\* What is approved, told or noted stays so.
LEMMA Grows ==
    ASSUME GovernTypeOK, ReqInv, NEW q \in Requests, Route(q) \/ HubCall(q) \/ Fail(q)
    PROVE  /\ approved \subseteq approved' /\ told \subseteq told'
           /\ \A r \in Runs : Noted(r) => Noted(r)'
<1>1. approved \subseteq approved' /\ told \subseteq told'
  BY DEF Route, CreateRun, ReadRound, QueueMessage, FlipsUnasked, AssertTransition, ApproveFlips, ApprovePlan,
     ApproveTrail, StopFlips, StopTrail, ReadQuestion, SaveAnswer,
     HubCall, SetActiveRun, StorePrompt, TellMo, StoreApproved, StoreExecuting,
     StoreCancelled, ClearActiveRun, RefuseAnswer, Fail, database, hub
<1>2. req[q].run \in Runs
  BY StatusMoves
<1>3. \/ UNCHANGED trail
      \/ \E s \in Seq(Transition) : trail' = [trail EXCEPT ![req[q].run] = @ \o s]
  <2>1. ASSUME ApproveTrail(q)
        PROVE  \E s \in Seq(Transition) : trail' = [trail EXCEPT ![req[q].run] = @ \o s]
    <3>1. req[q].saw = "planned"
      BY <2>1 DEF ApproveTrail, At, ReqInv, Sane, Over
    <3>2. << <<req[q].saw, "approved">>, <<"approved", "executing">> >> \in Seq(Transition)
      BY <3>1 DEF Transition
    <3> QED
      BY <2>1, <3>2 DEF ApproveTrail
  <2>2. ASSUME StopTrail(q)
        PROVE  \E s \in Seq(Transition) : trail' = [trail EXCEPT ![req[q].run] = @ \o s]
    <3>1. req[q].saw \in {"planned", "executing"}
      BY <2>2 DEF StopTrail, At, ReqInv, Sane, Over
    <3>2. << <<req[q].saw, "cancelled">> >> \in Seq(Transition)
      BY <3>1 DEF Transition
    <3>3. /\ trail \in [Runs -> Seq(Transition)] /\ <<req[q].saw, "cancelled">> \in Transition
          /\ trail' = [trail EXCEPT ![req[q].run] = Append(@, <<req[q].saw, "cancelled">>)]
      BY <2>2, <3>1 DEF StopTrail, GovernTypeOK, Transition
    <3>4. trail' = [trail EXCEPT ![req[q].run] = @ \o << <<req[q].saw, "cancelled">> >>]
      <4>1. ASSUME NEW b \in Seq(Transition), NEW x \in Transition PROVE Append(b, x) = b \o <<x>>
        OBVIOUS
      <4> QED
        BY <1>2, <3>3, <4>1
    <3> QED
      BY <3>2, <3>4
  <2>3. ASSUME ~ApproveTrail(q), ~StopTrail(q) PROVE UNCHANGED trail
    BY <2>3 DEF Route, CreateRun, ReadRound, QueueMessage, FlipsUnasked, AssertTransition, ApproveFlips, ApprovePlan,
     ApproveTrail, StopFlips, StopTrail, ReadQuestion, SaveAnswer,
     HubCall, SetActiveRun, StorePrompt, TellMo, StoreApproved, StoreExecuting,
     StoreCancelled, ClearActiveRun, RefuseAnswer, Fail, database
  <2> QED
    BY <2>1, <2>2, <2>3
<1>4. ASSUME NEW s \in Seq(Transition), trail' = [trail EXCEPT ![req[q].run] = @ \o s],
             NEW r \in Runs, Noted(r)
      PROVE  Noted(r)'
  <2>1. PICK i \in DOMAIN trail[r] : trail[r][i] = <<"planned", "approved">>
    BY <1>4 DEF Noted
  <2>2. trail[r] \in Seq(Transition)
    BY DEF GovernTypeOK, Transition
  <2>3. trail'[r] = trail[r] \/ trail'[r] = trail[r] \o s
    BY <1>2, <1>4 DEF GovernTypeOK
  <2>4. i \in DOMAIN trail'[r] /\ trail'[r][i] = trail[r][i]
    BY <1>4, <2>1, <2>2, <2>3
  <2> QED
    BY <2>1, <2>4 DEF Noted
<1>5. ASSUME UNCHANGED trail, NEW r \in Runs, Noted(r) PROVE Noted(r)'
  BY <1>5 DEF Noted
<1> QED
  BY <1>1, <1>3, <1>4, <1>5

\* The event a step stores.
LEMMA LogMoves ==
    ASSUME GovernTypeOK, ReqInv, NEW q \in Requests, Route(q) \/ HubCall(q) \/ Fail(q)
    PROVE  \/ UNCHANGED log
           \/ \E e \in Events : /\ log' = [log EXCEPT ![req[q].run] = Append(@, e)]
                                /\ e = "approved" => At(q, "approve", "approved")
  BY DEF Route, CreateRun, ReadRound, QueueMessage, FlipsUnasked, AssertTransition, ApproveFlips, ApprovePlan,
     ApproveTrail, StopFlips, StopTrail, ReadQuestion, SaveAnswer,
     HubCall, SetActiveRun, StorePrompt, TellMo, StoreApproved, StoreExecuting,
     StoreCancelled, ClearActiveRun, RefuseAnswer, Fail, Stores, hub, Events

LEMMA ApprovedKept ==
    ASSUME GovernTypeOK, NEW r \in Runs, NEW e \in Events,
           log' = [log EXCEPT ![r] = Append(@, e)], told \subseteq told',
           \A s \in Runs : \A i \in DOMAIN log[s] : log[s][i] = "approved" => s \in told,
           e = "approved" => r \in told
    PROVE  \A s \in Runs : \A i \in DOMAIN log'[s] : log'[s][i] = "approved" => s \in told'
<1> SUFFICES ASSUME NEW s \in Runs, NEW i \in DOMAIN log'[s], log'[s][i] = "approved"
             PROVE  s \in told'
  OBVIOUS
<1>1. log[s] \in Seq(Events) /\ log'[s] = IF s = r THEN Append(log[s], e) ELSE log[s]
  BY DEF GovernTypeOK
<1>2. (i \in DOMAIN log[s] /\ log'[s][i] = log[s][i]) \/ (s = r /\ log'[s][i] = e)
  BY <1>1
<1> QED
  BY <1>2

LEMMA MoveApproval ==
    ASSUME GovernTypeOK, ReqInv, ApprovalInv, NEW q \in Requests, Route(q) \/ HubCall(q) \/ Fail(q)
    PROVE  ApprovalInv'
<1>1. /\ req'[q].kind = req[q].kind /\ req'[q].run = req[q].run /\ req[q].run \in Runs
      /\ \A p \in Requests : p # q => req'[p] = req[p]
  BY ThreadMoves, StatusMoves
<1>2. ASSUME NEW p \in Requests, p # q, req'[p].kind = "approve"
      PROVE  /\ req'[p].at \in {"trail", "hub", "approved", "executing"} => req'[p].run \in approved'
             /\ req'[p].at \in {"hub", "approved", "executing"} => Noted(req[p].run)'
             /\ req'[p].at \in {"approved", "executing"} => req'[p].run \in told'
  BY <1>1, <1>2, Grows, RunOf DEF ApprovalInv
<1>3. ASSUME req[q].kind = "approve", req'[q].at \in {"trail", "hub", "approved", "executing"}
      PROVE  \/ ApprovePlan(q) \/ ApproveTrail(q) \/ TellMo(q) \/ StoreApproved(q)
  <2>1. CASE SetActiveRun(q) \/ RefuseAnswer(q) \/ Fail(q) \/ StorePrompt(q) \/ StoreExecuting(q)
                \/ StoreCancelled(q) \/ ClearActiveRun(q)
    <3>1. Goes(q, "failed") \/ Goes(q, "done")
      BY <1>3, <2>1, StoresFacts DEF SetActiveRun, RefuseAnswer, Fail, StorePrompt, StoreExecuting,
         StoreCancelled, ClearActiveRun, At
    <3>2. req'[q].at \in {"failed", "done"}
      BY <3>1, GoesFacts DEF Stages, Over
    <3> QED
      BY <1>3, <3>2
  <2>2. CASE AssertTransition(q)
    BY <1>3, <2>2, AssertReq
  <2>3. CASE ApproveFlips(q)
    BY <1>3, <2>3, StageFacts, GoesFacts DEF Stages
  <2> QED
    BY <1>3, <2>1, <2>2, <2>3 DEF Route, HubCall, CreateRun, ReadRound, QueueMessage, FlipsUnasked, StopFlips, StopTrail,
       ReadQuestion, SaveAnswer, At
<1>4. ASSUME req[q].kind = "approve"
      PROVE  /\ req'[q].at \in {"trail", "hub", "approved", "executing"} => req[q].run \in approved'
             /\ req'[q].at \in {"hub", "approved", "executing"} => Noted(req[q].run)'
             /\ req'[q].at \in {"approved", "executing"} => req[q].run \in told'
  <2>1. CASE ApprovePlan(q)
    <3>1. req'[q].at = "trail"
      BY <2>1, StageFacts, GoesFacts DEF Stages
    <3> QED
      BY <2>1, <3>1 DEF ApprovePlan
  <2>2. CASE ApproveTrail(q)
    <3>1. req'[q].at = "hub" /\ req[q].run \in approved /\ req[q].saw = "planned"
      BY <2>2, StageFacts, GoesFacts DEF Stages, ApproveTrail, At, ApprovalInv, ReqInv, Sane, Over
    <3>2. trail'[req[q].run] =
             trail[req[q].run] \o << <<"planned", "approved">>, <<"approved", "executing">> >>
      BY <1>1, <2>2, <3>1 DEF ApproveTrail, GovernTypeOK
    <3>3. trail[req[q].run] \in Seq(Transition)
      BY <1>1 DEF GovernTypeOK, Transition
    <3>4. \E i \in DOMAIN trail'[req[q].run] : trail'[req[q].run][i] = <<"planned", "approved">>
      <4> DEFINE n == Len(trail[req[q].run]) + 1
      <4>1. n \in DOMAIN trail'[req[q].run] /\ trail'[req[q].run][n] = <<"planned", "approved">>
        BY <3>2, <3>3
      <4> QED
        BY <4>1
    <3>5. Noted(req[q].run)'
      BY <1>1, <3>4 DEF Noted
    <3> QED
      BY <3>1, <3>5, Grows
  <2>3. CASE TellMo(q)
    BY <1>1, <2>3, Grows DEF TellMo, At, ApprovalInv
  <2>4. CASE StoreApproved(q)
    BY <1>1, <2>4, Grows DEF StoreApproved, At, ApprovalInv
  <2> QED
    BY <1>3, <1>4, <2>1, <2>2, <2>3, <2>4
<1>5. ASSUME NEW r \in Runs, r \in told' PROVE r \in approved' /\ Noted(r)'
  <2>1. r \in told \/ (TellMo(q) /\ r = req[q].run)
    BY <1>5 DEF Route, CreateRun, ReadRound, QueueMessage, FlipsUnasked, AssertTransition, ApproveFlips, ApprovePlan,
     ApproveTrail, StopFlips, StopTrail, ReadQuestion, SaveAnswer,
     HubCall, SetActiveRun, StorePrompt, TellMo, StoreApproved, StoreExecuting,
     StoreCancelled, ClearActiveRun, RefuseAnswer, Fail, hub
  <2> QED
    BY <2>1, Grows DEF ApprovalInv, TellMo, At
<1>6. \A r \in Runs : \A i \in DOMAIN log'[r] : log'[r][i] = "approved" => r \in told'
  <2>1. CASE UNCHANGED log
    BY <2>1, Grows DEF ApprovalInv
  <2>2. CASE ~UNCHANGED log
    <3>1. PICK e \in Events : /\ log' = [log EXCEPT ![req[q].run] = Append(@, e)]
                              /\ e = "approved" => At(q, "approve", "approved")
      BY <2>2, LogMoves
    <3>2. e = "approved" => req[q].run \in told
      BY <3>1 DEF ApprovalInv, At
    <3>3. \A r \in Runs : \A i \in DOMAIN log[r] : log[r][i] = "approved" => r \in told
      BY DEF ApprovalInv
    <3> QED
      BY <1>1, <3>1, <3>2, <3>3, Grows, ApprovedKept
  <2> QED
    BY <2>1, <2>2
<1>7. \A p \in Requests : p # q => req'[p].run = req[p].run
  BY <1>1
<1> QED
  BY <1>1, <1>2, <1>4, <1>5, <1>6, <1>7 DEF ApprovalInv, Noted

\* A run whose log grew has an event; one whose log is empty had none.
LEMMA LogFilled ==
    ASSUME GovernTypeOK, NEW r \in Runs, NEW e \in Events, log' = [log EXCEPT ![r] = Append(@, e)]
    PROVE  log'[r] # <<>> /\ \A s \in Runs : log'[s] = <<>> => log[s] = <<>>
<1>1. log \in [Runs -> Seq(Events)]
  BY DEF GovernTypeOK
<1>2. ASSUME NEW b \in Seq(Events) PROVE Append(b, e) # <<>>
  <2>1. Len(Append(b, e)) = Len(b) + 1 /\ Len(b) \in Nat /\ Len(<<>>) = 0
    BY <1>2
  <2> QED
    BY <2>1
<1>3. log'[r] = Append(log[r], e) /\ \A s \in Runs : s # r => log'[s] = log[s]
  BY <1>1
<1> QED
  BY <1>1, <1>2, <1>3

\* A request that flipped a run still has, or an event of the run is stored.
LEMMA FlippedKept ==
    ASSUME GovernTypeOK, ReqInv, NEW q \in Requests, Route(q) \/ HubCall(q) \/ Fail(q),
           NEW r \in Runs, Flipped(q, r)
    PROVE  Flipped(q, r)' \/ log'[r] # <<>>
<1>1. /\ req'[q].kind = req[q].kind /\ req'[q].run = r /\ req[q].run = r
      /\ req[q].at \in {"hub", "prompt", "plan", "trail", "approved", "executing"}
      /\ req[q].kind \in {"start", "continue", "message", "approve"}
  BY ThreadMoves DEF Flipped, At, Over
<1>2. \A e \in Events : log' = [log EXCEPT ![r] = Append(@, e)] => log'[r] # <<>>
  BY LogFilled
<1>3. CASE StorePrompt(q) \/ StoreExecuting(q) \/ StoreApproved(q)
  BY <1>1, <1>2, <1>3, StoresFacts DEF StorePrompt, StoreExecuting, StoreApproved, Events
<1>4. CASE SetActiveRun(q)
  <2>1. \/ req[q].kind \in {"start", "message"} /\ Goes(q, "prompt")
        \/ req[q].kind = "continue" /\ Goes(q, "done")
    BY <1>4 DEF SetActiveRun
  <2>2. \/ req[q].kind \in {"start", "message"} /\ req'[q].at = "prompt"
        \/ req[q].kind = "continue" /\ req'[q].at = "done"
    BY <2>1, GoesFacts DEF Stages, Over
  <2> QED
    BY <1>1, <2>2 DEF Flipped, At
<1>5. CASE ApprovePlan(q) \/ ApproveTrail(q) \/ TellMo(q) \/ Fail(q)
  <2>1. Goes(q, "trail") \/ Goes(q, "hub") \/ Goes(q, "approved") \/ Goes(q, "failed")
    BY <1>5, StageFacts
  <2>2. req'[q].at \in {"trail", "hub", "approved", "failed"}
    BY <2>1, GoesFacts DEF Stages, Over
  <2> QED
    BY <1>1, <2>2 DEF Flipped
<1> QED
  BY <1>1, <1>3, <1>4, <1>5 DEF Route, HubCall, CreateRun, ReadRound, QueueMessage, FlipsUnasked, AssertTransition,
     ApproveFlips, StopFlips, StopTrail, ReadQuestion, SaveAnswer, StoreCancelled, ClearActiveRun,
     RefuseAnswer, At

LEMMA MoveOrphan ==
    ASSUME GovernTypeOK, ReqInv, OrphanInv, NEW q \in Requests, Route(q) \/ HubCall(q) \/ Fail(q)
    PROVE  OrphanInv'
<1> SUFFICES ASSUME NEW r \in Runs, status'[r] = "executing", log'[r] = <<>>
             PROVE  \E p \in Requests : Flipped(p, r)'
  BY DEF OrphanInv
<1>1. /\ req'[q].kind = req[q].kind /\ req'[q].run = req[q].run /\ req[q].run \in Runs
      /\ \A p \in Requests : p # q => req'[p] = req[p]
  BY ThreadMoves, StatusMoves
<1>2. log[r] = <<>>
  BY <1>1, LogMoves, LogFilled
<1>3. CASE status[r] = "executing"
  <2>1. PICK p \in Requests : Flipped(p, r)
    BY <1>2, <1>3 DEF OrphanInv
  <2>2. CASE p = q
    BY <2>1, <2>2, FlippedKept
  <2>3. CASE p # q
    BY <1>1, <2>1, <2>3 DEF Flipped, At
  <2> QED
    BY <2>2, <2>3
<1>4. CASE status[r] # "executing"
  <2>1. r = req[q].run /\ (CreateRun(q) \/ FlipsUnasked(q) \/ ApproveFlips(q))
    BY <1>1, <1>4 DEF GovernTypeOK, Route, CreateRun, ReadRound, QueueMessage, FlipsUnasked, AssertTransition, ApproveFlips, ApprovePlan,
     ApproveTrail, StopFlips, StopTrail, ReadQuestion, SaveAnswer,
     HubCall, SetActiveRun, StorePrompt, TellMo, StoreApproved, StoreExecuting,
     StoreCancelled, ClearActiveRun, RefuseAnswer, Fail, database
  <2>2. Goes(q, "hub") \/ Goes(q, "plan")
    BY <2>1, StageFacts
  <2>3. req'[q].at \in {"hub", "plan"}
    BY <2>2, GoesFacts DEF Stages
  <2>4. req[q].kind \in {"start", "continue", "message", "approve"}
    BY <2>1 DEF CreateRun, ReadRound, QueueMessage, FlipsUnasked, ApproveFlips, At
  <2> QED
    BY <1>1, <2>1, <2>3, <2>4 DEF Flipped
<1> QED
  BY <1>3, <1>4

LEMMA MoveShown ==
    ASSUME GovernTypeOK, ReqInv, ShownAnswersAreOwed, NEW q \in Requests,
           Route(q) \/ HubCall(q) \/ Fail(q)
    PROVE  ShownAnswersAreOwed'
<1> SUFFICES ASSUME NEW r \in shown', answer'[r] = Nothing
             PROVE  \E p \in Requests : /\ req'[p].run = r /\ req'[p].kind = "answer"
                                        /\ req'[p].at \in {"read", "write", "failed"}
  BY DEF ShownAnswersAreOwed
<1>1. /\ req'[q].kind = req[q].kind /\ req'[q].run = req[q].run /\ req[q].run \in Runs
      /\ \A p \in Requests : p # q => req'[p] = req[p]
  BY ThreadMoves, StatusMoves
<1>2. r \in shown /\ r \in Runs
  BY DEF GovernTypeOK, Route, CreateRun, ReadRound, QueueMessage, FlipsUnasked, AssertTransition, ApproveFlips, ApprovePlan,
     ApproveTrail, StopFlips, StopTrail, ReadQuestion, SaveAnswer,
     HubCall, SetActiveRun, StorePrompt, TellMo, StoreApproved, StoreExecuting,
     StoreCancelled, ClearActiveRun, RefuseAnswer, Fail
<1>3. answer[r] = Nothing
  <2>1. CASE SaveAnswer(q)
    <3>1. req[q].saw \in Answers
      BY <2>1 DEF SaveAnswer, At, ReqInv, Sane
    <3> QED
      BY <1>1, <1>2, <2>1, <3>1, Constants DEF SaveAnswer, GovernTypeOK
  <2>2. CASE ~SaveAnswer(q)
    BY <2>2 DEF Route, CreateRun, ReadRound, QueueMessage, FlipsUnasked, AssertTransition, ApproveFlips, ApprovePlan,
     ApproveTrail, StopFlips, StopTrail, ReadQuestion, HubCall, SetActiveRun, StorePrompt, TellMo, StoreApproved, StoreExecuting,
     StoreCancelled, ClearActiveRun, RefuseAnswer, Fail, database
  <2> QED
    BY <2>1, <2>2
<1>4. PICK p \in Requests : /\ req[p].run = r /\ req[p].kind = "answer"
                            /\ req[p].at \in {"read", "write", "failed"}
  BY <1>2, <1>3 DEF ShownAnswersAreOwed
<1>5. CASE p # q
  BY <1>1, <1>4, <1>5
<1>6. CASE p = q
  <2>1. Fail(q) \/ ReadQuestion(q) \/ SaveAnswer(q)
    BY <1>4, <1>6 DEF Route, CreateRun, ReadRound, QueueMessage, FlipsUnasked, AssertTransition, ApproveFlips, ApprovePlan,
     ApproveTrail, StopFlips, StopTrail, ReadQuestion, SaveAnswer,
     HubCall, SetActiveRun, StorePrompt, TellMo, StoreApproved, StoreExecuting,
     StoreCancelled, ClearActiveRun, RefuseAnswer, Fail, At, Over
  <2>2. ~SaveAnswer(q)
    <3>1. SUFFICES ASSUME SaveAnswer(q) PROVE FALSE
      OBVIOUS
    <3>2. req[q].saw \in Answers
      BY <3>1 DEF SaveAnswer, At, ReqInv, Sane
    <3> QED
      BY <1>2, <1>4, <1>6, <3>1, <3>2, Constants DEF SaveAnswer, GovernTypeOK
  <2>3. Goes(q, "failed") \/ Goes(q, "write")
    BY <1>3, <1>4, <1>6, <2>1, <2>2, StageFacts DEF ReadQuestion
  <2>4. req'[q].at \in {"failed", "write"}
    BY <2>3, GoesFacts DEF Stages, Over
  <2> QED
    BY <1>1, <1>4, <1>6, <2>4
<1> QED
  BY <1>5, <1>6

\* A click uses an idle request and touches neither the database nor the hub.
LEMMA UserMoves ==
    ASSUME GovernTypeOK, NEW q \in Requests, User(q)
    PROVE  /\ UNCHANGED <<database, hub, watch>>
           /\ req[q].at = "idle" /\ req'[q].at \in {"read", "write"}
           /\ \A p \in Requests : p # q => req'[p] = req[p]
           /\ \/ shown' = shown
              \/ /\ shown' = shown \cup {req'[q].run}
                 /\ req'[q].kind = "answer" /\ req'[q].at = "read"
<1>1. PICK r \in Runs : StartSprint(q, r) \/ ClickContinue(q, r) \/ SendMessage(q, r)
                           \/ ClickPlanOrStop(q, r)
                           \/ SubmitAnswer(q, r) \/ TapAnswer(q, r)
  BY DEF User
<1>2. CASE SubmitAnswer(q, r)
  <2>1. PICK a \in Answers : Ask(q, "answer", r, "read", a)
    BY <1>2 DEF SubmitAnswer
  <2>2. /\ req[q].at = "idle" /\ req'[q].at = "read" /\ req'[q].kind = "answer"
        /\ req'[q].run = r /\ \A p \in Requests : p # q => req'[p] = req[p]
    <3>1. "answer" \in Kinds /\ "read" \in Stages
      BY DEF Kinds, Stages
    <3> QED
      BY <2>1, <3>1, AskFacts
  <2> QED
    BY <1>2, <2>1, <2>2 DEF SubmitAnswer, Ask
<1>3. CASE ~SubmitAnswer(q, r)
  <2>1. PICK kind \in Kinds, stage \in {"read", "write"}, text \in Answers \cup {Nothing} :
          Ask(q, kind, r, stage, text)
    BY <1>1, <1>3 DEF StartSprint, ClickContinue, SendMessage, ClickPlanOrStop, TapAnswer, Kinds
  <2>2. /\ req[q].at = "idle" /\ req'[q].at = stage
        /\ \A p \in Requests : p # q => req'[p] = req[p]
    BY <2>1, AskFacts DEF Stages
  <2>3. shown' = shown
    BY <1>1, <1>3 DEF StartSprint, ClickContinue, SendMessage, ClickPlanOrStop, TapAnswer
  <2> QED
    BY <2>1, <2>2, <2>3 DEF Ask
<1> QED
  BY <1>2, <1>3

LEMMA UserKeeps ==
    ASSUME GovernTypeOK, ReqInv, ApprovalInv, OrphanInv, ShownAnswersAreOwed, WatchInv,
           NEW q \in Requests, User(q)
    PROVE  ApprovalInv' /\ OrphanInv' /\ ShownAnswersAreOwed' /\ WatchInv'
<1>1. /\ UNCHANGED <<status, approved, trail, answer, log, told, watch>>
      /\ req[q].at = "idle" /\ req'[q].at \in {"read", "write"}
      /\ \A p \in Requests : p # q => req'[p] = req[p]
      /\ \/ shown' = shown
         \/ /\ shown' = shown \cup {req'[q].run}
            /\ req'[q].kind = "answer" /\ req'[q].at = "read"
  BY UserMoves DEF database, hub
<1>2. ApprovalInv'
  <2>1. \A r : Noted(r) <=> Noted(r)'
    BY <1>1 DEF Noted
  <2>2. \A p \in Requests : req'[p].kind = "approve" =>
          /\ req'[p].at \in {"trail", "hub", "approved", "executing"} => req'[p].run \in approved
          /\ req'[p].at \in {"hub", "approved", "executing"} => Noted(req'[p].run)
          /\ req'[p].at \in {"approved", "executing"} => req'[p].run \in told
    BY <1>1 DEF ApprovalInv
  <2> QED
    BY <1>1, <2>1, <2>2 DEF ApprovalInv, Noted
<1>3. OrphanInv'
  <2>1. \A p \in Requests, r \in Runs : Flipped(p, r) => p # q
    BY <1>1 DEF Flipped, At
  <2>2. \A p \in Requests, r \in Runs : Flipped(p, r) => Flipped(p, r)'
    BY <1>1, <2>1 DEF Flipped, At
  <2> QED
    BY <1>1, <2>2 DEF OrphanInv
<1>4. ShownAnswersAreOwed'
  <2> SUFFICES ASSUME NEW r \in shown', answer'[r] = Nothing
               PROVE  \E p \in Requests : /\ req'[p].run = r /\ req'[p].kind = "answer"
                                          /\ req'[p].at \in {"read", "write", "failed"}
    BY DEF ShownAnswersAreOwed
  <2>1. CASE r \in shown
    <3>1. PICK p \in Requests : /\ req[p].run = r /\ req[p].kind = "answer"
                                /\ req[p].at \in {"read", "write", "failed"}
      BY <1>1, <2>1 DEF ShownAnswersAreOwed
    <3> QED
      BY <1>1, <3>1
  <2>2. CASE r \notin shown
    BY <1>1, <2>2
  <2> QED
    BY <2>1, <2>2
<1>5. WatchInv'
  BY <1>1 DEF WatchInv
<1> QED
  BY <1>2, <1>3, <1>4, <1>5

LEMMA ReloadKeeps == Inv /\ Reload => Inv'
<1> SUFFICES ASSUME Inv, Reload PROVE Inv'
  OBVIOUS
<1>1. /\ shown' = {}
      /\ UNCHANGED <<status, approved, trail, log, told, answer, active, replies, watch, req>>
  BY DEF Reload, database, hub
<1>2. \A r : Noted(r) <=> Noted(r)'
  BY <1>1 DEF Noted
<1>3. GovernTypeOK' /\ ReqInv' /\ StartInv' /\ ShownAnswersAreOwed' /\ WatchInv'
  BY <1>1 DEF Inv, GovernTypeOK, ReqInv, StartInv, At, ShownAnswersAreOwed, WatchInv
<1>4. ApprovalInv'
  BY <1>1, <1>2 DEF Inv, ApprovalInv, Noted
<1>5. OrphanInv'
  BY <1>1 DEF Inv, OrphanInv, Flipped, At
<1> QED
  BY <1>3, <1>4, <1>5 DEF Inv

\* A reply, and a completion, add an event that approves nothing.
LEMMA EventKeeps ==
    ASSUME Inv, NEW r \in Runs, NEW e \in {"reply", "completed"},
           log' = [log EXCEPT ![r] = Append(@, e)], replies' \in 0..MaxReplies,
           watch' \in [Runs -> {"idle", "write", "publish"}],
           \A s \in Runs : watch'[s] \in {"idle", watch[s]},
           UNCHANGED <<status, approved, trail, told, answer, active, shown, req>>
    PROVE  Inv'
<1> USE DEF Inv
<1>1. e \in Events /\ e # "approved"
  BY DEF Events
<1>2. log' \in [Runs -> Seq(Events)]
  BY <1>1, LogGrows
<1>3. GovernTypeOK' /\ WatchInv'
  BY <1>2 DEF GovernTypeOK, WatchInv
<1>4. ReqInv' /\ StartInv' /\ ShownAnswersAreOwed'
  BY DEF ReqInv, StartInv, At, ShownAnswersAreOwed
<1>5. ApprovalInv'
  <2>1. \A s \in Runs : \A i \in DOMAIN log'[s] : log'[s][i] = "approved" => s \in told'
    BY <1>1, ApprovedKept DEF ApprovalInv
  <2>2. \A s : Noted(s) <=> Noted(s)'
    BY DEF Noted
  <2> QED
    BY <2>1, <2>2 DEF ApprovalInv, Noted
<1>6. OrphanInv'
  BY <1>1, LogFilled DEF OrphanInv, Flipped, At
<1> QED
  BY <1>3, <1>4, <1>5, <1>6

\* Other than that, the worker writes 'completed' to a run that exists.
LEMMA WatchKeeps ==
    ASSUME Inv, NEW r \in Runs, NEW stage \in {"idle", "write", "publish"},
           watch' = [watch EXCEPT ![r] = stage], status[r] # "none" \/ stage = "idle",
           status' \in {status, [status EXCEPT ![r] = "completed"]},
           status' = status \/ status[r] # "none",
           UNCHANGED <<log, replies, approved, trail, told, answer, active, shown, req>>
    PROVE  Inv'
<1> USE DEF Inv
<1>1. /\ status' \in [Runs -> Statuses]
      /\ \A s \in Runs : /\ status'[s] = "none" <=> status[s] = "none"
                         /\ status'[s] = "executing" => status[s] = "executing"
  BY DEF GovernTypeOK, Statuses
<1>2. GovernTypeOK' /\ WatchInv'
  BY <1>1 DEF GovernTypeOK, WatchInv
<1>3. \A q \in Requests : req[q].at # "idle" => req[q].run \in Runs
  BY RunOf
<1>4. ReqInv' /\ StartInv' /\ ShownAnswersAreOwed'
  BY <1>1, <1>3 DEF ReqInv, StartInv, At, ShownAnswersAreOwed
<1>5. ApprovalInv'
  <2>1. \A s : Noted(s) <=> Noted(s)'
    BY DEF Noted
  <2> QED
    BY <2>1 DEF ApprovalInv, Noted
<1>6. OrphanInv'
  BY <1>1 DEF OrphanInv, Flipped, At
<1> QED
  BY <1>2, <1>4, <1>5, <1>6

LEMMA WatcherKeeps ==
    ASSUME Inv, NEW r \in Runs, Watcher(r) PROVE Inv'
<1>1. CASE WatcherSelects(r)
  BY <1>1, WatchKeeps DEF WatcherSelects, Watches
<1>2. CASE WatcherWrites(r)
  <2>1. status[r] # "none"
    BY <1>2 DEF WatcherWrites, Inv, WatchInv
  <2> QED
    BY <1>2, <2>1, WatchKeeps DEF WatcherWrites, Watches
<1>3. CASE WatcherFails(r)
  BY <1>3, WatchKeeps DEF WatcherFails, Watches
<1>4. CASE WatcherPublishes(r)
  <2>1. CASE UNCHANGED log
    BY <1>4, <2>1, WatchKeeps DEF WatcherPublishes, Watches
  <2>2. CASE log' = [log EXCEPT ![r] = Append(@, "completed")]
    <3>1. /\ watch' \in [Runs -> {"idle", "write", "publish"}]
          /\ \A s \in Runs : watch'[s] \in {"idle", watch[s]}
          /\ replies' \in 0..MaxReplies
      BY <1>4 DEF WatcherPublishes, Watches, Inv, GovernTypeOK
    <3>2. UNCHANGED <<status, approved, trail, told, answer, active, shown, req>>
      BY <1>4 DEF WatcherPublishes, Watches
    <3> QED
      BY <2>2, <3>1, <3>2, EventKeeps
  <2> QED
    BY <1>4, <2>1, <2>2 DEF WatcherPublishes
<1> QED
  BY <1>1, <1>2, <1>3, <1>4 DEF Watcher

LEMMA InitInv == GovernInit => Inv
<1> SUFFICES ASSUME GovernInit PROVE Inv
  OBVIOUS
<1>1. \A q \in Requests :
        req[q] = [kind |-> "start", run |-> Nothing, at |-> "idle", saw |-> Nothing]
  BY DEF GovernInit
<1>2. GovernTypeOK
  <2>1. req \in [Requests -> Asked]
    BY DEF GovernInit, Asked, Kinds, Stages, Over
  <2>2. trail \in [Runs -> Seq(Transition)] /\ log \in [Runs -> Seq(Events)]
    BY DEF GovernInit
  <2>3. replies \in 0..MaxReplies
    BY Constants DEF GovernInit
  <2> QED
    BY <2>1, <2>2, <2>3 DEF GovernInit, GovernTypeOK, Asked, Transition, Statuses
<1>3. ReqInv
  BY <1>1 DEF ReqInv, Sane, Over
<1>4. StartInv
  BY <1>1 DEF StartInv, At
<1>5. ApprovalInv /\ ShownAnswersAreOwed
  BY <1>1 DEF GovernInit, ApprovalInv, ShownAnswersAreOwed
<1>6. OrphanInv /\ WatchInv
  BY DEF GovernInit, OrphanInv, WatchInv
<1> QED
  BY <1>2, <1>3, <1>4, <1>5, <1>6 DEF Inv

LEMMA StepInv == Inv /\ [GovernNext]_governVars => Inv'
<1> SUFFICES ASSUME Inv, [GovernNext]_governVars PROVE Inv'
  OBVIOUS
<1>1. ASSUME NEW q \in Requests, User(q) PROVE Inv'
  BY <1>1, UserType, UserReq, UserStart, UserKeeps DEF Inv
<1>2. ASSUME NEW q \in Requests, Route(q) PROVE Inv'
  BY <1>2, RouteType, RouteReq, MoveStart, MoveApproval, MoveOrphan, MoveShown, MoveWatch DEF Inv
<1>3. ASSUME NEW q \in Requests, HubCall(q) \/ Fail(q) PROVE Inv'
  BY <1>3, HubType, HubReq, MoveStart, MoveApproval, MoveOrphan, MoveShown, MoveWatch DEF Inv
<1>4. ASSUME NEW r \in Runs, Watcher(r) PROVE Inv'
  BY <1>4, WatcherKeeps
<1>5. CASE Reload
  BY <1>5, ReloadKeeps
<1>6. CASE Reply
  <2>1. /\ active \in Runs /\ replies' \in 0..MaxReplies
        /\ watch' \in [Runs -> {"idle", "write", "publish"}]
        /\ \A s \in Runs : watch'[s] \in {"idle", watch[s]}
    BY <1>6, Constants DEF Reply, Inv, GovernTypeOK
  <2> QED
    BY <1>6, <2>1, EventKeeps DEF Reply, database
<1>7. CASE UNCHANGED governVars
  <2>1. UNCHANGED <<status, approved, trail, log, told, answer, shown, active, replies, watch, req>>
    BY <1>7 DEF governVars
  <2>2. \A r : Noted(r) <=> Noted(r)'
    BY <2>1 DEF Noted
  <2>3. GovernTypeOK' /\ ReqInv' /\ StartInv' /\ ShownAnswersAreOwed' /\ WatchInv'
    BY <2>1 DEF Inv, GovernTypeOK, ReqInv, StartInv, At, ShownAnswersAreOwed, WatchInv
  <2>4. ApprovalInv'
    BY <2>1, <2>2 DEF Inv, ApprovalInv, Noted
  <2>5. OrphanInv'
    BY <2>1 DEF Inv, OrphanInv, Flipped, At
  <2> QED
    BY <2>3, <2>4, <2>5 DEF Inv
<1> QED
  BY <1>1, <1>2, <1>3, <1>4, <1>5, <1>6, <1>7 DEF GovernNext

\* The inductive invariant holds of every behaviour.
THEOREM GovernanceInvariant == GovernSpec => []Inv
<1>1. GovernInit => Inv
  BY InitInv
<1>2. Inv /\ [GovernNext]_governVars => Inv'
  BY StepInv
<1> QED
  BY <1>1, <1>2, PTL DEF GovernSpec

-----------------------------------------------------------------------------
(* What follows.                                                            *)

\* Type correctness of the routes' and the hub's state.
THEOREM GovernTypeCorrect == GovernSpec => []GovernTypeOK
<1>1. Inv => GovernTypeOK
  BY DEF Inv
<1> QED
  BY <1>1, GovernanceInvariant, PTL

\* The approve route and handleRunApprove keep their order whatever else
\* happens: Mo is told after the plan and the trail are written, and the hub
\* stores the approval after Mo was told.
THEOREM ApprovalOrdered == GovernSpec => []ToldAfterApproval
<1>1. Inv => ToldAfterApproval
  BY DEF Inv, ApprovalInv, ToldAfterApproval, Noted
<1> QED
  BY <1>1, GovernanceInvariant, PTL

\* A run left executing with nothing on record has a request that is busy or
\* failed, or a continue, to show for it.
THEOREM OrphansExplained == GovernSpec => []OrphanBehindFailure
<1>1. Inv => OrphanBehindFailure
  <2> SUFFICES ASSUME Inv, NEW r \in Runs, status[r] = "executing", log[r] = <<>>
               PROVE  \E q \in Requests : /\ req[q].run = r
                                          /\ \/ Underway(q) \/ req[q].at = "failed"
                                             \/ At(q, "continue", "done")
    BY DEF OrphanBehindFailure
  <2>1. PICK q \in Requests : Flipped(q, r)
    BY DEF Inv, OrphanInv
  <2> QED
    BY <2>1 DEF Flipped, Underway, Over
<1> QED
  BY <1>1, GovernanceInvariant, PTL

\* What the transcript shows as answered is stored, on its way, or failed.
THEOREM AnswersOwed == GovernSpec => []ShownAnswersAreOwed
<1>1. Inv => ShownAnswersAreOwed
  BY DEF Inv
<1> QED
  BY <1>1, GovernanceInvariant, PTL

\* A run leaves 'cancelled' for 'executing' by a continue or a message, or by
\* an approval that had read 'planned'; and for 'completed' by a worker that had
\* read a status it may end.  Nothing else takes it out.
THEOREM CancelledLeftByARace == GovernSpec => CancelledIsLeftByARace
<1> DEFINE Revived(r) ==
              /\ status'[r] = "executing"
              /\ \E q \in Requests :
                    /\ req[q].run = r /\ req[q].at = "write" /\ req'[q].at # "write"
                    /\ \/ req[q].kind \in {"continue", "message"}
                       \/ req[q].kind = "approve" /\ req[q].saw = "planned"
           Completed(r) == status'[r] = "completed" /\ watch[r] = "write"
<1>1. ASSUME Inv, GovernNext, NEW r \in Runs, status[r] = "cancelled", status'[r] # "cancelled"
      PROVE  Revived(r) \/ Completed(r)
  <2>1. ASSUME NEW q \in Requests, User(q) PROVE FALSE
    BY <1>1, <2>1, UserMoves DEF Inv, database
  <2>2. ~Reload /\ ~Reply
    BY <1>1 DEF Reload, Reply, database
  <2>3. ASSUME NEW s \in Runs, Watcher(s) PROVE Completed(r)
    BY <1>1, <2>3 DEF Watcher, WatcherSelects, WatcherWrites, WatcherPublishes, WatcherFails,
       Inv, GovernTypeOK
  <2>4. ASSUME NEW q \in Requests, Route(q) \/ HubCall(q) \/ Fail(q) PROVE Revived(r)
    <3>1. req[q].run = r
      BY <1>1, <2>4, StatusMoves DEF Inv, GovernTypeOK
    <3>2. CreateRun(q) \/ FlipsUnasked(q) \/ ApproveFlips(q) \/ StopFlips(q)
      BY <1>1, <2>4 DEF Route, CreateRun, ReadRound, QueueMessage, FlipsUnasked, AssertTransition,
         ApproveFlips, ApprovePlan, ApproveTrail, StopFlips, StopTrail, ReadQuestion, SaveAnswer,
         HubCall, SetActiveRun, StorePrompt, TellMo, StoreApproved, StoreExecuting,
         StoreCancelled, ClearActiveRun, RefuseAnswer, Fail, database
    <3>3. req'[q].at \in {"hub", "plan", "trail"}
      BY <3>2, StageFacts, GoesFacts, <1>1 DEF Inv, Stages
    <3>4. ~StopFlips(q)
      BY <1>1, <3>1 DEF StopFlips, Inv, GovernTypeOK
    <3>5. ~CreateRun(q)
      BY <1>1, <3>1 DEF CreateRun, Inv, StartInv
    <3>6. status'[r] = "executing"
      BY <1>1, <3>1, <3>2, <3>4, <3>5 DEF FlipsUnasked, ApproveFlips, Inv, GovernTypeOK
    <3>7. req[q].kind = "approve" /\ req[q].at = "write" => req[q].saw = "planned"
      BY <1>1 DEF Inv, ReqInv, Sane, Over
    <3> QED
      BY <3>1, <3>2, <3>3, <3>4, <3>5, <3>6, <3>7 DEF FlipsUnasked, ApproveFlips, At
  <2> QED
    BY <1>1, <2>1, <2>2, <2>3, <2>4 DEF GovernNext
<1>2. ASSUME Inv, [GovernNext]_governVars
      PROVE  [\A r \in Runs : status[r] = "cancelled" /\ status'[r] # "cancelled" =>
                 \/ /\ status'[r] = "executing"
                    /\ \E q \in Requests :
                          /\ req[q].run = r /\ req[q].at = "write" /\ req'[q].at # "write"
                          /\ \/ req[q].kind \in {"continue", "message"}
                             \/ req[q].kind = "approve" /\ req[q].saw = "planned"
                 \/ status'[r] = "completed" /\ watch[r] = "write"]_governVars
  BY <1>1, <1>2
<1> QED
  BY <1>2, GovernanceInvariant, PTL DEF GovernSpec, CancelledIsLeftByARace

=============================================================================

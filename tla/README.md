# Beaglemind in TLA+

Beaglemind is a console in which a user talks to a round-table of AI agents.
A Next.js web app (`apps/web`) takes the user's messages; an agent hub
(`apps/agent-hub`) asks the agents, numbers and stores what they say, and
broadcasts it over Redis; a worker (`apps/worker`) completes runs that have
fallen silent. This directory models those three processes around a live run,
the browser's view of it and the composer the user writes in, the hub's WebSocket
connections, and the parts of the console around the run: governing it, the four
views, share links, history, preferences, notifications, rate limits and the
tenants themselves. The models are model-checked with TLC, and every safety and
action property that a passing run checks is also proved with TLAPS, for all values
of the constants.

All paths below are relative to `src/` of this project.

## 1. Inventory

| Component (code) | State it keeps | Operations | Talks to |
|---|---|---|---|
| Event numbering and store (`agent-hub/src/events`) | `SequenceCounter.counters` (memory), the `events` table with the unique index `events_run_seq_idx` | `next`, `reset`, `persist`, `list` | Postgres |
| Message router, Redis publisher (`agent-hub/src/handlers/message-router.ts`, `bridge/`) | none of its own | `persistAndPublish`, `handleAgentMessage`, `touchLastEventAtAndReschedule` | store, Redis, BullMQ |
| Round-table (`agent-hub/src/http/routes.ts`) | loop counters, history block, in-run transcript (all in memory); `runs.current_round`; the `queuedForNextRound` flag of event rows | `handleRunStart`, `runRoundTable`, `consumeQueuedMessages`, `handleRunStop`, `handleRunApprove`, `handleQuestionAnswer`, `handleSend` | router, bridges, Postgres |
| Idle-timeout scheduler and worker (`handlers/idle-timeout-scheduler.ts`, `apps/worker`) | one BullMQ delayed job per run; `runs.status` | `schedule` (remove + add), `processIdleTimeout`, `publishStateTransition` | BullMQ, Postgres, Redis |
| Run routes (`apps/web/app/api/runs`) | `runs.status`, queued event rows | `POST runs`, `messages`, `continue`, `stop` | Postgres, hub over HTTP |
| SSE stream (`runs/[id]/stream/route.ts`) | the connection | replay, subscribe | Postgres, Redis |
| Run store (`apps/web/lib/stores/run-store.ts`, `hooks/use-sse.ts`) | events in order, last sequence, status, thinking agent, scenes | `initRun`, `appendEvent`, `syncStatusFromApi` | EventSource |
| Agent WebSocket connections (`agent-hub/src/connections/managed-connection.ts`) | socket, three timers, reconnect counter, outbound queue | `connect`, socket events, ping/pong, `send`, `close` | agents |
| Agent bridges (`connections/*-bridge.ts`) | none | one call per agent and round, hard timeout 250 s | SSH, model APIs |
| Message composer, rewrite popover (`apps/web/components/transcript/composer.tsx`, `improve-prompt-popover.tsx`) | draft, chips with their uploads, the last mutation, the popover's fetch | `handleFiles`, `removeAttachment`, `handleSend`, the rewrite | attachments, messages and improve-prompt routes |
| Approvals, questions (`runs/[id]/approve`, `questions/[qid]/answer`, the cards) | `plans`, `questions`, `state_transitions` rows; the card's optimistic answer; the hub's `activeRunId` | `approve`, `answer`, `handleRunApprove`, `handleQuestionAnswer`, `setActiveRun` | hub |
| Run views (`components/run-views`, `components/replay`) | Timeline: selection, playback; Canvas: artifact; the display mode | folds, columns, cells, play, scrub, mode and tab changes | run store |
| Rate limits (`apps/web/lib/*-rate-limit.ts`) | a sliding window per user, in the process's memory | check | upload and improve-prompt routes |
| Sharing and replay (`share-links`, `replay/[token]`) | `share_links` rows; the dialog's and the table's state | create, list, revoke, view | Postgres |
| Operator access (`operator/break-glass`) and previews | `break_glass_audit` rows; the page's and the viewer's state | request, list, expire, view runs; preview an artifact | Postgres, object store |
| Run history (`runs/history`) | filters, debounced search, offset, react-query's answers | type, toggle, load more | Postgres |
| Preferences (`api/me/preferences`, settings page) | `users.preferences`, the query, the store, one timer per field | GET, PATCH, commit, leave | Postgres |
| Push notifications (`push/`, `agent-hub/src/push`) | `push_subscriptions` rows, the browser's subscription, one banner per tab | subscribe, register, fan out, delete stale rows | push service |
| Onboarding and migrations (`packages/db`, `scripts`, invitations) | `shared.*` rows, schemas, buckets, members | provision, invite, accept, migrate all tenants | Postgres, MinIO, Better Auth |
| Pure functions (`presence.ts`, `run-metadata.ts`, timeline positions, scenes) | - | formatting and layout | - |
| Projects, digest, audit log, operator statistics, vault resolver | single rows each | one insert or read | Postgres |

What is hard about this system, and where it bites, is the list `hazards` in
`PROJECT.json`. In short:

- **Three writers number the same log.** The hub counts in memory; the queue
  branch of the messages route and the worker read `MAX + 1`. Every `await`
  between reading a number and inserting with it is a point where another writer
  may come first, and the hub may be restarted at any of them.
- **A run's status and current round have four writers**, none of which locks:
  web routes, round-tables (several may overlap), the worker, and nobody after a
  crash.
- **Queued messages** are listed and unflagged by two statements.
- **The only thing that ends a silent run** is one BullMQ job that every event
  removes and adds again; each half may fail, and BullMQ refuses both while the
  job is being processed.
- **The browser** combines a replay, a subscription, automatic reconnects and a
  high-water mark.
- **The WebSocket** mixes three timers, socket events and shutdown.
- **The composer** has uploads, sends and rewrites under way at once, whose
  answers change a draft the user goes on editing.
- **Routes are several statements** without a transaction, followed by a call of
  the hub: a run is inserted, a plan approved or an answer saved before anyone
  knows whether the hub will act on it.
- **Panels do not cancel** what they asked for, show a change before the server
  made it (share table, answer cards, preferences), or wait for a timer before
  they send it (search, preferences).
- **Scripts and requests build tenants** while other scripts walk over all of
  them; either may stop between any two writes.

What makes each correct: the log only grows and nothing is broadcast that is not
stored; an executing run is watched; a non-null current round means a round is
running; no agent is shown a message twice; the transcript shown is sorted,
stored and complete up to named causes; agent messages leave in order, over one
socket; a message carries the text and files the user saw, stored and within the
limit. Around the run: an approval reaches the agents after it is on record; every
message has exactly one place in each view; a link shown as revoked is shut; paging
and playback skip nothing; what was chosen is what is stored; a limiter is exact;
an account is served its own tenant.

## 2. Modules

| Module | Role |
|---|---|
| `AppendOnlyLog` | abstract: a log that only grows, a feed of what is in it, acknowledgements |
| `EventLog` | numbering, storing and publishing the events of one run |
| `EventLogProofs` | the theorems about `EventLog`, among them that it implements `AppendOnlyLog` |
| `RunLifecycle` | web routes, round-tables, the idle job and the worker on one run |
| `RunLifecycleProofs` | the theorems about `RunLifecycle` |
| `LiveStream` | the SSE route and the run store of one browser |
| `LiveStreamProofs` | the theorems about `LiveStream` |
| `ManagedConnection` | one WebSocket with its timers and queue |
| `ManagedConnectionProofs` | the theorems about `ManagedConnection` |
| `Composer` | the message composer, its uploads and sends, and the rewrite popover |
| `ComposerProofs` | the theorems about `Composer` |
| `Governance`, `GovernanceProofs` | start, continue, approve, stop and answer: routes, hub, cards; theorems |
| `RunViews` | Writers' Room, replay page, Timeline, Boardroom and Canvas of one run |
| `Sharing` | the share dialog, the table of links, the replay page |
| `History` | the run history page, its two queries and its cache |
| `Panels` | artifact preview; break-glass page and its viewer |
| `Settings` | preferences from the page to the row and back |
| `Push` | subscriptions in the browser, their rows, the fan-out |
| `Limits` | the two sliding-window rate limiters |
| `Onboarding` | provisioning, invitations, the tenant served, migrations over all tenants |
| `AccountProofs` | the theorems about `Limits`, `Settings`, `Push` and `Onboarding` |
| `MCEventLog`, `MCRunLifecycle`, `MCLiveStream`, `MCComposer`, `MCSettings` | constants and symmetry for TLC |
| `MCConsole` | composes the nine modules above from `Governance` to `Onboarding` |
| `ConsoleProofs` | the theorems about `RunViews`, `Sharing`, `History`, `Panels` and the composition |

A definition named "Variant" in a comment is a mutated form of the definition it
precedes; no specification uses it. It records which mistake in the code a
property would catch.

### EventLog

A *hub task* is any chain of awaits in the hub that calls `persistAndPublish`.
`SequenceCounter.next` is split at its one await: `NextWarm` (cached counter,
get and set without an await), or `NextCold`, `SeedRead` (the query, an error of
which is read as 0) and `SeedSet` (the continuation, which overwrites whatever
the Map holds by then). `HubInsert`/`HubInsertThrows` is the INSERT,
`HubPublish`/`HubPublishThrows` the PUBLISH. *Queue writers* are requests in the
queue branch of `POST messages` (read, insert, one retry); *watchers* are
executions of the worker's `publishStateTransition`. A failing statement may or
may not have taken effect. `ClearActiveRun` is the counter reset a stop request
causes; `HubRestart` loses the Map and every task. `acked`, `collided` and
`overlap` are history variables.

`overlap` becomes true when a cold counter is seeded while another hub task is
in flight, or when the seed query fails. The code has no protection for that
case, so the three properties about collisions are stated for histories without
it; `RowPerTry` and `ImplementsLog` hold with it, too. `RowPerTry` says what the
comment "we retry once on collision" (`messages/route.ts:90`) comes to when the first
insert took effect and only its answer was lost: two rows of one message, never three,
and of every other event never two.

### RunLifecycle

A start request (message or continue) and the round-table it spawns are one
thread, `pc[r]`: `new`, `queue` and `retry` or `flip`, `start`, then in the hub `load`
(history block), `round` (write `current_round`), `list` and `clear`
(`consumeQueuedMessages`), `ask`, `answer`, `next`, `over`. A message may have two
event rows, because `MessageQueue` may leave one and `MessageQueueAgain` inserts
another: `row[<<m, n>>]` is the row of its n-th attempt, `none`, `plain`, `queued`
(flag set) or `cleared` (flag removed). So `NoRowTwiceInAPrompt` is about rows: it
says that a queued message is in a prompt twice only where that retry stored it
twice. The job is `none`, `delayed` or `active`; while it is active, `Arm` is
impossible and `ArmIgnored` takes its place, as BullMQ neither removes nor
re-adds a locked job. The worker's job is four steps: read status, update,
publish, finish. `LongRun` says whether the run is longer than the windows (30
rows for history, 100 for queued rows) of the hub's queries: then a query shows
any subset of the rows it asks for.

`lapse` records that the latest attempt to arm the idle job was lost, and
`strayRound` that a round-table disappeared (or could not write) while
`current_round` was set. The properties that mention them say that these
failures are the *only* ways to get there.

### LiveStream

The writers are reduced to what `EventLog` lets them do: numbers get rows in any
order, are published after that or never. The SSE connection goes `open`
(replay), `subscribing`, `live`; a publish reaches it only when live. `Receive`
is `onmessage` with all of `appendEvent`: the thinking slice, then the
high-water test, then order, last sequence and status (any of the six of `RunStatus`;
the hub emits `approved`, too, and round markers change nothing). `gap` collects numbers
published while the stream was subscribing, `late` those stored or published
after a higher one.

### ManagedConnection

One step per callback. The `ws` library is external: a socket that fails, is
closed or terminated emits `close` once. Sockets are numbered; `pingedSocket`
remembers for which one the pong timeout was armed. `PingOverlaps` says whether
the pong timeout can outlast the ping interval (the defaults are 10 s and 15 s,
so it cannot).

### Composer

One step per event handler, effect or settled promise. A draft is a number, new
for each change of the text and 0 when blank; a file stands for one pick of it.
`chip[f]` is the chip's status, `upload[f]` the request behind it, which lives on
when the chip is removed. `send[n]` is the n-th mutation; react-query (external)
reports `isPending` and calls `onSuccess` for the last one only, hence `n = sent`
in `SendSettles`. `SetInput` is every `setInput` together with the popover's
effect, which depends on the draft: it cancels the fetch in flight and asks
again, or shows an error when the draft is blank. A request that fails may have
stored its row. `HandleSend(byKey)` has the guard of the button only when it is
not the Enter key. `touched` is a history variable: the user changed the draft or
the chips since the last send.

### Governance

A request is a record: what it asks for, of which run, its stage, and what its
SELECT saw. `CreateRun`, `ReadRound`, `QueueMessage`, `FlipsUnasked` (continue and
messages, which do not look at the status), `AssertTransition`, `ApproveFlips`,
`ApprovePlan`, `ApproveTrail`, `StopFlips`, `StopTrail`, `ReadQuestion` and
`SaveAnswer` are the statements of the web routes; `SetActiveRun` to
`RefuseAnswer` are the hub's handlers; `Fail` ends any of them. The status a route
checked is kept in `saw`, because another request may write between check and
update. The idle-timeout worker is `WatcherSelects`, `WatcherWrites` and
`WatcherPublishes`, per run: its UPDATE does not ask again, so it is one of the ways
out of `cancelled` that `CancelledIsLeftByARace` lists. Its job is armed by any stored
event; when it fires is `RunLifecycle`'s. `shown` is the questions the transcript's card shows as
answered, which it does before it asks; the phone's card has a flag of its own,
and a reload shows neither, because the stored event lacks the answer. The hub refuses every
answer (`RefuseAnswer`): the client sends no `agentId`. Runs that are `planned`
and question rows exist from the beginning, because no code here makes them.

### RunViews

An event is its place in `vKinds`. `collapsibleRanges`, `replayRanges`, `columns`,
`cells`, `visible` and `playheadSeq` are the views' computations over it, written
from each component's own loop or filter (the two fold detections are one loop
over different events). `Tick` is the playback interval (with the stop at
the end), `PressPlay`, `ClickDot`, `Scrub`, `CloseDetail`, `ChooseArtifact`,
`ToggleMode` and `SwitchTab` the controls, `Arrive` a new event, and `Resync` the
Canvas's effect that follows any of them. `vPlayed` is a history variable: what an
undisturbed playback has shown.

### Sharing

Each call is sent, acted on and answered in separate steps; the act or the answer
may be lost. `Generates` is the dialog's effect, which runs when open, link,
loading or error change. `HandleRevoke` shows the row as revoked before it asks;
a failed DELETE fetches the list again. The replay page reads the link, then the
run's events, and shows what it read although the link may be revoked meanwhile.

### History

`RowsAt` and `CountRows` are the route's page query and count query, two
statements between which runs are created and finish. `Shows` is the cache: an
offset that has an answer younger than 30 s is not asked for again. `Debounce` is
the 300 ms timer of the search field; a change of filter resets the offset.

### Panels

`ArtifactPreviewInline` and the run viewer fetch what is chosen and take whatever
arrives; `pOverlap` and `bOverlap` record that two of their requests were under
way together. `CheckGrant` and `InsertGrant` are the two statements of the
break-glass route, and `bRaced` records that two requests were between them.

### Settings

`Commit` sets one timer per field, `Mutate` is a timer that fires (store changed,
PATCH sent), `LeaveSettings` the unmount, which clears the timers. The PATCH
route is `ReadPreferences`, `WritePreferences`; its answer, its failure and the
GET replace the query's data, and `Mirrors` is the effect that copies changed
data to the store. `uTangled` records that requests overlapped or one failed.

### Push

A tab's banner asks for permission, subscribes the browser and registers the
subscription; the tab may be reloaded at any step, the registration be lost, and
the push service may drop the subscription. A fan-out reads the rows, then settles
them one by one; `DeleteStale` removes a row answered by 410. The push service
answers 410 only for endpoints it dropped.

### Limits

Accepted calls are numbered, so that a limiter's list of times is a set of
numbers; `recent` is the filter both limiters apply before they count. `RestartWeb`
empties the map, which is why the property is about one life of the process:
`accepted` is emptied with it. `now` is assumed not to go back.

### Onboarding

Every write is an action, in the order of `provisionTenant`, of the script around
it and of the invitation route. A *sign-up* is an invitation and what its page asks of
the route (`Invite`, `SubmitInvite`), a call of the route with an email that no
invitation stands behind (`SubmitUninvited`: the route signs the email up first and the
acceptance fails then), or, when `ALLOW_SIGNUP` is set, one at Better Auth's own
endpoint (`SignUpPublicly`), which belongs to no organization.
`ProvisionFails` and `JoinFails` stop scripts and calls anywhere, leaving what was
written. `tenantsServed` is what `requireTenantContext` makes of a
session. A tenant's tables are created later (`CreateTables`) and the migration lists
the organizations once, then alters each. Schema names are spelled with hyphens by
provisioning and `migrate.ts`, with underscores by the numbered migrations and the app, so `schemas` keeps
the spelling; being served means the membership a session is resolved by, and does not
say that the tenant's tables are there (`CreateTables` makes them later).

### MCConsole

The nine parts share no state, so their composition lets one of them, `focus`,
move while the others rest: TLC explores the sum of their state spaces and not the
product, and an invariant of one part means in the sum what it means in the product.
`VIEW Moving` leaves the resting parts out of the fingerprint. Initial values that a
part leaves open are left open only for the part that moves. `CONSTRAINT InOrder`
takes runs, requests, links, grants, endpoints, sign-ups and tenants into use in the order of their
numbers, and lets the first script be of the first slug and email, which loses
nothing: no part tells one unused number, slug or email from another. The run takes
about three minutes.

## 3. Runs

| Run | Instance | Result and what it shows |
|---|---|---|
| `event_log` | two hub tasks (one with two events), a queue writer, a watcher | passes: `RowPerTry`, `CollisionHasForeignCause`, `OneLossPerForeignRow`, `TaskOrderKept`, `ImplementsLog` |
| `run_lifecycle` | a message of up to two rows, two continues, three rounds, windows that overflow | passes: `QuietRunIsWatched`, `RoundFieldIsOwned`, `NoRowTwiceInAPrompt` |
| `run_liveness` | a message, a continue, a stop, two rounds of two agents, fair | passes: `ExecutingEnds`, `RequestsEnd` |
| `run_cancel` | a message and a stop | violates `WatcherSparesCancelled`: check and update of the worker are not atomic |
| `run_stranded` | two messages, three rounds | violates `QueuedForARound`: a message queued in the last round waits for nobody |
| `live_stream` | three events of two agents, two visits or breaks | passes: `TranscriptSorted`, `NoUnexplainedGap`, `ReloadShowsAll`, `StatusIsLatest`, `IndicatorAgrees` |
| `live_gap` | one event, one visit | violates `GapFree`: replay before subscribe leaves a gap |
| `managed_connection` | queue of two, four messages, three sockets, fair | passes: order, drop policy, timeouts, shutdown, settling |
| `composer` | three files of which two fit, two drafts, two sends, two rewrites | passes: `SendsAreAcceptable`, `ClearingIsOfWhatWasSent`, `RewriteIsOfDraft` |
| `console` | the nine parts of `MCConsole`, one moving at a time | passes: the 17 properties below |
| `orphan_run` | one start request | violates `NoOrphanRun`: the run stays when the hub cannot be reached |
| `settings_lost` | one change on the settings page | violates `NavigationStillFires`: leaving drops the change |

What `console` checks, part by part:

| Part | Property | Shows |
|---|---|---|
| all | `TypesOK` | the type invariant of each part |
| `Governance` | `ToldAfterApproval` | Mo is told to proceed only after plan and trail record the approval; the event comes after |
| | `CancelledIsLeftByARace` | a cancelled run is revived only by a continue, a message or an approval that read `planned` before the stop, and completed only by a worker that read it before |
| | `OrphanBehindFailure` | an executing run without events has a busy or failed request behind it, or a continue |
| | `ShownAnswersAreOwed` | an answer shown is stored, or its request is under way or failed |
| `RunViews` | `EveryMessageHasItsPlace` | folds, columns and cells against their definition; nothing hidden, nothing twice |
| | `PlaybackShowsAll` | undisturbed playback shows every event, late arrivals included |
| `Sharing` | `RevokedShownIsShut` | a link shown as revoked is revoked, up to calls under way or lost |
| | `OneLinkPerOpening` | the dialog's effect makes at most one link per opening and never hangs empty |
| `History` | `LoadMoreShowsAll` | paging by offset shows everything that matched at the start, with runs created meanwhile |
| `Panels` | `PanelsShowWhatIsChosen` | a panel shows what is chosen, unless two of its requests overlapped |
| | `OneSessionAtATime` | one break-glass session per operator and tenant, unless two requests raced |
| `Settings` | `SequentialChangesKept` | row, query and store agree with what was sent, unless requests overlapped or failed |
| `Push` | `SubscribedIsStored` | a browser's subscription has its row, whatever the fan-outs delete |
| `Limits` | `LimitIsExact` | never more than the limit in a window, and no refusal below it |
| `Onboarding` | `NewUsersAreServed` | who was told that he is in is served his tenant and no other; an account that is served none came by the public sign-up or is left by a failed or unfinished script or call |
| | `GoodTenantsAreMigrated` | a failing tenant does not keep a migration from the others |

The properties with an "unless" name a race or a failure the code has no answer
to; they say that nothing else leads there. Type invariants, `ShownIsStored` and
`OneSocket` of the five core modules are theorems (section 4) and are not
repeated by runs.

Why the bounds are enough. Event numbering: a collision takes two writers, a
wrong order two events of one task and a foreign row between them, a double
collision a second hub task; the theorems cover every other size. Round-tables:
the flag protocol needs a row listed in round 2 and one in round 3 (hence three
rounds), which the two rows of a message whose insert was retried are; an overlap
needs two starts (the continues), and a stale reading of `current_round` one request
more (the message, which may also start a third round-table); two messages are in
`run_stranded`. With `AgentCount = 1` in the larger run the
agent loop is a single pass; `run_liveness` has two agents. Stream: a late row,
a gap and a regular row are three numbers; two visits allow one reconnect from a
position that lags. Connection: the queue overflows with three messages on a
queue of two, and a fourth is sent after the flush; three sockets give two
reconnects. Composer: the limit is passed by two batches of different sizes (three
files, two fit), a stale rewrite takes two fetches and two drafts, an overlap two
sends. Console: the races of `Governance` are of two requests about one run, and a
second run shows that an event may be filed under the wrong one; a fold takes four
messages and something before it (five events); revocations, openings, break-glass
requests, panel requests and PATCHes race in pairs; three runs in pages of one make
the last page shift by a run created meanwhile; a subscription replaced while
a fan-out is under way takes two endpoints and two tabs; two calls in three ticks,
over nine ticks, let the window slide past its edge three times; a failing tenant
and a good one are two, and two slugs and two emails let them share either, as two
sign-ups may share an email with each other and with a script.

Symmetry is used for messages, agents and files in runs that check invariants only.
`CHECK_DEADLOCK FALSE`: every instance may come to rest when its bounded
requests are done.

Bounds in the models: `MaxOps` (events per process), `MaxSeq`, `MaxVisits`,
`MaxSends`, `MaxSockets`, `MaxEdits`, `MaxFetches`, `MaxReplies`, `MaxEvents`,
`MaxOpenings`, `MaxHistory`, `Finishing` (runs that finish while the history is open),
`MaxChanges`, `LastTime`, and at most one stray pong timeout at a time. The variable
`round` is bounded by the code itself, and requests, links, endpoints and tenants by
the sets they are taken from.

### Fairness

`RunLifecycle`: weak fairness of each request's and each round-table's next step
(a Node process runs its continuations; every bridge call has a hard timeout,
`agent-hub/src/connections/openclaw-cli-bridge.ts:60-110`), of the delayed job
becoming due (BullMQ) and of the worker's steps. None for users, failures or
restarts. `ManagedConnection`: connection attempts settle, closing sockets
emit `close`, the reconnect timer fires. The safety runs assume no fairness.

## 4. Proofs

All theorems hold for every value of the constants that satisfies the named
assumptions of the module.

**EventLog** (`EventLogProofs`). `TypeOK` is inductive by itself. The rest
follows from `Inv == StoreInv /\ (~overlap => Sound)`. `StoreInv` adds to
`RowPerTry` what makes it inductive: rows are pairwise of different numbers, the
current event of a queue writer has at most one row in its second attempt
(`TryInv`), another process about to insert has no row of its current event yet, one about to
publish has its row in the table and not on the channel. `Sound` is about
numbers: every number reserved by a hub task, and every number of a hub row, is
at most the counter (or, while the counter is being seeded, that task is alone);
reservations are pairwise different; collided numbers are spent and held by a
foreign row. It needs `~overlap`, because a second seed may set the counter
back. Each action either leaves the hub's numbers untouched (`UntouchedStep`) or
has a lemma of its own. `PipelineImplementsLog` shows that every step is `Store`,
`Broadcast` or a stutter of `AppendOnlyLog`, from `Inv`.

**RunLifecycle** (`RunLifecycleProofs`). `RoundFieldIsOwned` is inductive
together with `TypeOK`: only `BeginRound` sets the field, its round-table is in
flight then, and a round-table leaves through `ExitTable`, which clears the
field, or through a failure that sets `strayRound`. `QuietRunIsWatched` is not:
between two steps of a round-table nothing may be armed, so `DebtInv` says who
will arm it. As long as the run is executing, the job is gone (or the watcher
is past its update) and nothing was lost, some request still *owes* an emission,
each of which re-arms the job. `JobInv` ties the active job to the worker's
step. The third theorem, `PromptsDoNotRepeat`, needs two facts about rows that
no single prompt shows: `RowInv` (when a message has a row, and which of its two) and, per round-table,
`BlockInv`: the history block takes rows without a flag only, blocks only rows
that were once queued, and, unless a flag update failed, what is in a block has
lost its flag, so no later round can list it. `RowsGrow` supplies that rows only
move forward.

Two of its runs refute what a comment promises; two theorems say that nothing else
does. `OnlyTheRaceCompletes`: in a behaviour in which no stop is written between the
worker's SELECT and its UPDATE (`StopSlipsIn`), the worker completes no cancelled run;
the invariant is `ReadingHolds`, that what it read is still so when it writes.
`NoneStaysFlagged`: if every message is flagged while a list is ahead (`QueuedInTime`),
no round-table is lost and no flag update fails (`HubWorks`), and the run fits the
windows of the queries, then no message is flagged once all is quiet. Its invariant
`FlaggedIsCleared` names a round-table that will list what is flagged or is about to
clear it; the one that just found nothing needs no successor, because then nothing was
flagged. Both invariants held on TLC's instances under those conditions first.

**LiveStream** (`LiveStreamProofs`). `Inv` adds to the properties: everything on
the wire, shown or replayed has a row (`StoredInv`); the high-water mark bounds
the transcript (`OrderInv`), which makes `TranscriptSorted` inductive; and for
`ReloadShowsAll` the notion of a row being `Due`: it is above the high-water mark
and has a place on the wire behind lower numbers only. A frame that is received
moves every due row one place forward and cannot push the mark past it; live
messages join behind. `StatusIsLatest` needs that the transition appended is the
highest of the transcript, and that no event has the status `pending`, so the
API's answer is taken only while the transcript holds no status.

**ManagedConnection** (`ManagedConnectionProofs`). `QueueInv`: the queue holds
the latest messages without a hole and is empty while the socket is open.
`MailInv` says the rest is delivered, in order, or dropped. `SocketInv` says in
which states of the socket each timer may be set. From these follow order, drop
policy, `OneSocket`, `TimeoutHitsItsSocket` and, as an action property,
`ClosedStaysClosed`, for every queue capacity. The bounds of the model on
messages, sockets and stray pong timeouts (one at a time) are part of what is
proved.

**Composer** (`ComposerProofs`). `Inv` has one part per thing that is under way.
`FilesInv`: what may become part of a send (a ready chip, an upload answered with
success) has a row. `DraftInv`: a send leaves no chip uploading, so until the user
acts no answer can change what the composer holds. `RewriteInv`: the live fetch
is for the current draft and nothing else is shown without an error; when the
draft becomes blank there is no live fetch but an error. `BatchFits` and
`FewerFit` are about the size of the chip stack.

**Governance** (`GovernanceProofs`). The properties follow from an inductive `Inv`,
one part per kind of history a request leaves. `ReqInv` (`Sane`): a request is at a
stage its route has, and what it saw fits the stage. `StartInv`: a run has one start,
and no row before it. `ApprovalInv` says per stage what an approval has already put
on record, which `ToldAfterApproval` alone does not: between two statements the
plan is approved and Mo not told. `OrphanInv`: an executing run without events has
the request that flipped it, at a stage before its first event or failed. Each route
step is a lemma over the stages it connects. `CancelledLeftByARace` is the action
property: of the three writers of the status that do not check, or no longer, each step
is one of the cases it names.

**Limits** (`AccountProofs`). `UserInv` relates a user's whole history of accepted
calls to the list the limiter keeps: times are in order, and what is no longer listed
has left the window. So the calls that `recent` counts are exactly those of the last
window, which bounds them from above (a call that passes) and from below (a call
that is refused). Proved for every limit, window and number of users, to the clock's
bound.

**Settings** (`AccountProofs`). While nothing was tangled, at most one request is
under way, and `InStep` says how the row, the value it read and the value sent last
relate at each of its stages; at rest all three copies agree. `OnlyLeavingLoses` is the
counterpart of the run `settings_lost`: unless the page is left while a timer waits
(`LeavesEarly`), what waits is what was chosen last and all else has been sent
(`ChosenIsDue`). With `ChangesKept` it gives `ChoicesReachTheRow`, from the choice to
the row.

**Push** (`AccountProofs`). A subscription becomes the browser's together with its
registration being posted, and a fan-out deletes only the row of an endpoint that the
push service calls gone, which the browser does not hold. So `SubscribedIsStored` is
inductive together with the typing (`PushTypeOK`), which keeps the rows, the
registrations and the browser's subscription among the endpoints handed out.

**Onboarding** (`AccountProofs`). `ScriptInv` and `InviteInv` say per stage what a
provisioning script or an acceptance has written by then, `OneHolder` that no two of
them hold one account, invited or not, so that neither adds a membership to the other's user, and
`Unserved` who is answerable for an account without a tenant. `MigrationInv`: what was
listed is migrated, failed or still to do.

**RunViews** (`ConsoleProofs`). `RangesOf` walks over the events with a recursive
function. The proof describes that walk without recursion: after event `n` it holds
`OpenRun(E, n)`, the agent messages since the last event of another kind, and
`ShutRuns(E, n)`. The description satisfies the walk's equation (`WalkBegins`,
`WalkGoesOn`), so the function exists; and there is no least event at which the two
differ (`WalkComputes`). What is flushed is then shown to be the set of
`LongestRuns` the property asks for, in both directions, and a fold over fewer kinds
of other events to contain the fold over more (`FewerBreaksFoldMore`). `PlayInv` is
what the action property needs: an undisturbed playback has shown every visible event
up to where it is, which arrivals do not disturb, because they come after it.
`CanvasInv` is the Canvas's effect.

**Sharing** (`ConsoleProofs`). `LinkInv`: a link in the table or in an answer has its
row, and one that an answer calls revoked is so for good, which is why an old answer
cannot show too much as revoked. `DeleteInv` says which row a DELETE is about and
when it is revoked. `DialogInv` replaces counting by at most one awaited link and a
finite set of links asked for, of which an opening adds one.

**History** (`ConsoleProofs`). The rank of a run in the list only grows while it stays
in the filter. `ReachInv` follows the user's walk: when the pages up to offset `o` were
read in order, each run of the first reading is on one of them, or its rank is at
least `o + PAGE_SIZE`; and once the page's total is counted, that total exceeds
`o + PAGE_SIZE` in the second case. A page has at most `PAGE_SIZE` rows (`PageFits`,
by the pigeonhole principle), so a total that ends the walk rules the second case out.

**Panels** (`ConsoleProofs`). One invariant for each of preview, viewer and grant: as
long as no two requests overlapped, what was asked for is what is chosen; and a
request between check and insert is alone and has found no session.

**LiveStream**, the rest. `GapInv` follows the events of the transcript that are
neither in `gap` nor in `late`: one behind a mark is shown (`PastInv`), one below a
number on the wire is shown or precedes it there (`WireInv`), one that is published
is shown or on the wire once the replay is over (`LiveInv`); excepted is a row stored
and not published behind one that is, which is about to be late. `SmoothInv` holds as
long as there is no such row and `gap` and `late` are empty: each step of the wire goes
to the next row (`StepInv`), its end is not behind any published row (`FinalInv`), and
the indicator is what the table says of the last start the client has received
(`IndicatorInv`); of a caught-up client that is the last start there is.

**MCConsole** (`ConsoleProofs`). `PartsBehave`: a behaviour of the composition is one
of each part by itself. With it the theorems about the parts become one about the
console, `ConsoleIsSafe`, which is the conjunction of everything the run `console`
checks but `TypesOK`, itself `ConsoleTypeCorrect`.

The provers cannot use the library's induction theorems, whose parameter is an operator.
Where data has any length (the walk over events, the highest number of a set, the
nearest event of a scrub), the proofs take a least number instead, from the library's
theorem that `<` is well-founded on the naturals, applied to a set.

Assumptions. Each module names its own, about its constants only: bounds and sizes
are natural numbers, the windows and limits positive, the null values distinct from
what they stand beside. `Onboarding` assumes that there is an email address at all.

Only model-checked: all liveness (`ExecutingEnds`, `RequestsEnd`, `ConnectionSettles`:
liveness under fairness and `ENABLED` are out of the prover's reach), and the runs
that end in a violation; of three of these the theorems above say what alone breaks
their property, of the others `OnlyTheGapLoses` and `OrphansExplained` do. No module
declares a recursive operator.

## 5. Findings

Each is a run that ends in a counterexample; `PROJECT.json` quotes the comment or
document it contradicts.

1. `run_cancel`: a stop between the worker's check and its update is overwritten.
2. `run_stranded`: a message sent during the last round is acknowledged as queued
   for a next round that does not exist.
3. `live_gap`: an event between replay and subscription is lost to that client.
4. `orphan_run`: a run whose hub call fails stays behind, executing and without
   events, although the route says it fails to avoid just that.
5. `settings_lost`: the settings page's cleanup clears the timers it says still fire.

Seen while modelling, in the models, and without a run of their own:

- The hub's next number collides after every queued message while its counter is
  cached, not only in the race the comment names (`messages/route.ts:87-89`).
- `consumeQueuedMessages` clears rows its SELECT did not list
  (`agent-hub/src/http/routes.ts:338`, `:373`).
- Enter sends although a send is pending (`composer.tsx:308`).
- Messages and continue flip a run's status without a transition event, so an open
  browser learns of it from the API only; `clearActiveRun` clears whichever run is
  active.
- `close()` while a reconnect is pending leaves the connection `disconnecting`.
- The messages route's schema drops `targetAgent` and verbosity.
- The Boardroom's desktop grid ignores the clean mode; the Writers' Room shows
  the placeholder for agents that have not answered also when every agent message
  is in a fold (`message-list.tsx:75-82`).
- An answer that fails after the share dialog was closed shows as an error when it
  is opened again.
- The push banner's catch comment expects a denial to hide it; the denial leaves it.
- Provisioning and `migrate.ts` spell schema names with hyphens, the numbered migrations
  and the app's queries with underscores; provisioning makes the bucket under the slug, the app under the tenant's id.
- The invitation route signs up the email it is sent before anything asks about the
  invitation (`api/accept-invite/route.ts:61`), against its comment that the id is
  validated "before any user creation" (`:19`): a call that names no invitation fails and
  leaves an account.
- The retry of the queue insert stores a message twice when the first insert took
  effect and its answer was lost (`messages/route.ts:107-125`); a later round then shows
  it twice.
- Two migrations call `shared.tenants` empty by convention; provisioning fills it.

## 6. Not modelled

- Texts, prompts' wording, the content of attachments and its extraction, what a
  notification says, `presence.ts` and `run-metadata.ts`: payloads are opaque. What
  agents said is not part of a modelled prompt, only which user messages are.
- BullMQ's stalled-job recovery: a worker that dies inside a job and whose job is
  picked up a second time.
- Timer lengths: a delay is "some time". `handleSend` of the hub forwards to one
  agent and stores one event.
- Canvas comments and Timeline positions (layout), scenes (no source sets a scene
  name), the TLDR banner, sidebar, header and badges: they render what is modelled.
- Projects, digest, audit log, the log of replay views, operator statistics:
  single inserts or reads whose state nothing else here reads. Vault resolver and
  object-store client: I/O. The service worker shows what it receives.
- In the composer, mentions and verbosity (the messages route's schema drops
  them), banners, drag highlighting; text typed and files added while a send is
  pending are cleared by its success, which is the code's behaviour and in the model,
  but no document says otherwise, so no property is about it.
- No code in the repository moves a run to `planned` or inserts a plan or question
  row: `Governance` begins with them.

## 7. Plan

Done: the core (`EventLog`, `RunLifecycle`, `LiveStream`, `ManagedConnection`,
`Composer`) and the console around it (`Governance`, `RunViews`, `Sharing`, `History`,
`Panels`, `Settings`, `Push`, `Limits`, `Onboarding`), each with its proofs, and the
composition of the console.

Next: `RunLifecycle` composed with `LiveStream`: the status a browser shows against
the run's row (a flip to executing emits no event).

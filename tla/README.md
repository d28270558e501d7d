# The Forge agent engine in TLA+

Forge (this repository) runs an AI engineering agent: a person states a goal, a
planner turns it into tasks, workers claim the tasks from a queue in PostgreSQL,
call models and tools, ask people for approval, verify the result and settle the
goal. People talk to it and to each other in rooms, and what it designs is kept
as versions of artifacts. This directory holds TLA+ modules of the parts whose
correctness depends on *order*: who may write what, after which crash, on which
stale reading. TLC checks small instances; TLAPS proves the main invariants for
every instance.

## 1. The system

| component (code) | state it keeps | operations | what makes it hard | what makes it correct |
|---|---|---|---|---|
| **Task queue and workers** `internal/domain/engine/{queue,state,repository}.go`, `internal/agent/{worker,settle}.go`, `cmd/forge-worker` | `forge_tasks` rows (status, lease, attempts, `verified_at`), `forge_goals.status`; each worker's program counter and in-memory copy of its task | reap, claim, heartbeat, transition, release, promote, skip, settle | several worker processes, leases that lapse, statements that fail or half-fail, crashes, graceful stops | one worker per task, work in dependency order, nothing lost, the goal told truly |
| **Approval gates** `worker.checkApproval`, `internal/httpapi/goals.go`, `cmd/forgectl/goal.go` | `forge_approvals` | open a gate, answer it, move its task | the answer is three statements outside a transaction, racing the worker that parks the task | no work without approval; an answer is never lost or asked twice |
| **Planning** `internal/agent/{planner,apply,intake,clarify,options}.go`, `internal/domain/memory/decision.go`, `internal/httpapi/goals_start.go` | a draft goal's row: question, answer, criteria, options, choice; its tasks and their dependencies; the decision log | plan, ask, answer, state criteria, offer, choose, apply, replan, activate | calls that take minutes overlap; each operation is several statements; a caller may die between any two | what a goal shows as chosen stands in the log; no plan takes back work; a started goal can finish |
| **Tool loop and ledger** `internal/agent/{executor,recovery}.go` | `forge_tool_calls` | record, run, complete, look up a completed call | a crash between a call and its record | no acknowledged tool result is lost, no effect goes unrecorded but for a named gap |
| **Budgets** `internal/domain/engine/budget.go`, `internal/agent/spend.go` | spend per goal, in-flight calls | check, admit, charge | checks against a stale snapshot, concurrent calls | every token is on the row; a goal stays within its ceiling |
| **Timeline** `repository.AppendEvent`, `audit.go` | `forge_events` with sequence and hash chain | append, verify | concurrent appenders, collisions | an unbroken chain, no event lost silently |
| **Artifacts and builds** `internal/domain/workspace`, `internal/domain/geometry/service.go`, `internal/agent/buildgoal.go` | artifacts, their versions and rulings; a build's tasks, results and checkpoints | save, adopt, re-specify, rule; build, checkpoint, record | a count and an insert in two statements; people and builds append to one artifact; a step is retried after it kept its version | one numbered history per artifact; rulings stand; a build keeps every step's work, once |
| **Rooms** `internal/domain/collab`, `internal/httpapi/rooms.go`, `assets/room*.js` | turns, deletions, event streams, pages | say, redact, close, follow, read | events published after their commits, bounded buffers, lost connections, answers overtaken by events | a page that has caught up is the record |
| **Media** `internal/media/{sfu,transcribe}.go`, `internal/httpapi/rooms_media.go` | peers, tracks, offers; segments, a bounded queue, a setting kept twice | offer, answer, leave, close; speak, mute, switch, sweep, transcribe | goroutines and callbacks between short locks | everyone is heard; a word is written down once, and only on the record |
| **CAD sidecar** `internal/domain/cad` | a pool of child processes, their pipes and watchdogs | build, retry, cancel, time out, prestart, close | late answers, dead and hung children, compare-and-swap races | an answer reaches the build that asked; no slot is lost |
| **Conversation** `internal/agent/converse*.go`, `internal/domain/conversation` | turns, streams | start, stream, cancel, record | cancellation in mid-stream | a turn is recorded once |
| **Identity, MFA, access, secrets** `internal/domain/{identity,mfa,access,secrets}` | accounts, sessions, codes, grants | sign in, verify, grant, revoke | concurrent attempts and counters | a code is used once; a revoked grant grants nothing |
| **Memory, incidents** `internal/domain/{memory,incident}` | memories, incidents | remember, confirm, contain | concurrent edits | what is contained stays so |
| **Geometry, models, pages, CLI, platform, evaluation** | – | numeric kernels, clients, rendering, configuration | little ordering | out of a model checker's reach, or already well tested |

Components meet in the database. A worker never talks to another worker, nor
the HTTP server to a worker: each reads rows, decides in memory and writes rows,
and most hazards below are what may happen to a row between those two. The media
plane, the hub and the kernel pool live inside one process, and theirs are what
may happen between two locks.

## 2. Modules

| module | models | extends |
|---|---|---|
| `TaskStates` | the status graph of a task, `state.go` | – |
| `TaskLifecycle` | what the engine promises about one goal's tasks, with no worker, lease or gate in it: tasks walk the graph, work is offered behind finished work, only unreachable work is skipped, the goal is settled once and truly, by what its tasks came to and its build steps kept | `TaskStates` |
| `TaskEngine` | the queue of one goal, any number of workers, the gates and the people who answer them, and faults; implements `TaskLifecycle` | `TaskStates` |
| `CallBudget` | one goal's token ceiling and the clients that place calls under it | – |
| `ToolLoop` | one task's tool loop across its attempts, and the ledger of its calls | – |
| `EventChain` | one goal's timeline, its writers and the audit of it | – |
| `GoalPlanning` | a goal between its draft and its start, and any number of callers at work on it | – |
| `DesignHistory` | the versions of a project's designs, and a build that keeps one of each step | – |
| `KernelPool` | the pool of CAD kernel processes | – |
| `Room` | what the three models of a room share: whether it is open | – |
| `RoomMedia` | the forwarding of one room's microphones | `Room` |
| `RoomScribe` | writing one room down | `Room` |
| `RoomRecord` | one room's transcript and the browsers that follow it | `Room` |
| `MC...` | model values, graphs and symmetry for TLC | the module named |
| `TaskEngineProofs` | types, the inductive invariant, the safety properties, refinement of `TaskLifecycle`; mutual exclusion, lease ownership, parked tasks and the count of attempts | `TaskEngine`, `TLAPS` |
| `CallBudgetProofs` | a client keeps its room; the goal keeps its ceiling; no spend is lost; what workers at once may overshoot by | `CallBudget` |
| `ToolLoopProofs` | what the ledger may be trusted for; the two limits together | `ToolLoop` |
| `EventChainProofs` | the chain is whole, gapless and only grows at its end | `EventChain` |
| `GoalPlanningProofs` | a choice stands on record; progress is kept | `GoalPlanning` |
| `DesignHistoryProofs` | one history per artifact, rulings, one version per step, one history per build | `DesignHistory` |
| `KernelPoolProofs` | answers, slots, retries and watchdogs of the pool | `KernelPool` |
| `RoomProofs` | who is heard and what is offered; words, the setting; numbering, and pages that have caught up | `RoomMedia`, `RoomScribe`, `RoomRecord` |

Operators commented `Defect:` are not part of a specification. Each is a
plausible bug of the definition that follows it, and `PROJECT.json` pairs it
with the property that catches it.

### TaskEngine and the code

Each action is one SQL statement, or one transaction. What runs between two
statements is a worker's `pc`, and the copy of the row it holds in memory is
`job`, `seen` (`Task.Status`) and `tries` (`attempt_count` as claimed). The
database's clock is reduced to one bit per row, `live`: `lease_expires_at` is in
the future. `Claimable` ignores priority, age and `not_before`, so any claimable
task may be claimed next: every order the code can produce is included.

| code | actions |
|---|---|
| `Worker.Run` | `Reap` (`ReapExpiredLeases`), `Claim`/`ClaimUnheard`/`ClaimNothing` (`Queue.Claim`), the idle path's `Release` and `ReadOutcome`/`SettleGoal`, `Quit` |
| `Worker.runTask` | `LoadGoal`, `Refuse` (over budget), `Begin`, `Execute` |
| `checkApproval` | `ReadGate`, `OpenGate`, `Park`, `Fail` |
| `completeTask` | `Succeed` directly below the checked tiers, else `Present`, `Verify`, `Succeed` |
| `retryOrFail`, `failTask` | `Requeue`; `Fail` then `Propagate` (`SkipTasksBlockedByFailure`, which loops) |
| `heartbeat` | `HeartbeatStops`; a beat that succeeds changes nothing the model can see, it keeps `Tended(t)` true, which is what stops `Lapse(t)` |
| `handBack`, `Queue.Release` | `Unwind`, `AfterTask` |
| `GoalHandlers.Decide`, `forgectl approve` | `RecordAnswer`, `ReadAnswered`, `MoveAnswered`, and `LoseAnswer` when whoever runs them dies |

A build step that a gate refused succeeds all the same, with `refused` in its
result; `refused` is the set of them, chosen as the step succeeds (`Refusals`).
`Outcome` is `settleGoal`'s rule: a failed or cancelled task fails the goal, and so
does a build every step of which was refused (`BUILD_KEPT_NOTHING`). The rule asks
for nothing but each task's kind, so the model lets one goal have build steps
(`BuildStep`) beside other tasks, which planning does not put together.

`Transition` is `TransitionTask` as a worker calls it: the in-memory status is
validated against the graph, the row is updated only if it still has that
status, and the caller hears of it, is refused, or, under `dbError`, hears of a
failure that may have committed.

Faults are a constant, so that a run can say which of them its properties
survive: `crash`, `stop` (a graceful stop), `stall` (a worker outlives its lease
without noticing), `beatError` (the heartbeat goroutine ends for good at any
error), `dbError`, `readError` (only the gate's read fails), `earlyAnswer` (a
gate answered before its task is parked), `answerLost`.

### CallBudget and the code

One goal row, any number of workers. `StartTask` is `runTask`'s `loadGoal` and
`CheckGoal`; from there the worker's client decides from `loaded` and `own`, its
own tally, which is what `Execute` and `chargedClient` both do (`Fits` is
`CheckCall`). `Place`, `Answered`, `RecordSpend` and `CallFails` are one model
call; `Verify` is the fresh client the verifier gets over the same loaded goal.
Within one client calls are placed one after another, so `CheckCall`'s
`inFlight` is always zero; every caller of `RecordSpend` passes zero cents, so
the cost ceiling is never reached and not modelled. The code reads the goal's
spend once per task, so a copy grows old in two ways, which two history variables
tell apart: `overlapped`, a task started while another was under way, and `checks`,
some task came to its verification, whose client starts from the copy made before
the task. `lost` is what was served and never recorded, `served` all there was.

### ToolLoop and the code

One task, its attempts one after another. `Begin` to `EndAttempt` is `Execute`;
`TakeCall`, `RefuseCall`, `LookUp`, `RunTool` and `RecordCall` are `runTool`, cut
where the code touches the database, a secret or the world; `Checkpoint` is the
end of an iteration. A call stands for a tool and its arguments, which is what
its idempotency key is made of. `runs` counts effects on the world, which the
program cannot see. `gaps` names the three ways an effect may go unrecorded: the
process died, a stop cut the call short, the database refused the row. `Standing`
and `Uncertain` are `Recover`'s two lists. A checkpoint keeps what the model was
told, and a resumed attempt is told no more than that.

### EventChain and the code

One goal's `forge_events`. `Read` and `Insert` are `AppendEvent`'s two
statements, run either alone (`Act`: `worker.appendEvent`, `settleGoal`,
`Decide`, `forgectl approve`, `Activate`) or inside a transaction (`BeginTx`:
`checkApproval`, `Apply`, `RecordChangeIn`, an export). PostgreSQL is modelled at
read committed: a writer reads committed rows and its own, an insert into a
place that another open transaction holds waits for it (`MustWait`), and one
into a committed place is refused (`Collide`). A hash is the sequence of what
went into it, which is injective, and that is all the chain asks of SHA-256.
`Findings` is `VerifyChain`.

### GoalPlanning and the code

One goal and its callers, each with one operation at a time; `local` is what a
handler or a terminal remembers between two statements, and `GiveUp` is a refusal, a
failed statement or a death.

| code | actions |
|---|---|
| `Intake.Plan`, `PlanBuild`, `Replan` | `BeginPlan` (`replannable`), the minutes of the model, then `Ask`, `DropQuestion` or `Apply` of any validated `Plan` or `BuildPlan` |
| `PlanApplier.Apply` | `Apply` in one transaction: `Reuse` of keys that exist, merged edges |
| `recordQuestion`, `AnswerClarification`, `labelAssumption` | `Ask`, `ReadQuestion`, `Answer`, `LabelAssumption` |
| `StateCriteria`, `StoreOptions`, `ChooseOption` | `StateCriteria`; `BeginOffer`, `ReadPrior`, `StoreOptions`; `ReadOffer`, `RecordDecision`, `WriteChoice` |
| `Activate` | `GateOnClarification`, `GateOnOptions`, `Activate`, `GiveUp` |
| `PromoteReadyTasks`, the workers | `Promote` inside `Activate` and `Work`, `Work` (`TaskEngine` in one step) |

### DesignHistory and the code

A saver is a worker or a person with one open transaction, `tx`: `Find`,
`Create`, `Count`, `Supersede`, `Insert`, `Commit` are its statements
(`FindOrCreateArtifact`, `AppendVersion`, geometry's `Save`). PostgreSQL is
modelled at read committed as in `EventChain`: `Opens` and `Inserts` are the
uncommitted keys others wait for, `locks` the rows an update holds. A collision
undoes the transaction, and `Fails` is any other statement or deadline that
does. People `keepGeometry` (a conversation's turn, by name), `Adopt`, `Respec`
and `Dispose`.

A build's steps are tasks, `task`, each with its recorded version `kept` and the
version its latest checkpoint names. `job` is a worker's attempt: `Claim`,
`Start` (`BuildSteps.run` up to the model), `Build`/`Refuse`/`Fault`,
`SaveCheckpoint`, `Succeed`/`retryOrFail`, `Die`, `Reap`. What a version `holds`
is the set of steps whose work is in its document: the document of the version
it was built on, and its own. The queue is reduced to what `TaskEngine` shows of
it: a task has one worker at a time. `torn` remembers the steps an attempt of
which ended between its version's commit and the checkpoint.

### KernelPool and the code

A `slot` is a `sidecar` with its process, its stdin and its stdout; `free` is the
channel of slots. `slot[s].at` is how far the holder's `roundTrip` is; `watch`
is the goroutine beside it, and `end` the word both compare and swap
(`Claim`/`TimeOut`). `proc[s].line` is a reply nobody has read yet, named by the
build it is for, which is how a late answer could be mistaken. `call` is
`BuildDocument` as its caller sees it: waiting for a slot, inside, over, with one
retry (`tries`); `Abandon` is a caller that leaves while its build finishes for
nobody. `Prestart` (`Warmup`) and `Close` (`Closer`) hold slots as builds do.

### RoomMedia, RoomScribe, RoomRecord and the code

`RoomMedia`: a connection is offered for an event stream; `join` is how far its
`Join` is (`Enter`, `Replace`, `Remake`, `Register`), cut where `s.mu` is
released. `attach`, `share` and `leave` are the loops of `attachExisting`,
`onTrack` and `Leave` over the peers they looked up before; `neg` is a peer's
negotiation, with what its browser was last told. `renegotiate` (`Reoffer`) makes a
note where an exchange is under way, makes the offer, or fails to; a failed answer
(`BadAnswer`) drops the note and leaves the offer out, where a later answer to it
is taken, or leaves the connection stable, if the answer failed after it was
taken. `lost` says that an error stands in the log or in a response in place of an
offer, and that no offer has been made since. `sending` and the map of peers
are keyed by stream, as in the code, so two connections offered for one stream
(a browser that comes back) share an entry: `Alone` names the connections that do
not. `CloseRoom` sweeps the streams
it saw; callbacks of connections (`Lost`, `Reap`) come when they come.

`RoomScribe`: the room's setting is kept in the row and in the media plane's
map (`row`, `flag`). `Speak` then `Write` is `forward`, cut between the check
and the segment; `Sweep`, `Mute`, a `Switch` and a track's end start
`CloseSegment`, which takes the segment under the lock, so that two of them may
find it; `Take` and `Run` are a transcription worker. `fate` says what became of
each packet: written down, or lost in one of the ways the code logs, or refused
by a closed room.

`RoomRecord`: `Say` is a read of `max(seq)` (`LastSeq`), an insert and a publish; `RedactVoice`,
`Close` and presence are a write and a publish each. The hub puts an event in
every stream's bounded buffer, or marks the stream to be dropped. The browser is
`room.js`: it appends what it hears of, and reads the whole room on hello, on
lagged, on a deletion and on presence; an answer replaces the page. A read may
fail at any point between the request and the answer (`ReadFails`, `reload`'s
`catch`): the page stays as it is and nothing is read again on that account.
`unread` remembers how far the record was then, until an answer as new comes in.

### Plan

1. `TaskEngine`, `CallBudget`, `ToolLoop`, `EventChain` with their proofs (done).
2. `GoalPlanning` with its proofs (done): what a goal is before it is started.
3. `KernelPool` with its proofs, `RoomMedia`, `RoomScribe`, `RoomRecord` (done):
   the concurrency inside one process, and what a browser sees of it.
4. `DesignHistory` with its proofs (done): what builds and people keep.
5. `RoomProofs`, and every safety property of a run stated by a theorem (done).
6. Left: exports and their one-off goal, FORGE's own voice in a room, a
   conversation's turns and their cancellation, memories and their confirmation,
   incidents and what containment stops.

## 3. Runs

| run | instance | what it shows |
|---|---|---|
| `engine_safety` | a gated, checked task and a build step that depends on it, two workers, two attempts; crash, stall, database errors, early and lost answers | whatever happens, work on a gated task was approved, and the rows live a life `TaskLifecycle` allows, in which a goal whose only build step was refused fails |
| `engine_live` | the same tasks; one worker may crash or stop (`Mortal`), the other keeps polling; database errors | two workers never share a task, attempts stay bounded, a parked task is awaited, a tended lease is kept; leases end, finished work is released, finished goals are settled |
| `engine_stale_worker` | one task, two workers, stall | violated: a stalled worker ends its successor's live lease |
| `budget` | two workers; tasks, checked tasks and build steps; ceiling 5, calls of 2 or 3, first reserve 3, six calls | no spend is lost; tasks that follow one another are served the ceiling, lost tokens and one verifier's call at most; workers at once overshoot by no more than an allowance and a call each |
| `loop_ledger` | one call, asked for twice in a batch, in two iterations, by three attempts | no effect without a row but for a named gap; what is said to have succeeded happened; a resumed model is not told of a stop as a failure |
| `timeline` | two writers, one row from before the chain, transactions of two events, three facts | whatever races, rollbacks and lost replies do, the audit finds nothing, readers miss nothing, and every append ends |
| `goal_planning` | two callers, one question, one set of criteria, one option, two keys, two plans, two decisions | a choice that is shown stands in the log; no plan takes back work; a started goal with one plan is finished |
| `kernel_pool` | two builds, one slot, crash and exit, `Prestart` and `Close` | a build reads its own answer; the slot is never lost or given out twice; only a crash is retried; every call ends and every slot comes home |
| `room_media` | two connections for two streams, or both for one; two seats; joins, answers and offers that fail | who has answered, with no error in place of an offer since its last one, hears every microphone whose stream had the one connection, and is told all it is sent; a closed room empties |
| `room_scribe` | two speakers of whom one mutes, a switch, one worker, a queue of one | a word is in one place until it is written or its loss is logged; the media plane keeps to the room's setting; no word is kept for ever |
| `room_record` | two turns, one deletion, one departure, a closing; one browser with a buffer of one, one read at a time, one fault: a dropped stream or a failed read | the transcript is numbered through; a page that has caught up is the record, and every page catches up whose last read did not fail |
| `design_history` | a build of two steps of two attempts, one worker; one person; two paths | versions are numbered through, rulings stand; the build records one artifact's history with every step's work in it; a step is kept once |

**Why the bounds are enough.** `TaskEngine`: a task is claimed by one worker at
a time, so the races are between one stale and one current holder; a chain of
two gives a released and a skipped dependent; two attempts, a retry and a limit.
One build step is the smallest build of which every step is refused; the proofs
cover a build of any length, alone in its goal or not.
`CallBudget`: the ceiling is met from below, exactly and from above by calls of
two sizes; `MaxCalls` exceeds what the ceiling admits of one client. `ToolLoop`:
rows of different keys do not touch each other; `MaxRuns` bounds the effects of
one call. `EventChain`: an insert waits for, or loses to, one other; the second
event of a transaction links to the uncommitted first; `MaxFacts` lets a writer
record twice around the other. `GoalPlanning`: each hazard is one caller's
statement between another's two; `MaxPlans` and `MaxDecisions` two, so that a
plan lands beside another and a decision supersedes one. `KernelPool`: a slot's
round trips follow each other on one pipe, and two builds and `Close` suffice to
find a late answer, a second kill or a slot given back twice; the proofs cover
any number of slots. `RoomMedia`: a rejoin is two connections for one stream,
and two streams make a pair; a third connection is out of a run's reach
(`RoomProofs` covers any number, and a search of three, not exhaustive, found
none of its invariants violated). `RoomScribe`: two speakers fill a queue of
one. `RoomRecord`: a buffer of one overflows at the second event; `MaxReads` and
`MaxFaults` bound the answers under way and what the network fails a browser by.
A fault is a dropped stream or a failed read, and the run has one of either: with
one of each TLC does not end within minutes (what it searched held), and the proof
covers any number of both. `DesignHistory`: a race
is between two savers; a second worker would only stand in line, since a task
has one; `Ruling` holds one ruling, since the code treats rulings alike;
`MaxVersions` keeps people from starting another version once there are two,
while the build goes on.

`CHECK_DEADLOCK FALSE` everywhere: every worker may have crashed or stopped, a
settled goal, a closed room or pool and a finished build have nothing left to
do, and nobody has to speak.

**Fairness.** `TaskEngine`: weak fairness of each worker's own steps, because
every statement and model call has a timeout and `Run` polls for ever; of the
lapse of a lease nobody tends; of a request handler once it has recorded an
answer. None of a person, a crash or any fault. `EventChain`: of each writer's
statements, since every database call has a deadline. `GoalPlanning`: of workers
(`Work`), in place of `TaskEngine`'s liveness; none of callers. `KernelPool`: of
holders, of the watchdog's two clocks and of `Close`'s loop; none of the kernel,
which may hang, and none of callers. `RoomMedia`: of goroutines and callbacks,
of the sweep of a closing room, and of a browser that hangs up once told the
room is closed; none of offers and answers. `RoomScribe`: of the sweeper's
ticker, of whoever is closing a segment, and of workers, whose provider call has
a timeout; none of speakers. `RoomRecord`: of a handler that has committed, and
of hub, server and browser together, each of which takes the next step there is;
none of people. `CallBudget`, `ToolLoop` and `DesignHistory` promise safety only
and have none.

What the proofs establish for every instance is not repeated by a run unless a
mutant of it is worth the minutes: the type invariants, `LeaseWhileWorking`,
`DependenciesHonoured`, `SkipIsJustified`, `SuccessWasVerified`,
`GoalToldTruly`, `ClientWithinCeiling`, `CallsBounded`, `Gapless` and
`WatchIsForHolder`.

## 4. Proofs

`TaskEngineProofs` proves, for every set of tasks and workers, any dependency
graph and every set of faults:

- `TypeCorrect`: `Spec => []TypeOK`.
- `Invariance`: `Spec => []Inv`. The safety properties are not inductive alone.
  `Inv` adds `BegunAlready` (a worker's task, and a task with a gate, has left
  pending: otherwise a late write could be a release), `NoneCancelled`,
  `ApprovalOnRecord` and `VerdictInHand` (what a worker past the gate, or past
  the verifier, knows), and `RulingIsTrue` (a worker about to settle still holds
  the tasks' outcome). The step is proved once per action, through two
  summaries: `StatusMoves`, the only ways a status may change, and `Progress`,
  the only ways a worker reaches the places the invariant mentions.
- `LeasesFollowStatus`, `GateHolds`, `OrderHolds`, `SkipsHold`,
  `VerificationHolds`, `OutcomeIsTrue`: the safety properties.
- `Refinement`: `Spec => Lifecycle!Spec`.

The same module proves four results from `Timely`: none of `stall`, `beatError`
and `earlyAnswer`.

- `Exclusion` (`OneWorkerPerTask`) and `LeaseKept` (`LiveLeaseIsKept`). The
  invariant `LeaseInv` says that a worker in the middle of an attempt owns a live
  lease and believes the status the row has. `engine_stale_worker` shows that
  `stall` has to be excluded, section 5 that `earlyAnswer` has.
- `ParkedHasAsked` (`ParkedIsAwaited`), without `answerLost` also: an answerer
  that dies between its two statements leaves its task parked. The invariant
  `AwaitInv` adds that a worker about to park has an open gate behind it.
- `AttemptsKept` (`AttemptsBounded`), without `readError` also: a failed read of a
  gate takes its answer for none, and the attempt it spends is counted by nothing.
  `AttemptInv` says that what a worker remembers of `attempt_count` is the row's
  (`TriesAreCounted`), that an approved gate is not asked again (`AsksOnce`), and for each
  task how many attempts its status and its gate allow it by now (`Counted`):
  what is ready has one left, or a gate that was passed with the one it cost.

`CallBudgetProofs` proves that a client never takes the goal past the ceiling as
it sees it (`ClientKeepsRoom`), that the goal keeps its ceiling (`CeilingKept`)
while no call outgrew its reserve and no tasks overlapped (what was served is
within the ceiling, what was lost and, once there was a verification, one largest
call: its client saw less than the row and placed one call),
`NoSpendVanishes` (`SpendAccounted`) and `OvershootKept` (`OvershootBounded`). The
invariant of the first two is that a placed call has its reserve left. What
workers hold is counted as a set of `Tokens`, pairs of a worker and a number, so
that a sum over workers is a cardinality: `OneCountChanges` says what it becomes
when one worker's count does. For the overshoot each worker has an allowance, the
ceiling and one largest call; what the goal has spent, and what every worker has
yet to record or may yet spend (`Claims`), is covered by them. Both need finitely many
workers, and the bound a largest size of call (`BudgetAssumption`).

`ToolLoopProofs` proves `LedgerKept` (`ClaimsAreTrue`), its corollaries
`TypesHold`, `EffectsAreOnRecord` and `ResumesHideStops`, and
`CallsKeptWithinLimits`. The strengthening says that a call in hand is the head
of the batch and has run once it is `ran` with success, that only the attempt's
own talk may mention a stop and only while it is stopped, and that calls made,
calls still in the batch and iterations add up.

`EventChainProofs` proves `AuditFindsNothing`, `PlacesAreGapless`,
`ReadersMissNothing` and `FactsAreTold` for any number of writers, transactions
of any length and any number of old rows. The invariant: committed rows, and what
each writer sees, are `Chained` (places 1..n, linked once hashed); only one
transaction at a time has rows and they are ahead of the committed ones; a
writer that has read saw nothing or a row it still sees. From it, `FreePlace`: a
place that is neither taken nor waited for is the one behind the last row.

`GoalPlanningProofs` proves `ChoiceStandsOnRecord` and `ProgressKept` for any
number of callers, questions, criteria, options and keys. A choice stands
because of what its writers know: what refers to a decision refers to an older
one (`ReferencesAreOld`), a set that names none has none (`UndecidedSets`), a
caller that recorded a decision holds the current one (`RecordersHold`), and one
about to decide may still find its prior current or be refused
(`ChoosersMayDecide`).

`DesignHistoryProofs` proves, for any number of savers, paths, steps and
attempts, `HistoryHolds`, `RulingsKept`, `KeptHolds` and `BuildHolds`.

- `History`: an artifact's versions are `Numbered` 1..n, `OneOfEach`, and
  `OnlyLastPends`; a saver's count is at most one ahead (`NumbersAreNear`); what
  an update locked still pends (`LocksPend`), belongs to one saver (`LocksApart`)
  and, for whoever counted the next number, is all that pends (`LocksSuffice`);
  and what is inserted is new (`InsertsAreNew`). `LocksSuffice` is the heart: a
  saver that superseded before another's commit has an old number, so it cannot
  insert, which is why no older version is left pending.
- `Kept`: one worker at a step (`Alone`), no checkpoint behind one that still
  builds (`FreshSteps`), and a version of a step is named by its checkpoint or
  by the attempt that has just kept it (`OnRecord`), unless the step is torn.
- `Built`: what a step records, will record or saves `Fits` the final record of
  the step before it: same artifact, nothing lost. `BuildSoFar` is its
  transitive closure, kept by the step relation instead of by induction over
  the steps. What is known is never lost (`KnownStays`, from `RulingsStep`).

`KernelPoolProofs` proves `EachItsOwnAnswer`, `NoSlotIsLost`,
`RetriesAreForCrashes` and `WatchdogsKeepToTheirTrip` for any number of builds
and kernels. The invariant has three parts: `Good` (one slot alone: holder,
process, watchdog and word agree), `Books` (the channel holds the free slots once
each, holders are inside once) and what may be left of `Close` and `Prestart`
beside them.

`RoomProofs` proves, for any number of speakers, switches, workers, turns,
deletions, browsers and connections, and any depth of a queue or buffer:

- Of `RoomScribe`: `AgreementKept` (`WrittenAsAgreed`) and `WordsKept`
  (`EachWordOnce`). `AgreeInv`: until two of them cross there is one switch at a
  time and no join beside it, and a join has read the row as it is. `WordInv`: a
  packet whose fate is open is in one place, a hand, a segment, the
  queue or a worker, and in that place once.
- Of `RoomRecord`: `NumberingKept` (`NumberedThrough`) and `PagesKept`
  (`PageIsTheRecord`). `NumberInv`: rows are numbered 1 to their count, so whoever
  read the last number and is not refused has the next. `PageInv`: what a live
  page lacks is still due to it, as an event in its buffer, a publish to come, or
  a read it will make (`TurnDue`, `WipeDue`), and so is what an answer on its way
  lacks that is not older than the page; a later answer holds what an earlier one
  did. A failed read takes away the read that was due, and `unread` says so: until
  an answer as new comes in nothing is claimed of the page, and that answer holds
  all that was there when the read failed.
- Of `RoomMedia`: `OffersKept` (`OffersCatchUp`) and `EveryoneHeard`
  (`EveryoneIsHeard`). `SeatInv` is proved with the types: whoever is registered
  is connected, has not left and sits in the seat of its own stream. `OfferInv`:
  what a peer was told, or is being offered, is what it is sent, unless an offer
  is pending or `lost`, or its `attachExisting` has added something and not yet
  offered. An offer names all a peer is sent, so the next one makes a lost one good.
  `HeardInv`: of two peers one has looked the other up, so that the track is
  there, in the list one of them works off, or just checked and about to be added.
  `TrackInv` keeps entries to connections of the stream they are kept for, which
  is why nobody else's leaving or arriving touches the entry of one that is
  `Alone`. An attempt to prove it without `Alone` failed for a reason: see
  `WhoCameBackIsHeard` in section 5.

Only model-checked: every liveness property, since the prover has no fairness:
`LeasesEnd`, `FinishedWorkReleases`, `FinishedGoalSettles`, `AppendsEnd`,
`StartedWorkFinishes`, `EveryCallEnds`, `SlotsComeHome`, `ClosedRoomEmpties`,
`WordsSettle`, `PagesSettle`.

### What the violated run shows

`engine_stale_worker`: the write that a comment says "turns that race into a
CONFLICT" compares the status and not the owner, so a worker that outlived its
lease ends the live lease of the one that took over. `LiveLeaseIsKept` holds
while leases are renewed in time: the violated run changes the faults, not the
property.

## 5. Other comments the code does not keep

None has a run of its own; TLC finds each from the run named, changed as said,
with the property added to its `.cfg`. Paths are under `internal/`.

| comment | what happens | how to see it |
|---|---|---|
| `domain/engine/state.go:78`, "the complete legal state graph" | `ReapExpiredLeases` fails an expired claimed task: claimed to failed | `engine_safety`, `DocumentedMovesOnly` |
| `agent/worker.go:889`, a failure is propagated to what depends on it | only `failTask` propagates: a task failed by the reaper, or by a rejection moved by its answerer, strands its dependents | `engine_live`, `FailureReachesDependents` |
| `httpapi/goals.go:311`, "the gate would then be asked again of somebody who has already answered it" | `checkApproval` takes a failed read of the gate for no answer | `engine_live` with fault `readError`, `DecisionStands` |
| `httpapi/goals.go`, `Decide`: the answer is recorded before its task is moved | an answer given between the request and the park moves nothing, and the task is parked for ever | `engine_live` with fault `earlyAnswer`, `ParkedIsAwaited` |
| `max_attempts` of `forge_tasks` | a stalled worker's `retryOrFail` puts the row back to ready after another has claimed the last attempt | `engine_live` with fault `stall`, `AttemptsBounded` |
| `domain/engine/budget.go:85`, "two workers cannot each spend the full allowance" | each decides from the copy it read when its task started | `budget`, `CeilingHolds` without `~overlapped` |
| `agent/spend.go:35`, "a goal must not spend past its ceiling" | `completeTask` admits a verification by the spend before the task; and tokens whose record failed are spent again | `budget`, `CeilingHolds` without `Max(Sizes)`, or without `lost` |
| `platform/db/sql/0004_engine.sql:376`, "A key is recorded BEFORE execution" | the tool runs first | `loop_ledger`, `KeyBeforeEffect` |
| `agent/executor.go`, a completed call is looked up, not run again | `recordToolCall` always writes a null output and the lookup asks for one | `loop_ledger`, `CompletedIsNotRepeated` |
| `agent/executor.go:598`, "no acknowledged tool result is lost" | the first row of a key stays, so a later success is not recorded | `loop_ledger`, `AcknowledgedIsRecorded` |
| `agent/recovery.go:141`, "Refused calls are excluded on purpose: the tool never ran" | a call first refused and later run keeps its refused row | `loop_ledger`, `PlanNamesEveryEffect` |
| `domain/engine/repository.go:409`, "the caller retries" | no caller does; a collision also fails a gated task whose request it undoes | `timeline`, `RacesLoseNothing` |
| `agent/clarify.go:86`, "an answer stored against no question would satisfy the gate for the NEXT question" | a new question replaces an answered one and keeps its answer | `goal_planning` with one caller and two questions, `ReleasedByItsAnswer` |
| `agent/options.go:628`, "the second decision supersedes the first rather than sitting beside it" | a caller that dies between the log and the row, and criteria restated meanwhile, leave a decision no later one supersedes | `goal_planning`, `OneDecisionStands` |
| `agent/options.go:656`, "Restating clears any options already offered" | options asked for before are stored after | `goal_planning` with two criteria, `ArguedAgainstWhatStands` |
| `agent/intake.go:420`, "would leave two sets of tasks racing for the same goal" | `replannable` is asked minutes before the plan lands | `goal_planning`, `OnePlanLands` |
| `media/sfu.go:334`, "a room that is off the record never has a window in which it is not" | a switch between a `Join`'s read of the setting and its use of it is undone | `room_scribe`, `OffIsOff` |
| `media/sfu.go:352`, "A re-offer from a stream that is already here replaces its connection" | not for whom it was sent: while the old connection's entry stands, or its removal is still to come, the new microphone is skipped or taken out again | `room_media` with a third connection, two of them for one stream, `WhoCameBackIsHeard` |
| `media/sfu.go:637`, "Idempotent by source" | the look and the addition are under two locks: an arrival's `attachExisting` and its source's `onTrack` may both add the track, and nothing removes the first | `room_media`, `AddedOnce` |
| `media/sfu.go:782`, "deferred rather than dropped ... or the track that prompted it would never reach this participant" | a failed answer clears the note before its error is looked at, and `renegotiate` clears it before it has an offer; neither is tried again, so the track waits for the next change | `room_media`, `OffersCatchUp` without `~ neg[c].lost` |
| `httpapi/assets/room.js:128`, "this browser is still showing words the record no longer holds", and 143, "The only correct response is to re-read the record" | a read that fails is reported and not made again while the stream is up, so the page keeps deleted words, or its gap | `room_record`, `PageIsTheRecord` without `unread[b] = Nothing` |
| `domain/workspace/repository.go`, `AppendVersion`, "re-read the current version and append again" | no caller does, and a conflict is not retried: the build step fails, and its goal with it | `design_history`, `CollisionsAreRetried` |
| `agent/buildgoal.go:45`, "A step that kept its model and then stopped before it was marked done is not built a second time" | it is, if it stopped before its checkpoint, or if the commit was not heard of | `design_history`, `KeptIsNotBuiltAgain` |
| `agent/buildgoal.go:62`, "a build PINS its artifact" | a first step kept twice under two names has opened two | `design_history`, `OneArtifactPerBuild` |

Seen while modelling, where the model follows the code:

- **Artifacts.** `FindOrCreateArtifact` says "the loser re-reads"; the re-read
  runs in the transaction the refused insert has aborted, so it fails too. A
  version a person adopts or re-specifies between two steps is superseded by the
  next step, which starts from its predecessor's version and not from theirs.
- **Planning.** Two planning calls may both land: merged edges may then close a
  cycle, an edge may arrive under a task that is ready, and a plan may land after
  the start. `ChooseOption` writes back the set it read, over one restated
  criteria have cleared. A question or options recorded between `Activate`'s
  reads and its update do not hold the start. `agent/apply.go:172` calls clamping
  a task's tier down stricter; a lower tier asks for less. "Replan so the work is
  built on it" follows a choice, and a goal with tasks is not replanned.
- **Kernel pool.** `Close` reads `abandoned` and then kills, so it may kill a
  later build's process (which is retried). After a second crash the slot goes
  back with its dead process, and the next build spends its retry on it. A build
  that takes a slot `Close` has given back starts a process nobody reaps.
- **Media.** A `Join` that registers after its room's entry was deleted writes
  to a nil map while it holds `s.mu` (`broken`). The ceiling is counted before
  the lock is released, so one more may get in. A late closed callback removes
  the stream's rejoined connection.
- **Transcription.** `close` says it flushes what is open; it does not. The last
  words of a room that closes are refused. A packet that was checked before a
  switch-off or a mute may open a segment after it. `forget` of the last
  departure and `setRoom` of an arrival may cross, as may two switches. Workers
  may record one speaker's segments out of order.
- **Rooms.** Events are published after their commits, in any order. An answer
  that was read before an event and arrives after it replaces the newer page,
  restoring deleted words until the next read (`raced`). `Events` looks whether
  the room is open before it subscribes, so a stream of a closed room may never
  be told.

## 6. Not modelled

Retry backoff and claim order (any order is allowed); the contents of tasks,
results and verdicts (a choice); the framing of prompts and of untrusted output;
redaction of secrets; the cost and wall-clock ceilings; risk tiers (`Gated` and
`Checked` are their result); what a document holds beyond the steps in it; the
event and the anchor written with a version, whose failure undoes it as any
other does; a worker that outlives its lease in `DesignHistory`, which
`TaskEngine` covers and which makes the instance too large; FORGE's own voice
(`speech.go`), participants, approval links, search and handoff summaries of a
room; exports (`stepexport.go`). `settleGoal`'s own statements do not fail in the
model: a failed read or write returns, and the idle sweep asks again. Of a page's
reads of the room, those its event stream brings about are modelled. The one
`connect` makes before it opens the stream is not: a page whose first read fails
says so, opens no stream and follows nothing, and no browser of the model is one.
Nor is the one after the person's own deletion (`deleteVoice`), which only adds to
the one its event brings about. Identity, one-time codes, access grants and
secrets are security mechanisms with tests of their own and are left to them.
The components listed `not_modelled` in `PROJECT.json` give their reasons there.

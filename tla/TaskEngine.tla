------------------------------ MODULE TaskEngine ------------------------------
(* The durable queue of one goal and the workers that run it.               *)
(*                                                                          *)
(* Rows of forge_tasks, forge_approvals and forge_goals are the shared      *)
(* state; each action is one SQL statement (or one transaction) of          *)
(* internal/domain/engine/{queue,repository}.go, made by a worker           *)
(* (internal/agent/{worker,settle}.go), by the person who answers a gate    *)
(* (internal/httpapi/goals.go, cmd/forgectl/goal.go), or by the passing of  *)
(* time.  What runs between two statements is a worker's program counter    *)
(* and the copy of the task row it holds in memory, which may be stale.     *)
EXTENDS TaskStates, Naturals

CONSTANTS
  Task,         \* the tasks of the goal's plan
  Worker,       \* every worker identity ever started; a restart is a new one
  None,         \* a lease_owner of null
  DependsOn,    \* DependsOn[t]: forge_task_deps, the tasks t waits on
  Gated,        \* tasks with requires_approval
  Checked,      \* tasks whose risk tier requires verification
  BuildStep,    \* tasks whose inputs name them a step of a build
  MaxAttempts,  \* forge_tasks.max_attempts
  Faults,       \* what the environment may do
  Mortal        \* the workers that a crash or a stop may end

\* crash        a worker process dies between two statements
\* stop         a worker process is asked to stop
\* stall        a worker outlives its lease without noticing
\* beatError    one heartbeat fails for a reason other than a lost lease
\* dbError      a statement fails; if it was on the wire it may have committed
\* readError    the gate's read fails where the write after it succeeds
\* earlyAnswer  a person answers a gate before the worker has parked its task
\* answerLost   whoever recorded an answer dies before moving the task
FaultKinds == {"crash", "stop", "stall", "beatError", "dbError", "readError",
               "earlyAnswer", "answerLost"}

ASSUME EngineAssumption ==
  /\ None \notin Worker \cup Task
  /\ DependsOn \in [Task -> SUBSET Task]
  /\ \A t \in Task : t \notin DependsOn[t]
  /\ Gated \subseteq Task
  /\ Checked \subseteq Task
  /\ BuildStep \subseteq Task \ Checked
  /\ MaxAttempts \in Nat \ {0}
  /\ Faults \subseteq FaultKinds
  /\ Mortal \subseteq Worker

VARIABLES
  status,    \* forge_tasks.status
  owner,     \* forge_tasks.lease_owner
  live,      \* lease_expires_at is in the future
  attempts,  \* forge_tasks.attempt_count
  verified,  \* forge_tasks.verified_at is set
  refused,   \* the build steps whose forge_tasks.result says they kept nothing
  gate,      \* the decision on the task's latest forge_approvals row
  decided,   \* the decisions people have made on any of its rows
  answer,    \* an answered gate whose task has not been moved yet
  goal,      \* forge_goals.status
  pc,        \* where a worker is
  job,       \* the task it holds
  seen,      \* that task's status as it last saw it (Task.Status in memory)
  tries,     \* that task's attempt_count as claimed
  beating,   \* its heartbeat goroutine still runs
  stopping,  \* its context is cancelled
  ruling     \* the goal outcome it is about to write

rows   == <<status, owner, live, attempts, verified, refused>>
human  == <<gate, decided, answer>>
local  == <<job, seen, tries, beating>>
vars   == <<status, owner, live, attempts, verified, refused, gate, decided, answer,
            goal, pc, job, seen, tries, beating, stopping, ruling>>

-----------------------------------------------------------------------------
(* Program points. *)

\* Between Claim and the end of runTask: a heartbeat runs beside these.
Attempt == {"load", "begin", "refuse", "gate", "openGate", "park", "work",
            "succeed", "present", "verify", "requeue", "fail", "propagate"}

\* The points at which the task's own work, or its verification, is done.
Working == {"work", "verify"}

Point == Attempt \cup {"poll", "claim", "sweepRelease", "sweepSettle",
                       "after", "release", "settle", "rule",
                       "stopped", "crashed"}

Gates == {"none", "pending", "approved", "rejected"}

NoAnswer == [step |-> "none", read |-> "pending", to |-> "ready"]

\* A gate's answer on its way to the task: recorded, then the task row read.
Answers == [step : {"none", "recorded", "read"}, read : TaskStatus,
            to : {"ready", "failed"}]

Init ==
  /\ status   = [t \in Task |-> IF DependsOn[t] = {} THEN "ready" ELSE "pending"]
  /\ owner    = [t \in Task |-> None]
  /\ live     = [t \in Task |-> FALSE]
  /\ attempts = [t \in Task |-> 0]
  /\ verified = [t \in Task |-> FALSE]
  /\ refused  = {}
  /\ gate     = [t \in Task |-> "none"]
  /\ decided  = [t \in Task |-> {}]
  /\ answer   = [t \in Task |-> NoAnswer]
  /\ goal     = "active"
  /\ pc       = [w \in Worker |-> "poll"]
  /\ job      = [w \in Worker |-> None]
  /\ seen     = [w \in Worker |-> "ready"]
  /\ tries    = [w \in Worker |-> 0]
  /\ beating  = [w \in Worker |-> TRUE]
  /\ stopping = [w \in Worker |-> FALSE]
  /\ ruling   = [w \in Worker |-> "failed"]

Goto(w, point) == pc' = [pc EXCEPT ![w] = point]

-----------------------------------------------------------------------------
(* Statements on the task rows. *)

\* TransitionTask: validated against the status the caller holds in memory,
\* then written only if the row still has that status.  The lease is given up
\* with any status that may not hold one; whose lease it is, is not asked.

\* Defect: the row's status is not compared again in the write.
MayMoveUnguarded(t, from, to) == CanTransition(from, to)

MayMove(t, from, to) == CanTransition(from, to) /\ status[t] = from

Unleased(t) == /\ owner' = [owner EXCEPT ![t] = None]
               /\ live'  = [live EXCEPT ![t] = FALSE]

TransitionTask(t, from, to) ==
  /\ MayMove(t, from, to)
  /\ status' = [status EXCEPT ![t] = to]
  /\ IF to \in HoldsLease THEN UNCHANGED <<owner, live>> ELSE Unleased(t)
  /\ UNCHANGED attempts

\* A dependency is satisfied by success.  Every skip this engine writes says
\* the task was unreachable, so no skip satisfies one.

Satisfied(d) == status[d] = "succeeded"

Blocks(d)    == status[d] \in {"failed", "cancelled", "skipped"}

Promotable(t) == status[t] = "pending" /\ \A d \in DependsOn[t] : Satisfied(d)
Unreachable(t) == /\ status[t] \in {"pending", "ready"}
                  /\ \E d \in DependsOn[t] : Blocks(d)

PromoteReadyTasks ==
  status' = [t \in Task |-> IF Promotable(t) THEN "ready" ELSE status[t]]

\* One pass of SkipTasksBlockedByFailure, which repeats until none is changed.
SkipPass ==
  status' = [t \in Task |-> IF Unreachable(t) THEN "skipped" ELSE status[t]]

AllTerminal == \A t \in Task : status[t] \in TerminalStatus

\* refusedBuildSteps: every step of a build succeeded, and none kept anything.
KeptNothing == /\ BuildStep # {}
               /\ \A t \in BuildStep : status[t] = "succeeded" /\ t \in refused

\* settleGoal's rule: one failure is enough to fail the goal, and so is a build
\* in which every step was refused.
Outcome == IF (\E t \in Task : status[t] \in {"failed", "cancelled"}) \/ KeptNothing
           THEN "failed" ELSE "succeeded"

-----------------------------------------------------------------------------
(* The polling loop: Worker.Run. *)

\* What a worker does on its run context it does only until it is stopped.
At(w, point) == pc[w] = point /\ ~stopping[w]

\* Defect: the reaper does not look at the expiry.
ExpiredOrNot(t) == owner[t] # None /\ status[t] \in HoldsLease

\* Defect: the reaper forgets the states a lease is held in beside running.
ExpiredRunning(t) == owner[t] # None /\ ~live[t] /\ status[t] = "running"

Expired(t) == owner[t] # None /\ ~live[t] /\ status[t] \in HoldsLease

\* reapExpired, first in every turn of the loop.  A task with no attempt left
\* is failed in the same statement, and nothing is propagated from it.
Reap(w) ==
  /\ At(w, "poll") /\ Goto(w, "claim")
  /\ status' = [t \in Task |->
                  IF ~Expired(t) THEN status[t]
                  ELSE IF attempts[t] >= MaxAttempts THEN "failed" ELSE "ready"]
  /\ owner' = [t \in Task |-> IF Expired(t) THEN None ELSE owner[t]]
  /\ UNCHANGED <<live, attempts, verified, refused, human, goal, local, stopping, ruling>>

Claimable(t) == status[t] = "ready" /\ owner[t] = None /\ goal = "active"

\* FOR UPDATE SKIP LOCKED and not_before leave any claimable task possible.
Lease(w, t) ==
  /\ Claimable(t)
  /\ status'   = [status EXCEPT ![t] = "claimed"]
  /\ owner'    = [owner EXCEPT ![t] = w]
  /\ live'     = [live EXCEPT ![t] = TRUE]
  /\ attempts' = [attempts EXCEPT ![t] = @ + 1]
  /\ UNCHANGED <<verified, refused>>

Claim(w, t) ==
  /\ At(w, "claim") /\ Goto(w, "load")
  /\ Lease(w, t)
  /\ job'   = [job EXCEPT ![w] = t]
  /\ seen'  = [seen EXCEPT ![w] = "claimed"]
  /\ tries' = [tries EXCEPT ![w] = attempts[t] + 1]
  /\ UNCHANGED <<human, goal, beating, stopping, ruling>>

\* The claim commits but its reply is lost: nobody runs the task, and its
\* lease names a worker that does not know it.
ClaimUnheard(w, t) ==
  /\ At(w, "claim") /\ "dbError" \in Faults /\ Goto(w, "poll")
  /\ Lease(w, t)
  /\ UNCHANGED <<human, goal, local, stopping, ruling>>

ClaimNothing(w) ==
  /\ At(w, "claim") /\ Goto(w, "sweepRelease")
  /\ \A t \in Task : ~Claimable(t)
  /\ UNCHANGED <<rows, human, goal, local, stopping, ruling>>

\* Defect: no sweep; only the worker that finished a task releases others.
ReleaseAfterTaskOnly(w) ==
  /\ \/ At(w, "sweepRelease") /\ Goto(w, "sweepSettle") /\ UNCHANGED status
     \/ pc[w] = "release" /\ Goto(w, "settle") /\ PromoteReadyTasks
  /\ UNCHANGED <<owner, live, attempts, verified, refused, human, goal, local,
                 stopping, ruling>>

\* releaseWaitingGoals on the idle path, releaseWaiting after a task.  The
\* second runs on a context that outlives a stop, the first does not.
Release(w) ==
  /\ \/ At(w, "sweepRelease") /\ Goto(w, "sweepSettle")
     \/ pc[w] = "release" /\ Goto(w, "settle")
  /\ PromoteReadyTasks
  /\ UNCHANGED <<owner, live, attempts, verified, refused, human, goal, local,
                 stopping, ruling>>

\* Defect: no sweep; only the worker that finished a task settles its goal.
ReadOutcomeAfterTaskOnly(w) ==
  /\ At(w, "sweepSettle") \/ pc[w] = "settle"
  /\ IF AllTerminal /\ pc[w] = "settle"
     THEN Goto(w, "rule") /\ ruling' = [ruling EXCEPT ![w] = Outcome]
     ELSE Goto(w, "poll") /\ UNCHANGED ruling
  /\ UNCHANGED <<rows, human, goal, local, stopping>>

\* settleGoal's reads: return with work outstanding, else decide the outcome.
\* The refused steps are read after the counts, when every task is terminal and
\* none of their rows changes any more: the two reads are one step here.
ReadOutcome(w) ==
  /\ At(w, "sweepSettle") \/ pc[w] = "settle"
  /\ IF AllTerminal /\ (goal = "active" \/ pc[w] = "settle")
     THEN Goto(w, "rule") /\ ruling' = [ruling EXCEPT ![w] = Outcome]
     ELSE Goto(w, "poll") /\ UNCHANGED ruling
  /\ UNCHANGED <<rows, human, goal, local, stopping>>

\* settleGoal's write, conditional on the goal still being active.
SettleGoal(w) ==
  /\ pc[w] = "rule" /\ Goto(w, "poll")
  /\ goal' = IF goal = "active" THEN ruling[w] ELSE goal
  /\ ruling' = [ruling EXCEPT ![w] = "failed"]
  /\ UNCHANGED <<rows, human, local, stopping>>

-----------------------------------------------------------------------------
(* One attempt: Worker.runTask. *)

\* A status write by the worker: it lands and is heard, it is refused, or the
\* database fails it, in which case it may have landed without being heard.
\* A success written from verifying carries verified_at, and that of a build
\* step, in the same row, whether the step was refused (buildStepResult.Refused).
Refusals(t, to) == IF to = "succeeded" /\ t \in BuildStep
                   THEN {refused, refused \cup {t}} ELSE {refused}

Write(w, to, heard, unheard) ==
  \/ /\ TransitionTask(job[w], seen[w], to)
     /\ verified' = [verified EXCEPT ![job[w]] =
                       @ \/ (to = "succeeded" /\ seen[w] = "verifying")]
     /\ refused' \in Refusals(job[w], to)
     /\ \/ Goto(w, heard) /\ seen' = [seen EXCEPT ![w] = to]
        \/ "dbError" \in Faults /\ Goto(w, unheard) /\ UNCHANGED seen
  \/ /\ "dbError" \in Faults \/ ~MayMove(job[w], seen[w], to)
     /\ Goto(w, unheard) /\ UNCHANGED <<rows, seen>>

Transition(w, from, to, heard, unheard) ==
  /\ At(w, from)
  /\ Write(w, to, heard, unheard)
  /\ UNCHANGED <<human, goal, job, tries, beating, stopping, ruling>>

\* Points that decide where to go next and write nothing.
Decide(w, from, next) ==
  /\ At(w, from) /\ Goto(w, next)
  /\ UNCHANGED <<rows, human, goal, local, stopping, ruling>>

\* loadGoal and CheckGoal.  A goal over budget is refused through running,
\* because claimed cannot move to failed.
LoadGoal(w) == \/ Decide(w, "load", "begin")
               \/ Decide(w, "load", "refuse")
               \/ "dbError" \in Faults /\ Decide(w, "load", "fail")

Refuse(w) == Transition(w, "refuse", "running", "fail", "after")

Begin(w) == Transition(w, "begin", "running",
                       IF job[w] \in Gated THEN "gate" ELSE "work", "after")

\* Defect: only a rejection keeps a task whose gate was opened from running.
ReadGateUnlessRejected(w) ==
  \/ Decide(w, "gate", "work") /\ gate[job[w]] \in {"approved", "pending"}
  \/ Decide(w, "gate", "fail") /\ gate[job[w]] = "rejected"
  \/ Decide(w, "gate", "openGate") /\ gate[job[w]] = "none"

\* Defect: a task is parked without its gate being opened.
ReadGateWithoutAsking(w) ==
  \/ Decide(w, "gate", "work") /\ gate[job[w]] = "approved"
  \/ Decide(w, "gate", "fail") /\ gate[job[w]] = "rejected"
  \/ Decide(w, "gate", "park") /\ gate[job[w]] \in {"pending", "none"}

\* checkApproval reads the latest decision.  A read that fails falls through
\* to opening a gate, as having none does.
ReadGate(w) ==
  \/ Decide(w, "gate", "work") /\ gate[job[w]] = "approved"
  \/ Decide(w, "gate", "fail") /\ gate[job[w]] = "rejected"
  \/ Decide(w, "gate", "park") /\ gate[job[w]] = "pending"
  \/ /\ Decide(w, "gate", "openGate")
     /\ gate[job[w]] = "none" \/ "readError" \in Faults

\* The request and its event, one transaction; a pending request is kept.
OpenGate(w) ==
  \/ /\ At(w, "openGate")
     /\ Goto(w, "park") \/ ("dbError" \in Faults /\ Goto(w, "fail"))
     /\ gate' = [gate EXCEPT ![job[w]] = "pending"]
     /\ UNCHANGED <<rows, decided, answer, goal, local, stopping, ruling>>
  \/ "dbError" \in Faults /\ Decide(w, "openGate", "fail")

Park(w) == Transition(w, "park", "awaiting_approval", "after", "after")

\* Defect: the last attempt is retried once more.
JudgeOneTooMany(w, from, done) == \/ Decide(w, from, done)
                                  \/ tries[w] <= MaxAttempts /\ Decide(w, from, "requeue")
                                  \/ Decide(w, from, "fail")

\* After the executor, and after the verifier: completed, or retryOrFail,
\* which requeues only a retryable failure with attempts left.
Judge(w, from, done) == \/ Decide(w, from, done)
                        \/ tries[w] < MaxAttempts /\ Decide(w, from, "requeue")
                        \/ Decide(w, from, "fail")

Execute(w) == Judge(w, "work", IF job[w] \in Checked THEN "present" ELSE "succeed")
Present(w) == Transition(w, "present", "verifying", "verify", "after")
Verify(w)  == Judge(w, "verify", "succeed")
Succeed(w) == Transition(w, "succeed", "succeeded", "after", "after")
Requeue(w) == Transition(w, "requeue", "ready", "after", "after")

\* failTask: the write's refusal is ignored, and the failure is propagated in
\* statements of its own.
Fail(w) == Transition(w, "fail", "failed", "propagate", "propagate")

Propagate(w) ==
  \/ /\ At(w, "propagate")
     /\ \E t \in Task : Unreachable(t)
     /\ SkipPass
     /\ UNCHANGED <<owner, live, attempts, verified, refused, human, goal, pc, local,
                    stopping, ruling>>
  \/ /\ (\A t \in Task : ~Unreachable(t)) \/ "dbError" \in Faults
     /\ Decide(w, "propagate", "after")

\* The heartbeat goroutine stops for good at its first failure, whatever the
\* failure was.  A beat that succeeds only keeps the lease live.
HeartbeatStops(w) ==
  /\ pc[w] \in Attempt /\ beating[w] /\ ~stopping[w]
  /\ \/ owner[job[w]] # w \/ ~live[job[w]] \/ status[job[w]] \notin HoldsLease
     \/ "beatError" \in Faults
  /\ beating' = [beating EXCEPT ![w] = FALSE]
  /\ UNCHANGED <<rows, human, goal, pc, job, seen, tries, stopping, ruling>>

-----------------------------------------------------------------------------
(* Stopping, crashing, and the passing of time. *)

\* A stopped worker's decisions are skipped: the rest of its attempt unwinds.
Unwind(w) ==
  /\ stopping[w] /\ pc[w] \in Attempt /\ Goto(w, "after")
  /\ UNCHANGED <<rows, human, goal, local, stopping, ruling>>

\* greatest(n - 1, 0)
OneFewer(n) == IF n = 0 THEN 0 ELSE n - 1

\* Defect: the hand-back does not ask whose lease it ends.
HandBackAnyones(w) ==
  LET t == job[w] IN
  IF stopping[w] /\ status[t] \in HoldsLease
  THEN /\ status'   = [status EXCEPT ![t] = "ready"]
       /\ Unleased(t)
       /\ attempts' = [attempts EXCEPT ![t] = OneFewer(@)]
       /\ UNCHANGED <<verified, refused>>
  ELSE UNCHANGED rows

\* Queue.Release: only a task this worker still holds under a lease, and the
\* attempt is given back.
HandBack(w) ==
  LET t == job[w] IN
  IF stopping[w] /\ owner[t] = w /\ status[t] \in HoldsLease
  THEN /\ status'   = [status EXCEPT ![t] = "ready"]
       /\ Unleased(t)
       /\ attempts' = [attempts EXCEPT ![t] = OneFewer(@)]
       /\ UNCHANGED <<verified, refused>>
  ELSE UNCHANGED rows

\* The task variable goes out of scope.
Forget(w) == /\ job'     = [job EXCEPT ![w] = None]
             /\ seen'    = [seen EXCEPT ![w] = "ready"]
             /\ tries'   = [tries EXCEPT ![w] = 0]
             /\ beating' = [beating EXCEPT ![w] = TRUE]

\* The end of runTask: stop the heartbeat, and hand back if stopped.
AfterTask(w) ==
  /\ pc[w] = "after" /\ Goto(w, "release")
  /\ HandBack(w) \/ ("dbError" \in Faults /\ UNCHANGED rows)
  /\ Forget(w)
  /\ UNCHANGED <<human, goal, stopping, ruling>>

Stop(w) ==
  /\ "stop" \in Faults /\ w \in Mortal
  /\ ~stopping[w] /\ pc[w] \notin {"stopped", "crashed"}
  /\ stopping' = [stopping EXCEPT ![w] = TRUE]
  /\ UNCHANGED <<rows, human, goal, pc, local, ruling>>

Quit(w) ==
  /\ stopping[w] /\ pc[w] \in {"poll", "claim", "sweepRelease", "sweepSettle"}
  /\ Goto(w, "stopped")
  /\ UNCHANGED <<rows, human, goal, local, stopping, ruling>>

Crash(w) ==
  /\ "crash" \in Faults /\ w \in Mortal
  /\ pc[w] \notin {"stopped", "crashed"} /\ Goto(w, "crashed")
  /\ Forget(w)
  /\ stopping' = [stopping EXCEPT ![w] = FALSE]
  /\ ruling'   = [ruling EXCEPT ![w] = "failed"]
  /\ UNCHANGED <<rows, human, goal>>

\* A lease somebody is renewing: its owner is in an attempt at the task and
\* its heartbeat still runs.
Tended(t) == \E w \in Worker : /\ owner[t] = w /\ job[w] = t
                               /\ pc[w] \in Attempt /\ beating[w]

Lapse(t) ==
  /\ owner[t] # None /\ live[t]
  /\ ~Tended(t) \/ "stall" \in Faults
  /\ live' = [live EXCEPT ![t] = FALSE]
  /\ UNCHANGED <<status, owner, attempts, verified, refused, human, goal, pc, local,
                 stopping, ruling>>

-----------------------------------------------------------------------------
(* The person at the gate: GoalHandlers.Decide and forgectl approve.  Three *)
(* statements, in no transaction: record the decision, read the task, move  *)
(* the task from the status that was read.  One answer per task is on its   *)
(* way at a time.                                                           *)

RecordAnswer(t, d) ==
  /\ gate[t] = "pending" /\ answer[t].step = "none"
  /\ status[t] = "awaiting_approval" \/ "earlyAnswer" \in Faults
  /\ gate'    = [gate EXCEPT ![t] = d]
  /\ decided' = [decided EXCEPT ![t] = @ \cup {d}]
  /\ answer'  = [answer EXCEPT ![t] =
                  [NoAnswer EXCEPT !.step = "recorded",
                                   !.to = IF d = "approved" THEN "ready"
                                                            ELSE "failed"]]
  /\ UNCHANGED <<rows, goal, pc, local, stopping, ruling>>

ReadAnswered(t) ==
  /\ answer[t].step = "recorded"
  /\ answer' = [answer EXCEPT ![t].step = "read", ![t].read = status[t]]
  /\ UNCHANGED <<rows, gate, decided, goal, pc, local, stopping, ruling>>

\* The move is refused when the row has left the status that was read, and
\* nothing retries it: the decision stays recorded.
MoveAnswered(t) ==
  /\ answer[t].step = "read"
  /\ answer' = [answer EXCEPT ![t] = NoAnswer]
  /\ \/ TransitionTask(t, answer[t].read, answer[t].to) /\ UNCHANGED <<verified, refused>>
     \/ ~MayMove(t, answer[t].read, answer[t].to) /\ UNCHANGED rows
  /\ UNCHANGED <<gate, decided, goal, pc, local, stopping, ruling>>

LoseAnswer(t) ==
  /\ "answerLost" \in Faults /\ answer[t].step # "none"
  /\ answer' = [answer EXCEPT ![t] = NoAnswer]
  /\ UNCHANGED <<rows, gate, decided, goal, pc, local, stopping, ruling>>

-----------------------------------------------------------------------------
(* The specification. *)

Poll(w) == \/ Reap(w) \/ ClaimNothing(w) \/ Release(w) \/ ReadOutcome(w)
           \/ SettleGoal(w) \/ \E t \in Task : Claim(w, t)

RunTask(w) == \/ LoadGoal(w) \/ Refuse(w) \/ Begin(w)
              \/ ReadGate(w) \/ OpenGate(w) \/ Park(w)
              \/ Execute(w) \/ Present(w) \/ Verify(w)
              \/ Succeed(w) \/ Requeue(w) \/ Fail(w) \/ Propagate(w)
              \/ Unwind(w) \/ AfterTask(w) \/ Quit(w)

Disturb(w) == \/ HeartbeatStops(w) \/ Stop(w) \/ Crash(w)
              \/ \E t \in Task : ClaimUnheard(w, t)

Handle(t) == ReadAnswered(t) \/ MoveAnswered(t)

Next == \/ \E w \in Worker : Poll(w) \/ RunTask(w) \/ Disturb(w)
        \/ \E t \in Task : \/ Lapse(t) \/ Handle(t) \/ LoseAnswer(t)
                           \/ RecordAnswer(t, "approved")
                           \/ RecordAnswer(t, "rejected")

Spec == Init /\ [][Next]_vars

\* A worker that is neither stopped nor crashed keeps taking steps (every
\* model call and statement has a timeout), an unrenewed lease expires, and a
\* request handler runs to its end.  Nobody has to answer a gate.
Fairness ==
  /\ \A w \in Worker : WF_vars(Poll(w) \/ RunTask(w))
  /\ \A t \in Task : WF_vars(~Tended(t) /\ Lapse(t)) /\ WF_vars(Handle(t))

FairSpec == Spec /\ Fairness

-----------------------------------------------------------------------------
(* Properties. *)

TypeOK ==
  /\ status   \in [Task -> TaskStatus]
  /\ owner    \in [Task -> Worker \cup {None}]
  /\ live     \in [Task -> BOOLEAN]
  /\ attempts \in [Task -> Nat]
  /\ verified \in [Task -> BOOLEAN]
  /\ refused  \in SUBSET BuildStep
  /\ gate     \in [Task -> Gates]
  /\ decided  \in [Task -> SUBSET {"approved", "rejected"}]
  /\ answer   \in [Task -> Answers]
  /\ goal     \in GoalStatus
  /\ pc       \in [Worker -> Point]
  /\ job      \in [Worker -> Task \cup {None}]
  /\ seen     \in [Worker -> TaskStatus]
  /\ tries    \in [Worker -> Nat]
  /\ beating  \in [Worker -> BOOLEAN]
  /\ stopping \in [Worker -> BOOLEAN]
  /\ ruling   \in [Worker -> {"succeeded", "failed"}]

\* A row names a lease owner exactly while its status may hold a lease
\* (forge_tasks_lease_only_when_active), and no unowned row has a running
\* expiry (forge_tasks_lease_pairs): whatever path a task leaves work by, its
\* lease goes with it, or the queue would never offer the task again.
LeaseWhileWorking ==
  \A t \in Task : /\ owner[t] # None <=> status[t] \in HoldsLease
                  /\ live[t] => owner[t] # None

\* No work is done on a gated task unless a person approved it (checkApproval
\* asks before any work at the tier): no crash, hand-back or stale worker may
\* reach the executor or the verifier by another way.
WorkIsApproved ==
  \A w \in Worker :
    pc[w] \in Working /\ job[w] \in Gated => "approved" \in decided[job[w]]

\* A task leaves pending for anything but a skip only once everything it
\* depends on has succeeded, and that never stops being so.
DependenciesHonoured ==
  \A t \in Task : status[t] \notin {"pending", "skipped"} =>
                    \A d \in DependsOn[t] : status[d] = "succeeded"

\* A task is skipped only where something it depends on failed or was itself
\* unreachable: propagation never removes work that could still be done.
SkipIsJustified ==
  \A t \in Task : status[t] = "skipped" =>
                    \E d \in DependsOn[t] : status[d] \in {"failed", "skipped"}

\* A task whose tier requires verification is never succeeded without having
\* passed it, however many workers, attempts and hand-backs it took.
SuccessWasVerified ==
  \A t \in Checked : status[t] = "succeeded" => verified[t]

\* A goal is settled only with no work outstanding, and succeeded only if no
\* task failed and a build, if it was one, kept something: neither a partly
\* completed goal nor a build that kept nothing is reported as done.
GoalToldTruly ==
  goal # "active" => /\ \A t \in Task : status[t] \in TerminalStatus
                     /\ goal = Outcome

\* At most one worker does the work of a task at a time, while every live
\* worker renews its lease ("two workers must never run one task").
OneWorkerPerTask ==
  \A v, w \in Worker :
    v # w /\ pc[v] \in Working /\ pc[w] \in Working => job[v] # job[w]

\* No task is attempted more often than max_attempts, and a gate costs at
\* most one attempt more.
AttemptsBounded ==
  \A t \in Task : attempts[t] <= MaxAttempts + (IF t \in Gated THEN 1 ELSE 0)

\* A parked task always has somebody to wait for: its gate is open, or the
\* answer to it is on its way to the task.
ParkedIsAwaited ==
  \A t \in Task : status[t] = "awaiting_approval" =>
                    gate[t] = "pending" \/ answer[t].step # "none"

\* The lease of a worker that renews it is ended by that worker alone.
LiveLeaseIsKept ==
  [][\A t \in Task : live[t] /\ Tended(t) /\ owner'[t] # owner[t]
                       => pc'[owner[t]] # pc[owner[t]]]_vars

\* The engine implements TaskLifecycle: tasks walk the status graph, pending
\* work is offered only behind finished work, only unreachable work is skipped,
\* a step's refusal is recorded with its success, and the goal is settled once,
\* with the outcome its tasks have.  The graph is
\* `transitions' and the one move the lease reaper makes outside it.
EngineMoves == [LegalMoves EXCEPT !.claimed = @ \cup {"failed"}]

Lifecycle == INSTANCE TaskLifecycle WITH Moves <- EngineMoves

ImplementsLifecycle == Lifecycle!Spec

\* Every status move is one of the table `transitions'.
DocumentedMovesOnly ==
  [][\A t \in Task : status'[t] # status[t] => CanTransition(status[t], status'[t])]_vars

\* A decided gate keeps its decision: nobody is asked again about an action
\* they have answered for.
DecisionStands ==
  [][\A t \in Task : gate[t] \in {"approved", "rejected"} => gate'[t] = gate[t]]_vars

\* Work always comes back: a leased task leaves its lease, whoever held it.
LeasesEnd == \A t \in Task : owner[t] # None ~> owner[t] = None

\* A task whose dependencies have all succeeded is released, even if the
\* worker that finished the last of them died before releasing it.
FinishedWorkReleases ==
  \A t \in Task : Promotable(t) ~> status[t] # "pending"

\* A goal with no work outstanding is settled, even if the worker that
\* finished its last task died before settling it.
FinishedGoalSettles == AllTerminal ~> goal # "active"

\* A failure reaches everything that depends on it: no task stays pending
\* behind one that has failed.
FailureReachesDependents ==
  \A t \in Task : Unreachable(t) ~> status[t] = "skipped"
=============================================================================

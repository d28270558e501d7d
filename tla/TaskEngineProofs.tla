--------------------------- MODULE TaskEngineProofs ---------------------------
(* What holds of TaskEngine for every set of tasks and workers, every       *)
(* dependency graph, and every choice of faults.                            *)
EXTENDS TaskEngine, TLAPS

LEMMA InitTypeOK == Init => TypeOK
<1> SUFFICES ASSUME Init PROVE TypeOK
  OBVIOUS
<1> QED
  BY EngineAssumption DEF Init, TypeOK, TaskStatus, Gates, Answers, NoAnswer,
     GoalStatus, Point, Attempt

(* A status write keeps the rows well typed.                                *)
LEMMA TransitionType ==
  ASSUME TypeOK, NEW t, NEW from, NEW to \in TaskStatus,
         TransitionTask(t, from, to)
  PROVE  /\ status' \in [Task -> TaskStatus]
         /\ owner' \in [Task -> Worker \cup {None}]
         /\ live' \in [Task -> BOOLEAN]
         /\ attempts' \in [Task -> Nat]
BY DEF TypeOK, TransitionTask, Unleased

LEMMA WorkerTransitionType ==
  ASSUME TypeOK, NEW w \in Worker, NEW from, NEW to \in TaskStatus,
         NEW heard \in Point, NEW unheard \in Point,
         Transition(w, from, to, heard, unheard)
  PROVE  TypeOK'
<1>1. CASE TransitionTask(job[w], seen[w], to)
           /\ verified' = [verified EXCEPT ![job[w]] =
                             @ \/ (to = "succeeded" /\ seen[w] = "verifying")]
           /\ refused' \in Refusals(job[w], to)
  <2>1. /\ status' \in [Task -> TaskStatus]
        /\ owner' \in [Task -> Worker \cup {None}]
        /\ live' \in [Task -> BOOLEAN]
        /\ attempts' \in [Task -> Nat]
    BY <1>1, TransitionType
  <2>2. verified' \in [Task -> BOOLEAN]
    BY <1>1, Zenon DEF TypeOK
  <2>3. refused' \in SUBSET BuildStep
    BY <1>1 DEF Refusals, TypeOK
  <2> QED
    BY <1>1, <2>1, <2>2, <2>3 DEF Transition, Write, Goto, TypeOK, human
<1>2. CASE UNCHANGED <<rows, seen>>
  BY <1>2 DEF Transition, Write, Goto, TypeOK, human, rows
<1> QED
  BY <1>1, <1>2 DEF Transition, Write

LEMMA DecideType ==
  ASSUME TypeOK, NEW w \in Worker, NEW from, NEW next \in Point,
         Decide(w, from, next)
  PROVE  TypeOK'
BY DEF Decide, Goto, TypeOK, rows, human, local

(* Every action of a worker keeps the types.                                *)
LEMMA WorkerType ==
  ASSUME TypeOK, NEW w \in Worker, Poll(w) \/ RunTask(w) \/ Disturb(w)
  PROVE  TypeOK'
<1> USE EngineAssumption
<1>1. CASE Reap(w)
  BY <1>1 DEF TypeOK, Reap, Goto, Point, TaskStatus, human, local
<1>2. ASSUME NEW t \in Task, Lease(w, t)
      PROVE  /\ status' \in [Task -> TaskStatus]
             /\ owner' \in [Task -> Worker \cup {None}]
             /\ live' \in [Task -> BOOLEAN]
             /\ attempts' \in [Task -> Nat]
             /\ verified' \in [Task -> BOOLEAN]
        /\ refused' \in SUBSET BuildStep
             /\ refused' \in SUBSET BuildStep
  BY <1>2 DEF TypeOK, Lease, TaskStatus
<1>3. ASSUME NEW t \in Task, Claim(w, t) PROVE TypeOK'
  <2>1. Lease(w, t)
    BY <1>3 DEF Claim
  <2> QED
    BY <1>2, <1>3, <2>1 DEF TypeOK, Claim, Goto, Point, Attempt, TaskStatus, human
<1>4. ASSUME NEW t \in Task, ClaimUnheard(w, t) PROVE TypeOK'
  <2>1. Lease(w, t)
    BY <1>4 DEF ClaimUnheard
  <2> QED
    BY <1>2, <1>4, <2>1 DEF TypeOK, ClaimUnheard, Goto, Point, human, local
<1>5. CASE ClaimNothing(w)
  BY <1>5 DEF TypeOK, ClaimNothing, Goto, Point, rows, human, local
<1>6. CASE Release(w)
  BY <1>6 DEF TypeOK, Release, PromoteReadyTasks, Goto, Point, TaskStatus, human, local
<1>7. CASE ReadOutcome(w)
  <2>1. Outcome \in {"succeeded", "failed"}
    BY DEF Outcome
  <2> QED
    BY <1>7, <2>1 DEF TypeOK, ReadOutcome, Goto, Point, rows, human, local
<1>8. CASE SettleGoal(w)
  BY <1>8 DEF TypeOK, SettleGoal, Goto, Point, GoalStatus, rows, human, local
<1>9. CASE LoadGoal(w)
  BY <1>9, DecideType DEF LoadGoal, Point, Attempt
<1>10. CASE Refuse(w) \/ Begin(w) \/ Park(w)
  BY <1>10, WorkerTransitionType
  DEF Refuse, Begin, Park, Point, Attempt, TaskStatus
<1>11. CASE ReadGate(w)
  BY <1>11, DecideType DEF ReadGate, Point, Attempt
<1>12. CASE OpenGate(w)
  <2>1. CASE Decide(w, "openGate", "fail")
    BY <2>1, DecideType DEF Point, Attempt
  <2>2. CASE ~Decide(w, "openGate", "fail")
    BY <1>12, <2>2 DEF TypeOK, OpenGate, Goto, Point, Attempt, Gates, rows, local
  <2> QED
    BY <2>1, <2>2
<1>13. ASSUME NEW from, NEW done \in Point, Judge(w, from, done) PROVE TypeOK'
  BY <1>13, DecideType DEF Judge, Point, Attempt
<1>14. CASE Execute(w) \/ Verify(w)
  BY <1>13, <1>14 DEF Execute, Verify, Point, Attempt
<1>15. CASE Present(w) \/ Succeed(w) \/ Requeue(w) \/ Fail(w)
  BY <1>15, WorkerTransitionType
  DEF Present, Succeed, Requeue, Fail, Point, Attempt, TaskStatus
<1>16. CASE Propagate(w)
  <2>1. CASE Decide(w, "propagate", "after")
    BY <2>1, DecideType DEF Point
  <2>2. CASE ~Decide(w, "propagate", "after")
    BY <1>16, <2>2 DEF TypeOK, Propagate, SkipPass, TaskStatus, human, local
  <2> QED
    BY <2>1, <2>2
<1>17. CASE Unwind(w) \/ Quit(w)
  BY <1>17 DEF TypeOK, Unwind, Quit, Goto, Point, rows, human, local
<1>18. CASE AfterTask(w)
  <2>1. /\ status' \in [Task -> TaskStatus]
        /\ owner' \in [Task -> Worker \cup {None}]
        /\ live' \in [Task -> BOOLEAN]
        /\ attempts' \in [Task -> Nat]
        /\ verified' \in [Task -> BOOLEAN]
        /\ refused' \in SUBSET BuildStep
    <3>1. CASE UNCHANGED rows
      BY <3>1 DEF TypeOK, rows
    <3>2. CASE ~UNCHANGED rows
      <4>1. \A n \in Nat : OneFewer(n) \in Nat
        BY DEF OneFewer
      <4>2. attempts' = [attempts EXCEPT ![job[w]] = OneFewer(@)]
        BY <1>18, <3>2 DEF AfterTask, HandBack
      <4>3. attempts' \in [Task -> Nat]
        BY <4>1, <4>2 DEF TypeOK
      <4> QED
        <5>1. /\ status' = [status EXCEPT ![job[w]] = "ready"]
              /\ owner' = [owner EXCEPT ![job[w]] = None]
              /\ live' = [live EXCEPT ![job[w]] = FALSE]
              /\ UNCHANGED <<verified, refused>>
          BY <1>18, <3>2 DEF AfterTask, HandBack, Unleased
        <5> QED
          BY <4>3, <5>1 DEF TypeOK, TaskStatus
    <3> QED
      BY <3>1, <3>2
  <2> QED
    BY <1>18, <2>1 DEF TypeOK, AfterTask, Goto, Forget, Point, TaskStatus, human
<1>19. CASE HeartbeatStops(w)
  BY <1>19 DEF TypeOK, HeartbeatStops, rows, human
<1>20. CASE Stop(w)
  BY <1>20 DEF TypeOK, Stop, rows, human, local
<1>21. CASE Crash(w)
  BY <1>21 DEF TypeOK, Crash, Goto, Forget, Point, TaskStatus, rows, human
<1> QED
  BY <1>1, <1>3, <1>4, <1>5, <1>6, <1>7, <1>8, <1>9, <1>10, <1>11, <1>12, <1>14,
     <1>15, <1>16, <1>17, <1>18, <1>19, <1>20, <1>21 DEF Poll, RunTask, Disturb

(* So does the person at the gate, and the passing of time.                 *)
LEMMA TaskType ==
  ASSUME TypeOK, NEW t \in Task,
         \/ Lapse(t) \/ Handle(t) \/ LoseAnswer(t)
         \/ RecordAnswer(t, "approved") \/ RecordAnswer(t, "rejected")
  PROVE  TypeOK'
<1>1. CASE Lapse(t)
  BY <1>1 DEF TypeOK, Lapse, human, local
<1>2. NoAnswer \in Answers
  BY DEF NoAnswer, Answers, TaskStatus
<1>3. ASSUME NEW d \in {"approved", "rejected"}, RecordAnswer(t, d) PROVE TypeOK'
  BY <1>3 DEF TypeOK, RecordAnswer, NoAnswer, Answers, Gates, TaskStatus, rows, local
<1>4. CASE ReadAnswered(t)
  <2>1. answer' \in [Task -> Answers]
    <3>1. [answer[t] EXCEPT !.step = "read", !.read = status[t]] \in Answers
      <4>1. answer[t] \in Answers /\ status[t] \in TaskStatus
        BY DEF TypeOK
      <4> QED
        BY <4>1 DEF Answers
    <3>2. answer' = [answer EXCEPT ![t] = [answer[t] EXCEPT !.step = "read", !.read = status[t]]]
      BY <1>4 DEF ReadAnswered
    <3> QED
      BY <3>1, <3>2 DEF TypeOK
  <2> QED
    BY <1>4, <2>1 DEF TypeOK, ReadAnswered, rows, local
<1>5. CASE MoveAnswered(t)
  <2>1. answer[t].to \in TaskStatus
    BY DEF TypeOK, Answers, TaskStatus
  <2>2. /\ status' \in [Task -> TaskStatus]
        /\ owner' \in [Task -> Worker \cup {None}]
        /\ live' \in [Task -> BOOLEAN]
        /\ attempts' \in [Task -> Nat]
        /\ verified' \in [Task -> BOOLEAN]
        /\ refused' \in SUBSET BuildStep
    BY <1>5, <2>1, TransitionType DEF MoveAnswered, TypeOK, rows
  <2> QED
    BY <1>2, <1>5, <2>2 DEF TypeOK, MoveAnswered, local
<1>6. CASE LoseAnswer(t)
  BY <1>2, <1>6 DEF TypeOK, LoseAnswer, rows, local
<1> QED
  BY <1>1, <1>3, <1>4, <1>5, <1>6 DEF Handle

(* Every variable keeps its type, whatever the workers, people and faults do. *)
THEOREM TypeCorrect == Spec => []TypeOK
<1>1. ASSUME TypeOK, [Next]_vars PROVE TypeOK'
  <2>1. CASE Next
    BY <1>1, <2>1, WorkerType, TaskType DEF Next
  <2>2. CASE UNCHANGED vars
    BY <1>1, <2>2 DEF TypeOK, vars
  <2> QED
    BY <1>1, <2>1, <2>2
<1> QED
  BY InitTypeOK, <1>1, PTL DEF Spec

-----------------------------------------------------------------------------
(* The inductive invariant behind the safety properties.                    *)

(* A worker in an attempt, and a gate, belong to a task that has been offered:
   without this a late write could move a task out of pending. *)
BegunAlready ==
  /\ \A w \in Worker : pc[w] \in Attempt \cup {"after"} =>
                         job[w] \in Task /\ status[job[w]] # "pending"
  /\ \A t \in Task : gate[t] # "none" \/ answer[t].step # "none" =>
                       status[t] # "pending"

(* Nothing in the engine cancels a task. *)
NoneCancelled == \A t \in Task : status[t] # "cancelled"

(* An approved gate was approved by a person, and so was the gated task of a
   worker that is past the gate. *)
ApprovalOnRecord ==
  /\ \A t \in Task : gate[t] = "approved" => "approved" \in decided[t]
  /\ \A w \in Worker : pc[w] \in {"work", "present", "verify"} /\ job[w] \in Gated =>
                         "approved" \in decided[job[w]]

(* A worker about to record the success of a checked task saw it verified. *)
VerdictInHand ==
  \A w \in Worker :
    /\ pc[w] = "verify" => seen[w] = "verifying"
    /\ pc[w] = "succeed" /\ job[w] \in Checked => seen[w] = "verifying"

(* A worker about to settle the goal holds the outcome the tasks still have. *)
RulingIsTrue ==
  \A w \in Worker : pc[w] = "rule" => AllTerminal /\ ruling[w] = Outcome

(* A step that kept nothing has succeeded all the same. *)
RefusedSucceeded == \A t \in refused : status[t] = "succeeded"

Inv == /\ TypeOK /\ BegunAlready /\ NoneCancelled /\ RefusedSucceeded
       /\ LeaseWhileWorking /\ DependenciesHonoured /\ SkipIsJustified
       /\ ApprovalOnRecord /\ VerdictInHand /\ SuccessWasVerified
       /\ RulingIsTrue /\ GoalToldTruly

LEMMA InitInv == Init => Inv
<1> SUFFICES ASSUME Init PROVE Inv
  OBVIOUS
<1>1. TypeOK
  BY InitTypeOK
<1>2. BegunAlready /\ RulingIsTrue /\ VerdictInHand /\ ApprovalOnRecord
  BY EngineAssumption
  DEF Init, BegunAlready, RulingIsTrue, VerdictInHand, ApprovalOnRecord, Attempt, NoAnswer
<1>3. LeaseWhileWorking /\ DependenciesHonoured /\ SkipIsJustified
      /\ NoneCancelled /\ SuccessWasVerified /\ GoalToldTruly /\ RefusedSucceeded
  BY EngineAssumption
  DEF Init, LeaseWhileWorking, DependenciesHonoured, SkipIsJustified, NoneCancelled,
      SuccessWasVerified, GoalToldTruly, RefusedSucceeded, HoldsLease
<1> QED
  BY <1>1, <1>2, <1>3 DEF Inv

-----------------------------------------------------------------------------
(* What a step may do to the task rows.                                     *)

(* The ways a task's status may change: released, skipped, or moved along the
   graph by whoever works on it. *)
Released(t) == /\ status[t] = "pending" /\ status'[t] = "ready"
               /\ \A d \in DependsOn[t] : status[d] = "succeeded"
Skipped(t)  == /\ status[t] \in {"pending", "ready"} /\ status'[t] = "skipped"
               /\ \E d \in DependsOn[t] : Blocks(d)
Worked(t)   == /\ status[t] \notin TerminalStatus \cup {"pending"}
               /\ status'[t] \notin {"pending", "skipped", "cancelled"}
               /\ status'[t] \in EngineMoves[status[t]]

StatusMoves ==
  \A t \in Task : \/ status'[t] = status[t]
                  \/ Released(t) \/ Skipped(t) \/ Worked(t)

RowsKept == /\ StatusMoves
            /\ LeaseWhileWorking'

(* A task that is not already succeeded becomes so only from verifying, and
   with its verification recorded, if its tier asks for one. *)
SuccessKept ==
  /\ \A t \in Task : verified[t] => verified'[t]
  /\ \A t \in Checked : status'[t] = "succeeded" => status[t] = "succeeded" \/ verified'[t]

LEMMA Edges ==
  ASSUME NEW from \in TaskStatus, NEW to \in TaskStatus, CanTransition(from, to)
  PROVE  /\ from \notin TerminalStatus
         /\ to \in EngineMoves[from]
         /\ to \in {"running", "verifying"} => from \in HoldsLease
BY DEF CanTransition, LegalMoves, EngineMoves, TaskStatus, TerminalStatus, HoldsLease

(* A status write from a state that is not pending keeps the rows in order. *)
LEMMA TransitionKeepsRows ==
  ASSUME TypeOK, LeaseWhileWorking, NEW t \in Task, NEW from,
         NEW to \in {"running", "awaiting_approval", "verifying", "succeeded",
                     "failed", "ready"},
         status[t] # "pending", TransitionTask(t, from, to)
  PROVE  RowsKept
<1>1. /\ from \in TaskStatus /\ to \in TaskStatus /\ status[t] = from
      /\ CanTransition(from, to)
  BY DEF TransitionTask, MayMove, TypeOK, TaskStatus
<1>2. /\ from \notin TerminalStatus
      /\ to \in EngineMoves[from]
      /\ to \in {"running", "verifying"} => from \in HoldsLease
  BY <1>1, Edges
<1>3. status' = [status EXCEPT ![t] = to]
  BY DEF TransitionTask
<1>4. StatusMoves
  BY <1>1, <1>2, <1>3 DEF StatusMoves, Worked, TypeOK
<1>5. LeaseWhileWorking'
  <2>1. CASE to \in HoldsLease
    BY <1>1, <1>2, <1>3, <2>1
    DEF LeaseWhileWorking, TransitionTask, TypeOK, HoldsLease
  <2>2. CASE to \notin HoldsLease
    BY <1>3, <2>2 DEF LeaseWhileWorking, TransitionTask, Unleased, TypeOK
  <2> QED
    BY <2>1, <2>2
<1> QED
  BY <1>4, <1>5 DEF RowsKept

LEMMA UnchangedKeepsRows ==
  ASSUME TypeOK, LeaseWhileWorking, UNCHANGED rows
  PROVE  RowsKept /\ SuccessKept
BY DEF RowsKept, SuccessKept, StatusMoves, LeaseWhileWorking, rows

(* A status write by a worker. *)
LEMMA WorkerTransition ==
  ASSUME TypeOK, BegunAlready, LeaseWhileWorking, VerdictInHand,
         NEW w \in Worker, NEW from \in Attempt,
         NEW to \in {"running", "awaiting_approval", "verifying", "succeeded",
                     "failed", "ready"},
         to = "succeeded" => from = "succeed",
         NEW heard, NEW unheard, Transition(w, from, to, heard, unheard)
  PROVE  RowsKept /\ SuccessKept
<1>1. /\ job[w] \in Task /\ status[job[w]] # "pending"
      /\ pc[w] = from
  BY DEF BegunAlready, Transition, At
<1>2. CASE UNCHANGED rows
  BY <1>2, UnchangedKeepsRows
<1>3. CASE /\ TransitionTask(job[w], seen[w], to)
           /\ verified' = [verified EXCEPT ![job[w]] =
                             @ \/ (to = "succeeded" /\ seen[w] = "verifying")]
  <2>1. RowsKept
    BY <1>1, <1>3, TransitionKeepsRows
  <2>2. status' = [status EXCEPT ![job[w]] = to]
    BY <1>3 DEF TransitionTask
  <2>3. \A t \in Task : verified[t] => verified'[t]
    BY <1>3, Zenon DEF TypeOK
  <2>4. to = "succeeded" /\ job[w] \in Checked => verified'[job[w]]
    <3> HAVE to = "succeeded" /\ job[w] \in Checked
    <3>1. seen[w] = "verifying"
      BY <1>1 DEF VerdictInHand
    <3> QED
      BY <1>1, <1>3, <3>1, Zenon DEF TypeOK
  <2>5. \A t \in Checked : status'[t] = "succeeded" => status[t] = "succeeded" \/ verified'[t]
    BY <1>1, <2>2, <2>4, EngineAssumption DEF TypeOK
  <2> QED
    BY <2>1, <2>3, <2>5 DEF SuccessKept
<1> QED
  BY <1>2, <1>3 DEF Transition, Write, rows

(* Whatever a worker does, tasks move along the graph, leases come and go with
   the statuses that may hold them, and a success is a verified one. *)
LEMMA WorkerKeepsRows ==
  ASSUME TypeOK, BegunAlready, NoneCancelled, LeaseWhileWorking, VerdictInHand,
         NEW w \in Worker, Poll(w) \/ RunTask(w) \/ Disturb(w)
  PROVE  RowsKept /\ SuccessKept
<1>1. CASE Reap(w)
  <2>1. \A t \in Task : Expired(t) => status[t] \in {"claimed", "running", "verifying"}
    BY <1>1 DEF Expired, HoldsLease
  <2>2. StatusMoves
    BY <1>1, <2>1 DEF Reap, StatusMoves, Worked, EngineMoves, LegalMoves, TerminalStatus, TypeOK
  <2>3. LeaseWhileWorking'
    BY <1>1, <2>1 DEF Reap, LeaseWhileWorking, Expired, HoldsLease, TypeOK
  <2>4. SuccessKept
    BY <1>1, EngineAssumption DEF Reap, SuccessKept
  <2> QED
    BY <2>2, <2>3, <2>4 DEF RowsKept
<1>2. ASSUME NEW t \in Task, Lease(w, t) PROVE RowsKept /\ SuccessKept
  <2>1. StatusMoves
    BY <1>2 DEF Lease, Claimable, StatusMoves, Worked, EngineMoves, LegalMoves,
                TerminalStatus, TypeOK
  <2>2. LeaseWhileWorking'
    BY <1>2, EngineAssumption DEF Lease, LeaseWhileWorking, HoldsLease, TypeOK
  <2>3. SuccessKept
    BY <1>2, EngineAssumption DEF Lease, SuccessKept, TypeOK
  <2> QED
    BY <2>1, <2>2, <2>3 DEF RowsKept
<1>3. CASE \E t \in Task : Claim(w, t) \/ ClaimUnheard(w, t)
  BY <1>2, <1>3 DEF Claim, ClaimUnheard
<1>4. CASE Release(w)
  BY <1>4, EngineAssumption
  DEF Release, PromoteReadyTasks, Promotable, Satisfied, RowsKept, SuccessKept,
      StatusMoves, Released, LeaseWhileWorking, HoldsLease, TypeOK
<1>5. CASE UNCHANGED rows
  BY <1>5, UnchangedKeepsRows
<1>6. CASE Refuse(w) \/ Begin(w) \/ Park(w) \/ Present(w) \/ Succeed(w)
           \/ Requeue(w) \/ Fail(w)
  BY <1>6, WorkerTransition
  DEF Refuse, Begin, Park, Present, Succeed, Requeue, Fail, Attempt
<1>7. CASE SkipPass /\ UNCHANGED <<owner, live, verified>>
  BY <1>7, EngineAssumption
  DEF SkipPass, Unreachable, RowsKept, SuccessKept, StatusMoves, Skipped,
      LeaseWhileWorking, HoldsLease, TypeOK
<1>8. CASE AfterTask(w) /\ ~UNCHANGED rows
  <2>1. /\ job[w] \in Task /\ status[job[w]] \in HoldsLease
        /\ status' = [status EXCEPT ![job[w]] = "ready"]
        /\ Unleased(job[w]) /\ UNCHANGED verified
    BY <1>8 DEF AfterTask, HandBack, BegunAlready
  <2>2. StatusMoves
    BY <2>1 DEF StatusMoves, Worked, EngineMoves, LegalMoves, TerminalStatus, HoldsLease, TypeOK
  <2>3. LeaseWhileWorking'
    BY <2>1 DEF LeaseWhileWorking, Unleased, HoldsLease, TypeOK
  <2>4. SuccessKept
    BY <2>1, EngineAssumption DEF SuccessKept, TypeOK
  <2> QED
    BY <2>2, <2>3, <2>4 DEF RowsKept
<1>9. ClaimNothing(w) \/ ReadOutcome(w) \/ SettleGoal(w) \/ LoadGoal(w) \/ ReadGate(w)
      \/ OpenGate(w) \/ Execute(w) \/ Verify(w) \/ Unwind(w) \/ Quit(w)
      \/ HeartbeatStops(w) \/ Stop(w) \/ Crash(w) => UNCHANGED rows
  BY DEF ClaimNothing, ReadOutcome, SettleGoal, LoadGoal, ReadGate, OpenGate, Execute,
         Verify, Judge, Decide, Unwind, Quit, HeartbeatStops, Stop, Crash
<1>10. Propagate(w) => UNCHANGED rows \/ (SkipPass /\ UNCHANGED <<owner, live, verified>>)
  BY DEF Propagate, Decide
<1> QED
  BY <1>1, <1>3, <1>4, <1>5, <1>6, <1>7, <1>8, <1>9, <1>10 DEF Poll, RunTask, Disturb

(* The person at the gate, and a lapsing lease. *)
LEMMA TaskKeepsRows ==
  ASSUME TypeOK, BegunAlready, LeaseWhileWorking, NEW t \in Task,
         \/ Lapse(t) \/ Handle(t) \/ LoseAnswer(t)
         \/ RecordAnswer(t, "approved") \/ RecordAnswer(t, "rejected")
  PROVE  RowsKept /\ SuccessKept
<1>1. CASE Lapse(t)
  BY <1>1, EngineAssumption
  DEF Lapse, RowsKept, SuccessKept, StatusMoves, LeaseWhileWorking, TypeOK
<1>2. CASE UNCHANGED rows
  BY <1>2, UnchangedKeepsRows
<1>3. CASE MoveAnswered(t) /\ TransitionTask(t, answer[t].read, answer[t].to)
           /\ UNCHANGED verified
  <2>1. answer[t].to \in {"ready", "failed"}
    BY DEF TypeOK, Answers
  <2>2. status[t] # "pending"
    BY <1>3 DEF BegunAlready, MoveAnswered
  <2>3. RowsKept
    BY <1>3, <2>1, <2>2, TransitionKeepsRows
  <2>4. SuccessKept
    BY <1>3, <2>1, EngineAssumption DEF SuccessKept, TransitionTask, TypeOK
  <2> QED
    BY <2>3, <2>4
<1> QED
  BY <1>1, <1>2, <1>3 DEF Handle, ReadAnswered, MoveAnswered, LoseAnswer, RecordAnswer

(* What a build step kept is told once, as it succeeds. *)
RefusedKept ==
  /\ refused \subseteq refused'
  /\ \A t \in refused' \ refused :
       t \in BuildStep /\ status[t] # "succeeded" /\ status'[t] = "succeeded"

LEMMA WriteRefuses ==
  ASSUME TypeOK, NEW w \in Worker, NEW from, NEW to \in TaskStatus,
         NEW heard, NEW unheard, Transition(w, from, to, heard, unheard)
  PROVE  RefusedKept
<1>1. CASE UNCHANGED refused
  BY <1>1 DEF RefusedKept
<1>2. CASE /\ TransitionTask(job[w], seen[w], to)
           /\ to = "succeeded" /\ job[w] \in BuildStep
           /\ refused' = refused \cup {job[w]}
  <2>1. /\ seen[w] \in TaskStatus /\ CanTransition(seen[w], to)
        /\ status[job[w]] = seen[w]
        /\ status' = [status EXCEPT ![job[w]] = to]
    BY <1>2 DEF TransitionTask, MayMove, TypeOK
  <2>2. status[job[w]] # "succeeded"
    BY <2>1, Edges DEF TerminalStatus
  <2> QED
    BY <1>2, <2>1, <2>2, EngineAssumption DEF RefusedKept, TypeOK
<1> QED
  BY <1>1, <1>2 DEF Transition, Write, Refusals, rows

LEMMA RefusalsStand == ASSUME TypeOK, Next PROVE RefusedKept
<1>1. ASSUME NEW w \in Worker,
             \/ Refuse(w) \/ Begin(w) \/ Park(w) \/ Present(w) \/ Succeed(w)
             \/ Requeue(w) \/ Fail(w)
      PROVE  RefusedKept
  BY <1>1, WriteRefuses
  DEF Refuse, Begin, Park, Present, Succeed, Requeue, Fail, TaskStatus
<1>2. ASSUME NEW w \in Worker, Poll(w) \/ Disturb(w) PROVE UNCHANGED refused
  BY <1>2 DEF Poll, Disturb, Reap, Claim, ClaimUnheard, Lease, ClaimNothing, Release,
              ReadOutcome, SettleGoal, HeartbeatStops, Stop, Crash, rows
<1>3. ASSUME NEW w \in Worker,
             \/ LoadGoal(w) \/ ReadGate(w) \/ OpenGate(w) \/ Execute(w) \/ Verify(w)
             \/ Propagate(w) \/ Unwind(w) \/ AfterTask(w) \/ Quit(w)
      PROVE  UNCHANGED refused
  BY <1>3 DEF LoadGoal, ReadGate, OpenGate, Execute, Verify, Judge, Decide, Propagate,
              Unwind, AfterTask, HandBack, Quit, rows
<1>4. ASSUME NEW t \in Task,
             \/ Lapse(t) \/ Handle(t) \/ LoseAnswer(t)
             \/ RecordAnswer(t, "approved") \/ RecordAnswer(t, "rejected")
      PROVE  UNCHANGED refused
  BY <1>4 DEF Lapse, Handle, ReadAnswered, MoveAnswered, LoseAnswer, RecordAnswer, rows
<1>5. UNCHANGED refused => RefusedKept
  BY DEF RefusedKept
<1> QED
  BY <1>1, <1>2, <1>3, <1>4, <1>5 DEF Next, RunTask

-----------------------------------------------------------------------------
(* What a step may do to a worker's own state, and to the gates.            *)

(* No other worker's place, task or knowledge changes. *)
Alone(w) == \A v \in Worker \ {w} :
              /\ pc'[v] = pc[v] /\ job'[v] = job[v]
              /\ seen'[v] = seen[v] /\ ruling'[v] = ruling[v]

(* How a worker comes to the places the invariant speaks of. *)
Progress(w) ==
  /\ pc'[w] \in Attempt \cup {"after"} =>
       \/ pc[w] \in Attempt \cup {"after"} /\ job'[w] = job[w]
       \/ pc'[w] = "load" /\ job'[w] \in Task /\ status'[job'[w]] = "claimed"
  /\ pc'[w] \in {"work", "present", "verify"} =>
       /\ job'[w] = job[w] /\ pc[w] \in Attempt
       /\ \/ pc[w] \in {"work", "present", "verify"}
          \/ job[w] \notin Gated \/ gate[job[w]] = "approved"
  /\ pc'[w] = "verify" => (pc[w] = "verify" /\ seen'[w] = seen[w]) \/ seen'[w] = "verifying"
  /\ pc'[w] = "succeed" /\ job'[w] \in Checked =>
       pc[w] \in {"succeed", "verify"} /\ job'[w] = job[w] /\ seen'[w] = seen[w]
  /\ pc'[w] = "rule" => \/ pc[w] = "rule" /\ ruling'[w] = ruling[w]
                        \/ AllTerminal /\ ruling'[w] = Outcome

(* The gates open only for a worker's own task, and the answers wait. *)
GatesKept(w) == /\ UNCHANGED <<decided, answer>>
                /\ \A t \in Task : \/ gate'[t] = gate[t]
                                   \/ gate'[t] = "pending" /\ t = job[w] /\ pc[w] \in Attempt

LEMMA WorkerTransitionProgress ==
  ASSUME TypeOK, NEW w \in Worker, NEW from \in Attempt, NEW to \in TaskStatus,
         NEW heard, NEW unheard, Transition(w, from, to, heard, unheard),
         heard \notin {"present", "succeed", "rule"},
         unheard \notin {"work", "present", "verify", "succeed", "rule"},
         heard = "work" => job[w] \notin Gated,
         heard = "verify" => from = "present" /\ to = "verifying"
  PROVE  Alone(w) /\ Progress(w) /\ GatesKept(w)
<1>1. /\ Alone(w)
      /\ GatesKept(w)
      /\ pc[w] = from /\ job'[w] = job[w]
      /\ (pc'[w] = heard /\ seen'[w] = to) \/ pc'[w] = unheard
  BY DEF TypeOK, Transition, Write, At, Goto, human, Alone, GatesKept, rows
<1> QED
  BY <1>1 DEF Progress, Attempt

LEMMA DecideProgress ==
  ASSUME TypeOK, NEW w \in Worker, NEW from \in Attempt,
         NEW next \in Attempt \cup {"after"},
         Decide(w, from, next),
         next \in {"work", "present"} =>
           \/ from \in {"work", "verify"}
           \/ from = "gate" /\ gate[job[w]] = "approved",
         next = "succeed" =>
           from = "verify" \/ (from = "work" /\ job[w] \notin Checked),
         next # "verify"
  PROVE  Alone(w) /\ Progress(w) /\ GatesKept(w)
<1>1. /\ Alone(w)
      /\ GatesKept(w)
      /\ pc[w] = from /\ job'[w] = job[w] /\ pc'[w] = next /\ seen'[w] = seen[w]
  BY DEF TypeOK, Decide, At, Goto, human, local, Alone, GatesKept
<1> QED
  BY <1>1 DEF Progress, Attempt

LEMMA WorkerProgress ==
  ASSUME TypeOK, NEW w \in Worker, Poll(w) \/ RunTask(w) \/ Disturb(w)
  PROVE  Alone(w) /\ Progress(w) /\ GatesKept(w)
<1>1. CASE Reap(w) \/ ClaimNothing(w) \/ Release(w) \/ SettleGoal(w)
           \/ (\E t \in Task : ClaimUnheard(w, t))
  <2>1. /\ Alone(w) /\ GatesKept(w)
        /\ pc'[w] \in {"claim", "sweepRelease", "sweepSettle", "settle", "poll"}
    BY <1>1 DEF TypeOK, Reap, ClaimNothing, Release, SettleGoal, ClaimUnheard, Goto,
                human, local, Alone, GatesKept
  <2> QED
    BY <2>1 DEF Progress, Attempt
<1>2. ASSUME NEW t \in Task, Claim(w, t) PROVE Alone(w) /\ Progress(w) /\ GatesKept(w)
  <2>1. /\ Alone(w) /\ GatesKept(w)
        /\ pc'[w] = "load" /\ job'[w] = t /\ status'[t] = "claimed"
    BY <1>2 DEF TypeOK, Claim, Lease, Goto, human, Alone, GatesKept
  <2> QED
    BY <2>1 DEF Progress, Attempt
<1>3. CASE ReadOutcome(w)
  <2>1. /\ Alone(w) /\ GatesKept(w)
        /\ \/ pc'[w] = "poll"
           \/ pc'[w] = "rule" /\ AllTerminal /\ ruling'[w] = Outcome
    BY <1>3 DEF TypeOK, ReadOutcome, Goto, human, local, Alone, GatesKept
  <2> QED
    BY <2>1 DEF Progress, Attempt
<1>4. CASE LoadGoal(w)
  BY <1>4, DecideProgress DEF LoadGoal, Attempt
<1>5. CASE ReadGate(w)
  BY <1>5, DecideProgress DEF ReadGate, Attempt
<1>6. CASE Execute(w)
  BY <1>6, DecideProgress DEF Execute, Judge, Attempt
<1>7. CASE Verify(w)
  BY <1>7, DecideProgress DEF Verify, Judge, Attempt
<1>8. CASE OpenGate(w)
  <2>1. CASE Decide(w, "openGate", "fail")
    BY <2>1, DecideProgress DEF Attempt
  <2>2. CASE ~Decide(w, "openGate", "fail")
    <3>1. /\ Alone(w) /\ GatesKept(w)
          /\ pc[w] = "openGate" /\ pc'[w] \in {"park", "fail"} /\ job'[w] = job[w]
      BY <1>8, <2>2 DEF TypeOK, OpenGate, At, Goto, local, Alone, GatesKept, Attempt
    <3> QED
      BY <3>1 DEF Progress, Attempt
  <2> QED
    BY <2>1, <2>2
<1>9. CASE Refuse(w) \/ Park(w) \/ Present(w) \/ Succeed(w) \/ Requeue(w) \/ Fail(w)
  <2>1. CASE Refuse(w)
    BY <2>1, WorkerTransitionProgress DEF Refuse, Attempt, TaskStatus
  <2>2. CASE Park(w)
    BY <2>2, WorkerTransitionProgress DEF Park, Attempt, TaskStatus
  <2>3. CASE Present(w)
    BY <2>3, WorkerTransitionProgress DEF Present, Attempt, TaskStatus
  <2>4. CASE Succeed(w)
    BY <2>4, WorkerTransitionProgress DEF Succeed, Attempt, TaskStatus
  <2>5. CASE Requeue(w)
    BY <2>5, WorkerTransitionProgress DEF Requeue, Attempt, TaskStatus
  <2>6. CASE Fail(w)
    BY <2>6, WorkerTransitionProgress DEF Fail, Attempt, TaskStatus
  <2> QED
    BY <1>9, <2>1, <2>2, <2>3, <2>4, <2>5, <2>6
<1>10. CASE Begin(w)
  <2>1. CASE job[w] \in Gated
    <3>1. Transition(w, "begin", "running", "gate", "after")
      BY <1>10, <2>1 DEF Begin
    <3> QED
      BY <3>1, WorkerTransitionProgress DEF Attempt, TaskStatus
  <2>2. CASE job[w] \notin Gated
    <3>1. Transition(w, "begin", "running", "work", "after")
      BY <1>10, <2>2 DEF Begin
    <3> QED
      BY <2>2, <3>1, WorkerTransitionProgress DEF Attempt, TaskStatus
  <2> QED
    BY <2>1, <2>2
<1>11. CASE Propagate(w)
  <2>1. CASE Decide(w, "propagate", "after")
    BY <2>1, DecideProgress DEF Attempt
  <2>2. CASE ~Decide(w, "propagate", "after")
    BY <1>11, <2>2
    DEF TypeOK, Propagate, At, human, local, Alone, Progress, GatesKept, Attempt
  <2> QED
    BY <2>1, <2>2
<1>12. CASE Unwind(w) \/ AfterTask(w) \/ Quit(w) \/ Crash(w)
  <2>1. /\ Alone(w) /\ GatesKept(w)
        /\ \/ pc'[w] \in {"release", "stopped", "crashed"}
           \/ pc'[w] = "after" /\ pc[w] \in Attempt /\ job'[w] = job[w]
    BY <1>12 DEF TypeOK, Unwind, AfterTask, Quit, Crash, Forget, Goto, human, local,
                 Alone, GatesKept
  <2> QED
    BY <2>1 DEF Progress, Attempt
<1>13. CASE HeartbeatStops(w) \/ Stop(w)
  BY <1>13 DEF TypeOK, HeartbeatStops, Stop, human, local, Alone, Progress, GatesKept, Attempt
<1> QED
  BY <1>1, <1>2, <1>3, <1>4, <1>5, <1>6, <1>7, <1>8, <1>9, <1>10, <1>11, <1>12, <1>13
  DEF Poll, RunTask, Disturb

LEMMA TaskProgress ==
  ASSUME TypeOK, BegunAlready, NEW t \in Task,
         \/ Lapse(t) \/ Handle(t) \/ LoseAnswer(t)
         \/ RecordAnswer(t, "approved") \/ RecordAnswer(t, "rejected")
  PROVE  /\ UNCHANGED local /\ UNCHANGED <<pc, goal, ruling>>
         /\ \A u \in Task : decided[u] \subseteq decided'[u]
         /\ \A u \in Task : \/ gate'[u] = gate[u] /\ answer'[u].step = answer[u].step
                            \/ answer'[u].step = "none" /\ gate'[u] = gate[u]
                            \/ status[u] # "pending" /\ gate'[u] = gate[u]
                            \/ status[u] # "pending" /\ gate'[u] \in decided'[u]
<1>1. ASSUME NEW d \in {"approved", "rejected"}, RecordAnswer(t, d)
      PROVE  /\ UNCHANGED local /\ UNCHANGED <<pc, goal, ruling>>
             /\ \A u \in Task \ {t} : decided'[u] = decided[u] /\ gate'[u] = gate[u]
                                      /\ answer'[u] = answer[u]
             /\ decided'[t] = decided[t] \cup {d} /\ gate'[t] = d /\ status[t] # "pending"
  BY <1>1 DEF RecordAnswer, BegunAlready, TypeOK
<1>2. CASE Lapse(t)
  BY <1>2 DEF Lapse, human
<1>3. CASE Handle(t) \/ LoseAnswer(t)
  <2>1. UNCHANGED local /\ UNCHANGED <<pc, goal, ruling, gate, decided>>
    BY <1>3 DEF Handle, ReadAnswered, MoveAnswered, LoseAnswer
  <2>2. \A u \in Task \ {t} : answer'[u] = answer[u]
    BY <1>3 DEF Handle, ReadAnswered, MoveAnswered, LoseAnswer, TypeOK
  <2>3. answer'[t].step = "none" \/ status[t] # "pending"
    <3>1. CASE ReadAnswered(t)
      BY <3>1 DEF ReadAnswered, BegunAlready
    <3>2. CASE MoveAnswered(t) \/ LoseAnswer(t)
      BY <3>2 DEF MoveAnswered, LoseAnswer, NoAnswer, TypeOK
    <3> QED
      BY <1>3, <3>1, <3>2 DEF Handle
  <2> QED
    BY <2>1, <2>2, <2>3
<1> QED
  BY <1>1, <1>2, <1>3

-----------------------------------------------------------------------------
(* The invariant is inductive.                                              *)

(* A finished task keeps its status, and what it kept: with them stand the
   outcome of a goal that has no work outstanding, and every property of
   finished tasks. *)
LEMMA FinishedStays ==
  ASSUME NoneCancelled, StatusMoves
  PROVE  \A t \in Task : status[t] \in TerminalStatus => status'[t] = status[t]
BY DEF StatusMoves, Released, Skipped, Worked, TerminalStatus

LEMMA OutcomeStays ==
  ASSUME NoneCancelled, StatusMoves, RefusedKept, AllTerminal
  PROVE  AllTerminal' /\ Outcome' = Outcome
<1>1. \A t \in Task : status'[t] = status[t]
  BY FinishedStays DEF AllTerminal
<1>2. refused' = refused
  BY <1>1, EngineAssumption DEF RefusedKept
<1>3. KeptNothing' = KeptNothing
  BY <1>1, <1>2, EngineAssumption DEF KeptNothing
<1> QED
  BY <1>1, <1>3 DEF AllTerminal, Outcome

LEMMA RefusedInvariant ==
  ASSUME Inv, StatusMoves, RefusedKept
  PROVE  RefusedSucceeded'
BY FinishedStays, EngineAssumption
DEF Inv, TypeOK, RefusedSucceeded, RefusedKept, TerminalStatus

(* The conjuncts that speak only of the rows follow from how tasks may move. *)
LEMMA RowsInvariant ==
  ASSUME Inv, RowsKept, SuccessKept
  PROVE  /\ NoneCancelled' /\ DependenciesHonoured' /\ SkipIsJustified'
         /\ SuccessWasVerified'
<1>1. \A t \in Task : status[t] \in TerminalStatus => status'[t] = status[t]
  BY FinishedStays DEF Inv, RowsKept
<1>2. NoneCancelled'
  BY DEF Inv, RowsKept, StatusMoves, Released, Skipped, Worked, NoneCancelled
<1>3. DependenciesHonoured'
  <2> SUFFICES ASSUME NEW t \in Task, status'[t] \notin {"pending", "skipped"},
                      NEW d \in DependsOn[t]
               PROVE  status'[d] = "succeeded"
    BY DEF DependenciesHonoured
  <2>1. status[d] = "succeeded"
    BY DEF Inv, RowsKept, StatusMoves, Released, Skipped, Worked, TerminalStatus,
           DependenciesHonoured
  <2> QED
    BY <1>1, <2>1, EngineAssumption DEF TerminalStatus
<1>4. SkipIsJustified'
  <2> SUFFICES ASSUME NEW t \in Task, status'[t] = "skipped"
               PROVE  \E d \in DependsOn[t] : status'[d] \in {"failed", "skipped"}
    BY DEF SkipIsJustified
  <2>1. PICK d \in DependsOn[t] : status[d] \in {"failed", "skipped"}
    <3>1. CASE status[t] = "skipped"
      BY <3>1 DEF Inv, SkipIsJustified
    <3>2. CASE Skipped(t)
      BY <3>2, EngineAssumption DEF Skipped, Blocks, Inv, NoneCancelled
    <3> QED
      BY <3>1, <3>2 DEF RowsKept, StatusMoves, Released, Worked
  <2> QED
    BY <1>1, <2>1, EngineAssumption DEF TerminalStatus
<1>5. SuccessWasVerified'
  BY EngineAssumption DEF Inv, SuccessKept, SuccessWasVerified
<1> QED
  BY <1>2, <1>3, <1>4, <1>5

(* A task that has been offered stays so. *)
LEMMA BegunStays ==
  ASSUME StatusMoves, NEW t \in Task, status[t] # "pending"
  PROVE  status'[t] # "pending"
BY DEF StatusMoves, Released, Skipped, Worked

LEMMA WorkerInvariant ==
  ASSUME Inv, RefusedKept, NEW w \in Worker, Poll(w) \/ RunTask(w) \/ Disturb(w)
  PROVE  Inv'
<1>1. TypeOK'
  BY WorkerType DEF Inv
<1>2. RowsKept /\ SuccessKept
  BY WorkerKeepsRows DEF Inv
<1>3. NoneCancelled' /\ DependenciesHonoured' /\ SkipIsJustified' /\ SuccessWasVerified'
  BY <1>2, RowsInvariant
<1>4. Alone(w) /\ Progress(w) /\ GatesKept(w)
  BY WorkerProgress DEF Inv
<1>5. AllTerminal => AllTerminal' /\ Outcome' = Outcome
  BY <1>2, OutcomeStays DEF Inv, RowsKept
<1>6. BegunAlready'
  <2>1. ASSUME NEW v \in Worker, pc'[v] \in Attempt \cup {"after"}
        PROVE  job'[v] \in Task /\ status'[job'[v]] # "pending"
    <3>1. CASE pc[v] \in Attempt \cup {"after"} /\ job'[v] = job[v]
      BY <1>2, <3>1, BegunStays DEF Inv, BegunAlready, RowsKept
    <3> QED
      BY <1>4, <2>1, <3>1 DEF Alone, Progress
  <2>2. ASSUME NEW t \in Task, gate'[t] # "none" \/ answer'[t].step # "none"
        PROVE  status'[t] # "pending"
    <3>1. status[t] # "pending"
      BY <1>4, <2>2 DEF Inv, BegunAlready, GatesKept
    <3> QED
      BY <1>2, <3>1, BegunStays DEF RowsKept
  <2> QED
    BY <2>1, <2>2 DEF BegunAlready
<1>7. ApprovalOnRecord'
  <2>1. \A t \in Task : gate'[t] = "approved" => "approved" \in decided'[t]
    BY <1>4 DEF Inv, ApprovalOnRecord, GatesKept
  <2>2. ASSUME NEW v \in Worker, pc'[v] \in {"work", "present", "verify"}, job'[v] \in Gated
        PROVE  "approved" \in decided'[job'[v]]
    BY <1>4, <2>2, EngineAssumption
    DEF Inv, ApprovalOnRecord, Alone, Progress, GatesKept
  <2> QED
    BY <2>1, <2>2 DEF ApprovalOnRecord
<1>8. VerdictInHand'
  BY <1>4 DEF Inv, VerdictInHand, Alone, Progress
<1>9. RulingIsTrue'
  <2> SUFFICES ASSUME NEW v \in Worker, pc'[v] = "rule"
               PROVE  AllTerminal' /\ ruling'[v] = Outcome'
    BY DEF RulingIsTrue
  <2>1. AllTerminal /\ ruling'[v] = Outcome
    BY <1>4 DEF Inv, RulingIsTrue, Alone, Progress
  <2> QED
    BY <1>5, <2>1
<1>10. GoalToldTruly'
  <2>1. goal' = goal \/ (goal' = ruling[w] /\ pc[w] = "rule")
    BY DEF Poll, RunTask, Disturb, Reap, Claim, ClaimUnheard, ClaimNothing, Release,
           ReadOutcome, SettleGoal, LoadGoal, Refuse, Begin, ReadGate, OpenGate, Park,
           Execute, Present, Verify, Succeed, Requeue, Fail, Propagate, Judge, Decide,
           Transition, Unwind, AfterTask, Quit, HeartbeatStops, Stop, Crash
  <2>2. goal' # "active" => AllTerminal /\ goal' = Outcome
    BY <2>1 DEF Inv, RulingIsTrue, GoalToldTruly, AllTerminal
  <2> QED
    BY <1>5, <2>2 DEF GoalToldTruly, AllTerminal
<1> QED
  BY <1>1, <1>2, <1>3, <1>6, <1>7, <1>8, <1>9, <1>10, RefusedInvariant DEF Inv, RowsKept

LEMMA TaskInvariant ==
  ASSUME Inv, RefusedKept, NEW t \in Task,
         \/ Lapse(t) \/ Handle(t) \/ LoseAnswer(t)
         \/ RecordAnswer(t, "approved") \/ RecordAnswer(t, "rejected")
  PROVE  Inv'
<1>1. TypeOK'
  BY TaskType DEF Inv
<1>2. RowsKept /\ SuccessKept
  BY TaskKeepsRows DEF Inv
<1>3. NoneCancelled' /\ DependenciesHonoured' /\ SkipIsJustified' /\ SuccessWasVerified'
  BY <1>2, RowsInvariant
<1>4. /\ pc' = pc /\ job' = job /\ seen' = seen /\ ruling' = ruling /\ goal' = goal
      /\ \A u \in Task : decided[u] \subseteq decided'[u]
      /\ \A u \in Task : \/ gate'[u] = gate[u] /\ answer'[u].step = answer[u].step
                         \/ answer'[u].step = "none" /\ gate'[u] = gate[u]
                         \/ status[u] # "pending" /\ gate'[u] = gate[u]
                         \/ status[u] # "pending" /\ gate'[u] \in decided'[u]
  BY TaskProgress DEF Inv, local
<1>5. AllTerminal => AllTerminal' /\ Outcome' = Outcome
  BY <1>2, OutcomeStays DEF Inv, RowsKept
<1>6. \A u \in Task : status[u] # "pending" => status'[u] # "pending"
  BY <1>2, BegunStays DEF RowsKept
<1>7. BegunAlready'
  BY <1>4, <1>6 DEF Inv, BegunAlready
<1>8. ApprovalOnRecord'
  BY <1>4, EngineAssumption DEF Inv, ApprovalOnRecord
<1>9. VerdictInHand'
  BY <1>4 DEF Inv, VerdictInHand
<1>10. RulingIsTrue'
  BY <1>4, <1>5 DEF Inv, RulingIsTrue
<1>11. GoalToldTruly'
  BY <1>4, <1>5 DEF Inv, GoalToldTruly, AllTerminal
<1> QED
  BY <1>1, <1>2, <1>3, <1>7, <1>8, <1>9, <1>10, <1>11, RefusedInvariant DEF Inv, RowsKept

LEMMA Inductive == Inv /\ [Next]_vars => Inv'
<1> SUFFICES ASSUME Inv, [Next]_vars PROVE Inv'
  OBVIOUS
<1>1. CASE Next
  <2>1. RefusedKept
    BY <1>1, RefusalsStand DEF Inv
  <2> QED
    BY <1>1, <2>1, WorkerInvariant, TaskInvariant DEF Next
<1>2. CASE UNCHANGED vars
  BY <1>2 DEF vars, Inv, TypeOK, BegunAlready, NoneCancelled, LeaseWhileWorking,
     DependenciesHonoured, SkipIsJustified, ApprovalOnRecord, VerdictInHand,
     SuccessWasVerified, RulingIsTrue, GoalToldTruly, AllTerminal, Outcome, KeptNothing,
     RefusedSucceeded
<1> QED
  BY <1>1, <1>2

THEOREM Invariance == Spec => []Inv
BY InitInv, Inductive, PTL DEF Spec

(* No row keeps a lease it may not have, nor loses one it needs
   (forge_tasks_lease_only_when_active, forge_tasks_lease_pairs). *)
THEOREM LeasesFollowStatus == Spec => []LeaseWhileWorking
<1>1. Inv => LeaseWhileWorking
  BY DEF Inv
<1> QED
  BY <1>1, Invariance, PTL

(* checkApproval: nobody works on a gated task that no person approved. *)
THEOREM GateHolds == Spec => []WorkIsApproved
<1>1. Inv => WorkIsApproved
  BY DEF Inv, ApprovalOnRecord, WorkIsApproved, Working
<1> QED
  BY <1>1, Invariance, PTL

(* PromoteReadyTasks: a task is worked on only behind finished work. *)
THEOREM OrderHolds == Spec => []DependenciesHonoured
<1>1. Inv => DependenciesHonoured
  BY DEF Inv
<1> QED
  BY <1>1, Invariance, PTL

(* SkipTasksBlockedByFailure: only unreachable work is skipped. *)
THEOREM SkipsHold == Spec => []SkipIsJustified
<1>1. Inv => SkipIsJustified
  BY DEF Inv
<1> QED
  BY <1>1, Invariance, PTL

(* completeTask: a checked task succeeds only once it is verified. *)
THEOREM VerificationHolds == Spec => []SuccessWasVerified
<1>1. Inv => SuccessWasVerified
  BY DEF Inv
<1> QED
  BY <1>1, Invariance, PTL

(* settleGoal: a goal's outcome is what became of its tasks, the refused steps
   of a build among them. *)
THEOREM OutcomeIsTrue == Spec => []GoalToldTruly
<1>1. Inv => GoalToldTruly
  BY DEF Inv
<1> QED
  BY <1>1, Invariance, PTL

-----------------------------------------------------------------------------
(* The engine implements TaskLifecycle.                                     *)

LEMMA MovesAreAdvance ==
  ASSUME TypeOK, StatusMoves, RefusedKept, goal' = goal
  PROVE  Lifecycle!Advance
<1> SUFFICES ASSUME NEW t \in Task, status'[t] # status[t]
             PROVE  /\ status'[t] \in EngineMoves[status[t]]
                    /\ status[t] = "pending" /\ status'[t] = "ready" =>
                         \A d \in DependsOn[t] : status[d] = "succeeded"
                    /\ status'[t] = "skipped" =>
                         \E d \in DependsOn[t] : status[d] \in {"failed", "cancelled", "skipped"}
  BY DEF Lifecycle!Advance, RefusedKept
<1>1. CASE Released(t)
  BY <1>1 DEF Released, EngineMoves, LegalMoves
<1>2. CASE Skipped(t)
  BY <1>2 DEF Skipped, Blocks, EngineMoves, LegalMoves
<1>3. CASE Worked(t)
  BY <1>3 DEF Worked
<1> QED
  BY <1>1, <1>2, <1>3 DEF StatusMoves

LEMMA StepIsLifecycleStep ==
  Inv /\ [Next]_vars => [Lifecycle!Advance \/ Lifecycle!Settle]_<<status, refused, goal>>
<1> SUFFICES ASSUME Inv, Next PROVE [Lifecycle!Advance \/ Lifecycle!Settle]_<<status, refused, goal>>
  BY DEF vars
<1>1. RowsKept
  BY WorkerKeepsRows, TaskKeepsRows DEF Inv, Next
<1>2. ASSUME NEW w \in Worker, SettleGoal(w)
      PROVE  Lifecycle!Settle \/ UNCHANGED <<status, refused, goal>>
  <2>1. AllTerminal /\ ruling[w] = Outcome /\ UNCHANGED <<status, refused>>
        /\ goal' = IF goal = "active" THEN ruling[w] ELSE goal
    BY <1>2 DEF SettleGoal, rows, Inv, RulingIsTrue
  <2>2. KeptNothing = Lifecycle!KeptNothing
    BY DEF KeptNothing, Lifecycle!KeptNothing, Inv, RefusedSucceeded, TypeOK
  <2>3. Outcome = Lifecycle!Outcome
    BY <2>2 DEF Outcome, Lifecycle!Outcome
  <2> QED
    BY <2>1, <2>3 DEF AllTerminal, Lifecycle!Settle, Lifecycle!TerminalStatus, TerminalStatus
<1>3. goal' = goal \/ \E w \in Worker : SettleGoal(w)
  <2>1. ASSUME NEW w \in Worker, Poll(w) \/ RunTask(w) \/ Disturb(w)
        PROVE  goal' = goal \/ SettleGoal(w)
    BY <2>1
    DEF Poll, RunTask, Disturb, Reap, Claim, ClaimUnheard, ClaimNothing, Release,
        ReadOutcome, LoadGoal, Refuse, Begin, ReadGate, OpenGate, Park,
        Execute, Present, Verify, Succeed, Requeue, Fail, Propagate, Judge, Decide,
        Transition, Unwind, AfterTask, Quit, HeartbeatStops, Stop, Crash
  <2>2. ASSUME NEW t \in Task,
               \/ Lapse(t) \/ Handle(t) \/ LoseAnswer(t)
               \/ RecordAnswer(t, "approved") \/ RecordAnswer(t, "rejected")
        PROVE  goal' = goal
    BY <2>2, TaskProgress DEF Inv
  <2> QED
    BY <2>1, <2>2 DEF Next
<1>4. goal' = goal => Lifecycle!Advance
  BY <1>1, RefusalsStand, MovesAreAdvance DEF RowsKept, Inv
<1> QED
  BY <1>2, <1>3, <1>4

(* Every behaviour of the queue and its workers, whatever the faults, is one
   of the abstract life of a goal's tasks. *)
THEOREM Refinement == Spec => ImplementsLifecycle
<1>1. Init => Lifecycle!Init
  BY DEF Init, Lifecycle!Init
<1>2. Inv /\ [Next]_vars => [Lifecycle!Advance \/ Lifecycle!Settle]_<<status, refused, goal>>
  BY StepIsLifecycleStep
<1> QED
  BY <1>1, <1>2, Invariance, PTL DEF Spec, ImplementsLifecycle, Lifecycle!Spec

-----------------------------------------------------------------------------
(* Leases.  What follows holds for every number of workers and tasks as     *)
(* long as no worker outlives its lease unknowingly and no gate is answered *)
(* before its task is parked.  Crashes, stops, failed and half-failed       *)
(* statements, lost answers and failed reads are all allowed, except where  *)
(* a theorem names them.                                                    *)

(* The points at which a worker still means to write its task. *)
Holding == Attempt \ {"propagate"}

Timely == Faults \cap {"stall", "beatError", "earlyAnswer"} = {}

(* A worker in the middle of an attempt holds its task: the lease is its own and
   live, its heartbeat runs, and the row has the status it believes. *)
Holds(w) == LET t == job[w] IN
  /\ owner[t] = w /\ live[t] /\ beating[w]
  /\ status[t] = seen[w] /\ seen[w] \in HoldsLease

HoldersHold == \A w \in Worker : pc[w] \in Holding => Holds(w)

(* A worker that takes a new task starts with a heartbeat. *)
BeatingAnew == \A w \in Worker : pc[w] \notin Attempt \cup {"after"} => beating[w]

(* An answer on its way is for a parked task. *)
AnswersForParked ==
  \A t \in Task : answer[t].step # "none" =>
    /\ status[t] = "awaiting_approval"
    /\ answer[t].step = "read" => answer[t].read = "awaiting_approval"

LeaseInv == HoldersHold /\ BeatingAnew /\ AnswersForParked

LEMMA InitLeaseInv == Init => LeaseInv
BY DEF Init, LeaseInv, HoldersHold, BeatingAnew, AnswersForParked, NoAnswer, Holding, Attempt

(* The row of a task as its holder left it. *)
Untouched(t) == owner'[t] = owner[t] /\ live'[t] = live[t] /\ status'[t] = status[t]

(* A status write touches only the row of the task the worker holds. *)
LEMMA WriteTouchesOwn ==
  ASSUME Inv, LeaseInv, NEW w \in Worker, NEW from \in Holding, NEW to, NEW heard, NEW unheard,
         Transition(w, from, to, heard, unheard),
         NEW t \in Task, owner[t] # w
  PROVE  Untouched(t)
<1>1. pc[w] = from /\ owner[job[w]] = w
  BY DEF Transition, At, LeaseInv, HoldersHold, Holds
<1>2. job[w] # t
  BY <1>1
<1> QED
  BY <1>2 DEF Transition, Write, TransitionTask, Unleased, Untouched, Inv, TypeOK, rows

(* No worker touches the row of a live lease that is not its own, nor moves a
   task that is parked. *)
LEMMA OthersUntouched ==
  ASSUME Inv, LeaseInv, NEW w \in Worker, Poll(w) \/ RunTask(w) \/ Disturb(w),
         NEW t \in Task, owner[t] # w,
         (live[t] /\ owner[t] # None) \/ status[t] = "awaiting_approval"
  PROVE  Untouched(t)
<1>1. status[t] \in HoldsLease \cup {"awaiting_approval"}
  BY DEF Inv, LeaseWhileWorking
<1>2. CASE Reap(w)
  BY <1>2 DEF Reap, Expired, Untouched, Inv, TypeOK, HoldsLease
<1>3. CASE \E u \in Task : Claim(w, u) \/ ClaimUnheard(w, u)
  BY <1>1, <1>3 DEF Claim, ClaimUnheard, Lease, Claimable, Untouched, Inv, TypeOK, HoldsLease
<1>4. CASE Release(w)
  BY <1>1, <1>4 DEF Release, PromoteReadyTasks, Promotable, Untouched, HoldsLease
<1>5. CASE Propagate(w)
  BY <1>1, <1>5 DEF Propagate, SkipPass, Unreachable, Decide, rows, Untouched, HoldsLease
<1>6. CASE AfterTask(w)
  BY <1>6 DEF AfterTask, HandBack, Unleased, Untouched, rows, Inv, TypeOK
<1>7. CASE Refuse(w) \/ Begin(w) \/ Park(w) \/ Present(w) \/ Succeed(w)
           \/ Requeue(w) \/ Fail(w)
  BY <1>7, WriteTouchesOwn
  DEF Refuse, Begin, Park, Present, Succeed, Requeue, Fail, Holding, Attempt
<1>8. CASE UNCHANGED rows
  BY <1>8 DEF Untouched, rows
<1>9. ClaimNothing(w) \/ ReadOutcome(w) \/ SettleGoal(w) \/ LoadGoal(w) \/ ReadGate(w)
      \/ OpenGate(w) \/ Execute(w) \/ Verify(w) \/ Unwind(w) \/ Quit(w)
      \/ HeartbeatStops(w) \/ Stop(w) \/ Crash(w) => UNCHANGED rows
  BY DEF ClaimNothing, ReadOutcome, SettleGoal, LoadGoal, ReadGate, OpenGate, Execute,
         Verify, Judge, Decide, Unwind, Quit, HeartbeatStops, Stop, Crash
<1> QED
  BY <1>2, <1>3, <1>4, <1>5, <1>6, <1>7, <1>8, <1>9 DEF Poll, RunTask, Disturb

(* A status write either is not heard, and ends the attempt, or leaves the task
   with its writer and in the status the writer now believes. *)
LEMMA WriterHolds ==
  ASSUME Inv, LeaseInv, NEW w \in Worker, NEW from \in Holding, NEW to, NEW heard, NEW unheard,
         Transition(w, from, to, heard, unheard),
         unheard \notin Holding, heard \in Holding => to \in HoldsLease,
         heard \in Attempt \cup {"after"}, unheard \in Attempt \cup {"after"}
  PROVE  /\ pc'[w] \in Holding => Holds(w)'
         /\ pc'[w] \in Attempt \cup {"after"}
<1>1. pc[w] = from /\ Holds(w) /\ job[w] \in Task
  BY DEF Transition, At, LeaseInv, HoldersHold, Inv, BegunAlready, Holding
<1>2. /\ job'[w] = job[w] /\ beating'[w] = beating[w]
      /\ \/ pc'[w] = unheard
         \/ pc'[w] = heard /\ seen'[w] = to /\ TransitionTask(job[w], seen[w], to)
  BY DEF Transition, Write, Goto, Inv, TypeOK
<1>3. CASE pc'[w] = unheard
  BY <1>3
<1>4. CASE pc'[w] = heard /\ seen'[w] = to /\ TransitionTask(job[w], seen[w], to)
           /\ heard \in Holding
  <2>1. /\ owner'[job[w]] = w /\ live'[job[w]] /\ status'[job[w]] = to /\ to \in HoldsLease
    BY <1>1, <1>4 DEF TransitionTask, Holds, Inv, TypeOK
  <2> QED
    BY <1>1, <1>2, <1>4, <2>1 DEF Holds
<1> QED
  BY <1>2, <1>3, <1>4

LEMMA DeciderHolds ==
  ASSUME Inv, LeaseInv, NEW w \in Worker, NEW from \in Holding, NEW next,
         Decide(w, from, next), next \in Attempt \cup {"after"}
  PROVE  /\ pc'[w] \in Holding => Holds(w)'
         /\ pc'[w] \in Attempt \cup {"after"}
<1>1. pc[w] = from /\ Holds(w)
  BY DEF Decide, At, LeaseInv, HoldersHold
<1> QED
  BY <1>1 DEF Decide, Goto, Holds, rows, local, Inv, TypeOK

LEMMA OwnKept ==
  ASSUME Inv, LeaseInv, Timely, NEW w \in Worker, Poll(w) \/ RunTask(w) \/ Disturb(w)
  PROVE  /\ pc'[w] \in Holding => Holds(w)'
         /\ pc'[w] \notin Attempt \cup {"after"} => beating'[w]
         /\ \A v \in Worker \ {w} : beating'[v] = beating[v]
<1> DEFINE Kept == /\ pc'[w] \in Holding => Holds(w)'
                   /\ pc'[w] \notin Attempt \cup {"after"} => beating'[w]
<1>1. CASE Reap(w) \/ ClaimNothing(w) \/ Release(w) \/ ReadOutcome(w) \/ SettleGoal(w)
           \/ (\E t \in Task : ClaimUnheard(w, t))
  <2>1. /\ pc[w] \notin Attempt \cup {"after"} /\ beating' = beating
        /\ pc'[w] \in {"claim", "sweepRelease", "sweepSettle", "settle", "poll", "rule"}
    BY <1>1 DEF Reap, ClaimNothing, Release, ReadOutcome, SettleGoal, ClaimUnheard, At,
                Goto, local, Attempt, Inv, TypeOK
  <2> QED
    BY <2>1 DEF LeaseInv, BeatingAnew, Holding, Attempt
<1>2. ASSUME NEW t \in Task, Claim(w, t) PROVE Kept /\ beating' = beating
  <2>1. /\ pc'[w] = "load" /\ pc[w] = "claim" /\ job'[w] = t /\ seen'[w] = "claimed"
        /\ owner'[t] = w /\ live'[t] /\ status'[t] = "claimed" /\ beating' = beating
    BY <1>2 DEF Claim, Lease, At, Goto, Inv, TypeOK
  <2> QED
    BY <2>1 DEF LeaseInv, BeatingAnew, Holding, Attempt, Holds, HoldsLease
<1>3. CASE LoadGoal(w)
  <2>1. Kept
    BY <1>3, DeciderHolds DEF LoadGoal, Holding, Attempt
  <2> QED
    BY <1>3, <2>1 DEF LoadGoal, Decide, local
<1>4. CASE ReadGate(w)
  <2>1. Kept
    BY <1>4, DeciderHolds DEF ReadGate, Holding, Attempt
  <2> QED
    BY <1>4, <2>1 DEF ReadGate, Decide, local
<1>5. CASE Execute(w)
  <2>1. Kept
    BY <1>5, DeciderHolds DEF Execute, Judge, Holding, Attempt
  <2> QED
    BY <1>5, <2>1 DEF Execute, Judge, Decide, local
<1>6. CASE Verify(w)
  <2>1. Kept
    BY <1>6, DeciderHolds DEF Verify, Judge, Holding, Attempt
  <2> QED
    BY <1>6, <2>1 DEF Verify, Judge, Decide, local
<1>7. CASE OpenGate(w)
  <2>1. CASE Decide(w, "openGate", "fail")
    <3>1. Kept
      BY <2>1, DeciderHolds DEF Holding, Attempt
    <3> QED
      BY <2>1, <3>1 DEF Decide, local
  <2>2. CASE ~Decide(w, "openGate", "fail")
    <3>1. /\ pc[w] = "openGate" /\ pc'[w] \in {"park", "fail"} /\ UNCHANGED <<rows, local>>
      BY <1>7, <2>2 DEF OpenGate, At, Goto, Attempt, Inv, TypeOK
    <3> QED
      BY <3>1 DEF LeaseInv, HoldersHold, Holds, Holding, Attempt, rows, local
  <2> QED
    BY <2>1, <2>2
<1>8. CASE Refuse(w) \/ Begin(w) \/ Park(w) \/ Present(w) \/ Succeed(w)
           \/ Requeue(w) \/ Fail(w)
  <2>1. Kept
    <3>1. CASE Refuse(w)
      BY <3>1, WriterHolds DEF Refuse, Holding, Attempt, HoldsLease
    <3>2. CASE Begin(w)
      <4>1. CASE job[w] \in Gated
        <5>1. Transition(w, "begin", "running", "gate", "after")
          BY <3>2, <4>1 DEF Begin
        <5> QED
          BY <5>1, WriterHolds DEF Holding, Attempt, HoldsLease
      <4>2. CASE job[w] \notin Gated
        <5>1. Transition(w, "begin", "running", "work", "after")
          BY <3>2, <4>2 DEF Begin
        <5> QED
          BY <5>1, WriterHolds DEF Holding, Attempt, HoldsLease
      <4> QED
        BY <4>1, <4>2
    <3>3. CASE Park(w)
      BY <3>3, WriterHolds DEF Park, Holding, Attempt, HoldsLease
    <3>4. CASE Present(w)
      BY <3>4, WriterHolds DEF Present, Holding, Attempt, HoldsLease
    <3>5. CASE Succeed(w)
      BY <3>5, WriterHolds DEF Succeed, Holding, Attempt, HoldsLease
    <3>6. CASE Requeue(w)
      BY <3>6, WriterHolds DEF Requeue, Holding, Attempt, HoldsLease
    <3>7. CASE Fail(w)
      BY <3>7, WriterHolds DEF Fail, Holding, Attempt, HoldsLease
    <3> QED
      BY <1>8, <3>1, <3>2, <3>3, <3>4, <3>5, <3>6, <3>7
  <2> QED
    BY <1>8, <2>1 DEF Refuse, Begin, Park, Present, Succeed, Requeue, Fail, Transition
<1>9. CASE Propagate(w)
  <2>1. pc'[w] \in {"propagate", "after"} /\ beating' = beating
    BY <1>9 DEF Propagate, At, Decide, Goto, local, Inv, TypeOK
  <2> QED
    BY <2>1 DEF Holding, Attempt
<1>10. CASE Unwind(w) \/ Quit(w)
  <2>1. /\ beating' = beating
        /\ \/ pc'[w] = "after"
           \/ pc'[w] = "stopped" /\ pc[w] \notin Attempt \cup {"after"}
    BY <1>10 DEF Unwind, Quit, Goto, local, Attempt, Inv, TypeOK
  <2> QED
    BY <2>1 DEF LeaseInv, BeatingAnew, Holding, Attempt
<1>11. CASE AfterTask(w) \/ Crash(w)
  <2>1. pc'[w] \in {"release", "crashed"} /\ beating' = [beating EXCEPT ![w] = TRUE]
    BY <1>11 DEF AfterTask, Crash, Forget, Goto, Inv, TypeOK
  <2> QED
    BY <2>1 DEF Inv, TypeOK, Holding, Attempt
<1>12. CASE HeartbeatStops(w)
  <2>1. pc[w] \notin Holding
    BY <1>12 DEF HeartbeatStops, Timely, LeaseInv, HoldersHold, Holds
  <2> QED
    BY <1>12, <2>1 DEF HeartbeatStops, Inv, TypeOK
<1>13. CASE Stop(w)
  BY <1>13 DEF Stop, LeaseInv, HoldersHold, BeatingAnew, Holds, rows, local
<1> QED
  BY <1>1, <1>2, <1>3, <1>4, <1>5, <1>6, <1>7, <1>8, <1>9, <1>10, <1>11, <1>12, <1>13
  DEF Poll, RunTask, Disturb

LEMMA WorkerKeepsLeases ==
  ASSUME Inv, LeaseInv, Timely, NEW w \in Worker, Poll(w) \/ RunTask(w) \/ Disturb(w)
  PROVE  LeaseInv'
<1>1. /\ pc'[w] \in Holding => Holds(w)'
      /\ pc'[w] \notin Attempt \cup {"after"} => beating'[w]
      /\ \A v \in Worker \ {w} : beating'[v] = beating[v]
  BY OwnKept
<1>2. Alone(w) /\ answer' = answer
  BY WorkerProgress DEF Inv, GatesKept
<1>3. ASSUME NEW v \in Worker \ {w}, pc'[v] \in Holding PROVE Holds(v)'
  <2>1. Holds(v) /\ job[v] \in Task /\ pc[v] \in Holding
    BY <1>2, <1>3 DEF Alone, LeaseInv, HoldersHold, Inv, BegunAlready, Holding
  <2>2. Untouched(job[v])
    BY <2>1, OthersUntouched, EngineAssumption DEF Holds
  <2> QED
    BY <1>1, <1>2, <2>1, <2>2 DEF Holds, Alone, Untouched
<1>4. HoldersHold'
  BY <1>1, <1>3 DEF HoldersHold
<1>5. BeatingAnew'
  BY <1>1, <1>2 DEF BeatingAnew, LeaseInv, Alone
<1>6. AnswersForParked'
  <2> SUFFICES ASSUME NEW t \in Task, answer[t].step # "none"
               PROVE  status'[t] = status[t]
    BY <1>2 DEF AnswersForParked, LeaseInv
  <2>1. status[t] = "awaiting_approval" /\ owner[t] # w
    BY EngineAssumption DEF LeaseInv, AnswersForParked, Inv, LeaseWhileWorking, HoldsLease
  <2> QED
    BY <2>1, OthersUntouched DEF Untouched
<1> QED
  BY <1>4, <1>5, <1>6 DEF LeaseInv

LEMMA TaskKeepsLeases ==
  ASSUME Inv, LeaseInv, Timely, NEW t \in Task,
         \/ Lapse(t) \/ Handle(t) \/ LoseAnswer(t)
         \/ RecordAnswer(t, "approved") \/ RecordAnswer(t, "rejected")
  PROVE  LeaseInv'
<1>1. UNCHANGED <<pc, job, seen, beating>>
  BY TaskProgress DEF Inv, local
<1>2. CASE Lapse(t)
  <2>1. ~Tended(t) /\ live' = [live EXCEPT ![t] = FALSE] /\ UNCHANGED <<status, owner, answer>>
    BY <1>2 DEF Lapse, Timely, human
  <2>2. \A w \in Worker : pc[w] \in Holding => Holds(w) /\ job[w] # t
    BY <2>1 DEF LeaseInv, HoldersHold, Holds, Tended, Holding
  <2> QED
    BY <1>1, <2>1, <2>2 DEF LeaseInv, HoldersHold, BeatingAnew, AnswersForParked, Holds,
                           Inv, TypeOK
<1>3. ASSUME NEW d \in {"approved", "rejected"}, RecordAnswer(t, d) PROVE LeaseInv'
  BY <1>1, <1>3 DEF RecordAnswer, NoAnswer, Timely, LeaseInv, HoldersHold, BeatingAnew,
                    AnswersForParked, Holds, Inv, TypeOK, rows
<1>4. CASE ReadAnswered(t)
  <2>1. /\ answer' = [answer EXCEPT ![t].step = "read", ![t].read = status[t]]
        /\ answer[t].step = "recorded" /\ UNCHANGED rows
    BY <1>4 DEF ReadAnswered
  <2>2. AnswersForParked'
    BY <2>1 DEF LeaseInv, AnswersForParked, Inv, TypeOK, Answers, rows
  <2> QED
    BY <1>1, <2>1, <2>2 DEF LeaseInv, HoldersHold, BeatingAnew, Holds, rows
<1>5. CASE MoveAnswered(t) \/ LoseAnswer(t)
  <2>1. /\ answer' = [answer EXCEPT ![t] = NoAnswer]
        /\ \A u \in Task \ {t} : Untouched(u)
    BY <1>5 DEF MoveAnswered, LoseAnswer, TransitionTask, Unleased, Untouched, Inv, TypeOK, rows
  <2>2. CASE UNCHANGED rows
    BY <1>1, <2>1, <2>2 DEF LeaseInv, HoldersHold, BeatingAnew, AnswersForParked, Holds,
                           NoAnswer, Inv, TypeOK, rows
  <2>3. CASE ~UNCHANGED rows
    <3>1. status[t] = "awaiting_approval"
      BY <1>5, <2>3 DEF MoveAnswered, LoseAnswer, LeaseInv, AnswersForParked
    <3>2. \A w \in Worker : pc[w] \in Holding => Holds(w) /\ job[w] \in Task \ {t}
      BY <3>1 DEF LeaseInv, HoldersHold, Holds, HoldsLease, Inv, BegunAlready, Holding
    <3>3. HoldersHold'
      BY <1>1, <2>1, <3>2 DEF HoldersHold, Holds, Untouched
    <3>4. AnswersForParked'
      BY <2>1 DEF LeaseInv, AnswersForParked, Untouched, NoAnswer, Inv, TypeOK
    <3> QED
      BY <1>1, <3>3, <3>4 DEF LeaseInv, BeatingAnew
  <2> QED
    BY <2>2, <2>3
<1> QED
  BY <1>2, <1>3, <1>4, <1>5 DEF Handle

LEMMA LeaseInductive == Timely /\ Inv /\ LeaseInv /\ [Next]_vars => LeaseInv'
<1> SUFFICES ASSUME Timely, Inv, LeaseInv, [Next]_vars PROVE LeaseInv'
  OBVIOUS
<1>1. CASE Next
  BY <1>1, WorkerKeepsLeases, TaskKeepsLeases DEF Next
<1>2. CASE UNCHANGED vars
  BY <1>2 DEF vars, LeaseInv, HoldersHold, BeatingAnew, AnswersForParked, Holds
<1> QED
  BY <1>1, <1>2

LEMMA LeaseInvariance == ASSUME Timely PROVE Spec => []LeaseInv
<1>1. Inv /\ LeaseInv /\ [Next]_vars => LeaseInv'
  BY LeaseInductive
<1> QED
  BY InitLeaseInv, Invariance, <1>1, PTL DEF Spec

(* The lease keeps every other worker out of a task that is being worked on. *)
THEOREM Exclusion == ASSUME Timely PROVE Spec => []OneWorkerPerTask
<1>1. LeaseInv => OneWorkerPerTask
  BY DEF LeaseInv, HoldersHold, Holds, OneWorkerPerTask, Working, Holding, Attempt
<1> QED
  BY <1>1, LeaseInvariance, PTL

(* A lease that is being renewed is ended by nobody but its worker. *)
THEOREM LeaseKept == ASSUME Timely PROVE Spec => LiveLeaseIsKept
<1>1. Inv /\ LeaseInv /\ [Next]_vars =>
        [\A t \in Task : live[t] /\ Tended(t) /\ owner'[t] # owner[t]
                           => pc'[owner[t]] # pc[owner[t]]]_vars
  <2> SUFFICES ASSUME Inv, LeaseInv, Next, NEW t \in Task, live[t], Tended(t),
                      owner'[t] # owner[t]
               PROVE  pc'[owner[t]] # pc[owner[t]]
    OBVIOUS
  <2>1. PICK v \in Worker : owner[t] = v /\ job[v] = t /\ pc[v] \in Attempt
    BY DEF Tended
  <2>2. status[t] \in HoldsLease /\ owner[t] # None
    BY <2>1, EngineAssumption DEF Inv, LeaseWhileWorking
  <2>3. ASSUME NEW w \in Worker, Poll(w) \/ RunTask(w) \/ Disturb(w)
        PROVE  pc'[v] # pc[v]
    <3>1. w = v
      BY <2>1, <2>2, <2>3, OthersUntouched DEF Untouched
    <3>2. ~Stop(v) /\ ~HeartbeatStops(v) /\ ~(\E u \in Task : ClaimUnheard(v, u))
      BY <2>1 DEF Stop, HeartbeatStops, ClaimUnheard, At, rows, Attempt
    <3>3. ~(Propagate(v) /\ pc'[v] = pc[v])
      BY <2>1 DEF Propagate, Decide, rows
    <3>4. Poll(v) \/ RunTask(v) \/ Crash(v)
      BY <2>3, <3>1, <3>2 DEF Disturb
    <3> QED
      BY <2>1, <3>3, <3>4
      DEF Inv, TypeOK, Attempt, Poll, RunTask, Crash, Reap, Claim, ClaimNothing, Release,
          ReadOutcome, SettleGoal, LoadGoal, Refuse, Begin, ReadGate, OpenGate, Park,
          Execute, Present, Verify, Succeed, Requeue, Fail, Propagate, Judge, Decide,
          Transition, Write, Unwind, AfterTask, Quit, At, Goto
  <2>4. ASSUME NEW u \in Task,
               \/ Lapse(u) \/ Handle(u) \/ LoseAnswer(u)
               \/ RecordAnswer(u, "approved") \/ RecordAnswer(u, "rejected")
        PROVE  FALSE
    <3>1. MoveAnswered(u) /\ TransitionTask(u, answer[u].read, answer[u].to)
      BY <2>4 DEF Lapse, Handle, ReadAnswered, LoseAnswer, RecordAnswer, MoveAnswered, rows
    <3>2. status[u] = "awaiting_approval"
      BY <3>1 DEF MoveAnswered, LeaseInv, AnswersForParked
    <3>3. u # t
      BY <2>2, <3>2 DEF HoldsLease
    <3> QED
      BY <3>1, <3>3 DEF TransitionTask, Unleased, Inv, TypeOK
  <2> QED
    BY <2>1, <2>3, <2>4 DEF Next
<1> QED
  BY <1>1, Invariance, LeaseInvariance, PTL DEF LiveLeaseIsKept, Spec

-----------------------------------------------------------------------------
(* Parked tasks                                                             *)

(* A worker about to park its task has asked: its gate is open. *)
GateAsked == \A w \in Worker : pc[w] = "park" => gate[job[w]] = "pending"

AwaitInv == GateAsked /\ ParkedIsAwaited

(* How a task comes to be parked, and a worker to park one, and what is asked. *)
LEMMA WorkerParks ==
  ASSUME TypeOK, BegunAlready, NEW w \in Worker, Poll(w) \/ RunTask(w) \/ Disturb(w)
  PROVE  /\ pc'[w] = "park" =>
              /\ job'[w] = job[w] /\ pc[w] \in Attempt
              /\ \/ (pc[w] = "park" \/ gate[job[w]] = "pending") /\ gate' = gate
                 \/ gate' = [gate EXCEPT ![job[w]] = "pending"]
         /\ \A t \in Task : status'[t] = "awaiting_approval" =>
              \/ status[t] = "awaiting_approval"
              \/ t = job[w] /\ pc[w] = "park" /\ gate' = gate
<1> DEFINE Parks == pc'[w] = "park" =>
              /\ job'[w] = job[w] /\ pc[w] \in Attempt
              /\ \/ (pc[w] = "park" \/ gate[job[w]] = "pending") /\ gate' = gate
                 \/ gate' = [gate EXCEPT ![job[w]] = "pending"]
           Waits == \A t \in Task : status'[t] = "awaiting_approval" =>
              \/ status[t] = "awaiting_approval"
              \/ t = job[w] /\ pc[w] = "park" /\ gate' = gate
<1>1. CASE Reap(w) \/ ClaimNothing(w) \/ Release(w) \/ SettleGoal(w) \/ ReadOutcome(w)
           \/ (\E t \in Task : Claim(w, t) \/ ClaimUnheard(w, t))
  BY <1>1 DEF TypeOK, Reap, ClaimNothing, Release, PromoteReadyTasks, SettleGoal, ReadOutcome,
       Claim, ClaimUnheard, Lease, Goto, rows
<1>2. CASE LoadGoal(w) \/ Execute(w) \/ Verify(w)
  BY <1>2 DEF TypeOK, LoadGoal, Execute, Verify, Judge, Decide, Goto, rows
<1>3. CASE ReadGate(w)
  BY <1>3 DEF TypeOK, ReadGate, Decide, At, Goto, rows, human, local, Attempt
<1>4. CASE OpenGate(w)
  BY <1>4 DEF TypeOK, OpenGate, Decide, At, Goto, rows, local, Attempt
<1>5. CASE Refuse(w) \/ Begin(w) \/ Park(w) \/ Present(w) \/ Succeed(w) \/ Requeue(w) \/ Fail(w)
  <2>1. ASSUME NEW from, NEW to, NEW heard, NEW unheard,
               Transition(w, from, to, heard, unheard),
               heard # "park", unheard # "park", to = "awaiting_approval" => from = "park"
        PROVE  Parks /\ Waits
    BY <2>1 DEF TypeOK, Transition, Write, TransitionTask, At, Goto, rows, human
  <2>2. CASE Begin(w)
    <3>1. \/ Transition(w, "begin", "running", "gate", "after")
          \/ Transition(w, "begin", "running", "work", "after")
      BY <2>2 DEF Begin
    <3> QED
      BY <3>1, <2>1
  <2>3. CASE Refuse(w) \/ Present(w) \/ Succeed(w)
    BY <2>1, <2>3 DEF Refuse, Present, Succeed
  <2>4. CASE Park(w) \/ Requeue(w) \/ Fail(w)
    BY <2>1, <2>4 DEF Park, Requeue, Fail
  <2> QED
    BY <1>5, <2>2, <2>3, <2>4
<1>6. CASE Propagate(w)
  BY <1>6 DEF TypeOK, Propagate, SkipPass, Decide, At, Goto, rows, human, local, Attempt
<1>7. CASE Unwind(w) \/ AfterTask(w) \/ Quit(w) \/ Crash(w)
  BY <1>7 DEF TypeOK, Unwind, AfterTask, HandBack, Quit, Crash, Goto, rows
<1>8. CASE HeartbeatStops(w) \/ Stop(w)
  BY <1>8 DEF TypeOK, HeartbeatStops, Stop, rows, human, local, Attempt
<1> QED
  BY <1>1, <1>2, <1>3, <1>4, <1>5, <1>6, <1>7, <1>8 DEF Poll, RunTask, Disturb

LEMMA AwaitInductive ==
  ASSUME Timely, "answerLost" \notin Faults, Inv, LeaseInv, AwaitInv, [Next]_vars
  PROVE  AwaitInv'
<1>1. ASSUME NEW w \in Worker, Poll(w) \/ RunTask(w) \/ Disturb(w) PROVE AwaitInv'
  <2>1. /\ Alone(w) /\ GatesKept(w)
        /\ \A v \in Worker : pc[v] = "park" => job[v] \in Task
    BY <1>1, WorkerProgress DEF Inv, BegunAlready, Attempt
  <2>2. GateAsked'
    <3> SUFFICES ASSUME NEW v \in Worker, pc'[v] = "park" PROVE gate'[job'[v]] = "pending"
      BY DEF GateAsked
    <3>1. CASE v = w
      BY <1>1, <3>1, WorkerParks DEF AwaitInv, GateAsked, Inv, TypeOK, BegunAlready
    <3>2. CASE v # w
      BY <2>1, <3>2 DEF Alone, GatesKept, AwaitInv, GateAsked
    <3> QED
      BY <3>1, <3>2
  <2>3. ParkedIsAwaited'
    <3> SUFFICES ASSUME NEW t \in Task, status'[t] = "awaiting_approval"
                 PROVE  gate'[t] = "pending" \/ answer'[t].step # "none"
      BY DEF ParkedIsAwaited
    <3>1. CASE status[t] = "awaiting_approval"
      BY <2>1, <3>1 DEF GatesKept, AwaitInv, ParkedIsAwaited
    <3>2. CASE t = job[w] /\ pc[w] = "park" /\ gate' = gate
      BY <3>2 DEF AwaitInv, GateAsked
    <3> QED
      BY <1>1, <3>1, <3>2, WorkerParks DEF Inv
  <2> QED
    BY <2>2, <2>3 DEF AwaitInv
<1>2. ASSUME NEW t \in Task,
             \/ Lapse(t) \/ Handle(t) \/ LoseAnswer(t)
             \/ RecordAnswer(t, "approved") \/ RecordAnswer(t, "rejected")
      PROVE  AwaitInv'
  <2>1. UNCHANGED <<pc, job>>
    BY <1>2, TaskProgress DEF Inv, local
  <2>2. \A w \in Worker : pc[w] = "park" => job[w] \in Task /\ status[job[w]] \in HoldsLease
    BY DEF LeaseInv, HoldersHold, Holds, Holding, Attempt, Inv, BegunAlready
  <2>3. CASE Lapse(t)
    BY <2>1, <2>3 DEF Lapse, human, AwaitInv, GateAsked, ParkedIsAwaited
  <2>4. ASSUME NEW d \in {"approved", "rejected"}, RecordAnswer(t, d) PROVE AwaitInv'
    <3>1. /\ status[t] = "awaiting_approval" /\ status' = status
          /\ gate' = [gate EXCEPT ![t] = d]
          /\ answer'[t].step = "recorded" /\ \A u \in Task \ {t} : answer'[u] = answer[u]
      BY <2>4 DEF RecordAnswer, Timely, rows, NoAnswer, Inv, TypeOK
    <3> QED
      BY <2>1, <2>2, <3>1 DEF AwaitInv, GateAsked, ParkedIsAwaited, HoldsLease, Inv, TypeOK
  <2>5. CASE ReadAnswered(t)
    <3>1. /\ status' = status /\ gate' = gate
          /\ answer'[t].step = "read" /\ \A u \in Task \ {t} : answer'[u] = answer[u]
      BY <2>5 DEF ReadAnswered, rows, Inv, TypeOK, Answers
    <3> QED
      BY <2>1, <3>1 DEF AwaitInv, GateAsked, ParkedIsAwaited
  <2>6. CASE MoveAnswered(t)
    <3>1. /\ answer[t].step = "read" /\ gate' = gate
          /\ status[t] = "awaiting_approval" /\ answer[t].read = "awaiting_approval"
          /\ answer[t].to \in {"ready", "failed"}
      BY <2>6 DEF MoveAnswered, LeaseInv, AnswersForParked, Inv, TypeOK, Answers
    <3>2. MayMove(t, answer[t].read, answer[t].to)
      BY <3>1 DEF MayMove, CanTransition, LegalMoves
    <3>3. status' = [status EXCEPT ![t] = answer[t].to] /\ \A u \in Task \ {t} : answer'[u] = answer[u]
      BY <2>6, <3>2 DEF MoveAnswered, TransitionTask, Inv, TypeOK
    <3> QED
      BY <2>1, <3>1, <3>3 DEF AwaitInv, GateAsked, ParkedIsAwaited, Inv, TypeOK
  <2>7. ~LoseAnswer(t)
    BY DEF LoseAnswer
  <2> QED
    BY <1>2, <2>3, <2>4, <2>5, <2>6, <2>7 DEF Handle
<1>3. CASE UNCHANGED vars
  BY <1>3 DEF vars, AwaitInv, GateAsked, ParkedIsAwaited
<1> QED
  BY <1>1, <1>2, <1>3 DEF Next

(* A parked task is waited for by a person or by an answer on its way, unless whoever
   answered died before the task was moved. *)
THEOREM ParkedHasAsked ==
  ASSUME Timely, "answerLost" \notin Faults PROVE Spec => []ParkedIsAwaited
<1>1. Init => AwaitInv
  BY DEF Init, AwaitInv, GateAsked, ParkedIsAwaited
<1>2. Inv /\ LeaseInv /\ AwaitInv /\ [Next]_vars => AwaitInv'
  BY AwaitInductive
<1>3. AwaitInv => ParkedIsAwaited
  BY DEF AwaitInv
<1> QED
  BY <1>1, <1>2, <1>3, Invariance, LeaseInvariance, PTL DEF Spec

-----------------------------------------------------------------------------
(* Attempts                                                                 *)

(* A worker's copy of the count is the row's, and it retries what may be retried. *)
TriesAreCounted ==
  \A w \in Worker : /\ pc[w] \in Holding => tries[w] = attempts[job[w]]
                    /\ pc[w] = "requeue" => tries[w] < MaxAttempts

(* Only a gated task comes to its gate, and an approved one is not asked about again. *)
AsksOnce ==
  \A w \in Worker :
    /\ pc[w] \in {"gate", "openGate", "park"} => job[w] \in Gated
    /\ pc[w] \in {"openGate", "park"} => gate[job[w]] # "approved"

(* An answer sends its task back to work only where it approved it. *)
AnswersAreDecided ==
  \A t \in Task : answer[t].step # "none" /\ answer[t].to = "ready" => gate[t] = "approved"

(* A gated task that was let through has had the attempt that asked. *)
Passed(t) == t \in Gated /\ gate[t] = "approved"

Counted(t) ==
  /\ status[t] \in {"pending", "ready"} =>
       attempts[t] < MaxAttempts \/ (Passed(t) /\ attempts[t] <= MaxAttempts)
  /\ status[t] \in HoldsLease =>
       attempts[t] <= MaxAttempts \/ (Passed(t) /\ attempts[t] <= MaxAttempts + 1)
  /\ status[t] = "awaiting_approval" => t \in Gated /\ attempts[t] <= MaxAttempts
  /\ attempts[t] <= MaxAttempts + 1 /\ (t \notin Gated => attempts[t] <= MaxAttempts)

AttemptInv == /\ TriesAreCounted /\ AsksOnce /\ AnswersAreDecided
              /\ \A t \in Task : Counted(t)

(* The ways a task's count and status may change at a worker's hands. *)
Kept(t) == /\ attempts'[t] = attempts[t]
           /\ status'[t] \in HoldsLease => status[t] \in HoldsLease
           /\ status'[t] \in {"pending", "ready"} => status[t] \in {"pending", "ready"}
Leased(t) == /\ status[t] = "ready" /\ owner[t] = None /\ status'[t] = "claimed"
             /\ attempts'[t] = attempts[t] + 1
HandedBack(w, t) == /\ status[t] \in HoldsLease /\ status'[t] = "ready" /\ owner[t] = w
                    /\ pc[w] = "after" /\ attempts'[t] = OneFewer(attempts[t])
Retried(w, t) == /\ attempts'[t] = attempts[t] /\ status'[t] = "ready"
                 /\ \/ status[t] \in HoldsLease /\ owner[t] # None /\ ~live[t]
                       /\ attempts[t] < MaxAttempts
                    \/ t = job[w] /\ pc[w] = "requeue"

CountMoves(w) == \A t \in Task : Kept(t) \/ Leased(t) \/ HandedBack(w, t) \/ Retried(w, t)

(* How a worker's own copies change. *)
CopiesMove(w) ==
  /\ pc'[w] \in Holding =>
       \/ pc[w] \in Holding /\ job'[w] = job[w] /\ tries'[w] = tries[w]
       \/ pc'[w] = "load" /\ job'[w] \in Task /\ tries'[w] = attempts'[job'[w]]
  /\ pc'[w] = "requeue" => pc[w] = "requeue" \/ tries[w] < MaxAttempts
  /\ pc'[w] \in {"gate", "openGate", "park"} =>
       /\ job'[w] = job[w]
       /\ pc[w] \in {"gate", "openGate", "park"} \/ job[w] \in Gated
  /\ pc'[w] \in {"openGate", "park"} =>
       \/ gate' = gate /\ (pc[w] \in {"openGate", "park"} \/ gate[job[w]] # "approved")
       \/ gate' = [gate EXCEPT ![job[w]] = "pending"]
  /\ gate' # gate => pc[w] = "openGate" /\ gate' = [gate EXCEPT ![job[w]] = "pending"]
  /\ \A v \in Worker \ {w} : tries'[v] = tries[v]

LEMMA TransitionCounts ==
  ASSUME TypeOK, BegunAlready, NEW w \in Worker, NEW from \in Holding,
         NEW to \in {"running", "awaiting_approval", "verifying", "succeeded", "failed", "ready"},
         NEW heard, NEW unheard, Transition(w, from, to, heard, unheard),
         heard \notin {"requeue", "openGate", "park"},
         unheard \notin {"requeue", "gate", "openGate", "park"},
         heard = "gate" => job[w] \in Gated,
         to = "ready" => from = "requeue"
  PROVE  CountMoves(w) /\ CopiesMove(w)
<1>1. /\ pc[w] = from /\ job' = job /\ tries' = tries /\ gate' = gate /\ attempts' = attempts
      /\ pc'[w] = heard \/ pc'[w] = unheard
  BY DEF Transition, Write, TransitionTask, At, Goto, TypeOK, rows, human
<1>2. CopiesMove(w)
  BY <1>1 DEF CopiesMove
<1>3. CASE status' = status
  BY <1>1, <1>2, <1>3 DEF CountMoves, Kept
<1>4. CASE TransitionTask(job[w], seen[w], to)
  <2>1. job[w] \in Task /\ seen[w] \in TaskStatus /\ to \in TaskStatus
    BY <1>1 DEF BegunAlready, Holding, TypeOK, TaskStatus
  <2>2. status[job[w]] = seen[w] /\ (to \in {"running", "verifying"} => seen[w] \in HoldsLease)
    BY <1>4, <2>1, Edges DEF TransitionTask, MayMove
  <2>3. status' = [status EXCEPT ![job[w]] = to]
    BY <1>4 DEF TransitionTask
  <2> QED
    BY <1>1, <1>2, <2>1, <2>2, <2>3 DEF CountMoves, Kept, Retried, HoldsLease, TypeOK
<1> QED
  BY <1>2, <1>3, <1>4 DEF Transition, Write, rows

LEMMA DecideCounts ==
  ASSUME TypeOK, NEW w \in Worker, NEW from \in Holding, NEW next, Decide(w, from, next),
         next = "requeue" => tries[w] < MaxAttempts,
         next \in {"openGate", "park"} => from = "gate" /\ gate[job[w]] # "approved",
         next # "gate"
  PROVE  CountMoves(w) /\ CopiesMove(w)
<1>1. /\ pc[w] = from /\ job' = job /\ tries' = tries /\ gate' = gate /\ attempts' = attempts
      /\ pc'[w] = next /\ status' = status
  BY DEF Decide, At, Goto, TypeOK, rows, human, local
<1> QED
  BY <1>1 DEF CountMoves, Kept, CopiesMove

LEMMA WorkerCounts ==
  ASSUME "readError" \notin Faults, TypeOK, BegunAlready, NEW w \in Worker,
         Poll(w) \/ RunTask(w) \/ Disturb(w)
  PROVE  CountMoves(w) /\ CopiesMove(w)
<1>1. CASE Reap(w)
  <2>1. CopiesMove(w)
    BY <1>1 DEF Reap, At, Goto, TypeOK, human, local, Holding, Attempt, CopiesMove
  <2>2. ASSUME NEW t \in Task PROVE Kept(t) \/ Retried(w, t)
    <3>1. /\ attempts'[t] = attempts[t] /\ attempts[t] \in Nat /\ MaxAttempts \in Nat
          /\ status'[t] = IF ~Expired(t) THEN status[t]
                          ELSE IF attempts[t] >= MaxAttempts THEN "failed" ELSE "ready"
      BY <1>1, EngineAssumption DEF Reap, TypeOK
    <3> QED
      BY <3>1 DEF Expired, Kept, Retried, HoldsLease
  <2> QED
    BY <2>1, <2>2 DEF CountMoves
<1>2. ASSUME NEW t \in Task, Claim(w, t) PROVE CountMoves(w) /\ CopiesMove(w)
  BY <1>2 DEF Claim, Lease, Claimable, At, Goto, TypeOK, human,
              CountMoves, Kept, Leased, CopiesMove, HoldsLease
<1>3. ASSUME NEW t \in Task, ClaimUnheard(w, t) PROVE CountMoves(w) /\ CopiesMove(w)
  BY <1>3 DEF ClaimUnheard, Lease, Claimable, At, Goto, TypeOK, human, local, Holding, Attempt,
              CountMoves, Kept, Leased, CopiesMove, HoldsLease
<1>4. CASE Release(w)
  BY <1>4 DEF Release, PromoteReadyTasks, Promotable, At, Goto, TypeOK, human, local, Holding,
              Attempt, CountMoves, Kept, CopiesMove, HoldsLease
<1>5. CASE Propagate(w)
  BY <1>5 DEF Propagate, SkipPass, Decide, At, Goto, TypeOK, rows, human, local, Holding,
              Attempt, CountMoves, Kept, CopiesMove, HoldsLease
<1>6. CASE AfterTask(w)
  <2>1. CopiesMove(w)
    BY <1>6 DEF AfterTask, Forget, Goto, TypeOK, human, Holding, Attempt, CopiesMove
  <2>2. CountMoves(w)
    BY <1>6 DEF AfterTask, HandBack, TypeOK, rows, CountMoves, Kept, HandedBack
  <2> QED
    BY <2>1, <2>2
<1>7. CASE ClaimNothing(w) \/ ReadOutcome(w) \/ SettleGoal(w) \/ Unwind(w) \/ Quit(w)
           \/ HeartbeatStops(w) \/ Stop(w) \/ Crash(w)
  <2>1. UNCHANGED <<rows, human>>
    BY <1>7 DEF ClaimNothing, ReadOutcome, SettleGoal, Unwind, Quit, HeartbeatStops, Stop, Crash
  <2>2. CountMoves(w)
    BY <2>1 DEF CountMoves, Kept, rows
  <2>3. CopiesMove(w)
    BY <1>7, <2>1 DEF ClaimNothing, ReadOutcome, SettleGoal, Unwind, Quit, HeartbeatStops, Stop,
         Crash, Forget, At, Goto, TypeOK, human, local, Holding, Attempt, CopiesMove
  <2> QED
    BY <2>2, <2>3
<1>8. CASE LoadGoal(w) \/ Execute(w) \/ Verify(w)
  BY <1>8, DecideCounts DEF LoadGoal, Execute, Verify, Judge, Holding, Attempt
<1>9. CASE ReadGate(w)
  BY <1>9, DecideCounts DEF ReadGate, Holding, Attempt
<1>10. CASE OpenGate(w)
  <2>1. CASE Decide(w, "openGate", "fail")
    BY <2>1, DecideCounts DEF Holding, Attempt
  <2>2. CASE ~Decide(w, "openGate", "fail")
    BY <1>10, <2>2 DEF OpenGate, At, Goto, TypeOK, rows, local, Holding, Attempt,
                       CountMoves, Kept, CopiesMove
  <2> QED
    BY <2>1, <2>2
<1>11. CASE Begin(w)
  <2>1. CASE job[w] \in Gated
    <3>1. Transition(w, "begin", "running", "gate", "after")
      BY <1>11, <2>1 DEF Begin
    <3> QED
      BY <2>1, <3>1, TransitionCounts DEF Holding, Attempt
  <2>2. CASE job[w] \notin Gated
    <3>1. Transition(w, "begin", "running", "work", "after")
      BY <1>11, <2>2 DEF Begin
    <3> QED
      BY <3>1, TransitionCounts DEF Holding, Attempt
  <2> QED
    BY <2>1, <2>2
<1>12. CASE Refuse(w) \/ Park(w) \/ Present(w) \/ Succeed(w) \/ Requeue(w) \/ Fail(w)
  BY <1>12, TransitionCounts
  DEF Refuse, Park, Present, Succeed, Requeue, Fail, Holding, Attempt
<1> QED
  BY <1>1, <1>2, <1>3, <1>4, <1>5, <1>6, <1>7, <1>8, <1>9, <1>10, <1>11, <1>12
  DEF Poll, RunTask, Disturb

(* A worker's step keeps every copy of a count true and every count in bounds. *)
LEMMA WorkerKeepsCounts ==
  ASSUME "readError" \notin Faults, Inv, LeaseInv, AttemptInv,
         NEW w \in Worker, Poll(w) \/ RunTask(w) \/ Disturb(w)
  PROVE  AttemptInv'
<1>1. /\ Alone(w) /\ GatesKept(w) /\ CountMoves(w) /\ CopiesMove(w)
      /\ \A v \in Worker : pc[v] \in Holding => Holds(v) /\ job[v] \in Task
  BY WorkerProgress, WorkerCounts
  DEF Inv, BegunAlready, LeaseInv, HoldersHold, Holding
<1>2. \A t \in Task : gate[t] = "approved" => gate'[t] = "approved"
  BY <1>1 DEF CopiesMove, AttemptInv, AsksOnce, Inv, TypeOK
<1>3. TriesAreCounted'
  <2> SUFFICES ASSUME NEW v \in Worker, pc'[v] \in Holding
               PROVE  /\ tries'[v] = attempts'[job'[v]]
                      /\ pc'[v] = "requeue" => tries'[v] < MaxAttempts
    BY DEF TriesAreCounted, Holding, Attempt
  <2>1. ASSUME pc[v] \in Holding PROVE attempts'[job[v]] = attempts[job[v]]
    BY <1>1, <2>1 DEF CountMoves, Kept, Leased, HandedBack, Retried, Holds, HoldsLease,
                      Holding, Attempt
  <2>2. CASE v = w
    BY <1>1, <2>1, <2>2 DEF CopiesMove, AttemptInv, TriesAreCounted
  <2>3. CASE v # w
    BY <1>1, <2>1, <2>3 DEF CopiesMove, Alone, AttemptInv, TriesAreCounted
  <2> QED
    BY <2>2, <2>3
<1>4. AsksOnce'
  <2> SUFFICES ASSUME NEW v \in Worker
               PROVE  /\ pc'[v] \in {"gate", "openGate", "park"} => job'[v] \in Gated
                      /\ pc'[v] \in {"openGate", "park"} => gate'[job'[v]] # "approved"
    BY DEF AsksOnce
  <2>1. CASE v = w
    BY <1>1, <2>1, EngineAssumption DEF CopiesMove, AttemptInv, AsksOnce, Inv, TypeOK
  <2>2. CASE v # w
    BY <1>1, <2>2 DEF CopiesMove, Alone, AttemptInv, AsksOnce, Inv, TypeOK,
                      Holding, Attempt
  <2> QED
    BY <2>1, <2>2
<1>5. AnswersAreDecided'
  BY <1>1, <1>2 DEF GatesKept, AttemptInv, AnswersAreDecided
<1>6. ASSUME NEW t \in Task PROVE Counted(t)'
  <2>1. Counted(t) /\ attempts[t] \in Nat /\ MaxAttempts \in Nat \ {0}
    BY EngineAssumption DEF AttemptInv, Inv, TypeOK
  <2>2. Passed(t) => Passed(t)'
    BY <1>2 DEF Passed
  <2>3. CASE Kept(t)
    <3>1. CASE status'[t] = "awaiting_approval" /\ status[t] # "awaiting_approval"
      <4>1. t = job[w] /\ pc[w] = "park"
        BY <3>1, WorkerParks DEF Inv
      <4>2. t \in Gated /\ gate[t] # "approved" /\ status[t] \in HoldsLease
        BY <1>1, <4>1 DEF AttemptInv, AsksOnce, Holds, Holding, Attempt
      <4>3. attempts[t] <= MaxAttempts
        BY <2>1, <4>2 DEF Counted, Passed
      <4> QED
        BY <2>1, <2>3, <3>1, <4>2, <4>3 DEF Counted, Kept, HoldsLease
    <3>2. CASE ~(status'[t] = "awaiting_approval" /\ status[t] # "awaiting_approval")
      BY <2>1, <2>2, <2>3, <3>2 DEF Counted, Kept
    <3> QED
      BY <3>1, <3>2
  <2>4. CASE Leased(t)
    BY <2>1, <2>2, <2>4 DEF Counted, Leased, HoldsLease, Passed
  <2>5. CASE HandedBack(w, t)
    BY <2>1, <2>2, <2>5 DEF Counted, HandedBack, OneFewer, HoldsLease, Passed
  <2>6. CASE Retried(w, t)
    <3>1. attempts[t] < MaxAttempts
      BY <2>6 DEF Retried, AttemptInv, TriesAreCounted, Holding, Attempt
    <3> QED
      BY <2>1, <2>6, <3>1 DEF Counted, Retried, HoldsLease
  <2> QED
    BY <1>1, <2>3, <2>4, <2>5, <2>6 DEF CountMoves
<1> QED
  BY <1>3, <1>4, <1>5, <1>6 DEF AttemptInv

(* Time, and the answer to a gate, keep them too: an answer moves a parked task,
   and offers it again only where it let it through. *)
LEMMA AnswerKeepsCounts ==
  ASSUME Timely, Inv, LeaseInv, AttemptInv, NEW t \in Task,
         \/ Lapse(t) \/ Handle(t) \/ LoseAnswer(t)
         \/ RecordAnswer(t, "approved") \/ RecordAnswer(t, "rejected")
  PROVE  AttemptInv'
<1>1. UNCHANGED <<pc, job, tries>>
  BY TaskProgress DEF Inv, local
<1>2. attempts' = attempts
  BY DEF Lapse, Handle, ReadAnswered, MoveAnswered, TransitionTask, LoseAnswer, RecordAnswer, rows
<1>3. TriesAreCounted'
  BY <1>1, <1>2 DEF AttemptInv, TriesAreCounted
<1>4. CASE Lapse(t) \/ ReadAnswered(t) \/ LoseAnswer(t)
  <2>1. UNCHANGED <<status, gate>>
    BY <1>4 DEF Lapse, ReadAnswered, LoseAnswer, human, rows
  <2>2. AnswersAreDecided'
    <3>1. CASE Lapse(t)
      BY <2>1, <3>1 DEF Lapse, human, AttemptInv, AnswersAreDecided
    <3>2. CASE ReadAnswered(t)
      BY <2>1, <3>2 DEF ReadAnswered, AttemptInv, AnswersAreDecided, Inv, TypeOK, Answers
    <3>3. CASE LoseAnswer(t)
      BY <2>1, <3>3 DEF LoseAnswer, AttemptInv, AnswersAreDecided, Inv, TypeOK, Answers, NoAnswer
    <3> QED
      BY <1>4, <3>1, <3>2, <3>3
  <2> QED
    BY <1>1, <1>2, <1>3, <2>1, <2>2 DEF AttemptInv, AsksOnce, Counted, Passed
<1>5. ASSUME NEW d \in {"approved", "rejected"}, RecordAnswer(t, d) PROVE AttemptInv'
  <2>1. /\ status[t] = "awaiting_approval" /\ status' = status /\ gate[t] = "pending"
        /\ gate' = [gate EXCEPT ![t] = d]
        /\ answer'[t].to = "ready" => d = "approved"
        /\ \A u \in Task \ {t} : answer'[u] = answer[u]
    BY <1>5 DEF RecordAnswer, Timely, rows, NoAnswer, Inv, TypeOK
  <2>2. \A w \in Worker : pc[w] \in {"openGate", "park"} => job[w] # t /\ job[w] \in Task
    BY <2>1 DEF LeaseInv, HoldersHold, Holds, Holding, Attempt, Inv, BegunAlready, HoldsLease
  <2>3. AsksOnce'
    BY <1>1, <2>1, <2>2 DEF AttemptInv, AsksOnce, Inv, TypeOK
  <2>4. AnswersAreDecided'
    BY <2>1 DEF AttemptInv, AnswersAreDecided, Inv, TypeOK
  <2>5. ASSUME NEW u \in Task PROVE Counted(u)'
    BY <1>2, <2>1 DEF AttemptInv, Counted, Passed, Inv, TypeOK
  <2> QED
    BY <1>3, <2>3, <2>4, <2>5 DEF AttemptInv
<1>6. CASE MoveAnswered(t)
  <2>1. /\ gate' = gate /\ answer' = [answer EXCEPT ![t] = NoAnswer]
        /\ \/ status' = status
           \/ status' = [status EXCEPT ![t] = answer[t].to]
        /\ status[t] = "awaiting_approval" /\ answer[t].step = "read"
        /\ answer[t].to \in {"ready", "failed"}
    BY <1>6 DEF MoveAnswered, TransitionTask, rows, LeaseInv, AnswersForParked, Inv, TypeOK, Answers
  <2>2. AsksOnce'
    BY <1>1, <2>1 DEF AttemptInv, AsksOnce
  <2>3. AnswersAreDecided'
    BY <2>1 DEF AttemptInv, AnswersAreDecided, NoAnswer, Inv, TypeOK
  <2>4. ASSUME NEW u \in Task PROVE Counted(u)'
    <3>1. CASE status'[u] = status[u]
      BY <1>2, <2>1, <3>1 DEF AttemptInv, Counted, Passed
    <3>2. CASE status'[u] # status[u]
      <4>1. u = t /\ status'[t] = answer[t].to
        BY <2>1, <3>2 DEF Inv, TypeOK
      <4>2. answer[t].to = "ready" => gate[t] = "approved"
        BY <2>1 DEF AttemptInv, AnswersAreDecided
      <4>3. t \in Gated /\ attempts[t] <= MaxAttempts /\ attempts[t] \in Nat
        BY <2>1 DEF AttemptInv, Counted, Inv, TypeOK
      <4> QED
        BY <1>2, <2>1, <4>1, <4>2, <4>3, EngineAssumption DEF Counted, Passed, HoldsLease
    <3> QED
      BY <3>1, <3>2
  <2> QED
    BY <1>3, <2>2, <2>3, <2>4 DEF AttemptInv
<1> QED
  BY <1>4, <1>5, <1>6 DEF Handle

(* However many workers, crashes, stops, lost replies and lost answers: a task is
   attempted max_attempts times and a gate costs one attempt more, as long as
   reading a gate never fails where the write after it succeeds. *)
THEOREM AttemptsKept ==
  ASSUME Timely, "readError" \notin Faults PROVE Spec => []AttemptsBounded
<1>1. Init => AttemptInv
  BY EngineAssumption
  DEF Init, AttemptInv, TriesAreCounted, AsksOnce, AnswersAreDecided, Counted, Passed,
      NoAnswer, HoldsLease, Holding, Attempt
<1>2. Inv /\ LeaseInv /\ AttemptInv /\ [Next]_vars => AttemptInv'
  <2> SUFFICES ASSUME Inv, LeaseInv, AttemptInv, [Next]_vars PROVE AttemptInv'
    OBVIOUS
  <2>1. CASE Next
    BY <2>1, WorkerKeepsCounts, AnswerKeepsCounts DEF Next
  <2>2. CASE UNCHANGED vars
    BY <2>2 DEF vars, AttemptInv, TriesAreCounted, AsksOnce, AnswersAreDecided, Counted, Passed
  <2> QED
    BY <2>1, <2>2
<1>3. Inv /\ AttemptInv => AttemptsBounded
  BY EngineAssumption DEF AttemptInv, Counted, AttemptsBounded, Inv, TypeOK
<1> QED
  BY <1>1, <1>2, <1>3, Invariance, LeaseInvariance, PTL DEF Spec
=============================================================================

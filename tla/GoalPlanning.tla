--------------------------- MODULE GoalPlanning ---------------------------
(***************************************************************************)
(* A goal between its draft and its start.  A planning call takes minutes  *)
(* and may come back with a question instead of tasks; criteria, options   *)
(* and a choice are put on the same row; a start reads what holds the goal *)
(* statement by statement before it releases it.  Callers are HTTP         *)
(* handlers and terminals: any number of them work on one goal at once,    *)
(* each one operation at a time, and each may die at any step.  A          *)
(* statement that fails is a caller that dies before it, a reply that is   *)
(* lost one that dies after it.  What workers do to the tasks is TaskEngine *)
(* in one step.                                                           *)
(***************************************************************************)
EXTENDS Integers, Sequences, FiniteSets

CONSTANTS Caller,        \* handlers and terminals at work on the goal
          Question,      \* what a planner may ask
          Criteria,      \* what options may be argued against
          Option,        \* the keys of an offered set's options
          Key,           \* the idempotency keys a planner may give its tasks
          None,
          MaxPlans,      \* bounds: the plans that land,
          MaxDecisions   \* and the decisions recorded, after which none is offered

ASSUME PlanningAssumption ==
  /\ None \notin Question \cup Criteria \cup Option
  /\ MaxPlans \in Nat /\ MaxDecisions \in Nat

VARIABLES
  goal,    \* the goal's row
  plans,   \* the number of plans that landed, its last plan's version
  tasks,   \* by key, the task's status
  edges,   \* <<k, d>>: task k depends on task d
  log,     \* the decisions, in the order they were recorded
  assumed, \* questions filed as labelled assumptions
  local    \* what each caller remembers between its statements

vars == <<goal, plans, tasks, edges, log, assumed, local>>

NoOffer == [against |-> None, material |-> FALSE, supersedes |-> 0, decision |-> 0]
Idle == [at |-> "idle", question |-> None, set |-> NoOffer, option |-> None, decision |-> 0]

Offered(set) == set.against # None
Open == Offered(goal.options) /\ goal.options.material /\ goal.chosen = None
Unplanned == \A k \in Key : tasks[k] = "none"

Init ==
  /\ goal \in [consequential : BOOLEAN, status : {"draft"}, question : {None}, answer : {None},
               criteria : {None}, options : {NoOffer}, chosen : {None}]
  /\ plans = 0 /\ edges = {} /\ log = <<>> /\ assumed = {}
  /\ tasks = [k \in Key |-> "none"]
  /\ local = [c \in Caller |-> Idle]

At(c, at) == local[c].at = at
Done(c) == local' = [local EXCEPT ![c] = Idle]

(***************************************************************************)
(* Planning.                                                               *)
(***************************************************************************)

\* A graph on which somebody always waits for nobody that waits: every set
\* of tasks holds one that depends on no other of the set.
Acyclic(deps, keys) ==
  \A S \in SUBSET keys \ {{}} : \E k \in S : \A d \in S : <<k, d>> \notin deps

\* Defect: the edges are checked for unknown keys only.
ValidateKeysOnly(p) == p.keys # {} /\ p.deps \subseteq p.keys \X p.keys

Validate(p) == p.keys # {} /\ p.deps \subseteq p.keys \X p.keys /\ Acyclic(p.deps, p.keys)

\* What the planner may return, once it is validated.
Plan == {p \in [keys : SUBSET Key, deps : SUBSET (Key \X Key)] : Validate(p)}

\* A build's steps: two or more in one line, each after the one before it.
BuildPlan == {p \in Plan :
  /\ Cardinality(p.keys) >= 2
  /\ Cardinality(p.deps) = Cardinality(p.keys) - 1
  /\ \A e, f \in p.deps : e # f => e[1] # f[1] /\ e[2] # f[2]}

\* Only a draft that has no tasks is planned; a new goal is one.
replannable == goal.status = "draft" /\ Unplanned

BeginPlan(c) ==
  /\ At(c, "idle") /\ replannable
  /\ \E at \in {"planning", "building"} : local' = [local EXCEPT ![c].at = at]
  /\ UNCHANGED <<goal, plans, tasks, edges, log, assumed>>

\* The planner asked: the question is recorded, over an answer that is kept.
Ask(c) ==
  /\ At(c, "planning") /\ Done(c)
  /\ \E q \in Question : goal' = [goal EXCEPT !.question = q]
  /\ UNCHANGED <<plans, tasks, edges, log, assumed>>

\* The planner asked nothing: no question stands, and no answer.
DropQuestion(c) ==
  /\ At(c, "planning")
  /\ goal' = [goal EXCEPT !.question = None, !.answer = None]
  /\ local' = [local EXCEPT ![c].at = "planned"]
  /\ UNCHANGED <<plans, tasks, edges, log, assumed>>

\* PromoteReadyTasks: pending tasks whose dependencies have all succeeded.
Promote(ts, deps) ==
  [k \in Key |-> IF ts[k] = "pending" /\ \A d \in Key : <<k, d>> \in deps => ts[d] = "succeeded"
                 THEN "ready" ELSE ts[k]]

\* Defect: a plan writes a task for each key it names.
Recreate(p) == [k \in Key |-> IF k \in p.keys THEN "pending" ELSE tasks[k]]

\* A key the goal has keeps its task and whatever the task has come to.
Reuse(p) == [k \in Key |-> IF k \in p.keys /\ tasks[k] = "none" THEN "pending" ELSE tasks[k]]

\* One transaction.  Its version is unique to the goal: of two that read the
\* same one, the second is refused and has written nothing (GiveUp).
Apply(c) ==
  /\ local[c].at \in {"planned", "building"} /\ plans < MaxPlans /\ Done(c)
  /\ \E p \in IF At(c, "planned") THEN Plan ELSE BuildPlan :
       /\ edges' = edges \cup p.deps
       /\ tasks' = Promote(Reuse(p), edges \cup p.deps)
  /\ plans' = plans + 1
  /\ UNCHANGED <<goal, log, assumed>>

(***************************************************************************)
(* A question's answer.                                                    *)
(***************************************************************************)

ReadQuestion(c) ==
  /\ At(c, "idle") /\ goal.question # None
  /\ local' = [local EXCEPT ![c].at = "answering", ![c].question = goal.question]
  /\ UNCHANGED <<goal, plans, tasks, edges, log, assumed>>

\* The answer is kept as the question it was given to; the row holds its words.
Answer(c) ==
  /\ At(c, "answering") /\ Done(c)
  /\ goal' = [goal EXCEPT !.answer = local[c].question]
  /\ UNCHANGED <<plans, tasks, edges, log, assumed>>

(***************************************************************************)
(* Criteria, options and the choice.                                       *)
(***************************************************************************)

StateCriteria(c) ==
  /\ At(c, "idle")
  /\ \E criteria \in Criteria :
       goal' = [goal EXCEPT !.criteria = criteria, !.options = NoOffer, !.chosen = None]
  /\ UNCHANGED <<plans, tasks, edges, log, assumed, local>>

\* The adviser is asked to argue options against the criteria it was handed.
BeginOffer(c) ==
  /\ At(c, "idle") /\ goal.criteria # None /\ Len(log) < MaxDecisions
  /\ local' = [local EXCEPT ![c].at = "offering", ![c].set.against = goal.criteria]
  /\ UNCHANGED <<goal, plans, tasks, edges, log, assumed>>

\* It answered: StoreOptions reads which decision this set's choice replaces.
ReadPrior(c) ==
  /\ At(c, "offering")
  /\ local' = [local EXCEPT ![c].at = "storing", ![c].set.supersedes = goal.options.decision]
  /\ UNCHANGED <<goal, plans, tasks, edges, log, assumed>>

\* Defect: the choice made on the last set stays beside the new one.
StoreOptionsOnly(c) ==
  /\ At(c, "storing") /\ Done(c)
  /\ goal.criteria # None
  /\ \E material \in BOOLEAN :
       goal' = [goal EXCEPT !.options = [local[c].set EXCEPT !.material = material]]
  /\ UNCHANGED <<plans, tasks, edges, log, assumed>>

\* A set that holds one sensible approach is no material choice.
StoreOptions(c) ==
  /\ At(c, "storing") /\ Done(c)
  /\ goal.criteria # None
  /\ \E material \in BOOLEAN :
       goal' = [goal EXCEPT !.options = [local[c].set EXCEPT !.material = material], !.chosen = None]
  /\ UNCHANGED <<plans, tasks, edges, log, assumed>>

ReadOffer(c) ==
  /\ At(c, "idle") /\ Open
  /\ \E o \in Option :
       local' = [local EXCEPT ![c].at = "choosing", ![c].set = goal.options, ![c].option = o]
  /\ UNCHANGED <<goal, plans, tasks, edges, log, assumed>>

Superseded(n) == \E m \in 1..Len(log) : log[m].supersedes = n
Current == {n \in 1..Len(log) : ~Superseded(n)}

\* RecordDecision: its check, and the unique index behind it, on what the
\* decision supersedes.
RecordDecision(c) ==
  LET prior == local[c].set.supersedes IN
  /\ At(c, "choosing") /\ Len(log) < MaxDecisions
  /\ prior = 0 \/ prior \in Current
  /\ log' = Append(log, [option |-> local[c].option, supersedes |-> prior])
  /\ local' = [local EXCEPT ![c].at = "chosen", ![c].decision = Len(log) + 1]
  /\ UNCHANGED <<goal, plans, tasks, edges, assumed>>

\* The set it read goes back onto the row with the decision, whatever stands there.
WriteChoice(c) ==
  /\ At(c, "chosen") /\ Done(c)
  /\ goal' = [goal EXCEPT !.options = [local[c].set EXCEPT !.decision = local[c].decision],
                          !.chosen = local[c].option]
  /\ UNCHANGED <<plans, tasks, edges, log, assumed>>

(***************************************************************************)
(* Starting, and what workers do then.                                     *)
(***************************************************************************)

\* The question is filed as an assumption, or filing it fails, and the start
\* goes on.
LabelAssumption == assumed' \in {assumed, assumed \cup {goal.question}}

\* A draft with tasks.  Its question must be answered if its work is
\* consequential.
GateOnClarification(c) ==
  /\ At(c, "idle") /\ goal.status = "draft" /\ ~Unplanned
  /\ \/ /\ goal.question = None \/ goal.answer # None
        /\ UNCHANGED assumed
     \/ /\ goal.question # None /\ goal.answer = None /\ ~goal.consequential
        /\ LabelAssumption
  /\ local' = [local EXCEPT ![c].at = "gated"]
  /\ UNCHANGED <<goal, plans, tasks, edges, log>>

GateOnOptions(c) ==
  /\ At(c, "gated")
  /\ ~(Open /\ goal.consequential)
  /\ local' = [local EXCEPT ![c].at = "starting"]
  /\ UNCHANGED <<goal, plans, tasks, edges, log, assumed>>

Activate(c) ==
  /\ At(c, "starting") /\ goal.status = "draft" /\ Done(c)
  /\ goal' = [goal EXCEPT !.status = "active"]
  /\ UNCHANGED <<plans, tasks, edges, log, assumed>>

\* A request that is refused at its next statement, one whose statement or
\* model call fails, and a caller that dies.
GiveUp(c) ==
  /\ ~At(c, "idle") /\ Done(c)
  /\ UNCHANGED <<goal, plans, tasks, edges, log, assumed>>

Work(k) ==
  /\ goal.status = "active" /\ tasks[k] = "ready"
  /\ tasks' = Promote([tasks EXCEPT ![k] = "succeeded"], edges)
  /\ UNCHANGED <<goal, plans, edges, log, assumed, local>>

Planning(c) == BeginPlan(c) \/ Ask(c) \/ DropQuestion(c) \/ Apply(c)
Settling(c) ==
  \/ ReadQuestion(c) \/ Answer(c) \/ StateCriteria(c) \/ BeginOffer(c) \/ ReadPrior(c)
  \/ StoreOptions(c) \/ ReadOffer(c) \/ RecordDecision(c) \/ WriteChoice(c)
Starting(c) == GateOnClarification(c) \/ GateOnOptions(c) \/ Activate(c)

Next ==
  \/ \E c \in Caller : Planning(c) \/ Settling(c) \/ Starting(c) \/ GiveUp(c)
  \/ \E k \in Key : Work(k)

\* A worker polls as long as the deployment runs; nobody has to call anything.
Spec == Init /\ [][Next]_vars /\ \A k \in Key : WF_vars(Work(k))
-----------------------------------------------------------------------------

Status == {"none", "pending", "ready", "succeeded"}
Step == {"idle", "planning", "building", "planned", "answering",
         "offering", "storing", "choosing", "chosen", "gated", "starting"}
Offer == [against : Criteria \cup {None}, material : BOOLEAN, supersedes : Nat, decision : Nat]
Row == [consequential : BOOLEAN, status : {"draft", "active"},
        question : Question \cup {None}, answer : Question \cup {None},
        criteria : Criteria \cup {None}, options : Offer, chosen : Option \cup {None}]
Memory == [at : Step, question : Question \cup {None}, set : Offer,
           option : Option \cup {None}, decision : Nat]

\* Type correctness of the goal's row, its plan, the log and every caller.
TypeOK ==
  /\ goal \in Row
  /\ plans \in Nat
  /\ tasks \in [Key -> Status]
  /\ edges \subseteq Key \X Key
  /\ log \in Seq([option : Option, supersedes : Nat])
  /\ assumed \subseteq Question
  /\ local \in [Caller -> Memory]
  /\ \A c \in Caller : local[c].at \in {"choosing", "chosen"} => local[c].option \in Option

\* The choice a goal shows is the one its offered set was decided by, that
\* decision is in the log under the option it chose, and nothing in the log has
\* replaced it: however two choices, a new offer and restated criteria cross,
\* and wherever a caller dies between the log and the row.
ChoiceIsOnRecord ==
  goal.chosen # None =>
    /\ Offered(goal.options)
    /\ goal.options.decision \in Current
    /\ log[goal.options.decision].option = goal.chosen

Rank == [none |-> 0, pending |-> 1, ready |-> 2, succeeded |-> 3]

\* A plan that lands beside another one, before or after the start, takes
\* nothing back: a task it names again stays as far as it has come.
WorkIsKept == [][\A k \in Key : Rank[tasks[k]] <= Rank[tasks'[k]]]_vars

AllDone == \A k \in Key : tasks[k] \in {"none", "succeeded"}

\* A started goal whose plan is the only one it got is finished by workers that
\* do not fail: no validated plan holds tasks that wait for each other.
StartedWorkFinishes == [](plans <= 1) => (goal.status = "active" ~> AllDone)

\* What clarify.go says of its gate: no answer releases a question it was not
\* given to.  A consequential start that passes the gate passes it on a question
\* that was answered.
ReleasedByItsAnswer ==
  [][\A c \in Caller : GateOnClarification(c) /\ goal.consequential =>
       goal.question \in {None, goal.answer}]_vars

\* What StoreOptions says of the log: at most one decision stands, because each
\* choice supersedes the one before it.
OneDecisionStands == Cardinality(Current) <= 1

\* What StateCriteria and StoreOptions say of a set that stands: it was argued
\* against the criteria that stand.
ArguedAgainstWhatStands == Offered(goal.options) => goal.options.against = goal.criteria

\* What replannable says of a goal: no second plan lands beside the first.
OnePlanLands == plans <= 1
=============================================================================

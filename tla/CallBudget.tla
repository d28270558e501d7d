------------------------------ MODULE CallBudget ------------------------------
(* One goal's token ceiling and the model calls placed under it.            *)
(*                                                                          *)
(* The goal row (tokens_spent, largest_call_tokens) is shared by every      *)
(* worker that has one of the goal's tasks.  A worker reads the row once,   *)
(* when it starts a task (internal/agent/worker.go), and the client its     *)
(* calls go through (internal/agent/{executor,spend,verifier}.go) decides   *)
(* from that copy and its own tally whether one more call fits              *)
(* (internal/domain/engine/budget.go).  A client places one call at a time. *)
(* Tokens are counted in units; cost_cents is left out, because every       *)
(* caller of RecordSpend passes 0 for it.                                   *)
EXTENDS Naturals, FiniteSets, FiniteSetsExt

CONSTANTS
  Worker,            \* workers with a task of this goal
  Work,              \* the kinds of task the goal has
  Ceiling,           \* the goal's effective max_tokens, in units
  FirstCallReserve,  \* what a goal's first call is assumed to cost
  Sizes,             \* what one call may cost
  MaxCalls           \* bound: calls placed in one behaviour

\* tools    run by the tool loop
\* checked  run by the tool loop and then verified
\* build    a build step, through a charged client of its own
Kinds == {"tools", "checked", "build"}

ASSUME BudgetAssumption ==
  /\ Work \subseteq Kinds
  /\ Ceiling \in Nat \ {0}
  /\ FirstCallReserve \in Nat \ {0}
  /\ Sizes \subseteq Nat \ {0}
  /\ \E most \in Sizes : \A n \in Sizes : n <= most
  /\ MaxCalls \in Nat
  /\ IsFiniteSet(Worker)

VARIABLES
  spent,     \* forge_goals.tokens_spent
  largest,   \* forge_goals.largest_call_tokens
  client,    \* the client a worker's calls go through, "none" between tasks
  kind,      \* the kind of its task
  loaded,    \* tokens_spent and largest_call_tokens as it read them
  own,       \* what this client's calls have cost so far
  seen,      \* the largest call this client knows of
  call,      \* its call: "none", "placed", or "answered" and not yet recorded
  cost,      \* what the answered call cost
  lost,      \* history: tokens of calls whose spend was never recorded
  served,    \* history: tokens of every call that was answered
  placed,    \* history: calls placed
  surprised, \* history: some call cost more than its reserve
  overlapped,\* history: some task was started while another was under way
  checks     \* history: some task has come to its verification

row   == <<spent, largest>>
tally == <<client, kind, loaded, own, seen>>
asked == <<call, cost>>
past  == <<lost, served, placed, surprised, overlapped, checks>>
vars  == <<row, tally, asked, past>>

Larger(a, b) == IF a >= b THEN a ELSE b

TypeOK ==
  /\ spent \in Nat /\ largest \in Nat
  /\ client \in [Worker -> {"none", "executor", "verifier", "build"}]
  /\ kind \in [Worker -> Kinds]
  /\ loaded \in [Worker -> [tokens: Nat, largest: Nat]]
  /\ own \in [Worker -> Nat] /\ seen \in [Worker -> Nat]
  /\ call \in [Worker -> {"none", "placed", "answered"}]
  /\ cost \in [Worker -> Nat]
  /\ lost \in Nat /\ served \in Nat /\ placed \in Nat
  /\ surprised \in BOOLEAN /\ overlapped \in BOOLEAN /\ checks \in BOOLEAN

Init ==
  /\ spent = 0 /\ largest = 0
  /\ client = [w \in Worker |-> "none"]
  /\ kind = [w \in Worker |-> "tools"]
  /\ loaded = [w \in Worker |-> [tokens |-> 0, largest |-> 0]]
  /\ own = [w \in Worker |-> 0] /\ seen = [w \in Worker |-> 0]
  /\ call = [w \in Worker |-> "none"]
  /\ cost = [w \in Worker |-> 0]
  /\ lost = 0 /\ served = 0 /\ placed = 0
  /\ surprised = FALSE /\ overlapped = FALSE /\ checks = FALSE
-----------------------------------------------------------------------------
(* The guard                                                                *)

CallReserve(most) ==
  IF most = 0 THEN FirstCallReserve ELSE most + most \div 4

GoalSpent(tokens) == tokens >= Ceiling

\* Defect: the ceiling is compared with what is spent, nothing is reserved.
FitsUnreserved(tokens, most) == ~GoalSpent(tokens)

\* CheckCall with no other call in flight.
Fits(tokens, most) ==
  /\ ~GoalSpent(tokens)
  /\ tokens + CallReserve(most) <= Ceiling

\* Defect: a client forgets what it has spent itself.
KnownAsLoaded(w) == loaded[w].tokens

\* What the client takes the goal to have spent.
Known(w) == loaded[w].tokens + own[w]

MayPlace(w) == Fits(Known(w), seen[w])
-----------------------------------------------------------------------------
(* A worker                                                                 *)

\* runTask's loadGoal and CheckGoal.  A refused task fails and spends nothing.
StartTask(w) ==
  /\ client[w] = "none"
  /\ ~GoalSpent(spent)
  /\ \E k \in Work :
       /\ kind' = [kind EXCEPT ![w] = k]
       /\ client' = [client EXCEPT ![w] = IF k = "build" THEN "build" ELSE "executor"]
  /\ loaded' = [loaded EXCEPT ![w] = [tokens |-> spent, largest |-> largest]]
  /\ own' = [own EXCEPT ![w] = 0]
  /\ seen' = [seen EXCEPT ![w] = largest]
  /\ overlapped' = (overlapped \/ \E v \in Worker : client[v] # "none")
  /\ UNCHANGED <<row, asked, lost, served, placed, surprised, checks>>

\* A verification is one call: Verify has no loop.
Place(w) ==
  /\ client[w] # "none" /\ call[w] = "none"
  /\ client[w] = "verifier" => own[w] = 0
  /\ MayPlace(w)
  /\ placed < MaxCalls
  /\ placed' = placed + 1
  /\ call' = [call EXCEPT ![w] = "placed"]
  /\ UNCHANGED <<row, tally, cost, lost, served, surprised, overlapped, checks>>

\* The model answers and the client counts the tokens, before recording them.
Answered(w) ==
  /\ call[w] = "placed"
  /\ \E n \in Sizes :
       /\ cost' = [cost EXCEPT ![w] = n]
       /\ own' = [own EXCEPT ![w] = @ + n]
       /\ seen' = [seen EXCEPT ![w] = Larger(@, n)]
       /\ served' = served + n
       /\ surprised' = (surprised \/ n > CallReserve(seen[w]))
  /\ call' = [call EXCEPT ![w] = "answered"]
  /\ UNCHANGED <<row, client, kind, loaded, lost, placed, overlapped, checks>>

\* Defect: the total is written back from the copy the client works from.
RecordedFromCopy(w) == /\ spent' = loaded[w].tokens + own[w]
                       /\ largest' = Larger(largest, cost[w])

\* The statement of RecordSpend: both counters move under the row's lock.
Recorded(w) == /\ spent' = spent + cost[w]
               /\ largest' = Larger(largest, cost[w])

\* A failed RecordSpend is a warning; the answer is used all the same.
RecordSpend(w) ==
  /\ call[w] = "answered"
  /\ \/ Recorded(w) /\ UNCHANGED lost
     \/ lost' = lost + cost[w] /\ UNCHANGED row
  /\ call' = [call EXCEPT ![w] = "none"]
  /\ cost' = [cost EXCEPT ![w] = 0]
  /\ UNCHANGED <<tally, served, placed, surprised, overlapped, checks>>

Leave(w) == client' = [client EXCEPT ![w] = "none"]

\* The model's error ends a tool loop or a verification; a build step may go on.
CallFails(w) ==
  /\ call[w] = "placed"
  /\ call' = [call EXCEPT ![w] = "none"]
  /\ Leave(w) \/ (client[w] = "build" /\ UNCHANGED client)
  /\ UNCHANGED <<row, kind, loaded, own, seen, cost, past>>

\* completeTask hands the verifier a client over the goal as runTask loaded it.
Verify(w) ==
  /\ client' = [client EXCEPT ![w] = "verifier"]
  /\ own' = [own EXCEPT ![w] = 0]
  /\ seen' = [seen EXCEPT ![w] = loaded[w].largest]
  /\ checks' = TRUE
  /\ UNCHANGED <<kind, loaded>>

\* The tool loop has its outcome; a build step its model; a verifier its verdict.
\* A task also ends here when it fails, or when no further call fits.
EndClient(w) ==
  /\ client[w] # "none" /\ call[w] = "none"
  /\ \/ Leave(w) /\ UNCHANGED <<kind, loaded, own, seen, checks>>
     \/ client[w] = "executor" /\ kind[w] = "checked" /\ own[w] > 0 /\ Verify(w)
  /\ UNCHANGED <<row, asked, lost, served, placed, surprised, overlapped>>

\* The process dies: what an unrecorded answer cost is not counted anywhere.
Crash(w) ==
  /\ client[w] # "none"
  /\ Leave(w)
  /\ call' = [call EXCEPT ![w] = "none"]
  /\ cost' = [cost EXCEPT ![w] = 0]
  /\ lost' = lost + cost[w]
  /\ UNCHANGED <<row, kind, loaded, own, seen, served, placed, surprised, overlapped, checks>>

Step(w) ==
  \/ StartTask(w) \/ Place(w) \/ Answered(w) \/ RecordSpend(w)
  \/ CallFails(w) \/ EndClient(w) \/ Crash(w)

Next == \E w \in Worker : Step(w)

Spec == Init /\ [][Next]_vars
-----------------------------------------------------------------------------
(* Properties                                                               *)

\* Tokens counted for each worker, told apart: a worker's first, its second, ...
Tokens(count) == UNION {{w} \X (1..count[w]) : w \in Worker}

\* What the answered calls that nobody has recorded yet have cost.
Pending == Cardinality(Tokens(cost))

\* Every token answered is on the goal row, about to be, or known lost to a
\* failed or never-made write: concurrent workers lose none of each other's.
SpendAccounted == spent + Pending + lost = served

\* Tasks that follow one another, whoever works on them, are served no more than the
\* ceiling, as long as no call costs more than its reserve (CheckCall, RecordSpend).
\* Two things come on top, and only these: tokens whose record was lost, which the
\* tasks after cannot know of; and one call, once, where tasks are checked, because
\* the verifier's client starts from the row as runTask read it, without the task.
CeilingHolds ==
  ~surprised /\ ~overlapped =>
    served <= Ceiling + lost + (IF checks THEN Max(Sizes) ELSE 0)

\* The reservation keeps each client inside the ceiling as it sees it: what it
\* read when the task started, plus everything it has spent since.
ClientWithinCeiling ==
  ~surprised => \A w \in Worker : client[w] # "none" => Known(w) <= Ceiling

\* Workers on one goal that run at once can each spend the full allowance and one call
\* to verify what it bought, and no more: each decides from the copy it read.  This is
\* what the row counts; tokens whose record was lost come on top (SpendAccounted).
OvershootBounded ==
  ~surprised => spent + Pending <= Cardinality(Worker) * (Ceiling + Max(Sizes))
===============================================================================

---------------------------- MODULE TaskLifecycle ----------------------------
(* What the engine promises about a goal's tasks, whoever runs them: each   *)
(* task walks the status graph, work is offered in dependency order, only   *)
(* unreachable work is skipped, and the goal is settled once, truly.        *)
(* No worker, lease, attempt or gate appears here.                          *)
EXTENDS TaskStates

CONSTANTS Task, DependsOn,
          BuildStep,  \* the tasks that are steps of a build
          Moves       \* Moves[s]: the statuses a task in status s may move to

VARIABLES status,
          refused,    \* the build steps that succeeded and kept nothing
          goal

KeptNothing == BuildStep # {} /\ refused = BuildStep

Outcome == IF (\E t \in Task : status[t] \in {"failed", "cancelled"}) \/ KeptNothing
           THEN "failed" ELSE "succeeded"

Init == /\ status \in [Task -> {"pending", "ready"}]
        /\ \A t \in Task : status[t] = "ready" => DependsOn[t] = {}
        /\ refused = {} /\ goal = "active"

\* Any number of tasks move in one statement, each along an edge; what a build
\* step kept is told as it succeeds and never again.
Advance ==
  /\ \A t \in Task : status'[t] # status[t] =>
       /\ status'[t] \in Moves[status[t]]
       /\ status[t] = "pending" /\ status'[t] = "ready" =>
            \A d \in DependsOn[t] : status[d] = "succeeded"
       /\ status'[t] = "skipped" =>
            \E d \in DependsOn[t] : status[d] \in {"failed", "cancelled", "skipped"}
  /\ refused \subseteq refused'
  /\ \A t \in refused' \ refused :
       t \in BuildStep /\ status[t] # "succeeded" /\ status'[t] = "succeeded"
  /\ UNCHANGED goal

\* No work outstanding, and the outcome is the tasks' outcome.
Settle == /\ goal = "active"
          /\ \A t \in Task : status[t] \in TerminalStatus
          /\ goal' = Outcome
          /\ UNCHANGED <<status, refused>>

Spec == Init /\ [][Advance \/ Settle]_<<status, refused, goal>>
=============================================================================

------------------------------ MODULE TaskStates ------------------------------
(* The status graph of a task: internal/domain/engine/state.go.             *)
(* Pure definitions, shared by every module that moves a task.              *)

TaskStatus == {"pending", "ready", "claimed", "running", "awaiting_approval",
               "verifying", "succeeded", "failed", "cancelled", "skipped"}

TerminalStatus == {"succeeded", "failed", "cancelled", "skipped"}

\* The states that may hold a worker's lease.  awaiting_approval is not one:
\* a gate may stay open for days.
HoldsLease == {"claimed", "running", "verifying"}

\* The table `transitions', which the source calls the complete legal graph.
\* ValidateTransition adds nothing to it: a self-move and a move out of a
\* terminal state are not edges either.
LegalMoves ==
  [ pending           |-> {"ready", "skipped", "cancelled"},
    ready             |-> {"claimed", "skipped", "cancelled"},
    claimed           |-> {"running", "ready", "cancelled"},
    running           |-> {"awaiting_approval", "verifying", "succeeded",
                           "failed", "ready", "cancelled"},
    awaiting_approval |-> {"ready", "failed", "cancelled"},
    verifying         |-> {"succeeded", "failed", "ready", "cancelled"},
    succeeded         |-> {},
    failed            |-> {},
    cancelled         |-> {},
    skipped           |-> {} ]

CanTransition(from, to) == to \in LegalMoves[from]

GoalStatus == {"active", "succeeded", "failed"}
=============================================================================

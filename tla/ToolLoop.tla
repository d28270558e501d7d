------------------------------- MODULE ToolLoop -------------------------------
(* One task's tool loop across its attempts, and the ledger of its calls.   *)
(*                                                                          *)
(* Execute (internal/agent/executor.go) asks the model, runs the tools it   *)
(* asked for one by one, writes a row of forge_tool_calls per call and a    *)
(* checkpoint of the conversation per iteration.  A later attempt, after a  *)
(* crash, a stop or a failure, resumes from the last checkpoint; the ledger *)
(* is what it, the verifier and the recovery plan (recovery.go) know of the *)
(* calls that ran.  Attempts do not overlap here: TaskEngine says when two  *)
(* workers may hold one task.  Token spend is CallBudget's.                 *)
EXTENDS Naturals, Sequences, SequencesExt

CONSTANTS
  Call,           \* the calls a model may ask for: a tool and its arguments,
                  \* which is what an idempotency key is made of
  None,           \* no output, no row
  MaxIterations,  \* MaxIterationsPerTask
  MaxToolCalls,   \* MaxToolCallsPerIteration
  MaxAttempts,    \* forge_tasks.max_attempts
  MaxRuns         \* bound: times one call runs in one behaviour

\* What the model is told of a call, and what a row may say.
Answers == {"succeeded", "failed", "refused", "stopped"}
RowStatus == {"succeeded", "failed", "refused"}
Row == [status: RowStatus, output: {None, "kept"}]
Told == Call \X Answers

ASSUME LoopAssumption ==
  /\ None \notin Call \cup Row
  /\ MaxIterations \in Nat \ {0} /\ MaxToolCalls \in Nat \ {0}
  /\ MaxAttempts \in Nat /\ MaxRuns \in Nat

VARIABLES
  at,         \* where the attempt is; "away" between attempts
  granted,    \* the calls the attempt's grant and the tools' schemas admit
  batch,      \* the calls the model asked for and that are still to be run
  came,       \* how the call that just ran came back
  iteration,  \* the loop's counter
  made,       \* totalCalls
  stopped,    \* the attempt's context is cancelled
  talk,       \* what the model was told of its calls, in this attempt
  saved,      \* the latest checkpoint's conversation
  ledger,     \* forge_tool_calls by idempotency key
  runs,       \* how often a call has had its effect on the world
  attempt,    \* attempts begun
  gaps        \* history: calls that had an effect nothing could record

loop == <<at, granted, batch, came, iteration, made, stopped, talk>>
kept == <<saved, ledger>>
past == <<runs, attempt, gaps>>
vars == <<loop, kept, past>>

TypeOK ==
  /\ at \in {"away", "model", "tools", "admitted", "cleared", "ran"}
  /\ granted \subseteq Call
  /\ batch \in Seq(Call)
  /\ came \in {None, "succeeded", "failed"}
  /\ iteration \in Nat /\ made \in Nat /\ attempt \in Nat
  /\ stopped \in BOOLEAN
  /\ talk \subseteq Told /\ saved \subseteq Told
  /\ ledger \in [Call -> Row \cup {None}]
  /\ runs \in [Call -> Nat]
  /\ gaps \subseteq Call

Init ==
  /\ at = "away" /\ granted = {} /\ batch = <<>> /\ came = None
  /\ iteration = 0 /\ made = 0 /\ stopped = FALSE
  /\ talk = {} /\ saved = {}
  /\ ledger = [c \in Call |-> None]
  /\ runs = [c \in Call |-> 0]
  /\ attempt = 0 /\ gaps = {}
-----------------------------------------------------------------------------
(* The ledger                                                               *)

Recorded(c) == ledger[c] # None

Says(c, status) == Recorded(c) /\ ledger[c].status = status

\* recordToolCall: the first record of a key stays, and output is always null.
WithRow(c, status) ==
  IF Recorded(c) THEN ledger
  ELSE [ledger EXCEPT ![c] = [status |-> status, output |-> None]]

\* Defect: any record of the key counts.
FoundRecord(c) == ~stopped /\ Recorded(c)

\* findCompletedCall: a succeeded row that has an output.  On a cancelled
\* context the query fails, which reads as nothing found.
Found(c) == ~stopped /\ Says(c, "succeeded") /\ ledger[c].output # None
-----------------------------------------------------------------------------
(* The loop                                                                 *)

\* The grant is derived anew for every attempt, and stays for all of it.
Begin ==
  /\ at = "away" /\ attempt < MaxAttempts
  /\ attempt' = attempt + 1
  /\ granted' \in SUBSET Call
  /\ at' = "model" /\ batch' = <<>> /\ came' = None
  /\ iteration' = 0 /\ made' = 0 /\ stopped' = FALSE
  /\ talk' = saved
  /\ UNCHANGED <<kept, runs, gaps>>

\* What only the attempt held is gone with it.
Leave == /\ at' = "away" /\ granted' = {} /\ batch' = <<>> /\ came' = None
         /\ iteration' = 0 /\ made' = 0 /\ stopped' = FALSE /\ talk' = {}

\* CheckToolCalls
FanOut(n) == n < MaxToolCalls

\* CheckIteration, the call to the model, CheckToolCalls.
AskModel ==
  /\ at = "model" /\ ~stopped
  /\ iteration < MaxIterations
  /\ \E n \in 1..MaxToolCalls :
       /\ FanOut(n)
       /\ \E calls \in [1..n -> Call] : batch' = calls
  /\ at' = "tools"
  /\ UNCHANGED <<granted, came, iteration, made, stopped, talk, kept, past>>

\* The model's last word, its error, a bound reached, a fan-out refused.
EndAttempt == at = "model" /\ Leave /\ UNCHANGED <<kept, past>>

\* The top of the loop over the calls: the cancelled context is looked at.
TakeCall ==
  /\ at = "tools" /\ batch # <<>> /\ ~stopped
  /\ at' = "admitted" /\ made' = made + 1
  /\ UNCHANGED <<granted, batch, came, iteration, stopped, talk, kept, past>>

AbandonTools ==
  /\ at = "tools" /\ stopped
  /\ Leave /\ UNCHANGED <<kept, past>>

\* The model is told of the call in hand, and the next one is up.
Tell(answer) ==
  /\ talk' = talk \cup {<<Head(batch), answer>>}
  /\ batch' = Tail(batch)
  /\ at' = "tools" /\ came' = None
  /\ UNCHANGED <<granted, iteration, made, stopped>>

\* Before the lookup a call no tool, permission or schema admits is refused;
\* after it, one whose secrets cannot be resolved just now.  An unknown tool
\* leaves no row, and neither does a write that fails, which is logged.
RefuseCall ==
  /\ \/ at = "admitted" /\ Head(batch) \notin granted
     \/ at = "cleared"
  /\ Tell("refused")
  /\ ledger' = WithRow(Head(batch), "refused") \/ UNCHANGED ledger
  /\ UNCHANGED <<saved, past>>

LookUp ==
  /\ at = "admitted" /\ Head(batch) \in granted
  /\ IF Found(Head(batch))
     THEN Tell("succeeded")
     ELSE at' = "cleared" /\ UNCHANGED <<granted, batch, came, iteration, made, stopped, talk>>
  /\ UNCHANGED <<kept, past>>

\* A tool that fails may have had its effect or not.
RunTool ==
  /\ at = "cleared"
  /\ runs[Head(batch)] < MaxRuns
  /\ came' \in {"succeeded", "failed"}
  /\ \/ runs' = [runs EXCEPT ![Head(batch)] = @ + 1]
     \/ came' = "failed" /\ UNCHANGED runs
  /\ at' = "ran"
  /\ UNCHANGED <<granted, batch, iteration, made, stopped, talk, kept, attempt, gaps>>

\* A failure under a cancelled context is the stop's, and is not recorded.
CutShort == came = "failed" /\ stopped

\* Defect: the record is made on the run's own context, which a stop cancels.
WriteOnRunContext(c) ==
  /\ ledger' = IF stopped THEN ledger ELSE WithRow(c, came)
  /\ UNCHANGED gaps

\* The row is written on a context that outlives a stop; only a database that
\* fails it leaves a gap.
Write(c) ==
  \/ ledger' = WithRow(c, came) /\ UNCHANGED gaps
  \/ UNCHANGED ledger /\ gaps' = gaps \cup {c}

RecordCall ==
  /\ at = "ran"
  /\ IF CutShort
     THEN /\ Tell("stopped")
          /\ gaps' = gaps \cup {Head(batch)}
          /\ UNCHANGED ledger
     ELSE Tell(came) /\ Write(Head(batch))
  /\ UNCHANGED <<saved, runs, attempt>>

\* Defect: an iteration a stop cut short is saved as any other.
CheckpointAnyway ==
  /\ at = "tools" /\ batch = <<>>
  /\ saved' = talk
  /\ at' = "model" /\ iteration' = iteration + 1
  /\ UNCHANGED <<granted, batch, came, made, stopped, talk, ledger, past>>

\* A checkpoint that cannot be written is logged and the loop goes on.
Checkpoint ==
  /\ at = "tools" /\ batch = <<>> /\ ~stopped
  /\ saved' = talk \/ UNCHANGED saved
  /\ at' = "model" /\ iteration' = iteration + 1
  /\ UNCHANGED <<granted, batch, came, made, stopped, talk, ledger, past>>

\* SIGTERM: the context of whatever runs is cancelled.
Stop ==
  /\ at # "away" /\ ~stopped
  /\ stopped' = TRUE
  /\ UNCHANGED <<at, granted, batch, came, iteration, made, talk, kept, past>>

\* The process dies; a call that ran leaves no trace.
Crash ==
  /\ at # "away"
  /\ Leave
  /\ gaps' = IF at = "ran" THEN gaps \cup {Head(batch)} ELSE gaps
  /\ UNCHANGED <<kept, runs, attempt>>

Next ==
  \/ Begin \/ AskModel \/ EndAttempt \/ TakeCall \/ AbandonTools
  \/ RefuseCall \/ LookUp \/ RunTool \/ RecordCall \/ Checkpoint
  \/ Stop \/ Crash

Spec == Init /\ [][Next]_vars
-----------------------------------------------------------------------------
(* Recover: what a stopped goal's plan says was done                        *)

\* Standing, before the calls whose tool changes nothing are dropped from it.
Standing == {c \in Call : Says(c, "succeeded")}
Uncertain == {c \in Call : Says(c, "failed")}

\* The call in hand has run and its row is still to be written.
InHand(c) == at = "ran" /\ Head(batch) = c
-----------------------------------------------------------------------------
(* Properties                                                               *)

\* What the recovery plan says stands did happen, and what the model was told
\* succeeded did too: in this attempt's talk and in the one a resume reads.
ClaimsAreTrue ==
  /\ \A c \in Standing : runs[c] > 0
  /\ \A c \in Call : <<c, "succeeded">> \in talk \cup saved => runs[c] > 0

\* A call that touched the world has a row, unless its process died before
\* writing it, the stop that cut it short hid how it ended, or the database
\* failed the write.  A stop alone drops none.
EffectsLeaveARow ==
  \A c \in Call : runs[c] > 0 => Recorded(c) \/ InHand(c) \/ c \in gaps

\* A resumed attempt is never told that a call failed which a stop interrupted.
ResumeTellsNoStop == \A c \in Call : <<c, "stopped">> \notin saved

\* The two limits of the loop bound the calls of an attempt together.
CallsBounded == made <= MaxIterations * (MaxToolCalls - 1)

\* A call the ledger holds as succeeded is not run again: the work replayed
\* after a lost checkpoint deduplicates.
CompletedIsNotRepeated ==
  [][\A c \in Call : Says(c, "succeeded") => runs'[c] = runs[c]]_vars

\* A key is in the ledger before its call has an effect, so that no retry can
\* repeat one.
KeyBeforeEffect ==
  [][\A c \in Call : runs'[c] # runs[c] => Recorded(c)]_vars

\* A result the model was given, its write having failed to none, is a result
\* the ledger holds.
AcknowledgedIsRecorded ==
  \A c \in Call \ gaps : <<c, "succeeded">> \in talk => Says(c, "succeeded")

\* Every effect but an unrecorded one is in the recovery plan: it stands, or
\* it is uncertain.
PlanNamesEveryEffect ==
  \A c \in Call \ gaps : runs[c] > 0 /\ ~InHand(c) => c \in Standing \cup Uncertain
===============================================================================

------------------------------- MODULE KernelPool -------------------------------
(* The pool of CAD kernel processes a deployment builds with.               *)
(*                                                                          *)
(* A slot (cad/sidecar_process.go: sidecar) is one process with one stdin   *)
(* and one stdout; the free slots wait in a channel.  A build (cad.go:      *)
(* buildWith) takes a slot, starts its process if there is none, writes one *)
(* request line, reads one reply line and gives the slot back.  Beside the  *)
(* holder runs a watchdog, the goroutine that kills a process whose time is *)
(* up; a caller that cancels leaves the build to finish for nobody; a crash *)
(* is retried once; Prestart and Close take slots like a build does.        *)
EXTENDS Naturals, Sequences, SequencesExt, FiniteSets

CONSTANTS
  Build,     \* calls of Kernel.BuildDocument
  Slot,      \* the pool's slots
  None,      \* nobody, nothing
  Eof,       \* what reading a dead process's stdout gives
  Warmup,    \* Prestart, as the holder of a slot
  Closer,    \* Close, as the holder of a slot
  Faults     \* which of "crash", "exit" happen: a process that dies while it
             \* runs, one that exits while it imports

ASSUME PoolAssumption ==
  /\ IsFiniteSet(Slot)
  /\ {None, Eof, Warmup, Closer} \cap (Build \cup Slot) = {}
  /\ Cardinality({None, Eof, Warmup, Closer}) = 4

VARIABLES
  free,     \* the channel of free slots
  slot,     \* who holds a slot, how far its round trip is, what was read
  proc,     \* a slot's process: its life, what it builds, its unread reply
  watch,    \* a slot's watchdog, and the build it was started for
  end,      \* who ended the round trip: the compare-and-swapped word
  orphan,   \* sidecar.abandoned
  call,     \* a build's caller: where it is, its context, tries and outcome
  warm,     \* slots Prestart has yet to take
  closing   \* Close: its phase, the slots looked at, the one it will kill

vars == <<free, slot, proc, watch, end, orphan, call, warm, closing>>

Stages == {"free", "entering", "importing", "started", "reading", "claiming",
           "joining", "kept"}
Lives == {"none", "importing", "idle", "building", "dead", "killed"}
Outcomes == {"none", "answered", "refused", "late", "slow", "cancelled", "unavailable"}

Held == [holder: Build \cup {None, Warmup, Closer}, at: Stages, got: Build \cup {None, Eof}]
Running == [life: Lives, work: Build \cup {None}, line: Build \cup {None}]
Watching == [at: {"off", "on", "patient", "fired", "killing"}, of: Build \cup {None}]
Ends == {"running", "answered", "outOfTime"}
Calling == [at: {"away", "waiting", "inside", "over"}, ctx: {"live", "cancelled", "deadline"},
            tries: 0..2, outcome: Outcomes, reply: Build \cup {None}]

\* Type correctness of the pool, of every process and watchdog, and of every caller.
TypeOK ==
  /\ free \in Seq(Slot)
  /\ slot \in [Slot -> Held] /\ proc \in [Slot -> Running] /\ watch \in [Slot -> Watching]
  /\ end \in [Slot -> Ends] /\ orphan \in [Slot -> BOOLEAN]
  /\ call \in [Build -> Calling]
  /\ warm \in 0..Cardinality(Slot)
  /\ closing \in [at: {"open", "sweeping", "taking", "closed"},
                  seen: SUBSET Slot, prey: Slot \cup {None}]

Idle == [holder |-> None, at |-> "free", got |-> None]
Off == [at |-> "off", of |-> None]
Stopped == [life |-> "none", work |-> None, line |-> None]

Init ==
  /\ free \in Bijection(1..Cardinality(Slot), Slot)
  /\ slot = [s \in Slot |-> Idle]
  /\ proc = [s \in Slot |-> Stopped]
  /\ watch = [s \in Slot |-> Off]
  /\ end = [s \in Slot |-> "running"]
  /\ orphan = [s \in Slot |-> FALSE]
  /\ call = [b \in Build |-> [at |-> "away", ctx |-> "live", tries |-> 0,
                              outcome |-> "none", reply |-> None]]
  /\ warm \in {0, Cardinality(Slot)}
  /\ closing = [at |-> "open", seen |-> {}, prey |-> None]

Holder(s) == slot[s].holder
Ended(b) == call[b].ctx # "live"
Over(b, outcome) ==
  [call[b] EXCEPT !.at = "over", !.tries = 0, !.outcome = outcome]

\* release: the slot goes to the back of the channel.
Release(s) ==
  /\ free' = Append(free, s)
  /\ slot' = [slot EXCEPT ![s] = Idle]

\* stop: the process is killed, waited for, and its pipes are closed.
Stop(s) == proc' = [proc EXCEPT ![s] = Stopped]

----------------------------------------------------------------------------
(* The caller *)

Arrive(b) ==
  /\ call[b].at = "away"
  /\ call' = [call EXCEPT ![b].at = "waiting"]
  /\ UNCHANGED <<free, slot, proc, watch, end, orphan, warm, closing>>

\* The caller's context ends: it goes away, or its deadline passes.
End(b) == \E why \in {"cancelled", "deadline"} :
  /\ call[b].at \in {"waiting", "inside"} /\ ~ Ended(b)
  /\ call' = [call EXCEPT ![b].ctx = why]
  /\ UNCHANGED <<free, slot, proc, watch, end, orphan, warm, closing>>

Acquire(b) ==
  /\ call[b].at = "waiting" /\ free # <<>>
  /\ call' = [call EXCEPT ![b].at = "inside", ![b].tries = 1]
  /\ slot' = [slot EXCEPT ![Head(free)] = [holder |-> b, at |-> "entering", got |-> None]]
  /\ free' = Tail(free)
  /\ UNCHANGED <<proc, watch, end, orphan, warm, closing>>

StopWaiting(b) ==
  /\ call[b].at = "waiting" /\ Ended(b)
  /\ call' = [call EXCEPT ![b] = Over(b, "refused")]
  /\ UNCHANGED <<free, slot, proc, watch, end, orphan, warm, closing>>

\* A round trip that failed with an I/O error: once more on a fresh process, or
\* the build is given up, its dead process left for the next holder to find.
Again(s, b) ==
  IF call[b].tries = 1
  THEN /\ Stop(s)
       /\ slot' = [slot EXCEPT ![s].at = "entering", ![s].got = None]
       /\ call' = [call EXCEPT ![b].tries = 2]
       /\ UNCHANGED free
  ELSE /\ Release(s)
       /\ call' = [call EXCEPT ![b] = Over(b, "unavailable")]
       /\ UNCHANGED proc

\* A build that is refused without a retry, its slot reset first.
Refuse(s, b, outcome) ==
  /\ Stop(s) /\ Release(s)
  /\ call' = [call EXCEPT ![b] = Over(b, outcome)]

----------------------------------------------------------------------------
(* start *)

Inside(s, stage) == Holder(s) \in Build /\ ~ orphan[s] /\ slot[s].at = stage

EnterLate(s) ==
  /\ Inside(s, "entering") /\ Ended(Holder(s))
  /\ Refuse(s, Holder(s), "late")
  /\ UNCHANGED <<watch, end, orphan, warm, closing>>

Spawn(s) ==
  /\ Inside(s, "entering") /\ ~ Ended(Holder(s)) /\ proc[s].life = "none"
  /\ proc' = [proc EXCEPT ![s].life = "importing"]
  /\ slot' = [slot EXCEPT ![s].at = "importing"]
  /\ UNCHANGED <<free, watch, end, orphan, call, warm, closing>>

\* The ready banner.
Banner(s) ==
  /\ slot[s].at = "importing" /\ proc[s].life = "importing"
  /\ proc' = [proc EXCEPT ![s].life = "idle"]
  /\ IF Holder(s) = Warmup
     THEN Release(s)
     ELSE slot' = [slot EXCEPT ![s].at = "started"] /\ UNCHANGED free
  /\ UNCHANGED <<watch, end, orphan, call, warm, closing>>

\* The process exits while it imports: start stops it and returns the error.
ExitImporting(s) ==
  /\ slot[s].at = "importing"
  /\ "exit" \in Faults \/ proc[s].life = "dead"
  /\ IF Holder(s) = Warmup THEN Stop(s) /\ Release(s) /\ UNCHANGED call
     ELSE IF Ended(Holder(s)) THEN Refuse(s, Holder(s), "late")
     ELSE IF call[Holder(s)].tries = 1 THEN Again(s, Holder(s))
     ELSE Refuse(s, Holder(s), "unavailable")
  /\ UNCHANGED <<watch, end, orphan, warm, closing>>

\* startLimit passes.
SlowImport(s) ==
  /\ slot[s].at = "importing"
  /\ IF Holder(s) = Warmup THEN Stop(s) /\ Release(s) /\ UNCHANGED call
     ELSE Refuse(s, Holder(s), IF Ended(Holder(s)) THEN "late" ELSE "slow")
  /\ UNCHANGED <<watch, end, orphan, warm, closing>>

\* start's select sees that its context has ended: the caller's, or that of the
\* server that is shutting down and ran Prestart.
ImportForNobody(s) ==
  /\ slot[s].at = "importing"
  /\ IF Holder(s) = Warmup
     THEN closing.at # "open" /\ Stop(s) /\ Release(s) /\ UNCHANGED call
     ELSE Ended(Holder(s)) /\ Refuse(s, Holder(s), "late")
  /\ UNCHANGED <<watch, end, orphan, warm, closing>>

----------------------------------------------------------------------------
(* roundTrip *)

\* The watchdog is armed, then the request is written: a process that has died
\* since the last build takes no work.
Send(s) ==
  /\ \/ Inside(s, "started")
     \/ Inside(s, "entering") /\ ~ Ended(Holder(s)) /\ proc[s].life # "none"
  /\ watch' = [watch EXCEPT ![s] = [at |-> "on", of |-> Holder(s)]]
  /\ end' = [end EXCEPT ![s] = "running"]
  /\ slot' = [slot EXCEPT ![s].at = "reading"]
  /\ proc' = IF proc[s].life = "idle"
              THEN [proc EXCEPT ![s].life = "building", ![s].work = Holder(s)]
              ELSE proc
  /\ UNCHANGED <<free, orphan, call, warm, closing>>

\* The process writes its reply line.
Reply(s) ==
  /\ proc[s].life = "building"
  /\ proc' = [proc EXCEPT ![s] = [life |-> "idle", work |-> None, line |-> proc[s].work]]
  /\ UNCHANGED <<free, slot, watch, end, orphan, call, warm, closing>>

Crash(s) ==
  /\ "crash" \in Faults /\ proc[s].life \in {"idle", "building"}
  /\ proc' = [proc EXCEPT ![s].life = "dead", ![s].work = None]
  /\ UNCHANGED <<free, slot, watch, end, orphan, call, warm, closing>>

\* The line the process wrote, or the end of its stdout.
Read(s) ==
  /\ slot[s].at = "reading"
  /\ proc[s].line # None \/ proc[s].life \in {"dead", "killed"}
  /\ slot' = [slot EXCEPT ![s].at = "claiming",
                          ![s].got = IF proc[s].line # None THEN proc[s].line ELSE Eof]
  /\ proc' = [proc EXCEPT ![s].line = None]
  /\ UNCHANGED <<free, watch, end, orphan, call, warm, closing>>

\* Defect: a cancelled build's slot goes back at once, its reply still to come.
AbandonAndRelease(s) ==
  /\ Inside(s, "reading") /\ call[Holder(s)].ctx = "cancelled"
  /\ Release(s)
  /\ call' = [call EXCEPT ![Holder(s)] = Over(Holder(s), "cancelled")]
  /\ UNCHANGED <<proc, watch, end, orphan, warm, closing>>

\* Defect: both the caller and the goroutine give the slot back.
AbandonHeld(s) ==
  /\ Inside(s, "reading") /\ call[Holder(s)].ctx = "cancelled"
  /\ orphan' = [orphan EXCEPT ![s] = TRUE]
  /\ free' = Append(free, s)
  /\ call' = [call EXCEPT ![Holder(s)] = Over(Holder(s), "cancelled")]
  /\ UNCHANGED <<slot, proc, watch, end, warm, closing>>

\* The caller cancels while the build runs: it gets its answer, the slot stays
\* with the goroutine that finishes the round trip.
Abandon(s) ==
  /\ Inside(s, "reading") /\ call[Holder(s)].ctx = "cancelled"
  /\ orphan' = [orphan EXCEPT ![s] = TRUE]
  /\ call' = [call EXCEPT ![Holder(s)] = Over(Holder(s), "cancelled")]
  /\ UNCHANGED <<free, slot, proc, watch, end, warm, closing>>

\* Defect: finish stores instead of comparing and swapping.
ClaimAnyway(s) ==
  /\ slot[s].at = "claiming"
  /\ end' = [end EXCEPT ![s] = "answered"]
  /\ slot' = [slot EXCEPT ![s].at = "joining"]
  /\ UNCHANGED <<free, proc, watch, orphan, call, warm, closing>>

\* finish: claim the end of the round trip, then tell the watchdog.
Claim(s) ==
  /\ slot[s].at = "claiming"
  /\ end' = [end EXCEPT ![s] = IF @ = "running" THEN "answered" ELSE @]
  /\ slot' = [slot EXCEPT ![s].at = "joining"]
  /\ UNCHANGED <<free, proc, watch, orphan, call, warm, closing>>

\* The watchdog has exited: the round trip is what the claim says it was.
Settle(s) ==
  /\ slot[s].at = "joining" /\ watch[s].at = "off"
  /\ LET b == Holder(s)
         lost == end[s] = "outOfTime" \/ slot[s].got = Eof
     IN IF orphan[s]
        THEN /\ IF lost THEN Stop(s) ELSE UNCHANGED proc
             /\ Release(s)
             /\ orphan' = [orphan EXCEPT ![s] = FALSE]
             /\ UNCHANGED call
        ELSE /\ IF end[s] = "outOfTime" THEN Refuse(s, b, "late")
                ELSE IF lost THEN Again(s, b)
                ELSE /\ Release(s)
                     /\ call' = [call EXCEPT ![b] = [Over(b, "answered")
                                                     EXCEPT !.reply = slot[s].got]]
                     /\ UNCHANGED proc
             /\ UNCHANGED orphan
  /\ end' = [end EXCEPT ![s] = "running"]
  /\ UNCHANGED <<watch, warm, closing>>

----------------------------------------------------------------------------
(* The watchdog *)

WatchStep(s, from, to) ==
  /\ watch[s].at \in from
  /\ watch' = [watch EXCEPT ![s] = IF to = "off" THEN Off ELSE [@ EXCEPT !.at = to]]

\* done is closed.
Dismiss(s) ==
  /\ slot[s].at = "joining"
  /\ WatchStep(s, {"on", "patient"}, "off")
  /\ UNCHANGED <<free, slot, proc, end, orphan, call, warm, closing>>

\* A caller that cancelled is no reason to kill: only the limit is left.
Outwait(s) ==
  /\ watch[s].of # None /\ call[watch[s].of].ctx = "cancelled"
  /\ WatchStep(s, {"on"}, "patient")
  /\ UNCHANGED <<free, slot, proc, end, orphan, call, warm, closing>>

\* Defect: only the caller's deadline ends a round trip.
TimeOutForDeadline(s) ==
  /\ watch[s].of # None /\ call[watch[s].of].ctx = "deadline"
  /\ WatchStep(s, {"on"}, "fired")
  /\ UNCHANGED <<free, slot, proc, end, orphan, call, warm, closing>>

\* Defect: a cancelled caller's watchdog goes away with it.
TimeOutForCaller(s) ==
  /\ WatchStep(s, {"on"}, "fired")
  /\ UNCHANGED <<free, slot, proc, end, orphan, call, warm, closing>>

\* The limit passes, or the caller's deadline.  (Where both that and done are
\* ready the select may take either.)
TimeOut(s) ==
  /\ WatchStep(s, {"on", "patient"}, "fired")
  /\ UNCHANGED <<free, slot, proc, end, orphan, call, warm, closing>>

ClaimLate(s) ==
  /\ WatchStep(s, {"fired"}, IF end[s] = "running" THEN "killing" ELSE "off")
  /\ end' = [end EXCEPT ![s] = IF @ = "running" THEN "outOfTime" ELSE @]
  /\ UNCHANGED <<free, slot, proc, orphan, call, warm, closing>>

Kill(s) ==
  /\ WatchStep(s, {"killing"}, "off")
  /\ proc' = [proc EXCEPT ![s] = IF @.life = "none" THEN @
                                 ELSE [@ EXCEPT !.life = "killed", !.work = None]]
  /\ UNCHANGED <<free, slot, end, orphan, call, warm, closing>>

----------------------------------------------------------------------------
(* Prestart and Close *)

WarmUp ==
  /\ warm > 0 /\ free # <<>>
  /\ warm' = warm - 1
  /\ IF proc[Head(free)].life = "none"
     THEN /\ free' = Tail(free)
          /\ slot' = [slot EXCEPT ![Head(free)] =
                        [holder |-> Warmup, at |-> "importing", got |-> None]]
          /\ proc' = [proc EXCEPT ![Head(free)].life = "importing"]
     ELSE /\ free' = Append(Tail(free), Head(free))
          /\ UNCHANGED <<slot, proc>>
  /\ UNCHANGED <<watch, end, orphan, call, closing>>

WarmNoMore ==
  /\ warm > 0 /\ closing.at # "open"
  /\ warm' = 0
  /\ UNCHANGED <<free, slot, proc, watch, end, orphan, call, closing>>

CloseBegins ==
  /\ closing.at = "open"
  /\ closing' = [closing EXCEPT !.at = "sweeping"]
  /\ UNCHANGED <<free, slot, proc, watch, end, orphan, call, warm>>

\* A build nobody waits for is ended rather than waited for: the flag is read ...
Look(s) ==
  /\ closing.at = "sweeping" /\ closing.prey = None /\ s \notin closing.seen
  /\ closing' = [closing EXCEPT !.seen = @ \cup {s},
                                !.prey = IF orphan[s] THEN s ELSE None]
  /\ UNCHANGED <<free, slot, proc, watch, end, orphan, call, warm>>

\* ... and then the process that slot runs by now is killed.
Sweep ==
  /\ closing.prey # None
  /\ closing' = [closing EXCEPT !.prey = None]
  /\ proc' = [proc EXCEPT ![closing.prey] =
                IF @.life = "none" THEN @ ELSE [@ EXCEPT !.life = "dead", !.work = None]]
  /\ UNCHANGED <<free, slot, watch, end, orphan, call, warm>>

CloseTakes ==
  /\ closing.at \in {"sweeping", "taking"} /\ free # <<>>
  /\ closing.seen = Slot /\ closing.prey = None
  /\ closing' = [closing EXCEPT !.at = "taking"]
  /\ Stop(Head(free))
  /\ slot' = [slot EXCEPT ![Head(free)] = [holder |-> Closer, at |-> "kept", got |-> None]]
  /\ free' = Tail(free)
  /\ UNCHANGED <<watch, end, orphan, call, warm>>

Kept == {s \in Slot : slot[s].at = "kept"}

\* Every slot has been stopped; they go back.
CloseEnds ==
  /\ closing.at = "taking" /\ Kept = Slot
  /\ closing' = [closing EXCEPT !.at = "closed"]
  /\ free' \in Bijection(1..Cardinality(Slot), Slot)
  /\ slot' = [s \in Slot |-> Idle]
  /\ UNCHANGED <<proc, watch, end, orphan, call, warm>>

----------------------------------------------------------------------------

Caller(b) == Arrive(b) \/ End(b) \/ Acquire(b) \/ StopWaiting(b)

Trip(s) ==
  \/ EnterLate(s) \/ Spawn(s) \/ ImportForNobody(s)
  \/ Send(s) \/ Read(s) \/ Abandon(s) \/ Claim(s) \/ Settle(s)

Process(s) == Banner(s) \/ ExitImporting(s) \/ Reply(s) \/ Crash(s)

Watchdog(s) == Dismiss(s) \/ Outwait(s) \/ TimeOut(s) \/ ClaimLate(s) \/ Kill(s)

Next ==
  \/ \E b \in Build : Caller(b)
  \/ \E s \in Slot : Trip(s) \/ Process(s) \/ SlowImport(s) \/ Watchdog(s) \/ Look(s)
  \/ WarmUp \/ WarmNoMore \/ CloseBegins \/ Sweep \/ CloseTakes \/ CloseEnds

Spec == Init /\ [][Next]_vars

\* A holder steps, a clock runs out, Close goes on; a process may hang, a caller
\* may stay.
Fairness ==
  /\ \A b \in Build : WF_vars(Acquire(b)) /\ WF_vars(StopWaiting(b))
  /\ \A s \in Slot :
       /\ WF_vars(Trip(s)) /\ WF_vars(SlowImport(s)) /\ WF_vars(Look(s))
       /\ WF_vars(Dismiss(s)) /\ WF_vars(TimeOut(s)) /\ WF_vars(ClaimLate(s)) /\ WF_vars(Kill(s))
  /\ WF_vars(Sweep) /\ WF_vars(CloseTakes) /\ WF_vars(CloseEnds)

FairSpec == Spec /\ Fairness

----------------------------------------------------------------------------
(* What a pool promises *)

\* A caller that is answered is answered by its own build (sidecar_process.go:
\* abandon): no line of an earlier build is still in the pipe it reads.
AnswersAreOwn ==
  \A b \in Build : call[b].outcome = "answered" => call[b].reply = b

\* No slot is lost, handed out twice or given back twice (cad.go: held, release;
\* abandon; Close), whichever of caller, goroutine, Prestart and Close ends it.
SlotsConserved ==
  /\ IsInjective(free) /\ ToSet(free) = {s \in Slot : slot[s].at = "free"}
  /\ \A s, t \in Slot : Inside(s, slot[s].at) /\ Inside(t, slot[t].at) /\ Holder(s) = Holder(t)
                         => s = t
  /\ \A b \in Build : call[b].at = "inside"
                        <=> \E s \in Slot : Holder(s) = b /\ ~ orphan[s]

\* A watchdog does not outlive the round trip it was started for: a kill cannot
\* hit the slot's next holder (roundTrip waits for the goroutine to exit).
WatchIsForHolder ==
  \A s \in Slot : watch[s].at # "off" =>
     /\ watch[s].of = Holder(s)
     /\ slot[s].at \in {"reading", "claiming", "joining"}
     /\ watch[s].at = "killing" => end[s] = "outOfTime"

\* The retry is for a process that died, never for one its own watchdog killed
\* (lateError): a late build would take as long again.
RetryIsForACrash ==
  [][\A s \in Slot : Holder(s) \in Build /\ call'[Holder(s)].tries > call[Holder(s)].tries
                     => proc[s].life # "killed"]_vars

\* Every caller gets its answer or its refusal, though processes may hang and
\* every other build be slow.
EveryCallEnds == \A b \in Build : call[b].at \in {"waiting", "inside"} ~> call[b].at = "over"

\* A slot that was taken, by a build, by Prestart or by Close, or that a caller
\* abandoned, is free again one day.
SlotsComeHome == \A s \in Slot : slot[s].at # "free" ~> slot[s].at = "free"
===============================================================================

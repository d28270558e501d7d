---------------------------- MODULE KernelPoolProofs ----------------------------
(* The pool's promises, for any number of builds and of kernels.           *)
(*                                                                         *)
(* None of them is inductive.  Whose answer a build reads depends on what  *)
(* is in the pipe when its round trip begins, so Agree says how a slot's   *)
(* stage, its process, its watchdog, the claim of the round trip's end and *)
(* the abandoned flag go together: outside a round trip nothing is built   *)
(* and nothing is left to read; within one, what is being built and what   *)
(* waits to be read is the holder's; a watchdog is its holder's.  That a   *)
(* slot is never given out twice depends on who holds which, so            *)
(* OwnersAreInside ties every caller inside to the one slot it owns, and   *)
(* FreeIsFree the channel to the slots nobody holds.                       *)
EXTENDS KernelPool, FiniteSetTheorems, TLAPS

Tripping == {"reading", "claiming", "joining"}

\* What one slot's round trip, process, watchdog, claim and abandonment say of each other.
Agree(x, p, w, e, o) ==
  /\ x.at \in Tripping \cup {"entering", "started"} => x.holder \in Build
  /\ x.at = "importing" => x.holder \in Build \cup {Warmup}
  /\ x.at = "free" => x.holder = None
  /\ x.at = "kept" => x.holder = Closer
  /\ o => x.at \in Tripping
  /\ w.at # "off" => x.at \in Tripping /\ w.of = x.holder
  /\ w.at = "killing" => e = "outOfTime"
  /\ p.life = "killed" => x.at \in Tripping /\ e = "outOfTime"
  /\ x.at \notin Tripping => p.work = None /\ p.line = None
  /\ x.at = "reading" => p.work \in {None, x.holder} /\ p.line \in {None, x.holder}
  /\ x.at \in {"claiming", "joining"} => p.work = None /\ p.line = None /\ x.got \in {x.holder, Eof}
  /\ p.work # None => p.line = None
  /\ p.life = "building" <=> p.work # None

SlotsAgree == \A s \in Slot : Agree(slot[s], proc[s], watch[s], end[s], orphan[s])

PoolTypes == /\ slot \in [Slot -> Held] /\ proc \in [Slot -> Running] /\ watch \in [Slot -> Watching]
             /\ end \in [Slot -> Ends] /\ orphan \in [Slot -> BOOLEAN]

Good == PoolTypes /\ SlotsAgree

LEMMA NamesDiffer == {None, Eof, Warmup, Closer} \cap (Build \cup Slot) = {}
  BY PoolAssumption

\* One slot's record, or one process's, is replaced.
LEMMA SlotSet ==
  ASSUME PoolTypes, NEW s \in Slot, NEW x \in Held, slot' = [slot EXCEPT ![s] = x]
  PROVE  slot' \in [Slot -> Held]
  BY DEF PoolTypes

LEMMA ProcSet ==
  ASSUME PoolTypes, NEW s \in Slot, NEW p \in Running, proc' = [proc EXCEPT ![s] = p]
  PROVE  proc' \in [Slot -> Running]
  BY DEF PoolTypes

LEMMA SlotAt ==
  ASSUME PoolTypes, NEW s \in Slot, NEW a \in Stages, slot' = [slot EXCEPT ![s].at = a]
  PROVE  slot' \in [Slot -> Held]
<1> DEFINE x == [slot[s] EXCEPT !.at = a]
<1>1. x \in Held
  BY DEF PoolTypes, Held
<1>2. slot' = [slot EXCEPT ![s] = x]
  OBVIOUS
<1> HIDE DEF x
<1> QED
  BY <1>1, <1>2, SlotSet

LEMMA SlotGot ==
  ASSUME PoolTypes, NEW s \in Slot, NEW a \in Stages, NEW g \in Build \cup {None, Eof},
         slot' = [slot EXCEPT ![s].at = a, ![s].got = g]
  PROVE  slot' \in [Slot -> Held]
<1> DEFINE x == [slot[s] EXCEPT !.at = a, !.got = g]
<1>1. x \in Held
  BY DEF PoolTypes, Held
<1>2. slot' = [slot EXCEPT ![s] = x]
  BY DEF PoolTypes
<1> HIDE DEF x
<1> QED
  BY <1>1, <1>2, SlotSet

LEMMA ProcLife ==
  ASSUME PoolTypes, NEW s \in Slot, NEW l \in Lives, proc' = [proc EXCEPT ![s].life = l]
  PROVE  proc' \in [Slot -> Running]
<1> DEFINE p == [proc[s] EXCEPT !.life = l]
<1>1. p \in Running
  BY DEF PoolTypes, Running
<1>2. proc' = [proc EXCEPT ![s] = p]
  OBVIOUS
<1> HIDE DEF p
<1> QED
  BY <1>1, <1>2, ProcSet

LEMMA Ended1 ==
  ASSUME PoolTypes, NEW s \in Slot, NEW l \in Lives, NEW b \in Build \cup {None}
  PROVE  /\ [proc[s] EXCEPT !.life = l, !.work = b] \in Running
         /\ [proc[s] EXCEPT !.line = b] \in Running
  BY DEF PoolTypes, Running

LEMMA Given == Idle \in Held /\ Stopped \in Running
  BY DEF Idle, Held, Stages, Stopped, Running, Lives

\* The process is stopped and the slot given back, outside a round trip or at its end.
LEMMA StopReleaseGood ==
  ASSUME Good, NEW s \in Slot, Stop(s), Release(s), watch[s].at = "off",
         UNCHANGED watch, end' \in [Slot -> Ends], orphan' \in [Slot -> BOOLEAN],
         \A t \in Slot \ {s} : end'[t] = end[t] /\ orphan'[t] = orphan[t], ~ orphan'[s]
  PROVE  Good'
<1>1. PoolTypes'
  BY Given, SlotSet, ProcSet DEF Good, Stop, Release, PoolTypes
<1>2. Agree(slot[s], proc[s], watch[s], end[s], orphan[s])'
  BY DEF Good, PoolTypes, Agree, Stop, Release, Idle, Stopped, Tripping
<1>3. ASSUME NEW t \in Slot \ {s} PROVE Agree(slot[t], proc[t], watch[t], end[t], orphan[t])'
  BY DEF Good, PoolTypes, SlotsAgree, Stop, Release
<1> QED
  BY <1>1, <1>2, <1>3 DEF Good, SlotsAgree

\* The round trip starts again on a fresh process.
LEMMA AgainGood ==
  ASSUME Good, NEW s \in Slot, Stop(s), slot[s].holder \in Build, watch[s].at = "off", ~ orphan[s],
         slot' = [slot EXCEPT ![s].at = "entering", ![s].got = None],
         UNCHANGED watch, end' \in [Slot -> Ends], UNCHANGED orphan,
         \A t \in Slot \ {s} : end'[t] = end[t]
  PROVE  Good'
<1>1. PoolTypes'
  BY Given, SlotGot, ProcSet DEF Good, Stop, PoolTypes, Stages
<1>2. Agree(slot[s], proc[s], watch[s], end[s], orphan[s])'
  BY DEF Good, PoolTypes, Held, Agree, Stop, Stopped, Tripping
<1>3. ASSUME NEW t \in Slot \ {s} PROVE Agree(slot[t], proc[t], watch[t], end[t], orphan[t])'
  BY DEF Good, PoolTypes, SlotsAgree, Stop
<1> QED
  BY <1>1, <1>2, <1>3 DEF Good, SlotsAgree

\* The slot is given back and its process left as it is.
LEMMA ReleaseGood ==
  ASSUME Good, NEW s \in Slot, Release(s), watch[s].at = "off", proc[s].life # "killed",
         proc[s].work = None, proc[s].line = None,
         UNCHANGED <<proc, watch>>, end' \in [Slot -> Ends], orphan' \in [Slot -> BOOLEAN],
         \A t \in Slot \ {s} : end'[t] = end[t] /\ orphan'[t] = orphan[t], ~ orphan'[s]
  PROVE  Good'
<1>1. PoolTypes'
  BY Given, SlotSet DEF Good, Release, PoolTypes
<1>2. Agree(slot[s], proc[s], watch[s], end[s], orphan[s])'
  BY DEF Good, PoolTypes, SlotsAgree, Agree, Release, Idle, Tripping
<1>3. ASSUME NEW t \in Slot \ {s} PROVE Agree(slot[t], proc[t], watch[t], end[t], orphan[t])'
  BY DEF Good, PoolTypes, SlotsAgree, Release
<1> QED
  BY <1>1, <1>2, <1>3 DEF Good, SlotsAgree

LEMMA EnterGood ==
  ASSUME Good, NEW s \in Slot, EnterLate(s) \/ Spawn(s) \/ ImportForNobody(s)
  PROVE  Good'
<1>0. slot[s].at \notin Tripping => watch[s].at = "off" /\ ~ orphan[s]
  BY DEF Good, SlotsAgree, Agree
<1>1. CASE EnterLate(s)
  BY <1>0, <1>1, StopReleaseGood DEF EnterLate, Inside, Refuse, Good, PoolTypes, Tripping
<1>2. CASE Spawn(s)
  <2>1. PoolTypes'
    <3>1. slot' \in [Slot -> Held] /\ proc' \in [Slot -> Running]
      BY <1>2, SlotAt, ProcLife DEF Spawn, Good, Stages, Lives
    <3> QED
      BY <1>2, <3>1 DEF Spawn, Good, PoolTypes
  <2>2. ASSUME NEW t \in Slot PROVE Agree(slot[t], proc[t], watch[t], end[t], orphan[t])'
    BY <1>2 DEF Spawn, Inside, Holder, Good, PoolTypes, Held, Running, SlotsAgree, Agree, Tripping
  <2> QED
    BY <2>1, <2>2 DEF Good, SlotsAgree
<1>3. CASE ImportForNobody(s)
  BY <1>0, <1>3, StopReleaseGood DEF ImportForNobody, Refuse, Good, PoolTypes, Tripping
<1> QED
  BY <1>1, <1>2, <1>3

LEMMA ImportGood ==
  ASSUME Good, NEW s \in Slot, Banner(s) \/ ExitImporting(s) \/ SlowImport(s)
  PROVE  Good'
<1>0. /\ slot[s].at = "importing"
      /\ slot[s].holder \in Build \cup {Warmup} /\ watch[s].at = "off" /\ ~ orphan[s]
      /\ proc[s].work = None /\ proc[s].line = None /\ proc[s].life # "killed"
  BY DEF Good, SlotsAgree, Agree, Tripping, Banner, ExitImporting, SlowImport
<1>1. CASE Banner(s)
  <2>1. proc' \in [Slot -> Running]
    BY <1>1, ProcLife DEF Banner, Good, Lives
  <2>2. slot' \in [Slot -> Held]
    BY <1>1, SlotAt, SlotSet, Given DEF Banner, Good, Stages, Release
  <2>3. PoolTypes'
    BY <1>1, <2>1, <2>2 DEF Banner, Good, PoolTypes
  <2>4. Agree(slot[s], proc[s], watch[s], end[s], orphan[s])'
    <3>1. CASE Holder(s) = Warmup
      BY <1>0, <1>1, <3>1 DEF Banner, Release, Idle, Good, PoolTypes, Running, Agree, Tripping
    <3>2. CASE Holder(s) # Warmup
      <4>1. /\ slot'[s].at = "started" /\ slot'[s].holder = slot[s].holder
            /\ slot[s].holder \in Build
        BY <1>0, <1>1, <3>2 DEF Banner, Holder, Good, PoolTypes, Held
      <4>2. proc'[s].life = "idle" /\ proc'[s].work = None /\ proc'[s].line = None
        BY <1>0, <1>1 DEF Banner, Good, PoolTypes, Running
      <4> QED
        BY <1>0, <1>1, <4>1, <4>2 DEF Banner, Agree, Tripping
    <3> QED
      BY <3>1, <3>2
  <2>5. ASSUME NEW t \in Slot \ {s} PROVE Agree(slot[t], proc[t], watch[t], end[t], orphan[t])'
    <3>1. slot'[t] = slot[t] /\ proc'[t] = proc[t]
      BY <1>1 DEF Banner, Release, Good, PoolTypes
    <3> QED
      BY <1>1, <3>1 DEF Banner, Good, SlotsAgree
  <2> QED
    BY <2>3, <2>4, <2>5 DEF Good, SlotsAgree
<1>2. CASE ExitImporting(s)
  <2>1. CASE Stop(s) /\ Release(s)
    BY <1>0, <1>2, <2>1, StopReleaseGood DEF ExitImporting, Good, PoolTypes
  <2>2. CASE ~ (Stop(s) /\ Release(s))
    <3>1. Holder(s) # Warmup /\ call[Holder(s)].tries = 1 /\ Again(s, Holder(s))
      BY <1>2, <2>2 DEF ExitImporting, Refuse
    <3> QED
      BY <1>0, <1>2, <3>1, AgainGood DEF ExitImporting, Again, Holder, Good, PoolTypes
  <2> QED
    BY <2>1, <2>2
<1>3. CASE SlowImport(s)
  BY <1>0, <1>3, StopReleaseGood DEF SlowImport, Refuse, Good, PoolTypes
<1> QED
  BY <1>1, <1>2, <1>3

LEMMA TripGood ==
  ASSUME Good, NEW s \in Slot, Send(s) \/ Read(s) \/ Abandon(s) \/ Claim(s)
  PROVE  Good'
<1>1. CASE Send(s)
  <2>0. /\ slot[s].holder \in Build /\ slot[s].at \notin Tripping
        /\ proc[s].work = None /\ proc[s].line = None /\ proc[s].life # "killed"
    BY <1>1 DEF Send, Inside, Holder, Good, SlotsAgree, Agree, Tripping
  <2> DEFINE p == IF proc[s].life = "idle"
                  THEN [proc[s] EXCEPT !.life = "building", !.work = Holder(s)] ELSE proc[s]
  <2>1. p \in Running
    BY <2>0 DEF Good, PoolTypes, Running, Lives, Holder
  <2>2. proc' = [proc EXCEPT ![s] = p]
    <3>1. CASE proc[s].life = "idle"
      BY <1>1, <3>1 DEF Send, Good, PoolTypes
    <3>2. CASE proc[s].life # "idle"
      BY <1>1, <3>2 DEF Send, Good, PoolTypes
    <3> QED
      BY <3>1, <3>2
  <2>3. p.line = None /\ p.life # "killed" /\ p.work \in {None, slot[s].holder}
        /\ (p.life = "building" <=> p.work # None)
    <3>1. CASE proc[s].life = "idle"
      <4>1. p.line = None /\ p.life = "building" /\ p.work = slot[s].holder
        BY <2>0, <3>1 DEF Good, PoolTypes, Running, Holder
      <4> QED
        BY <2>0, <4>1, NamesDiffer
    <3>2. CASE proc[s].life # "idle"
      BY <2>0, <3>2 DEF Good, SlotsAgree, Agree
    <3> QED
      BY <3>1, <3>2
  <2> HIDE DEF p
  <2>4. proc' \in [Slot -> Running] /\ slot' \in [Slot -> Held]
    BY <1>1, <2>1, <2>2, SlotAt, ProcSet DEF Send, Good, Stages
  <2>5. PoolTypes'
    BY <1>1, <2>0, <2>4 DEF Send, Good, PoolTypes, Watching, Ends, Holder
  <2>6. Agree(slot[s], proc[s], watch[s], end[s], orphan[s])'
    <3>1. slot'[s].at = "reading" /\ slot'[s].holder = slot[s].holder
      BY <1>1 DEF Send, Good, PoolTypes, Held
    <3>2. proc'[s] = p /\ watch'[s] = [at |-> "on", of |-> slot[s].holder] /\ orphan'[s] = orphan[s]
      BY <1>1, <2>2 DEF Send, Holder, Good, PoolTypes
    <3> QED
      BY <2>0, <2>3, <3>1, <3>2 DEF Agree, Tripping
  <2>7. ASSUME NEW t \in Slot \ {s} PROVE Agree(slot[t], proc[t], watch[t], end[t], orphan[t])'
    BY <1>1, <2>2 DEF Send, Good, PoolTypes, SlotsAgree
  <2> QED
    BY <2>5, <2>6, <2>7 DEF Good, SlotsAgree
<1>2. CASE Read(s)
  <2>1. proc' = [proc EXCEPT ![s] = [proc[s] EXCEPT !.line = None]]
    BY <1>2 DEF Read
  <2>2. proc' \in [Slot -> Running]
    BY <2>1, Ended1, ProcSet DEF Good, Lives
  <2>3. proc[s].line # None => proc[s].line \in Build
    BY DEF Good, PoolTypes, Running
  <2>4. slot' \in [Slot -> Held]
    BY <1>2, <2>3, SlotGot DEF Read, Good, Stages
  <2>5. PoolTypes'
    BY <1>2, <2>2, <2>4 DEF Read, Good, PoolTypes
  <2>6. ASSUME NEW t \in Slot PROVE Agree(slot[t], proc[t], watch[t], end[t], orphan[t])'
    BY <1>2 DEF Read, Good, PoolTypes, Held, Running, SlotsAgree, Agree, Tripping
  <2> QED
    BY <2>5, <2>6 DEF Good, SlotsAgree
<1>3. CASE Abandon(s)
  <2>1. PoolTypes'
    BY <1>3 DEF Abandon, Good, PoolTypes
  <2>2. ASSUME NEW t \in Slot PROVE Agree(slot[t], proc[t], watch[t], end[t], orphan[t])'
    BY <1>3 DEF Abandon, Inside, Good, PoolTypes, SlotsAgree, Agree, Tripping
  <2> QED
    BY <2>1, <2>2 DEF Good, SlotsAgree
<1>4. CASE Claim(s)
  <2>1. slot' \in [Slot -> Held]
    BY <1>4, SlotAt DEF Claim, Good, Stages
  <2>2. PoolTypes'
    BY <1>4, <2>1 DEF Claim, Good, PoolTypes, Ends
  <2>3. ASSUME NEW t \in Slot PROVE Agree(slot[t], proc[t], watch[t], end[t], orphan[t])'
    BY <1>4 DEF Claim, Good, PoolTypes, Held, Ends, SlotsAgree, Agree, Tripping
  <2> QED
    BY <2>2, <2>3 DEF Good, SlotsAgree
<1> QED
  BY <1>1, <1>2, <1>3, <1>4

LEMMA SettleGood ==
  ASSUME Good, NEW s \in Slot, Settle(s)
  PROVE  Good'
<1>1. /\ slot[s].at = "joining" /\ watch[s].at = "off" /\ slot[s].holder \in Build
      /\ proc[s].work = None /\ proc[s].line = None
      /\ proc[s].life = "killed" => end[s] = "outOfTime"
      /\ UNCHANGED watch
      /\ end' \in [Slot -> Ends] /\ \A t \in Slot \ {s} : end'[t] = end[t]
  BY DEF Settle, Good, PoolTypes, SlotsAgree, Agree, Tripping, Ends
<1>2. CASE orphan[s]
  <2>1. Release(s) /\ orphan' = [orphan EXCEPT ![s] = FALSE]
    BY <1>2 DEF Settle
  <2>2. /\ orphan' \in [Slot -> BOOLEAN] /\ ~ orphan'[s]
        /\ \A t \in Slot \ {s} : orphan'[t] = orphan[t]
    BY <2>1 DEF Good, PoolTypes
  <2>3. CASE Stop(s)
    BY <1>1, <2>1, <2>2, <2>3, StopReleaseGood
  <2>4. CASE end[s] # "outOfTime" /\ UNCHANGED proc
    BY <1>1, <2>1, <2>2, <2>4, ReleaseGood
  <2> QED
    BY <1>2, <2>3, <2>4 DEF Settle
<1>3. CASE ~ orphan[s]
  <2>1. UNCHANGED orphan
    BY <1>3 DEF Settle
  <2>2. orphan' \in [Slot -> BOOLEAN] /\ ~ orphan'[s]
    BY <1>3, <2>1 DEF Good, PoolTypes
  <2>3. CASE Stop(s) /\ Release(s)
    BY <1>1, <2>1, <2>2, <2>3, StopReleaseGood
  <2>4. CASE Again(s, Holder(s)) /\ call[Holder(s)].tries = 1
    BY <1>1, <1>3, <2>1, <2>4, AgainGood DEF Again, Holder
  <2>5. CASE end[s] # "outOfTime" /\ Release(s) /\ UNCHANGED proc
    BY <1>1, <2>1, <2>2, <2>5, ReleaseGood
  <2> QED
    BY <1>3, <2>3, <2>4, <2>5 DEF Settle, Refuse, Again
<1> QED
  BY <1>2, <1>3

LEMMA ProcessGood ==
  ASSUME Good, NEW s \in Slot, Reply(s) \/ Crash(s)
  PROVE  Good'
<1>1. CASE Reply(s)
  <2>1. PoolTypes'
    BY <1>1 DEF Reply, Good, PoolTypes, Running, Lives
  <2>2. ASSUME NEW t \in Slot PROVE Agree(slot[t], proc[t], watch[t], end[t], orphan[t])'
    BY <1>1 DEF Reply, Good, PoolTypes, SlotsAgree, Agree, Tripping
  <2> QED
    BY <2>1, <2>2 DEF Good, SlotsAgree
<1>2. CASE Crash(s)
  <2> DEFINE p == [proc[s] EXCEPT !.life = "dead", !.work = None]
  <2>1. p \in Running
    BY Ended1 DEF Good, Lives
  <2>2. proc' = [proc EXCEPT ![s] = p]
    BY <1>2 DEF Crash, Good, PoolTypes
  <2>3. p.life = "dead" /\ p.work = None /\ p.line = proc[s].line
    BY DEF Good, PoolTypes, Running
  <2> HIDE DEF p
  <2>4. PoolTypes'
    BY <1>2, <2>1, <2>2, ProcSet DEF Crash, Good, PoolTypes
  <2>5. ASSUME NEW t \in Slot PROVE Agree(slot[t], proc[t], watch[t], end[t], orphan[t])'
    BY <1>2, <2>2, <2>3 DEF Crash, Good, PoolTypes, SlotsAgree, Agree, Tripping
  <2> QED
    BY <2>4, <2>5 DEF Good, SlotsAgree
<1> QED
  BY <1>1, <1>2

LEMMA WatchdogGood ==
  ASSUME Good, NEW s \in Slot, Watchdog(s)
  PROVE  Good'
<1>1. CASE Dismiss(s) \/ Outwait(s) \/ TimeOut(s) \/ ClaimLate(s)
  <2>1. /\ watch' = [watch EXCEPT ![s] = watch'[s]] /\ watch'[s] \in Watching
        /\ watch'[s].at # "off" => watch[s].at # "off" /\ watch'[s].of = watch[s].of
        /\ watch'[s].at = "killing" => end'[s] = "outOfTime"
        /\ end' \in [Slot -> Ends] /\ \A t \in Slot \ {s} : end'[t] = end[t]
        /\ end[s] = "outOfTime" => end'[s] = "outOfTime"
        /\ UNCHANGED <<slot, proc, orphan>>
    BY <1>1 DEF Dismiss, Outwait, TimeOut, ClaimLate, WatchStep, Off, Good, PoolTypes, Watching, Ends,
                SlotsAgree, Agree
  <2>2. PoolTypes'
    BY <2>1 DEF Good, PoolTypes
  <2>3. ASSUME NEW t \in Slot PROVE Agree(slot[t], proc[t], watch[t], end[t], orphan[t])'
    BY <2>1 DEF Good, PoolTypes, SlotsAgree, Agree
  <2> QED
    BY <2>2, <2>3 DEF Good, SlotsAgree
<1>2. CASE Kill(s)
  <2> DEFINE p == IF proc[s].life = "none" THEN proc[s]
                  ELSE [proc[s] EXCEPT !.life = "killed", !.work = None]
  <2>1. p \in Running
    BY Ended1 DEF Good, Lives, PoolTypes
  <2>2. proc' = [proc EXCEPT ![s] = p]
    BY <1>2 DEF Kill, Good, PoolTypes
  <2>3. /\ p.work = None /\ p.line = proc[s].line /\ p.life # "building"
    BY DEF Good, PoolTypes, Running, SlotsAgree, Agree
  <2> HIDE DEF p
  <2>4. PoolTypes'
    BY <1>2, <2>1, <2>2, ProcSet DEF Kill, WatchStep, Off, Good, PoolTypes, Watching
  <2>5. ASSUME NEW t \in Slot PROVE Agree(slot[t], proc[t], watch[t], end[t], orphan[t])'
    BY <1>2, <2>2, <2>3 DEF Kill, WatchStep, Off, Good, PoolTypes, SlotsAgree, Agree, Tripping
  <2> QED
    BY <2>4, <2>5 DEF Good, SlotsAgree
<1> QED
  BY <1>1, <1>2 DEF Watchdog

-----------------------------------------------------------------------------
(* The channel of free slots, and who holds which.                         *)

FreeIsFree ==
  /\ free \in Seq(Slot) /\ IsInjective(free)
  /\ ToSet(free) = {s \in Slot : slot[s].at = "free"}

Owns(s, b) == slot[s].holder = b /\ ~ orphan[s]

OwnersAreInside ==
  /\ \A s, t \in Slot : \A b \in Build : Owns(s, b) /\ Owns(t, b) => s = t
  /\ \A b \in Build : call[b].at = "inside" <=> \E s \in Slot : Owns(s, b)
  /\ \A s \in Slot : orphan[s] => slot[s].holder \in Build /\ call[slot[s].holder].at = "over"

CallsTyped == call \in [Build -> Calling] /\ AnswersAreOwn

Books == FreeIsFree /\ OwnersAreInside /\ CallsTyped

Asides ==
  /\ warm \in 0..Cardinality(Slot)
  /\ closing \in [at: {"open", "sweeping", "taking", "closed"},
                  seen: SUBSET Slot, prey: Slot \cup {None}]

IInv == Good /\ Books /\ Asides

LEMMA Appending ==
  ASSUME NEW S, NEW q \in Seq(S), NEW x \in S, IsInjective(q), x \notin ToSet(q)
  PROVE  /\ Append(q, x) \in Seq(S) /\ IsInjective(Append(q, x))
         /\ ToSet(Append(q, x)) = ToSet(q) \cup {x}
<1>1. /\ Append(q, x) \in Seq(S) /\ DOMAIN q = 1..Len(q) /\ Len(q) \in Nat
      /\ DOMAIN Append(q, x) = 1..(Len(q) + 1)
      /\ Append(q, x)[Len(q) + 1] = x
      /\ \A i \in 1..Len(q) : Append(q, x)[i] = q[i]
  OBVIOUS
<1>2. \A i \in 1..Len(q) : q[i] # x
  BY <1>1 DEF ToSet
<1>3. IsInjective(Append(q, x))
  <2> SUFFICES ASSUME NEW i \in 1..(Len(q) + 1), NEW j \in 1..(Len(q) + 1),
                      Append(q, x)[i] = Append(q, x)[j]
               PROVE  i = j
    BY <1>1 DEF IsInjective
  <2>1. CASE i \in 1..Len(q) /\ j \in 1..Len(q)
    <3>1. q[i] = q[j] /\ i \in DOMAIN q /\ j \in DOMAIN q
      BY <1>1, <2>1
    <3> QED
      BY <3>1 DEF IsInjective
  <2>2. CASE i \in 1..Len(q) /\ j = Len(q) + 1
    BY <1>1, <1>2, <2>2
  <2>3. CASE i = Len(q) + 1 /\ j \in 1..Len(q)
    BY <1>1, <1>2, <2>3
  <2> QED
    BY <1>1, <2>1, <2>2, <2>3
<1>4. ToSet(Append(q, x)) = ToSet(q) \cup {x}
  <2>1. ASSUME NEW y \in ToSet(Append(q, x)) PROVE y \in ToSet(q) \cup {x}
    <3>1. PICK i \in 1..(Len(q) + 1) : y = Append(q, x)[i]
      BY <1>1 DEF ToSet
    <3> QED
      BY <1>1, <3>1 DEF ToSet
  <2>2. ASSUME NEW y \in ToSet(q) \cup {x} PROVE y \in ToSet(Append(q, x))
    <3>1. CASE y = x
      <4>1. Len(q) + 1 \in DOMAIN Append(q, x)
        BY <1>1
      <4> QED
        BY <1>1, <3>1, <4>1 DEF ToSet
    <3>2. CASE y \in ToSet(q)
      <4>1. PICK i \in 1..Len(q) : y = q[i]
        BY <1>1, <3>2 DEF ToSet
      <4>2. i \in DOMAIN Append(q, x) /\ y = Append(q, x)[i]
        BY <1>1, <4>1
      <4> QED
        BY <4>2 DEF ToSet
    <3> QED
      BY <2>2, <3>1, <3>2
  <2> QED
    BY <2>1, <2>2
<1> QED
  BY <1>1, <1>3, <1>4

LEMMA Taking ==
  ASSUME NEW S, NEW q \in Seq(S), q # <<>>, IsInjective(q)
  PROVE  /\ Head(q) \in ToSet(q) /\ Head(q) \in S
         /\ Tail(q) \in Seq(S) /\ IsInjective(Tail(q))
         /\ ToSet(Tail(q)) = ToSet(q) \ {Head(q)}
<1>1. /\ DOMAIN q = 1..Len(q) /\ Len(q) \in Nat /\ Len(q) > 0 /\ Head(q) = q[1] /\ Head(q) \in S
      /\ Tail(q) \in Seq(S) /\ DOMAIN Tail(q) = 1..(Len(q) - 1)
      /\ \A i \in 1..(Len(q) - 1) : Tail(q)[i] = q[i + 1]
  OBVIOUS
<1>2. Head(q) \in ToSet(q)
  BY <1>1 DEF ToSet
<1>3. IsInjective(Tail(q))
  <2> SUFFICES ASSUME NEW i \in 1..(Len(q) - 1), NEW j \in 1..(Len(q) - 1),
                      Tail(q)[i] = Tail(q)[j]
               PROVE  i = j
    BY <1>1 DEF IsInjective
  <2>1. q[i + 1] = q[j + 1] /\ i + 1 \in DOMAIN q /\ j + 1 \in DOMAIN q
    BY <1>1
  <2>2. i + 1 = j + 1
    BY <2>1 DEF IsInjective
  <2> QED
    BY <1>1, <2>2
<1>4. ASSUME NEW y \in ToSet(Tail(q)) PROVE y \in ToSet(q) \ {Head(q)}
  <2>1. PICK i \in 1..(Len(q) - 1) : y = q[i + 1]
    BY <1>1, <1>4 DEF ToSet
  <2>2. i + 1 \in DOMAIN q /\ 1 \in DOMAIN q /\ i + 1 # 1
    BY <1>1
  <2>3. y # q[1]
    BY <2>1, <2>2 DEF IsInjective
  <2> QED
    BY <1>1, <2>1, <2>2, <2>3 DEF ToSet
<1>5. ASSUME NEW y \in ToSet(q) \ {Head(q)} PROVE y \in ToSet(Tail(q))
  <2>1. PICK i \in 1..Len(q) : y = q[i]
    BY <1>1, <1>5 DEF ToSet
  <2>2. i # 1
    BY <1>1, <1>5, <2>1
  <2>3. i - 1 \in DOMAIN Tail(q) /\ Tail(q)[i - 1] = q[i]
    BY <1>1, <2>2
  <2> QED
    BY <2>1, <2>3 DEF ToSet
<1> QED
  BY <1>1, <1>2, <1>3, <1>4, <1>5

\* What holds of the slot a build, Prestart or Close takes.
LEMMA HeadIsFree ==
  ASSUME IInv, free # <<>>
  PROVE  /\ Head(free) \in Slot /\ slot[Head(free)].at = "free"
         /\ slot[Head(free)].holder = None
         /\ watch[Head(free)].at = "off" /\ ~ orphan[Head(free)]
         /\ proc[Head(free)].work = None /\ proc[Head(free)].line = None
         /\ proc[Head(free)].life # "killed"
<1>1. Head(free) \in Slot /\ slot[Head(free)].at = "free"
  BY Taking DEF IInv, Books, FreeIsFree
<1> QED
  BY <1>1 DEF IInv, Good, SlotsAgree, Agree, Tripping

LEMMA FreeTaken ==
  ASSUME IInv, free # <<>>, NEW x \in Held, x.at # "free", free' = Tail(free),
         slot' = [slot EXCEPT ![Head(free)] = x]
  PROVE  FreeIsFree'
<1>1. /\ Head(free) \in Slot /\ Tail(free) \in Seq(Slot) /\ IsInjective(Tail(free))
      /\ ToSet(Tail(free)) = ToSet(free) \ {Head(free)}
  BY Taking DEF IInv, Books, FreeIsFree
<1>2. {s \in Slot : slot'[s].at = "free"} = {s \in Slot : slot[s].at = "free"} \ {Head(free)}
  BY <1>1 DEF IInv, Good, PoolTypes
<1>3. ToSet(free) = {s \in Slot : slot[s].at = "free"}
  BY DEF IInv, Books, FreeIsFree
<1> QED
  BY <1>1, <1>2, <1>3 DEF FreeIsFree

LEMMA FreeReleased ==
  ASSUME IInv, NEW s \in Slot, slot[s].at # "free", Release(s)
  PROVE  FreeIsFree'
<1>1. s \notin ToSet(free)
  BY DEF IInv, Books, FreeIsFree
<1>2. /\ Append(free, s) \in Seq(Slot) /\ IsInjective(Append(free, s))
      /\ ToSet(Append(free, s)) = ToSet(free) \cup {s}
  BY <1>1, Appending DEF IInv, Books, FreeIsFree
<1>3. {t \in Slot : slot'[t].at = "free"} = {t \in Slot : slot[t].at = "free"} \cup {s}
  BY DEF IInv, Good, PoolTypes, Release, Idle
<1>4. ToSet(free) = {t \in Slot : slot[t].at = "free"} /\ free' = Append(free, s)
  BY DEF IInv, Books, FreeIsFree, Release
<1> QED
  BY <1>2, <1>3, <1>4 DEF FreeIsFree

\* One caller's record is replaced.
LEMMA CallSet ==
  ASSUME CallsTyped, NEW b \in Build, NEW c \in Calling, c.outcome = "answered" => c.reply = b,
         call' = [call EXCEPT ![b] = c]
  PROVE  CallsTyped'
<1>1. call' \in [Build -> Calling]
  BY DEF CallsTyped
<1>2. ASSUME NEW d \in Build, call'[d].outcome = "answered" PROVE call'[d].reply = d
  BY <1>2 DEF CallsTyped, AnswersAreOwn
<1> QED
  BY <1>1, <1>2 DEF CallsTyped, AnswersAreOwn

LEMMA OverTyped ==
  ASSUME CallsTyped, NEW b \in Build, NEW o \in Outcomes
  PROVE  /\ Over(b, o) \in Calling /\ Over(b, o).at = "over" /\ Over(b, o).outcome = o
         /\ Over(b, o).reply = call[b].reply
         /\ [Over(b, o) EXCEPT !.reply = b] \in Calling
         /\ [Over(b, o) EXCEPT !.reply = b].at = "over"
         /\ [Over(b, o) EXCEPT !.reply = b].reply = b
<1> DEFINE c == Over(b, o)
<1>1. call[b] \in Calling
  BY DEF CallsTyped
<1>2. /\ c \in Calling /\ c.at = "over" /\ c.outcome = o /\ c.reply = call[b].reply
  <2> DEFINE d == [call[b] EXCEPT !.at = "over"]
  <2>1. d \in Calling /\ d.at = "over" /\ d.reply = call[b].reply
    BY <1>1 DEF Calling
  <2> DEFINE e == [d EXCEPT !.tries = 0]
  <2> HIDE DEF d
  <2>2. e \in Calling /\ e.at = "over" /\ e.reply = call[b].reply
    BY <2>1 DEF Calling
  <2> DEFINE f == [e EXCEPT !.outcome = o]
  <2> HIDE DEF e
  <2>3. f \in Calling /\ f.at = "over" /\ f.reply = call[b].reply /\ f.outcome = o
    BY <2>2 DEF Calling
  <2>4. Over(b, o) = f
    BY <1>1 DEF d, e, f, Over, Calling
  <2> QED
    BY <2>3, <2>4
<1> HIDE DEF c
<1>3. [c EXCEPT !.reply = b] \in Calling /\ [c EXCEPT !.reply = b].at = "over"
      /\ [c EXCEPT !.reply = b].reply = b
  BY <1>2 DEF Calling
<1> QED
  BY <1>2, <1>3 DEF c

\* Nobody comes or goes.
LEMMA BooksKept ==
  ASSUME IInv, UNCHANGED <<free, orphan>>, CallsTyped',
         \A t \in Slot : slot'[t].holder = slot[t].holder /\ (slot'[t].at = "free" <=> slot[t].at = "free"),
         \A b \in Build : /\ call'[b].at = "inside" <=> call[b].at = "inside"
                          /\ call[b].at = "over" => call'[b].at = "over"
  PROVE  Books'
<1>1. {t \in Slot : slot'[t].at = "free"} = {t \in Slot : slot[t].at = "free"}
  OBVIOUS
<1>2. FreeIsFree'
  BY <1>1 DEF IInv, Books, FreeIsFree
<1>3. OwnersAreInside'
  BY DEF IInv, Books, OwnersAreInside, Owns
<1> QED
  BY <1>2, <1>3 DEF Books

\* A build's caller goes and its slot with it.
LEMMA BooksLeave ==
  ASSUME IInv, NEW s \in Slot, NEW b \in Build, Owns(s, b), slot[s].at # "free",
         Release(s), UNCHANGED orphan,
         NEW c \in Calling, c.at = "over", c.outcome = "answered" => c.reply = b,
         call' = [call EXCEPT ![b] = c]
  PROVE  Books'
<1>1. FreeIsFree'
  BY FreeReleased
<1>2. CallsTyped'
  BY CallSet DEF IInv, Books
<1>3. OwnersAreInside'
  <2>1. /\ slot'[s].holder = None /\ \A t \in Slot \ {s} : slot'[t] = slot[t]
        /\ call'[b].at = "over" /\ \A d \in Build \ {b} : call'[d] = call[d]
    BY DEF Release, Idle, IInv, Good, PoolTypes, Books, CallsTyped
  <2> QED
    BY <2>1, NamesDiffer DEF IInv, Books, OwnersAreInside, Owns
<1> QED
  BY <1>1, <1>2, <1>3 DEF Books

\* A slot nobody waits for is given back.
LEMMA BooksDrop ==
  ASSUME IInv, NEW s \in Slot, slot[s].holder \notin Build \/ orphan[s], slot[s].at # "free",
         Release(s), \A t \in Slot \ {s} : orphan'[t] = orphan[t],
         ~ orphan'[s], UNCHANGED call
  PROVE  Books'
<1>1. FreeIsFree'
  BY FreeReleased
<1>2. CallsTyped'
  BY DEF IInv, Books, CallsTyped, AnswersAreOwn
<1>3. OwnersAreInside'
  <2>1. /\ slot'[s].holder = None /\ \A t \in Slot \ {s} : slot'[t] = slot[t]
    BY DEF Release, Idle, IInv, Good, PoolTypes
  <2> QED
    BY <2>1, NamesDiffer DEF IInv, Books, OwnersAreInside, Owns
<1> QED
  BY <1>1, <1>2, <1>3 DEF Books

-----------------------------------------------------------------------------
(* The books, one step at a time.                                          *)

LEMMA CallsSame ==
  ASSUME IInv, UNCHANGED call
  PROVE  CallsTyped'
  BY DEF IInv, Books, CallsTyped, AnswersAreOwn

LEMMA OwnerHere ==
  ASSUME IInv, NEW s \in Slot, slot[s].holder \in Build, ~ orphan[s]
  PROVE  Owns(s, slot[s].holder) /\ slot[s].at # "free" /\ call[slot[s].holder].at = "inside"
<1>1. slot[s].at # "free"
  BY NamesDiffer DEF IInv, Good, SlotsAgree, Agree
<1> QED
  BY <1>1 DEF IInv, Books, OwnersAreInside, Owns

LEMMA OverWithout ==
  ASSUME IInv, NEW b \in Build, NEW o \in Outcomes, o # "answered"
  PROVE  Over(b, o) \in Calling /\ Over(b, o).at = "over" /\ Over(b, o).outcome # "answered"
<1>1. CallsTyped
  BY DEF IInv, Books
<1>2. Over(b, o) \in Calling /\ Over(b, o).at = "over" /\ Over(b, o).outcome = o
  BY <1>1, OverTyped
<1> QED
  BY <1>2

LEMMA RefuseBooks ==
  ASSUME IInv, NEW s \in Slot, slot[s].holder \in Build, ~ orphan[s],
         NEW o \in Outcomes \ {"answered"}, Refuse(s, slot[s].holder, o), UNCHANGED orphan
  PROVE  Books'
<1> DEFINE b == slot[s].holder
<1>1. Over(b, o) \in Calling /\ Over(b, o).at = "over" /\ Over(b, o).outcome # "answered"
  BY OverWithout
<1> QED
  BY <1>1, OwnerHere, BooksLeave DEF Refuse

\* A second round trip, or the end of the second one.
LEMMA AgainBooks ==
  ASSUME IInv, NEW s \in Slot, slot[s].holder \in Build, ~ orphan[s],
         Again(s, slot[s].holder), UNCHANGED orphan
  PROVE  Books'
<1> DEFINE b == slot[s].holder
<1>1. Owns(s, b) /\ slot[s].at # "free" /\ call[b].at = "inside"
  BY OwnerHere
<1>2. CASE call[b].tries = 1
  <2> DEFINE c == [call[b] EXCEPT !.tries = 2]
  <2>1. c \in Calling /\ c.at = call[b].at /\ c.outcome = call[b].outcome /\ c.reply = call[b].reply
    BY DEF IInv, Books, CallsTyped, Calling
  <2>2. call' = [call EXCEPT ![b] = c]
    BY <1>2 DEF Again
  <2> HIDE DEF c
  <2>3. CallsTyped'
    BY <2>1, <2>2, CallSet DEF IInv, Books, CallsTyped, AnswersAreOwn
  <2>4. \A d \in Build : call'[d].at = call[d].at
    BY <2>1, <2>2 DEF IInv, Books, CallsTyped
  <2>5. \A t \in Slot : /\ slot'[t].holder = slot[t].holder
                        /\ slot'[t].at = "free" <=> slot[t].at = "free"
    <3>1. slot' = [slot EXCEPT ![s].at = "entering", ![s].got = None]
      BY <1>2 DEF Again
    <3> QED
      BY <1>1, <3>1 DEF IInv, Good, PoolTypes, Held
  <2>6. UNCHANGED free
    BY <1>2 DEF Again
  <2> QED
    BY <2>3, <2>4, <2>5, <2>6, BooksKept
<1>3. CASE call[b].tries # 1
  <2>1. Over(b, "unavailable") \in Calling /\ Over(b, "unavailable").at = "over"
        /\ Over(b, "unavailable").outcome # "answered"
    BY OverWithout DEF Outcomes
  <2> QED
    BY <1>1, <1>3, <2>1, BooksLeave DEF Again
<1> QED
  BY <1>2, <1>3

\* The slot moves on, its holder stays and so does its caller.
LEMMA StageBooks ==
  ASSUME IInv, NEW s \in Slot, slot[s].at # "free", NEW a \in Stages \ {"free"},
         slot' = [slot EXCEPT ![s].at = a], UNCHANGED <<free, orphan, call>>
  PROVE  Books'
<1>1. \A t \in Slot : /\ slot'[t].holder = slot[t].holder
                      /\ slot'[t].at = "free" <=> slot[t].at = "free"
  BY DEF IInv, Good, PoolTypes, Held
<1> QED
  BY <1>1, CallsSame, BooksKept

LEMMA StillBooks ==
  ASSUME IInv, UNCHANGED <<free, slot, orphan, call>>
  PROVE  Books'
  BY CallsSame, BooksKept

LEMMA EnterBooks ==
  ASSUME IInv, NEW s \in Slot, EnterLate(s) \/ Spawn(s) \/ ImportForNobody(s)
  PROVE  Books'
<1>1. CASE EnterLate(s)
  BY <1>1, RefuseBooks DEF EnterLate, Inside, Holder, Outcomes
<1>2. CASE Spawn(s)
  BY <1>2, StageBooks DEF Spawn, Inside, Stages
<1>3. CASE ImportForNobody(s)
  <2>0. slot[s].at = "importing" /\ slot[s].holder \in Build \cup {Warmup} /\ ~ orphan[s]
    BY <1>3 DEF ImportForNobody, IInv, Good, SlotsAgree, Agree, Tripping
  <2>1. CASE slot[s].holder = Warmup
    BY <1>3, <2>0, <2>1, NamesDiffer, BooksDrop DEF ImportForNobody, Holder
  <2>2. CASE slot[s].holder # Warmup
    BY <1>3, <2>0, <2>2, RefuseBooks DEF ImportForNobody, Holder, Outcomes
  <2> QED
    BY <2>1, <2>2
<1> QED
  BY <1>1, <1>2, <1>3

LEMMA ImportBooks ==
  ASSUME IInv, NEW s \in Slot, Banner(s) \/ ExitImporting(s) \/ SlowImport(s)
  PROVE  Books'
<1>0. slot[s].at = "importing" /\ slot[s].holder \in Build \cup {Warmup} /\ ~ orphan[s]
  BY DEF Banner, ExitImporting, SlowImport, IInv, Good, SlotsAgree, Agree, Tripping
<1>1. CASE slot[s].holder = Warmup
  BY <1>0, <1>1, NamesDiffer, BooksDrop DEF Banner, ExitImporting, SlowImport, Holder
<1>2. CASE slot[s].holder # Warmup
  <2>1. CASE Banner(s)
    BY <1>0, <1>2, <2>1, StageBooks DEF Banner, Holder, Stages
  <2>2. CASE ExitImporting(s)
    BY <1>0, <1>2, <2>2, RefuseBooks, AgainBooks DEF ExitImporting, Holder, Outcomes
  <2>3. CASE SlowImport(s)
    BY <1>0, <1>2, <2>3, RefuseBooks DEF SlowImport, Holder, Outcomes
  <2> QED
    BY <2>1, <2>2, <2>3
<1> QED
  BY <1>1, <1>2

LEMMA TripBooks ==
  ASSUME IInv, NEW s \in Slot, Send(s) \/ Read(s) \/ Abandon(s) \/ Claim(s)
  PROVE  Books'
<1>1. CASE Send(s)
  BY <1>1, StageBooks DEF Send, Inside, Stages
<1>2. CASE Read(s)
  <2>1. \A t \in Slot : /\ slot'[t].holder = slot[t].holder
                        /\ slot'[t].at = "free" <=> slot[t].at = "free"
    BY <1>2 DEF Read, IInv, Good, PoolTypes, Held
  <2> QED
    BY <1>2, <2>1, CallsSame, BooksKept DEF Read
<1>3. CASE Abandon(s)
  <2> DEFINE b == slot[s].holder
  <2>0. b \in Build /\ ~ orphan[s] /\ Owns(s, b)
    BY <1>3, OwnerHere DEF Abandon, Inside, Holder
  <2>1. Over(b, "cancelled") \in Calling /\ Over(b, "cancelled").at = "over"
        /\ Over(b, "cancelled").outcome # "answered"
    BY <2>0, OverWithout DEF Outcomes
  <2>2. call' = [call EXCEPT ![b] = Over(b, "cancelled")] /\ orphan' = [orphan EXCEPT ![s] = TRUE]
        /\ UNCHANGED <<free, slot>>
    BY <1>3 DEF Abandon, Holder
  <2>3. CallsTyped'
    BY <2>0, <2>1, <2>2, CallSet DEF IInv, Books
  <2>4. FreeIsFree'
    BY <2>2 DEF IInv, Books, FreeIsFree
  <2>5. OwnersAreInside'
    <3>1. /\ call'[b].at = "over" /\ \A d \in Build \ {b} : call'[d] = call[d]
          /\ orphan'[s] /\ \A t \in Slot \ {s} : orphan'[t] = orphan[t]
      BY <2>0, <2>1, <2>2 DEF IInv, Good, PoolTypes, Books, CallsTyped
    <3> QED
      BY <2>0, <2>2, <3>1 DEF IInv, Books, OwnersAreInside, Owns
  <2> QED
    BY <2>3, <2>4, <2>5 DEF Books
<1>4. CASE Claim(s)
  BY <1>4, StageBooks DEF Claim, Stages
<1> QED
  BY <1>1, <1>2, <1>3, <1>4

LEMMA SettleBooks ==
  ASSUME IInv, NEW s \in Slot, Settle(s)
  PROVE  Books'
<1>0. slot[s].at = "joining" /\ slot[s].holder \in Build /\ slot[s].got \in {slot[s].holder, Eof}
  BY DEF Settle, IInv, Good, SlotsAgree, Agree, Tripping
<1>1. CASE orphan[s]
  <2>1. Release(s) /\ UNCHANGED call /\ orphan' = [orphan EXCEPT ![s] = FALSE]
    BY <1>1 DEF Settle
  <2>2. ~ orphan'[s] /\ \A t \in Slot \ {s} : orphan'[t] = orphan[t]
    BY <2>1 DEF IInv, Good, PoolTypes
  <2> QED
    BY <1>0, <1>1, <2>1, <2>2, BooksDrop
<1>2. CASE ~ orphan[s]
  <2> DEFINE b == slot[s].holder
  <2>1. UNCHANGED orphan
    BY <1>2 DEF Settle
  <2>2. CASE Refuse(s, b, "late")
    BY <1>0, <1>2, <2>1, <2>2, RefuseBooks DEF Outcomes
  <2>3. CASE Again(s, b)
    BY <1>0, <1>2, <2>1, <2>3, AgainBooks
  <2>4. CASE /\ slot[s].got # Eof /\ Release(s)
             /\ call' = [call EXCEPT ![b] = [Over(b, "answered") EXCEPT !.reply = slot[s].got]]
    <3>1. /\ [Over(b, "answered") EXCEPT !.reply = b] \in Calling
          /\ [Over(b, "answered") EXCEPT !.reply = b].at = "over"
          /\ [Over(b, "answered") EXCEPT !.reply = b].reply = b
      BY <1>0, OverTyped DEF IInv, Books, Outcomes
    <3>2. call' = [call EXCEPT ![b] = [Over(b, "answered") EXCEPT !.reply = b]]
      BY <1>0, <2>4
    <3> QED
      BY <1>0, <1>2, <2>1, <2>4, <3>1, <3>2, OwnerHere, BooksLeave
  <2> QED
    BY <1>2, <2>2, <2>3, <2>4 DEF Settle, Holder
<1> QED
  BY <1>1, <1>2

LEMMA CallerBooks ==
  ASSUME IInv, NEW b \in Build, Arrive(b) \/ End(b) \/ StopWaiting(b)
  PROVE  Books'
<1>1. PICK c \in Calling : /\ call' = [call EXCEPT ![b] = c]
                           /\ c.at = "inside" <=> call[b].at = "inside"
                           /\ call[b].at = "over" => c.at = "over"
                           /\ c.outcome = "answered" => c.reply = b
  <2>0. call[b] \in Calling /\ (call[b].outcome = "answered" => call[b].reply = b)
    BY DEF IInv, Books, CallsTyped, AnswersAreOwn
  <2>1. CASE Arrive(b)
    <3> DEFINE c == [call[b] EXCEPT !.at = "waiting"]
    <3>1. /\ c \in Calling /\ c.at = "waiting" /\ call[b].at = "away"
          /\ c.outcome = call[b].outcome /\ c.reply = call[b].reply
      BY <2>0, <2>1 DEF Arrive, Calling
    <3>2. call' = [call EXCEPT ![b] = c]
      BY <2>1 DEF Arrive
    <3> HIDE DEF c
    <3> QED
      BY <2>0, <3>1, <3>2
  <2>2. CASE End(b)
    <3>1. PICK why \in {"cancelled", "deadline"} : call' = [call EXCEPT ![b].ctx = why]
      BY <2>2 DEF End
    <3> DEFINE c == [call[b] EXCEPT !.ctx = why]
    <3>2. /\ c \in Calling /\ c.at = call[b].at
          /\ c.outcome = call[b].outcome /\ c.reply = call[b].reply
      BY <2>0 DEF Calling
    <3>3. call' = [call EXCEPT ![b] = c]
      BY <3>1
    <3> HIDE DEF c
    <3> QED
      BY <2>0, <3>2, <3>3
  <2>3. CASE StopWaiting(b)
    <3>1. Over(b, "refused") \in Calling /\ Over(b, "refused").at = "over"
          /\ Over(b, "refused").outcome # "answered"
      BY OverWithout DEF Outcomes
    <3>2. call' = [call EXCEPT ![b] = Over(b, "refused")] /\ call[b].at = "waiting"
      BY <2>3 DEF StopWaiting
    <3> QED
      BY <3>1, <3>2
  <2> QED
    BY <2>1, <2>2, <2>3
<1>2. UNCHANGED <<free, slot, orphan>>
  BY DEF Arrive, End, StopWaiting
<1>3. CallsTyped'
  BY <1>1, CallSet DEF IInv, Books
<1>4. \A d \in Build : /\ call'[d].at = "inside" <=> call[d].at = "inside"
                       /\ call[d].at = "over" => call'[d].at = "over"
  BY <1>1 DEF IInv, Books, CallsTyped
<1> QED
  BY <1>2, <1>3, <1>4, BooksKept

-----------------------------------------------------------------------------
(* Builds, Prestart and Close take slots.                                  *)

\* A slot at the head of the channel is taken and its process left or replaced.
LEMMA TakenGood ==
  ASSUME IInv, free # <<>>, NEW x \in Held, slot' = [slot EXCEPT ![Head(free)] = x],
         \/ x.at = "entering" /\ x.holder \in Build
         \/ x.at = "importing" /\ x.holder = Warmup
         \/ x.at = "kept" /\ x.holder = Closer,
         NEW p \in Running, proc' = [proc EXCEPT ![Head(free)] = p],
         p.work = None, p.line = None, p.life \notin {"killed", "building"},
         UNCHANGED <<watch, end, orphan>>
  PROVE  Good'
<1>1. PICK h \in Slot : h = Head(free) /\ watch[h].at = "off" /\ ~ orphan[h]
  BY HeadIsFree
<1>2. PoolTypes'
  BY <1>1, SlotSet, ProcSet DEF IInv, Good, PoolTypes
<1>3. Agree(slot[h], proc[h], watch[h], end[h], orphan[h])'
  <2>1. slot'[h] = x /\ proc'[h] = p /\ watch'[h] = watch[h] /\ end'[h] = end[h] /\ orphan'[h] = orphan[h]
    BY <1>1 DEF IInv, Good, PoolTypes
  <2> QED
    BY <1>1, <2>1 DEF Agree, Tripping
<1>4. ASSUME NEW t \in Slot \ {h} PROVE Agree(slot[t], proc[t], watch[t], end[t], orphan[t])'
  BY <1>1 DEF IInv, Good, PoolTypes, SlotsAgree
<1> QED
  BY <1>2, <1>3, <1>4 DEF Good, SlotsAgree

LEMMA AcquireKeeps ==
  ASSUME IInv, NEW b \in Build, Acquire(b)
  PROVE  Good' /\ Books'
<1> DEFINE h == Head(free)
           x == [holder |-> b, at |-> "entering", got |-> None]
<1>0. h \in Slot /\ slot[h].holder = None /\ ~ orphan[h] /\ proc[h] \in Running
      /\ proc[h].work = None /\ proc[h].line = None /\ proc[h].life \notin {"killed", "building"}
  BY HeadIsFree DEF Acquire, IInv, Good, PoolTypes, SlotsAgree, Agree
<1>1. x \in Held /\ x.at = "entering" /\ x.holder = b
  BY DEF Held, Stages
<1>2. /\ free # <<>> /\ free' = Tail(free) /\ slot' = [slot EXCEPT ![h] = x]
      /\ UNCHANGED <<watch, end, orphan, proc>> /\ call[b].at = "waiting"
  BY DEF Acquire
<1>3. proc' = [proc EXCEPT ![h] = proc[h]]
  BY <1>0, <1>2 DEF IInv, Good, PoolTypes
<1> HIDE DEF x
<1>4. Good'
  BY <1>0, <1>1, <1>2, <1>3, TakenGood
<1>5. FreeIsFree'
  BY <1>1, <1>2, FreeTaken
<1> DEFINE c == [call[b] EXCEPT !.at = "inside", !.tries = 1]
<1>6. c \in Calling /\ c.at = "inside" /\ c.outcome = call[b].outcome /\ c.reply = call[b].reply
  <2>1. call[b] \in Calling
    BY DEF IInv, Books, CallsTyped
  <2> DEFINE d == [call[b] EXCEPT !.at = "inside"]
  <2>2. d \in Calling /\ d.at = "inside" /\ d.outcome = call[b].outcome /\ d.reply = call[b].reply
    BY <2>1 DEF Calling
  <2>3. c = [d EXCEPT !.tries = 1]
    OBVIOUS
  <2> HIDE DEF d, c
  <2> QED
    BY <2>2, <2>3 DEF Calling
<1>7. call' = [call EXCEPT ![b] = c]
  BY DEF Acquire, IInv, Books, CallsTyped
<1> HIDE DEF c
<1>8. CallsTyped'
  BY <1>6, <1>7, CallSet DEF IInv, Books, CallsTyped, AnswersAreOwn
<1>9. OwnersAreInside'
  <2>1. /\ slot'[h] = x /\ \A t \in Slot \ {h} : slot'[t] = slot[t]
        /\ call'[b].at = "inside" /\ \A d \in Build \ {b} : call'[d] = call[d]
    BY <1>0, <1>2, <1>6, <1>7 DEF IInv, Good, PoolTypes, Books, CallsTyped
  <2> HIDE DEF h
  <2> QED
    BY <1>0, <1>1, <1>2, <2>1, NamesDiffer DEF IInv, Books, OwnersAreInside, Owns
<1> QED
  BY <1>4, <1>5, <1>8, <1>9 DEF Books

\* Prestart or Close takes the slot: no caller is concerned.
LEMMA TakenBooks ==
  ASSUME IInv, free # <<>>, free' = Tail(free), NEW x \in Held, x.at # "free",
         x.holder \in {Warmup, Closer}, slot' = [slot EXCEPT ![Head(free)] = x],
         UNCHANGED <<orphan, call>>
  PROVE  Books'
<1> DEFINE h == Head(free)
<1>1. h \in Slot /\ slot[h].holder = None /\ ~ orphan[h]
  BY HeadIsFree
<1>2. slot'[h] = x /\ \A t \in Slot \ {h} : slot'[t] = slot[t]
  BY <1>1 DEF IInv, Good, PoolTypes
<1>3. FreeIsFree'
  BY FreeTaken
<1> HIDE DEF h
<1>4. OwnersAreInside'
  BY <1>1, <1>2, NamesDiffer DEF IInv, Books, OwnersAreInside, Owns
<1> QED
  BY <1>3, <1>4, CallsSame DEF Books

LEMMA StillGood ==
  ASSUME IInv, UNCHANGED <<slot, proc, watch, end, orphan>>
  PROVE  Good'
  BY DEF IInv, Good, PoolTypes, SlotsAgree, Agree

LEMMA WarmUpKeeps ==
  ASSUME IInv, WarmUp
  PROVE  Good' /\ Books' /\ Asides'
<1> DEFINE h == Head(free)
<1>0. Asides'
  <2>1. Cardinality(Slot) \in Nat
    BY PoolAssumption, FS_CardinalityType
  <2> QED
    BY <2>1 DEF WarmUp, IInv, Asides
<1>1. CASE proc[h].life = "none"
  <2> DEFINE x == [holder |-> Warmup, at |-> "importing", got |-> None]
             p == [proc[h] EXCEPT !.life = "importing"]
  <2>0. h \in Slot /\ proc[h] \in Running /\ proc[h].work = None /\ proc[h].line = None
    BY HeadIsFree DEF WarmUp, IInv, Good, PoolTypes
  <2>1. x \in Held /\ x.at = "importing" /\ x.holder = Warmup
    BY DEF Held, Stages
  <2>2. p \in Running /\ p.work = None /\ p.line = None /\ p.life = "importing"
    BY <2>0 DEF Running, Lives
  <2>3. /\ free # <<>> /\ free' = Tail(free) /\ slot' = [slot EXCEPT ![h] = x]
        /\ proc' = [proc EXCEPT ![h] = p] /\ UNCHANGED <<watch, end, orphan, call>>
    BY <1>1 DEF WarmUp
  <2> HIDE DEF x, p
  <2>4. Good'
    BY <2>1, <2>2, <2>3, TakenGood
  <2>5. Books'
    BY <2>1, <2>3, TakenBooks
  <2> QED
    BY <1>0, <2>4, <2>5
<1>2. CASE proc[h].life # "none"
  <2>1. /\ free' = Append(Tail(free), h) /\ UNCHANGED <<slot, proc, watch, end, orphan, call>>
        /\ free # <<>>
    BY <1>2 DEF WarmUp
  <2>2. /\ h \in ToSet(free) /\ h \in Slot /\ Tail(free) \in Seq(Slot) /\ IsInjective(Tail(free))
        /\ ToSet(Tail(free)) = ToSet(free) \ {h}
    BY <2>1, Taking DEF IInv, Books, FreeIsFree
  <2>3. /\ Append(Tail(free), h) \in Seq(Slot) /\ IsInjective(Append(Tail(free), h))
        /\ ToSet(Append(Tail(free), h)) = ToSet(Tail(free)) \cup {h}
    <3>1. h \notin ToSet(Tail(free))
      BY <2>2
    <3> DEFINE q == Tail(free)
    <3>2. h \in Slot /\ q \in Seq(Slot) /\ IsInjective(q) /\ h \notin ToSet(q)
      BY <2>2, <3>1
    <3> HIDE DEF h, q
    <3>3. /\ Append(q, h) \in Seq(Slot) /\ IsInjective(Append(q, h))
          /\ ToSet(Append(q, h)) = ToSet(q) \cup {h}
      BY <3>2, Appending
    <3> QED
      BY <3>3 DEF q
  <2>4. ToSet(free') = ToSet(free)
    BY <2>1, <2>2, <2>3
  <2>5. FreeIsFree'
    BY <2>1, <2>3, <2>4 DEF IInv, Books, FreeIsFree
  <2>6. OwnersAreInside'
    BY <2>1 DEF IInv, Books, OwnersAreInside, Owns
  <2> QED
    BY <1>0, <2>1, <2>5, <2>6, StillGood, CallsSame DEF Books
<1> QED
  BY <1>1, <1>2

LEMMA SweepKeeps ==
  ASSUME IInv, Sweep
  PROVE  Good' /\ Books' /\ Asides'
<1> DEFINE s == closing.prey
           p == IF proc[s].life = "none" THEN proc[s]
                ELSE [proc[s] EXCEPT !.life = "dead", !.work = None]
<1>1. s \in Slot
  BY DEF Sweep, IInv, Asides
<1>2. p \in Running /\ p.work = None /\ p.line = proc[s].line
      /\ p.life \in {"none", "dead"}
  <2>1. proc[s] \in Running
    BY <1>1 DEF IInv, Good, PoolTypes
  <2>2. CASE proc[s].life = "none"
    <3>1. proc[s].work = None
      BY <1>1, <2>1, <2>2 DEF IInv, Good, SlotsAgree, Agree, Running
    <3> QED
      BY <2>1, <2>2, <3>1
  <2>3. CASE proc[s].life # "none"
    BY <2>1, <2>3 DEF Running, Lives
  <2> QED
    BY <2>2, <2>3
<1>3. proc' = [proc EXCEPT ![s] = p]
  BY <1>1 DEF Sweep
<1> HIDE DEF p, s
<1>4. UNCHANGED <<free, slot, watch, end, orphan, call, warm>>
  BY DEF Sweep
<1>5. Good'
  <2>1. PoolTypes'
    BY <1>1, <1>2, <1>3, <1>4, ProcSet DEF IInv, Good, PoolTypes
  <2>2. ASSUME NEW t \in Slot PROVE Agree(slot[t], proc[t], watch[t], end[t], orphan[t])'
    BY <1>1, <1>2, <1>3, <1>4 DEF IInv, Good, PoolTypes, SlotsAgree, Agree
  <2> QED
    BY <2>1, <2>2 DEF Good, SlotsAgree
<1>6. Asides'
  BY DEF Sweep, IInv, Asides
<1> QED
  BY <1>4, <1>5, <1>6, StillBooks

LEMMA CloseTakesKeeps ==
  ASSUME IInv, CloseTakes
  PROVE  Good' /\ Books' /\ Asides'
<1> DEFINE h == Head(free)
           x == [holder |-> Closer, at |-> "kept", got |-> None]
<1>1. x \in Held /\ x.at = "kept" /\ x.holder = Closer
  BY DEF Held, Stages
<1>2. Stopped \in Running /\ Stopped.work = None /\ Stopped.line = None /\ Stopped.life = "none"
  BY Given DEF Stopped
<1>3. /\ free # <<>> /\ free' = Tail(free) /\ slot' = [slot EXCEPT ![h] = x]
      /\ proc' = [proc EXCEPT ![h] = Stopped] /\ UNCHANGED <<watch, end, orphan, call>>
  BY DEF CloseTakes, Stop
<1>4. Asides'
  BY DEF CloseTakes, IInv, Asides
<1> HIDE DEF x
<1>5. Good'
  BY <1>1, <1>2, <1>3, TakenGood
<1>6. Books'
  BY <1>1, <1>3, TakenBooks
<1> QED
  BY <1>4, <1>5, <1>6

\* Every order of the slots is a channel with each in it once.
LEMMA Ordering ==
  ASSUME NEW q \in Bijection(1..Cardinality(Slot), Slot)
  PROVE  q \in Seq(Slot) /\ IsInjective(q) /\ ToSet(q) = Slot
<1>1. Cardinality(Slot) \in Nat
  BY PoolAssumption, FS_CardinalityType
<1>2. /\ q \in [1..Cardinality(Slot) -> Slot] /\ IsInjective(q)
      /\ \A s \in Slot : \E i \in 1..Cardinality(Slot) : q[i] = s
  BY DEF Bijection, Injection, Surjection
<1>3. q \in Seq(Slot)
  BY <1>1, <1>2
<1>4. ToSet(q) = Slot
  BY <1>2 DEF ToSet
<1> QED
  BY <1>2, <1>3, <1>4

LEMMA CloseEndsKeeps ==
  ASSUME IInv, CloseEnds
  PROVE  Good' /\ Books' /\ Asides'
<1>1. \A s \in Slot : slot[s].at = "kept"
  BY DEF CloseEnds, Kept
<1>2. \A s \in Slot : /\ slot[s].holder = Closer /\ ~ orphan[s] /\ watch[s].at = "off"
                      /\ proc[s].work = None /\ proc[s].line = None /\ proc[s].life # "killed"
  BY <1>1 DEF IInv, Good, SlotsAgree, Agree, Tripping
<1>3. /\ slot' = [s \in Slot |-> Idle] /\ UNCHANGED <<proc, watch, end, orphan, call, warm>>
      /\ free' \in Bijection(1..Cardinality(Slot), Slot)
  BY DEF CloseEnds
<1>4. \A s \in Slot : slot'[s] = Idle
  BY <1>3
<1>5. Idle.at = "free" /\ Idle.holder = None
  BY DEF Idle
<1>6. Good'
  <2>1. PoolTypes'
    BY <1>3, Given DEF IInv, Good, PoolTypes
  <2>2. ASSUME NEW s \in Slot PROVE Agree(slot[s], proc[s], watch[s], end[s], orphan[s])'
    BY <1>2, <1>3, <1>4, <1>5 DEF IInv, Good, SlotsAgree, Agree, Tripping
  <2> QED
    BY <2>1, <2>2 DEF Good, SlotsAgree
<1>7. FreeIsFree'
  BY <1>3, <1>4, <1>5, Ordering DEF FreeIsFree
<1>8. OwnersAreInside'
  BY <1>2, <1>3, <1>4, <1>5, NamesDiffer DEF IInv, Books, OwnersAreInside, Owns
<1>9. Asides'
  BY DEF CloseEnds, IInv, Asides
<1> QED
  BY <1>3, <1>6, <1>7, <1>8, <1>9, CallsSame DEF Books

-----------------------------------------------------------------------------
(* The invariant.                                                          *)

LEMMA InitHolds == Init => IInv
<1> SUFFICES ASSUME Init PROVE IInv
  OBVIOUS
<1>1. \A s \in Slot : /\ slot[s] = Idle /\ proc[s] = Stopped /\ watch[s] = Off
                      /\ end[s] = "running" /\ ~ orphan[s]
  BY DEF Init
<1>2. /\ Idle.at = "free" /\ Idle.holder = None /\ Off.at = "off"
      /\ Stopped.life = "none" /\ Stopped.work = None /\ Stopped.line = None
  BY DEF Idle, Off, Stopped
<1>3. PoolTypes
  BY Given DEF Init, PoolTypes, Off, Watching, Ends
<1>4. SlotsAgree
  BY <1>1, <1>2 DEF SlotsAgree, Agree, Tripping
<1>5. FreeIsFree
  <2>1. free \in Seq(Slot) /\ IsInjective(free) /\ ToSet(free) = Slot
    BY Ordering DEF Init
  <2> QED
    BY <1>1, <1>2, <2>1 DEF FreeIsFree
<1>6. CallsTyped /\ \A b \in Build : call[b].at = "away"
  <2> DEFINE c == [at |-> "away", ctx |-> "live", tries |-> 0, outcome |-> "none", reply |-> None]
  <2>1. c \in Calling /\ c.at = "away" /\ c.outcome = "none"
    BY DEF Calling, Outcomes
  <2>2. call = [b \in Build |-> c]
    BY DEF Init
  <2> HIDE DEF c
  <2> QED
    BY <2>1, <2>2 DEF CallsTyped, AnswersAreOwn
<1>7. OwnersAreInside
  BY <1>1, <1>2, <1>6, NamesDiffer DEF OwnersAreInside, Owns
<1>8. Asides
  <2>1. Cardinality(Slot) \in Nat
    BY PoolAssumption, FS_CardinalityType
  <2> QED
    BY <2>1 DEF Init, Asides
<1> QED
  BY <1>3, <1>4, <1>5, <1>6, <1>7, <1>8 DEF IInv, Good, Books

LEMMA SlotKeeps ==
  ASSUME IInv, NEW s \in Slot,
         Trip(s) \/ Process(s) \/ SlowImport(s) \/ Watchdog(s) \/ Look(s)
  PROVE  IInv'
<1>1. CASE EnterLate(s) \/ Spawn(s) \/ ImportForNobody(s)
  BY <1>1, EnterGood, EnterBooks DEF EnterLate, Spawn, ImportForNobody, IInv, Asides
<1>2. CASE Banner(s) \/ ExitImporting(s) \/ SlowImport(s)
  BY <1>2, ImportGood, ImportBooks DEF Banner, ExitImporting, SlowImport, IInv, Asides
<1>3. CASE Send(s) \/ Read(s) \/ Abandon(s) \/ Claim(s)
  BY <1>3, TripGood, TripBooks DEF Send, Read, Abandon, Claim, IInv, Asides
<1>4. CASE Settle(s)
  BY <1>4, SettleGood, SettleBooks DEF Settle, IInv, Asides
<1>5. CASE Reply(s) \/ Crash(s)
  BY <1>5, ProcessGood, StillBooks DEF Reply, Crash, IInv, Asides
<1>6. CASE Watchdog(s)
  <2>1. UNCHANGED <<free, slot, orphan, call, warm, closing>>
    BY <1>6 DEF Watchdog, Dismiss, Outwait, TimeOut, ClaimLate, Kill
  <2> QED
    BY <1>6, <2>1, WatchdogGood, StillBooks DEF IInv, Asides
<1>7. CASE Look(s)
  <2>1. Asides'
    BY <1>7 DEF Look, IInv, Asides
  <2> QED
    BY <1>7, <2>1, StillGood, StillBooks DEF Look, IInv
<1> QED
  BY <1>1, <1>2, <1>3, <1>4, <1>5, <1>6, <1>7 DEF Trip, Process

LEMMA NextKeeps == IInv /\ [Next]_vars => IInv'
<1> SUFFICES ASSUME IInv, [Next]_vars PROVE IInv'
  OBVIOUS
<1>1. ASSUME NEW b \in Build, Caller(b) PROVE IInv'
  <2>1. CASE Arrive(b) \/ End(b) \/ StopWaiting(b)
    BY <2>1, CallerBooks, StillGood DEF Arrive, End, StopWaiting, IInv, Asides
  <2>2. CASE Acquire(b)
    BY <2>2, AcquireKeeps DEF Acquire, IInv, Asides
  <2> QED
    BY <1>1, <2>1, <2>2 DEF Caller
<1>2. ASSUME NEW s \in Slot, Trip(s) \/ Process(s) \/ SlowImport(s) \/ Watchdog(s) \/ Look(s)
      PROVE  IInv'
  BY <1>2, SlotKeeps
<1>3. CASE WarmUp
  BY <1>3, WarmUpKeeps DEF IInv
<1>4. CASE WarmNoMore \/ CloseBegins
  <2>1. Asides'
    <3>1. Cardinality(Slot) \in Nat
      BY PoolAssumption, FS_CardinalityType
    <3> QED
      BY <1>4, <3>1 DEF WarmNoMore, CloseBegins, IInv, Asides
  <2> QED
    BY <1>4, <2>1, StillGood, StillBooks DEF WarmNoMore, CloseBegins, IInv
<1>5. CASE Sweep
  BY <1>5, SweepKeeps DEF IInv
<1>6. CASE CloseTakes
  BY <1>6, CloseTakesKeeps DEF IInv
<1>7. CASE CloseEnds
  BY <1>7, CloseEndsKeeps DEF IInv
<1>8. CASE UNCHANGED vars
  BY <1>8, StillGood, StillBooks DEF vars, IInv, Asides
<1> QED
  BY <1>1, <1>2, <1>3, <1>4, <1>5, <1>6, <1>7, <1>8 DEF Next

LEMMA InvariantHolds == Spec => []IInv
  BY InitHolds, NextKeeps, PTL DEF Spec

-----------------------------------------------------------------------------

\* Every variable keeps its type: what the pool stores of its slots, processes,
\* watchdogs and callers, however many there are.
THEOREM TypeCorrect == Spec => []TypeOK
<1>1. IInv => TypeOK
  BY DEF IInv, Good, PoolTypes, Books, FreeIsFree, CallsTyped, Asides, TypeOK
<1> QED
  BY <1>1, InvariantHolds, PTL

\* A caller that is answered is answered by its own build, for any number of
\* builds and kernels and whatever is cancelled, crashes or hangs
\* (sidecar_process.go: roundTrip, abandon).
THEOREM EachItsOwnAnswer == Spec => []AnswersAreOwn
<1>1. IInv => AnswersAreOwn
  BY DEF IInv, Books, CallsTyped
<1> QED
  BY <1>1, InvariantHolds, PTL

\* No slot is lost, handed out twice or given back twice (cad.go: held, release,
\* Close; sidecar_process.go: abandon).
THEOREM NoSlotIsLost == Spec => []SlotsConserved
<1>1. IInv => SlotsConserved
  <2> SUFFICES ASSUME IInv PROVE SlotsConserved
    OBVIOUS
  <2>1. IsInjective(free) /\ ToSet(free) = {s \in Slot : slot[s].at = "free"}
    BY DEF IInv, Books, FreeIsFree
  <2>2. ASSUME NEW s \in Slot, NEW t \in Slot, Inside(s, slot[s].at), Inside(t, slot[t].at),
               Holder(s) = Holder(t)
        PROVE  s = t
    BY <2>2 DEF Inside, Holder, IInv, Books, OwnersAreInside, Owns
  <2>3. \A b \in Build : call[b].at = "inside" <=> \E s \in Slot : Holder(s) = b /\ ~ orphan[s]
    BY DEF Holder, IInv, Books, OwnersAreInside, Owns
  <2> QED
    BY <2>1, <2>2, <2>3 DEF SlotsConserved
<1> QED
  BY <1>1, InvariantHolds, PTL

\* A watchdog kills nobody but the process of the round trip it was started for
\* (sidecar_process.go: roundTrip waits for its goroutine).
THEOREM WatchdogsKeepToTheirTrip == Spec => []WatchIsForHolder
<1>1. IInv => WatchIsForHolder
  BY DEF IInv, Good, SlotsAgree, Agree, Tripping, WatchIsForHolder, Holder
<1> QED
  BY <1>1, InvariantHolds, PTL

\* Only a round trip that is tried again, of a process that died on its own, and the
\* first one count a try.
LEMMA TriesCount ==
  ASSUME IInv, Next, NEW b \in Build, call'[b].tries > call[b].tries
  PROVE  \/ call[b].at = "waiting"
         \/ \E s \in Slot : Owns(s, b) /\ proc[s].life # "killed"
<1>0. call[b] \in Calling
  BY DEF IInv, Books, CallsTyped
<1>1. ASSUME NEW d \in Build, Caller(d)
      PROVE  call[b].at = "waiting"
  <2>1. ~ UNCHANGED call[b]
    BY <1>0 DEF Calling
  <2>2. CASE Arrive(d) \/ End(d)
    <3>1. call'[b].tries = call[b].tries
      BY <1>0, <2>2 DEF Arrive, End, IInv, Books, CallsTyped, Calling
    <3> QED
      BY <1>0, <3>1 DEF Calling
  <2>3. CASE Acquire(d) \/ StopWaiting(d)
    <3>1. d = b
      BY <2>1, <2>3 DEF Acquire, StopWaiting, IInv, Books, CallsTyped
    <3> QED
      BY <2>3, <3>1 DEF Acquire, StopWaiting
  <2> QED
    BY <1>1, <2>2, <2>3 DEF Caller
<1>2. ASSUME NEW s \in Slot, Trip(s) \/ Process(s) \/ SlowImport(s) \/ Watchdog(s) \/ Look(s)
      PROVE  Owns(s, b) /\ proc[s].life # "killed"
  <2>1. ~ UNCHANGED call
    BY <1>0 DEF Calling
  <2>2. ASSUME NEW d \in Build, NEW o, call' = [call EXCEPT ![d] = Over(d, o)] PROVE FALSE
    <3>1. call'[b].tries = call[b].tries \/ call'[b].tries = 0
      BY <2>2 DEF Over, IInv, Books, CallsTyped, Calling
    <3> QED
      BY <1>0, <3>1 DEF Calling
  <2>3. ASSUME NEW d \in Build, NEW g, call' = [call EXCEPT ![d] = [Over(d, "answered") EXCEPT !.reply = g]]
        PROVE  FALSE
    <3>1. call'[b].tries = call[b].tries \/ call'[b].tries = 0
      BY <2>3 DEF Over, IInv, Books, CallsTyped, Calling
    <3> QED
      BY <1>0, <3>1 DEF Calling
  <2>4. ASSUME NEW d \in Build, Again(s, d) PROVE d = b
    <3>1. CASE call[d].tries = 1
      <4>1. d # b => call'[b] = call[b]
        BY <2>4, <3>1 DEF Again, IInv, Books, CallsTyped
      <4> QED
        BY <1>0, <4>1 DEF Calling
    <3>2. CASE call[d].tries # 1
      BY <2>2, <2>4, <3>2 DEF Again
    <3> QED
      BY <3>1, <3>2
  <2>5. CASE ExitImporting(s)
    <3>1. slot[s].holder \in Build /\ ~ orphan[s] /\ proc[s].life # "killed"
      BY <2>1, <2>5 DEF ExitImporting, Holder, IInv, Good, SlotsAgree, Agree, Tripping
    <3>2. Again(s, slot[s].holder)
      BY <2>1, <2>2, <2>5, <3>1 DEF ExitImporting, Holder, Refuse
    <3> QED
      BY <2>4, <3>1, <3>2 DEF Owns
  <2>6. CASE Settle(s)
    <3>1. slot[s].holder \in Build /\ ~ orphan[s]
      BY <2>1, <2>6 DEF Settle, IInv, Good, SlotsAgree, Agree, Tripping
    <3>2. end[s] # "outOfTime" /\ Again(s, slot[s].holder)
      BY <2>2, <2>3, <2>6, <3>1 DEF Settle, Holder, Refuse
    <3>3. proc[s].life # "killed"
      BY <3>2 DEF IInv, Good, SlotsAgree, Agree
    <3> QED
      BY <2>4, <3>1, <3>2, <3>3 DEF Owns
  <2>7. CASE EnterLate(s)
    BY <2>2, <2>7 DEF EnterLate, Inside, Refuse
  <2>8. CASE Abandon(s)
    BY <2>2, <2>8 DEF Abandon, Inside
  <2>9. CASE ImportForNobody(s) \/ SlowImport(s)
    <3>1. slot[s].holder \in Build
      BY <2>1, <2>9 DEF ImportForNobody, SlowImport, Holder, IInv, Good, SlotsAgree, Agree
    <3> QED
      BY <2>1, <2>2, <2>9, <3>1 DEF ImportForNobody, SlowImport, Holder, Refuse
  <2> QED
    BY <1>2, <2>1, <2>5, <2>6, <2>7, <2>8, <2>9
       DEF Trip, Process, Watchdog, Spawn, Send, Read, Claim, Banner, Reply, Crash,
           Dismiss, Outwait, TimeOut, ClaimLate, Kill, Look
<1>3. CASE WarmUp \/ WarmNoMore \/ CloseBegins \/ Sweep \/ CloseTakes \/ CloseEnds
  <2>1. UNCHANGED call
    BY <1>3 DEF WarmUp, WarmNoMore, CloseBegins, Sweep, CloseTakes, CloseEnds
  <2> QED
    BY <1>0, <2>1 DEF Calling
<1> QED
  BY <1>1, <1>2, <1>3 DEF Next

\* The one retry a build has is spent on a process that died, never on one its own
\* watchdog killed (cad.go: buildWith, lateError), for any number of builds and kernels.
THEOREM RetriesAreForCrashes == Spec => RetryIsForACrash
<1>1. IInv /\ [Next]_vars =>
        [\A s \in Slot : Holder(s) \in Build /\ call'[Holder(s)].tries > call[Holder(s)].tries
                           => proc[s].life # "killed"]_vars
  <2> SUFFICES ASSUME IInv, Next, NEW s \in Slot, Holder(s) \in Build,
                      call'[Holder(s)].tries > call[Holder(s)].tries
               PROVE  proc[s].life # "killed"
    OBVIOUS
  <2>1. \/ call[Holder(s)].at = "waiting"
        \/ \E t \in Slot : Owns(t, Holder(s)) /\ proc[t].life # "killed"
    BY TriesCount
  <2>2. call[Holder(s)].at # "waiting"
    BY DEF Holder, IInv, Books, OwnersAreInside, Owns
  <2>3. PICK t \in Slot : Owns(t, Holder(s)) /\ proc[t].life # "killed"
    BY <2>1, <2>2
  <2>4. call[Holder(s)].at = "inside"
    BY <2>3 DEF IInv, Books, OwnersAreInside
  <2>5. ~ orphan[s]
    BY <2>4 DEF Holder, IInv, Books, OwnersAreInside
  <2> QED
    BY <2>3, <2>5 DEF Holder, IInv, Books, OwnersAreInside, Owns
<1> QED
  BY <1>1, InvariantHolds, PTL DEF Spec, RetryIsForACrash

====

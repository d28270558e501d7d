------------------------- MODULE GoalPlanningProofs -------------------------
(***************************************************************************)
(* The choice a goal shows is the one on record, for any number of         *)
(* callers, questions, criteria, options and tasks.                        *)
(*                                                                         *)
(* ChoiceIsOnRecord is not inductive: it speaks of the row, and the row is *)
(* written by a caller who read it three statements ago.  IInv says what   *)
(* such a caller still holds.  A decision that was recorded and not yet    *)
(* written back is its recorder's alone (RecordersHold): no set refers to  *)
(* it, so nobody can supersede it first.  A caller about to record a       *)
(* decision does not supersede the one the row shows (ChoosersMayDecide):  *)
(* it read its set off the row when no choice stood there, and a choice    *)
(* that came to stand there since is one no set refers to yet.             *)
(***************************************************************************)
EXTENDS GoalPlanning, TLAPS

\* What the row and the callers say a decision replaces is in the log.
ReferencesAreOld ==
  /\ goal.options.supersedes <= Len(log)
  /\ \A c \in Caller : local[c].set.supersedes <= Len(log)
  /\ \A m \in 1..Len(log) : log[m].supersedes <= Len(log)

\* A set carries a decision on the row only, and only with its choice.
UndecidedSets ==
  /\ goal.chosen = None => goal.options.decision = 0
  /\ \A c \in Caller : local[c].set.decision = 0

\* A recorded decision that is on its way to the row.
RecordersHold ==
  \A c \in Caller : local[c].at = "chosen" =>
    LET n == local[c].decision IN
    /\ Offered(local[c].set) /\ local[c].option # None
    /\ n \in Current /\ log[n].option = local[c].option
    /\ goal.options.supersedes # n /\ goal.options.decision # n
    /\ \A d \in Caller :
         /\ local[d].set.supersedes # n
         /\ d # c /\ local[d].at = "chosen" => local[d].decision # n

\* A caller about to record what it chose leaves the row's choice current.
ChoosersMayDecide ==
  \A c \in Caller : local[c].at = "choosing" =>
    /\ Offered(local[c].set) /\ local[c].option \in Option
    /\ local[c].set.supersedes # 0 => local[c].set.supersedes # goal.options.decision

IInv ==
  TypeOK /\ ReferencesAreOld /\ UndecidedSets /\ RecordersHold /\ ChoosersMayDecide
  /\ ChoiceIsOnRecord

-----------------------------------------------------------------------------

\* Promote gives every task a status.
LEMMA PromoteTypes ==
  ASSUME NEW ts \in [Key -> Status], NEW deps
  PROVE  Promote(ts, deps) \in [Key -> Status]
  BY DEF Promote, Status

LEMMA IdleTypes == NoOffer \in Offer /\ Idle \in Memory /\ Idle.at = "idle"
  BY DEF NoOffer, Offer, Idle, Memory, Step

\* What a caller remembers is typed, and it holds an option where it needs one.
Remembers(m) == m \in Memory /\ (m.at \in {"choosing", "chosen"} => m.option \in Option)

LEMMA Remembered ==
  ASSUME TypeOK, NEW c \in Caller, NEW m, Remembers(m), local' = [local EXCEPT ![c] = m]
  PROVE  /\ local' \in [Caller -> Memory]
         /\ \A d \in Caller : local'[d].at \in {"choosing", "chosen"} => local'[d].option \in Option
  BY DEF TypeOK, Remembers

LEMMA DoneRemembers ==
  ASSUME TypeOK, NEW c \in Caller, Done(c)
  PROVE  /\ local' \in [Caller -> Memory]
         /\ \A d \in Caller : local'[d].at \in {"choosing", "chosen"} => local'[d].option \in Option
<1>1. Remembers(Idle)
  BY IdleTypes DEF Remembers
<1> QED
  BY <1>1, Remembered DEF Done

LEMMA StepRemembers ==
  ASSUME TypeOK, NEW c \in Caller, NEW at \in Step \ {"choosing", "chosen"},
         local' = [local EXCEPT ![c].at = at]
  PROVE  /\ local' \in [Caller -> Memory]
         /\ \A d \in Caller : local'[d].at \in {"choosing", "chosen"} => local'[d].option \in Option
<1> DEFINE m == [local[c] EXCEPT !.at = at]
<1>1. Remembers(m)
  BY DEF TypeOK, Remembers, Memory
<1>2. local' = [local EXCEPT ![c] = m]
  OBVIOUS
<1> HIDE DEF m
<1> QED
  BY <1>1, <1>2, Remembered

LEMMA InitTypes == Init => TypeOK
<1> SUFFICES ASSUME Init PROVE TypeOK
  OBVIOUS
<1>1. goal \in Row
  BY IdleTypes DEF Init, Row
<1>2. local \in [Caller -> Memory] /\ \A c \in Caller : local[c].at = "idle"
  BY IdleTypes DEF Init
<1> QED
  BY <1>1, <1>2 DEF Init, TypeOK, Status

LEMMA PlanningTypes ==
  ASSUME TypeOK, NEW c \in Caller, Planning(c)
  PROVE  TypeOK'
<1>1. CASE BeginPlan(c)
  BY <1>1, StepRemembers DEF BeginPlan, Step, TypeOK
<1>2. CASE Ask(c)
  <2>1. goal' \in Row
    BY <1>2 DEF Ask, TypeOK, Row
  <2> QED
    BY <1>2, <2>1, DoneRemembers DEF Ask, TypeOK
<1>3. CASE DropQuestion(c)
  <2>1. goal' \in Row
    BY <1>3 DEF DropQuestion, TypeOK, Row
  <2> QED
    BY <1>3, <2>1, StepRemembers DEF DropQuestion, Step, TypeOK
<1>4. CASE Apply(c)
  <2>1. PICK p \in Plan : /\ edges' = edges \cup p.deps
                          /\ tasks' = Promote(Reuse(p), edges \cup p.deps)
    BY <1>4 DEF Apply, BuildPlan
  <2>2. p.deps \subseteq Key \X Key
    BY DEF Plan
  <2>3. Reuse(p) \in [Key -> Status]
    BY DEF Reuse, Status, TypeOK
  <2>4. tasks' \in [Key -> Status]
    BY <2>1, <2>3, PromoteTypes
  <2>5. edges' \subseteq Key \X Key
    BY <2>1, <2>2 DEF TypeOK
  <2> QED
    <3>1. plans' \in Nat /\ UNCHANGED <<goal, log, assumed>> /\ Done(c)
      BY <1>4 DEF Apply, TypeOK
    <3> QED
      BY <3>1, <2>4, <2>5, DoneRemembers DEF TypeOK
<1> QED
  BY <1>1, <1>2, <1>3, <1>4 DEF Planning

LEMMA SettlingTypes ==
  ASSUME TypeOK, NEW c \in Caller, Settling(c)
  PROVE  TypeOK'
<1> USE DEF TypeOK
<1>0. local[c] \in Memory /\ local[c].set \in Offer /\ goal.options \in Offer
  BY DEF Memory, Row
<1>1. CASE ReadQuestion(c)
  <2> DEFINE m == [local[c] EXCEPT !.at = "answering", !.question = goal.question]
  <2>1. Remembers(m)
    BY <1>0 DEF Remembers, Memory, Row, Step
  <2>2. local' = [local EXCEPT ![c] = m]
    BY <1>1 DEF ReadQuestion
  <2> HIDE DEF m
  <2> QED
    BY <1>1, <2>1, <2>2, Remembered DEF ReadQuestion
<1>2. CASE Answer(c)
  <2>1. goal' \in Row
    BY <1>0, <1>2 DEF Answer, Row, Memory
  <2> QED
    BY <1>2, <2>1, DoneRemembers DEF Answer
<1>3. CASE StateCriteria(c)
  <2>1. goal' \in Row
    BY <1>3, IdleTypes DEF StateCriteria, Row
  <2> QED
    BY <1>3, <2>1 DEF StateCriteria
<1>4. CASE BeginOffer(c)
  <2> DEFINE m == [local[c] EXCEPT !.at = "offering", !.set = [@ EXCEPT !.against = goal.criteria]]
  <2>1. [local[c].set EXCEPT !.against = goal.criteria] \in Offer
    BY <1>0 DEF Offer, Row
  <2>2. Remembers(m)
    BY <1>0, <2>1 DEF Remembers, Memory, Step
  <2>3. local' = [local EXCEPT ![c] = m]
    BY <1>4, <1>0 DEF BeginOffer, Memory
  <2> HIDE DEF m
  <2> QED
    BY <1>4, <2>2, <2>3, Remembered DEF BeginOffer
<1>5. CASE ReadPrior(c)
  <2> DEFINE m == [local[c] EXCEPT !.at = "storing",
                     !.set = [@ EXCEPT !.supersedes = goal.options.decision]]
  <2>1. [local[c].set EXCEPT !.supersedes = goal.options.decision] \in Offer
    BY <1>0 DEF Offer
  <2>2. Remembers(m)
    BY <1>0, <2>1 DEF Remembers, Memory, Step
  <2>3. local' = [local EXCEPT ![c] = m]
    BY <1>5, <1>0 DEF ReadPrior, Memory
  <2> HIDE DEF m
  <2> QED
    BY <1>5, <2>2, <2>3, Remembered DEF ReadPrior
<1>6. CASE StoreOptions(c)
  <2>1. PICK material \in BOOLEAN :
          goal' = [goal EXCEPT !.options = [local[c].set EXCEPT !.material = material], !.chosen = None]
    BY <1>6 DEF StoreOptions
  <2>2. [local[c].set EXCEPT !.material = material] \in Offer
    BY <1>0 DEF Offer
  <2>3. goal' \in Row
    BY <2>1, <2>2 DEF Row
  <2> QED
    BY <1>6, <2>3, DoneRemembers DEF StoreOptions
<1>7. CASE ReadOffer(c)
  <2>1. PICK o \in Option :
          local' = [local EXCEPT ![c].at = "choosing", ![c].set = goal.options, ![c].option = o]
    BY <1>7 DEF ReadOffer
  <2> DEFINE m == [local[c] EXCEPT !.at = "choosing", !.set = goal.options, !.option = o]
  <2>2. Remembers(m)
    BY <1>0 DEF Remembers, Memory, Step
  <2>3. local' = [local EXCEPT ![c] = m]
    BY <2>1
  <2> HIDE DEF m
  <2> QED
    BY <1>7, <2>2, <2>3, Remembered DEF ReadOffer
<1>8. CASE RecordDecision(c)
  <2> DEFINE m == [local[c] EXCEPT !.at = "chosen", !.decision = Len(log) + 1]
  <2> DEFINE entry == [option |-> local[c].option, supersedes |-> local[c].set.supersedes]
  <2>1. local[c].option \in Option /\ local[c].set.supersedes \in Nat
    BY <1>0, <1>8 DEF RecordDecision, At, Offer
  <2>2. entry \in [option : Option, supersedes : Nat] /\ log' = Append(log, entry)
    BY <1>8, <2>1 DEF RecordDecision
  <2>3. local' = [local EXCEPT ![c].at = "chosen", ![c].decision = Len(log) + 1]
    BY <1>8 DEF RecordDecision
  <2>4. local' = [local EXCEPT ![c] = m]
    BY <2>3
  <2>5. Remembers(m)
    <3>1. Len(log) + 1 \in Nat
      OBVIOUS
    <3> DEFINE n == Len(log) + 1
    <3> HIDE DEF n
    <3>2. [local[c] EXCEPT !.at = "chosen", !.decision = n] \in Memory
      BY <1>0, <3>1 DEF n, Memory, Step
    <3> QED
      BY <1>0, <2>1, <3>2 DEF n, Remembers, Memory
  <2> HIDE DEF entry, m
  <2>6. ASSUME NEW T, NEW q \in Seq(T), NEW e \in T PROVE Append(q, e) \in Seq(T)
    OBVIOUS
  <2>7. log' \in Seq([option : Option, supersedes : Nat])
    BY <2>2, <2>6
  <2>8. UNCHANGED <<goal, plans, tasks, edges, assumed>>
    BY <1>8 DEF RecordDecision
  <2> QED
    BY <2>4, <2>5, <2>7, <2>8, Remembered
<1>9. CASE WriteChoice(c)
  <2>1. [local[c].set EXCEPT !.decision = local[c].decision] \in Offer
    BY <1>0 DEF Offer, Memory
  <2>2. local[c].option \in Option \cup {None}
    BY <1>0 DEF Memory
  <2>3. goal' \in Row
    BY <1>9, <2>1, <2>2 DEF WriteChoice, Row
  <2> QED
    BY <1>9, <2>3, DoneRemembers DEF WriteChoice
<1> QED
  BY <1>1, <1>2, <1>3, <1>4, <1>5, <1>6, <1>7, <1>8, <1>9 DEF Settling

LEMMA StartingTypes ==
  ASSUME TypeOK, NEW c \in Caller, Starting(c)
  PROVE  TypeOK'
<1>1. CASE GateOnClarification(c)
  <2>1. assumed' \subseteq Question
    BY <1>1 DEF GateOnClarification, LabelAssumption, TypeOK, Row
  <2> QED
    BY <1>1, <2>1, StepRemembers DEF GateOnClarification, LabelAssumption, Step, TypeOK
<1>2. CASE GateOnOptions(c)
  BY <1>2, StepRemembers DEF GateOnOptions, Step, TypeOK
<1>3. CASE Activate(c)
  <2>1. goal' \in Row
    BY <1>3 DEF Activate, TypeOK, Row
  <2> QED
    BY <1>3, <2>1, DoneRemembers DEF Activate, TypeOK
<1> QED
  BY <1>1, <1>2, <1>3 DEF Starting

LEMMA NextTypes == TypeOK /\ [Next]_vars => TypeOK'
<1> SUFFICES ASSUME TypeOK, [Next]_vars PROVE TypeOK'
  OBVIOUS
<1>1. ASSUME NEW c \in Caller, GiveUp(c) PROVE TypeOK'
  BY <1>1, DoneRemembers DEF GiveUp, TypeOK
<1>2. ASSUME NEW k \in Key, Work(k) PROVE TypeOK'
  <2>1. [tasks EXCEPT ![k] = "succeeded"] \in [Key -> Status]
    BY DEF TypeOK, Status
  <2>2. tasks' \in [Key -> Status]
    BY <1>2, <2>1, PromoteTypes DEF Work
  <2> QED
    BY <1>2, <2>2 DEF Work, TypeOK
<1>3. CASE UNCHANGED vars
  BY <1>3 DEF vars, TypeOK
<1> QED
  BY <1>1, <1>2, <1>3, PlanningTypes, SettlingTypes, StartingTypes DEF Next

\* The row, the log and every caller keep their types, whatever callers do and
\* however they fail.
THEOREM TypeCorrect == Spec => []TypeOK
  BY InitTypes, NextTypes, PTL DEF Spec
-----------------------------------------------------------------------------

\* What no caller gets by a step: a set that refers to more, or the standing of
\* one that chooses or has chosen.
Keeps ==
  \A d \in Caller :
    /\ local'[d].set.supersedes \in {0, local[d].set.supersedes}
    /\ local'[d].set.decision \in {0, local[d].set.decision}
    /\ local'[d].at \in {"choosing", "chosen"} => local'[d] = local[d]

LEMMA DoneKeeps ==
  ASSUME TypeOK, NEW c \in Caller, Done(c)
  PROVE  Keeps
<1>1. ASSUME NEW d \in Caller PROVE local'[d] = IF d = c THEN Idle ELSE local[d]
  BY DEF Done, TypeOK
<1> QED
  BY <1>1 DEF Keeps, Idle, NoOffer

LEMMA StepKeeps ==
  ASSUME TypeOK, NEW c \in Caller, NEW at \in Step \ {"choosing", "chosen"},
         local' = [local EXCEPT ![c].at = at]
  PROVE  Keeps
<1>1. ASSUME NEW d \in Caller
      PROVE  IF d = c THEN local'[d] = [local[c] EXCEPT !.at = at] ELSE local'[d] = local[d]
  BY DEF TypeOK
<1>2. local[c] \in Memory
  BY DEF TypeOK
<1>3. [local[c] EXCEPT !.at = at].at = at /\ [local[c] EXCEPT !.at = at].set = local[c].set
  BY <1>2 DEF Memory
<1> QED
  BY <1>1, <1>3 DEF Keeps

\* The conjuncts' facts in the form the steps use them.
LEMMA Facts ==
  ASSUME IInv
  PROVE  /\ Len(log) \in Nat
         /\ goal.options \in Offer /\ goal.chosen \in Option \cup {None}
         /\ \A c \in Caller : local[c] \in Memory /\ local[c].set \in Offer
         /\ goal.options.decision \in Nat /\ goal.options.supersedes \in Nat
         /\ \A c \in Caller : local[c].set.supersedes \in Nat /\ local[c].decision \in Nat
         /\ goal.options.decision <= Len(log)
         /\ \A c \in Caller : local[c].at = "chosen" => local[c].decision \in 1..Len(log)
<1>1. Len(log) \in Nat
  BY DEF IInv, TypeOK
<1>2. goal.options \in Offer /\ goal.chosen \in Option \cup {None}
  BY DEF IInv, TypeOK, Row
<1>3. \A c \in Caller : local[c] \in Memory /\ local[c].set \in Offer
  BY DEF IInv, TypeOK, Memory
<1>4. goal.options.decision \in Nat /\ goal.options.supersedes \in Nat
  BY <1>2 DEF Offer
<1>5. \A c \in Caller : local[c].set.supersedes \in Nat /\ local[c].decision \in Nat
  BY <1>3 DEF Offer, Memory
<1>6. goal.options.decision <= Len(log)
  BY <1>1, <1>4 DEF IInv, UndecidedSets, ChoiceIsOnRecord, Current
<1>7. \A c \in Caller : local[c].at = "chosen" => local[c].decision \in 1..Len(log)
  BY DEF IInv, RecordersHold, Current
<1> QED
  BY <1>1, <1>2, <1>3, <1>4, <1>5, <1>6, <1>7

\* A step that leaves the offered set, the choice and the log alone.
LEMMA QuietStep ==
  ASSUME IInv, TypeOK', Keeps,
         goal'.options = goal.options, goal'.chosen = goal.chosen, log' = log
  PROVE  IInv'
<1> USE Facts
<1>1. ReferencesAreOld'
  BY DEF IInv, ReferencesAreOld, Keeps
<1>2. UndecidedSets'
  BY DEF IInv, UndecidedSets, Keeps
<1>3. Current' = Current
  BY DEF Current, Superseded
<1>4. RecordersHold'
  BY <1>3 DEF IInv, RecordersHold, Keeps, Current, Offered
<1>5. ChoosersMayDecide'
  BY DEF IInv, ChoosersMayDecide, Keeps
<1>6. ChoiceIsOnRecord'
  BY <1>3 DEF IInv, ChoiceIsOnRecord, Offered
<1> QED
  BY <1>1, <1>2, <1>4, <1>5, <1>6 DEF IInv

\* A step that puts on the row a set nobody has decided, one that came from the
\* row or refers to what the row referred to.
LEMMA OfferStep ==
  ASSUME IInv, TypeOK', Keeps, log' = log, goal'.chosen = None, goal'.options.decision = 0,
         \/ goal'.options.supersedes = 0
         \/ \E e \in Caller : goal'.options.supersedes = local[e].set.supersedes
  PROVE  IInv'
<1> USE Facts
<1>1. ReferencesAreOld'
  BY DEF IInv, ReferencesAreOld, Keeps
<1>2. UndecidedSets'
  BY DEF IInv, UndecidedSets, Keeps
<1>3. Current' = Current
  BY DEF Current, Superseded
<1>4. RecordersHold'
  <2> SUFFICES ASSUME NEW c \in Caller, local'[c].at = "chosen"
               PROVE  LET n == local[c].decision IN
                      /\ Offered(local[c].set) /\ local[c].option # None
                      /\ n \in Current /\ log[n].option = local[c].option
                      /\ goal'.options.supersedes # n /\ goal'.options.decision # n
                      /\ \A d \in Caller :
                           /\ local'[d].set.supersedes # n
                           /\ d # c /\ local'[d].at = "chosen" => local'[d].decision # n
    BY <1>3 DEF RecordersHold, Keeps, Offered
  <2> DEFINE n == local[c].decision
  <2>1. local'[c] = local[c] /\ local[c].at = "chosen"
    BY DEF Keeps
  <2>2. n \in Nat /\ n # 0
    BY <2>1
  <2>3. /\ Offered(local[c].set) /\ local[c].option # None
        /\ n \in Current /\ log[n].option = local[c].option
        /\ \A d \in Caller :
             /\ local[d].set.supersedes # n
             /\ d # c /\ local[d].at = "chosen" => local[d].decision # n
    BY <2>1 DEF IInv, RecordersHold
  <2> HIDE DEF n
  <2>4. goal'.options.supersedes # n /\ goal'.options.decision # n
    BY <2>2, <2>3
  <2>5. ASSUME NEW d \in Caller
        PROVE  /\ local'[d].set.supersedes # n
               /\ d # c /\ local'[d].at = "chosen" => local'[d].decision # n
    BY <2>2, <2>3 DEF Keeps
  <2> QED
    BY <2>3, <2>4, <2>5 DEF n
<1>5. ChoosersMayDecide'
  BY DEF IInv, ChoosersMayDecide, Keeps
<1>6. ChoiceIsOnRecord'
  BY DEF ChoiceIsOnRecord
<1> QED
  BY <1>1, <1>2, <1>4, <1>5, <1>6 DEF IInv

\* ReadPrior: what the row's choice was decided by is what its successor replaces.
LEMMA PriorStep ==
  ASSUME IInv, TypeOK', NEW c \in Caller, ReadPrior(c)
  PROVE  IInv'
<1> USE Facts
<1>1. UNCHANGED <<goal, log>>
  BY DEF ReadPrior
<1>2. ASSUME NEW d \in Caller, d # c PROVE local'[d] = local[d]
  <2>1. local \in [Caller -> Memory]
    BY DEF IInv, TypeOK
  <2>2. local' = [local EXCEPT ![c].at = "storing", ![c].set.supersedes = goal.options.decision]
    BY DEF ReadPrior
  <2> QED
    BY <2>1, <2>2, <1>2
<1>3. /\ local'[c].at = "storing" /\ local'[c].set.supersedes = goal.options.decision
      /\ local'[c].set.decision = local[c].set.decision
  BY DEF ReadPrior, IInv, TypeOK, Memory, Offer
<1>4. ReferencesAreOld'
  BY <1>1, <1>2, <1>3 DEF IInv, ReferencesAreOld
<1>5. UndecidedSets'
  BY <1>1, <1>2, <1>3 DEF IInv, UndecidedSets
<1>6. Current' = Current
  BY <1>1 DEF Current, Superseded
<1>7. RecordersHold'
  <2> SUFFICES ASSUME NEW e \in Caller, local[e].at = "chosen"
               PROVE  LET n == local[e].decision IN
                      \A d \in Caller :
                        /\ local'[d].set.supersedes # n
                        /\ d # e /\ local'[d].at = "chosen" => local'[d].decision # n
    BY <1>1, <1>2, <1>3, <1>6 DEF IInv, RecordersHold, Offered
  <2>1. /\ goal.options.decision # local[e].decision
        /\ \A d \in Caller :
             /\ local[d].set.supersedes # local[e].decision
             /\ d # e /\ local[d].at = "chosen" => local[d].decision # local[e].decision
    BY DEF IInv, RecordersHold
  <2> QED
    BY <2>1, <1>2, <1>3
<1>8. ChoosersMayDecide'
  BY <1>1, <1>2, <1>3 DEF IInv, ChoosersMayDecide, Offered
<1>9. ChoiceIsOnRecord'
  BY <1>1, <1>6 DEF IInv, ChoiceIsOnRecord, Offered
<1> QED
  BY <1>4, <1>5, <1>7, <1>8, <1>9 DEF IInv

\* ReadOffer: a set that is open has no decision, so nothing it refers to is one
\* the row shows.
LEMMA OpenStep ==
  ASSUME IInv, TypeOK', NEW c \in Caller, ReadOffer(c)
  PROVE  IInv'
<1> USE Facts
<1>1. UNCHANGED <<goal, log>> /\ Offered(goal.options) /\ goal.options.decision = 0
  BY DEF ReadOffer, Open, IInv, UndecidedSets
<1>2. ASSUME NEW d \in Caller, d # c PROVE local'[d] = local[d]
  <2>1. local \in [Caller -> Memory]
    BY DEF IInv, TypeOK
  <2>2. PICK o \in Option :
          local' = [local EXCEPT ![c].at = "choosing", ![c].set = goal.options, ![c].option = o]
    BY DEF ReadOffer
  <2> QED
    BY <2>1, <2>2, <1>2
<1>3. local'[c].at = "choosing" /\ local'[c].set = goal.options /\ local'[c].option \in Option
  BY DEF ReadOffer, IInv, TypeOK, Memory
<1>4. ReferencesAreOld'
  BY <1>1, <1>2, <1>3 DEF IInv, ReferencesAreOld
<1>5. UndecidedSets'
  BY <1>1, <1>2, <1>3 DEF IInv, UndecidedSets
<1>6. Current' = Current
  BY <1>1 DEF Current, Superseded
<1>7. RecordersHold'
  BY <1>1, <1>2, <1>3, <1>6 DEF IInv, RecordersHold, Offered
<1>8. ChoosersMayDecide'
  BY <1>1, <1>2, <1>3 DEF IInv, ChoosersMayDecide, Offered
<1>9. ChoiceIsOnRecord'
  BY <1>1, <1>6 DEF IInv, ChoiceIsOnRecord, Offered
<1> QED
  BY <1>4, <1>5, <1>7, <1>8, <1>9 DEF IInv

LEMMA EntryTypes ==
  ASSUME IInv, NEW m \in 1..Len(log)
  PROVE  log[m].supersedes \in Nat
<1>1. log \in Seq([option : Option, supersedes : Nat])
  BY DEF IInv, TypeOK
<1>2. ASSUME NEW T, NEW q \in Seq(T), NEW i \in 1..Len(q) PROVE q[i] \in T
  OBVIOUS
<1>3. log[m] \in [option : Option, supersedes : Nat]
  BY <1>1, <1>2
<1> QED
  BY <1>3

\* RecordDecision: the log's new entry is one no set refers to, and what it
\* supersedes is neither on the row nor on its way there.
LEMMA RecordStep ==
  ASSUME IInv, TypeOK', NEW c \in Caller, RecordDecision(c)
  PROVE  IInv'
<1> USE Facts
<1> DEFINE prior == local[c].set.supersedes
           entry == [option |-> local[c].option, supersedes |-> prior]
           new == Len(log) + 1
<1>1. UNCHANGED goal /\ log' = Append(log, entry) /\ local[c].at = "choosing"
  BY DEF RecordDecision, At
<1>2. Len(log') = new /\ log'[new] = entry /\ \A m \in 1..Len(log) : log'[m] = log[m]
  BY <1>1 DEF IInv, TypeOK
<1>3. entry.option = local[c].option /\ entry.supersedes = prior
  OBVIOUS
<1>4. ASSUME NEW d \in Caller, d # c PROVE local'[d] = local[d]
  <2>1. local \in [Caller -> Memory]
    BY DEF IInv, TypeOK
  <2>2. local' = [local EXCEPT ![c].at = "chosen", ![c].decision = Len(log) + 1]
    BY DEF RecordDecision
  <2> QED
    BY <2>1, <2>2, <1>4
<1>5. /\ local'[c].at = "chosen" /\ local'[c].decision = new
      /\ local'[c].set = local[c].set /\ local'[c].option = local[c].option
  BY DEF RecordDecision, IInv, TypeOK, Memory
<1>6. new \in Nat /\ new > Len(log) /\ prior \in Nat /\ prior <= Len(log)
  BY DEF IInv, ReferencesAreOld
<1> HIDE DEF prior, entry, new
<1>7. ASSUME NEW n \in 1..new, n # prior, n \in Current \/ n = new
      PROVE  n \in Current'
  <2> SUFFICES ASSUME NEW m \in 1..new PROVE log'[m].supersedes # n
    BY <1>2 DEF Current, Superseded
  <2>1. CASE m = new
    BY <2>1, <1>2, <1>3, <1>7
  <2>2. CASE m # new
    <3>1. m \in 1..Len(log) /\ log'[m] = log[m] /\ log[m].supersedes <= Len(log)
      BY <2>2, <1>2, <1>6 DEF new, IInv, ReferencesAreOld
    <3>2. log[m].supersedes \in Nat
      BY <3>1, EntryTypes
    <3>3. CASE n = new
      BY <3>1, <3>2, <3>3, <1>6
    <3>4. CASE n \in Current
      BY <3>1, <3>4 DEF Current, Superseded
    <3> QED
      BY <1>7, <3>3, <3>4
  <2> QED
    BY <2>1, <2>2
<1>8. ReferencesAreOld'
  <2>1. ASSUME NEW m \in 1..new PROVE log'[m].supersedes <= new
    <3>1. CASE m = new
      BY <3>1, <1>2, <1>3, <1>6
    <3>2. CASE m # new
      <4>1. m \in 1..Len(log) /\ log'[m] = log[m] /\ log[m].supersedes <= Len(log)
        BY <3>2, <1>2, <1>6 DEF new, IInv, ReferencesAreOld
      <4>2. log[m].supersedes \in Nat
        BY <4>1, EntryTypes
      <4> QED
        BY <4>1, <4>2, <1>6
    <3> QED
      BY <3>1, <3>2
  <2>2. ASSUME NEW d \in Caller PROVE local'[d].set.supersedes <= new
    BY <1>4, <1>5, <1>6 DEF IInv, ReferencesAreOld
  <2>3. goal'.options.supersedes <= new
    BY <1>1, <1>6 DEF IInv, ReferencesAreOld
  <2> QED
    BY <2>1, <2>2, <2>3, <1>2 DEF ReferencesAreOld
<1>9. UndecidedSets'
  BY <1>1, <1>4, <1>5 DEF IInv, UndecidedSets
<1>10. RecordersHold'
  <2>1. ASSUME NEW d \in Caller, d # c, local[d].at = "chosen"
        PROVE  LET n == local[d].decision IN
               /\ Offered(local[d].set) /\ local[d].option # None
               /\ n \in Current' /\ log'[n].option = local[d].option
               /\ goal'.options.supersedes # n /\ goal'.options.decision # n
               /\ \A e \in Caller :
                    /\ local'[e].set.supersedes # n
                    /\ e # d /\ local'[e].at = "chosen" => local'[e].decision # n
    <3> DEFINE n == local[d].decision
    <3>1. n \in 1..Len(log)
      BY <2>1
    <3>2. /\ Offered(local[d].set) /\ local[d].option # None
          /\ n \in Current /\ log[n].option = local[d].option
          /\ goal.options.supersedes # n /\ goal.options.decision # n
          /\ \A e \in Caller :
               /\ local[e].set.supersedes # n
               /\ e # d /\ local[e].at = "chosen" => local[e].decision # n
      BY <2>1 DEF IInv, RecordersHold
    <3> HIDE DEF n
    <3>3. n # prior /\ n \in 1..new /\ n # new
      BY <3>1, <3>2, <1>6 DEF prior, new
    <3>4. n \in Current'
      BY <3>2, <3>3, <1>7
    <3>5. ASSUME NEW e \in Caller
          PROVE  /\ local'[e].set.supersedes # n
                 /\ e # d /\ local'[e].at = "chosen" => local'[e].decision # n
      BY <3>2, <3>3, <1>4, <1>5
    <3> QED
      BY <3>1, <3>2, <3>4, <3>5, <1>1, <1>2 DEF n
  <2>2. /\ Offered(local'[c].set) /\ local'[c].option # None
        /\ new \in Current' /\ log'[new].option = local'[c].option
        /\ goal'.options.supersedes # new /\ goal'.options.decision # new
        /\ \A e \in Caller :
             /\ local'[e].set.supersedes # new
             /\ e # c /\ local'[e].at = "chosen" => local'[e].decision # new
    <3>1. Offered(local'[c].set) /\ local'[c].option # None
      BY <1>1, <1>5, PlanningAssumption DEF IInv, ChoosersMayDecide, Offered
    <3>2. new \in Current' /\ log'[new].option = local'[c].option
      BY <1>2, <1>3, <1>5, <1>6, <1>7
    <3>3. goal'.options.supersedes # new /\ goal'.options.decision # new
      BY <1>1, <1>6 DEF IInv, ReferencesAreOld
    <3>4. ASSUME NEW e \in Caller
          PROVE  /\ local'[e].set.supersedes # new
                 /\ e # c /\ local'[e].at = "chosen" => local'[e].decision # new
      BY <1>4, <1>5, <1>6 DEF IInv, ReferencesAreOld
    <3> QED
      BY <3>1, <3>2, <3>3, <3>4
  <2> SUFFICES ASSUME NEW d \in Caller, local'[d].at = "chosen"
               PROVE  LET n == local'[d].decision IN
                      /\ Offered(local'[d].set) /\ local'[d].option # None
                      /\ n \in Current' /\ log'[n].option = local'[d].option
                      /\ goal'.options.supersedes # n /\ goal'.options.decision # n
                      /\ \A e \in Caller :
                           /\ local'[e].set.supersedes # n
                           /\ e # d /\ local'[e].at = "chosen" => local'[e].decision # n
    BY DEF RecordersHold, Offered
  <2>3. CASE d = c
    BY <2>2, <2>3, <1>5
  <2>4. CASE d # c
    <3>1. local'[d] = local[d] /\ local[d].at = "chosen"
      BY <2>4, <1>4
    <3> QED
      BY <2>1, <2>4, <3>1
  <2> QED
    BY <2>3, <2>4
<1>11. ChoosersMayDecide'
  BY <1>1, <1>4, <1>5 DEF IInv, ChoosersMayDecide, Offered
<1>12. ChoiceIsOnRecord'
  <2> SUFFICES ASSUME goal.chosen # None
               PROVE  /\ Offered(goal.options) /\ goal.options.decision \in Current'
                      /\ log'[goal.options.decision].option = goal.chosen
    BY <1>1 DEF ChoiceIsOnRecord, Offered
  <2>1. /\ Offered(goal.options) /\ goal.options.decision \in Current
        /\ log[goal.options.decision].option = goal.chosen
    BY DEF IInv, ChoiceIsOnRecord
  <2>2. goal.options.decision \in 1..Len(log)
    BY <2>1 DEF Current
  <2>3. goal.options.decision # prior
    BY <1>1, <2>2 DEF prior, IInv, ChoosersMayDecide
  <2>4. goal.options.decision \in 1..new
    BY <2>2, <1>6
  <2> QED
    BY <2>1, <2>2, <2>3, <2>4, <1>2, <1>7
<1> QED
  BY <1>8, <1>9, <1>10, <1>11, <1>12 DEF IInv

\* WriteChoice: the decision that comes onto the row is one no set refers to.
LEMMA WriteStep ==
  ASSUME IInv, TypeOK', NEW c \in Caller, WriteChoice(c)
  PROVE  IInv'
<1> USE Facts
<1> DEFINE n == local[c].decision
<1>1. UNCHANGED log /\ local[c].at = "chosen" /\ Done(c)
  BY DEF WriteChoice, At
<1>2. Keeps
  BY <1>1, DoneKeeps DEF IInv
<1>3. /\ goal'.options = [local[c].set EXCEPT !.decision = n]
      /\ goal'.chosen = local[c].option
  BY DEF WriteChoice, IInv, TypeOK, Row
<1>4. /\ goal'.options.decision = n
      /\ goal'.options.supersedes = local[c].set.supersedes
      /\ goal'.options.against = local[c].set.against
  BY <1>3 DEF Offer
<1>5. /\ Offered(local[c].set) /\ local[c].option # None
      /\ n \in Current /\ log[n].option = local[c].option
      /\ \A d \in Caller :
           /\ local[d].set.supersedes # n
           /\ d # c /\ local[d].at = "chosen" => local[d].decision # n
  BY <1>1 DEF IInv, RecordersHold
<1>6. ASSUME NEW d \in Caller PROVE local'[d] = IF d = c THEN Idle ELSE local[d]
  BY <1>1 DEF Done, IInv, TypeOK
<1> HIDE DEF n
<1>7. Current' = Current
  BY <1>1 DEF Current, Superseded
<1>8. ReferencesAreOld'
  BY <1>1, <1>2, <1>4 DEF IInv, ReferencesAreOld, Keeps
<1>9. UndecidedSets'
  BY <1>2, <1>3, <1>5 DEF IInv, UndecidedSets, Keeps
<1>10. RecordersHold'
  <2> SUFFICES ASSUME NEW d \in Caller, local'[d].at = "chosen"
               PROVE  LET k == local[d].decision IN
                      /\ Offered(local[d].set) /\ local[d].option # None
                      /\ k \in Current /\ log[k].option = local[d].option
                      /\ goal'.options.supersedes # k /\ goal'.options.decision # k
                      /\ \A e \in Caller :
                           /\ local'[e].set.supersedes # k
                           /\ e # d /\ local'[e].at = "chosen" => local'[e].decision # k
    BY <1>1, <1>2, <1>7 DEF RecordersHold, Keeps, Offered
  <2> DEFINE k == local[d].decision
  <2>1. local'[d] = local[d] /\ local[d].at = "chosen" /\ d # c
    BY <1>2, <1>6 DEF Keeps, Idle
  <2>2. /\ Offered(local[d].set) /\ local[d].option # None
        /\ k \in Current /\ log[k].option = local[d].option
        /\ \A e \in Caller :
             /\ local[e].set.supersedes # k
             /\ e # d /\ local[e].at = "chosen" => local[e].decision # k
    BY <2>1 DEF IInv, RecordersHold
  <2>3. k \in Nat /\ k # 0
    BY <2>1
  <2>4. n # k
    BY <2>1, <2>2, <1>1 DEF n
  <2> HIDE DEF k
  <2>5. goal'.options.supersedes # k /\ goal'.options.decision # k
    BY <2>2, <2>4, <1>4
  <2>6. ASSUME NEW e \in Caller
        PROVE  /\ local'[e].set.supersedes # k
               /\ e # d /\ local'[e].at = "chosen" => local'[e].decision # k
    BY <2>2, <2>3, <1>2 DEF Keeps
  <2> QED
    BY <2>2, <2>5, <2>6 DEF k
<1>11. ChoosersMayDecide'
  BY <1>2, <1>4, <1>5 DEF IInv, ChoosersMayDecide, Keeps
<1>12. ChoiceIsOnRecord'
  BY <1>1, <1>3, <1>4, <1>5, <1>7 DEF ChoiceIsOnRecord, Offered
<1> QED
  BY <1>8, <1>9, <1>10, <1>11, <1>12 DEF IInv

LEMMA InitInductive == Init => IInv
<1> SUFFICES ASSUME Init PROVE IInv
  OBVIOUS
<1>1. goal.options = NoOffer /\ goal.chosen = None /\ Len(log) = 0
  BY DEF Init
<1>2. \A c \in Caller : local[c] = Idle
  BY DEF Init
<1> QED
  BY <1>1, <1>2, InitTypes DEF IInv, ReferencesAreOld, UndecidedSets, RecordersHold,
     ChoosersMayDecide, ChoiceIsOnRecord, NoOffer, Idle

LEMMA NextInductive == IInv /\ [Next]_vars => IInv'
<1> SUFFICES ASSUME IInv, [Next]_vars PROVE IInv'
  OBVIOUS
<1>0. TypeOK /\ TypeOK'
  BY NextTypes DEF IInv
<1> USE <1>0
<1>1. ASSUME NEW c \in Caller, Planning(c) PROVE IInv'
  <2>1. CASE BeginPlan(c)
    BY <2>1, StepKeeps, QuietStep DEF BeginPlan, Step
  <2>2. CASE Ask(c)
    <3>1. goal'.options = goal.options /\ goal'.chosen = goal.chosen
      BY <2>2 DEF Ask, TypeOK, Row
    <3> QED
      BY <2>2, <3>1, DoneKeeps, QuietStep DEF Ask
  <2>3. CASE DropQuestion(c)
    <3>1. goal'.options = goal.options /\ goal'.chosen = goal.chosen
      BY <2>3 DEF DropQuestion, TypeOK, Row
    <3> QED
      BY <2>3, <3>1, StepKeeps, QuietStep DEF DropQuestion, Step
  <2>4. CASE Apply(c)
    BY <2>4, DoneKeeps, QuietStep DEF Apply
  <2> QED
    BY <1>1, <2>1, <2>2, <2>3, <2>4 DEF Planning
<1>2. ASSUME NEW c \in Caller, Settling(c) PROVE IInv'
  <2>1. CASE ReadQuestion(c)
    <3>1. ASSUME NEW d \in Caller
          PROVE  IF d = c THEN local'[d] = [local[c] EXCEPT !.at = "answering", !.question = goal.question]
                          ELSE local'[d] = local[d]
      BY <2>1 DEF ReadQuestion, TypeOK
    <3>2. local'[c].at = "answering" /\ local'[c].set = local[c].set
      BY <3>1 DEF TypeOK, Memory
    <3>3. Keeps
      BY <3>1, <3>2 DEF Keeps
    <3> QED
      BY <2>1, <3>3, QuietStep DEF ReadQuestion
  <2>2. CASE Answer(c)
    <3>1. goal'.options = goal.options /\ goal'.chosen = goal.chosen
      BY <2>2 DEF Answer, TypeOK, Row
    <3> QED
      BY <2>2, <3>1, DoneKeeps, QuietStep DEF Answer
  <2>3. CASE StateCriteria(c)
    <3>1. goal'.options = NoOffer /\ goal'.chosen = None
      BY <2>3 DEF StateCriteria, TypeOK, Row
    <3>2. Keeps
      BY <2>3 DEF StateCriteria, Keeps
    <3> QED
      BY <2>3, <3>1, <3>2, OfferStep DEF StateCriteria, NoOffer
  <2>4. CASE BeginOffer(c)
    <3>1. ASSUME NEW d \in Caller, d # c PROVE local'[d] = local[d]
      <4>1. local \in [Caller -> Memory]
        BY DEF TypeOK
      <4>2. local' = [local EXCEPT ![c].at = "offering", ![c].set.against = goal.criteria]
        BY <2>4 DEF BeginOffer
      <4> QED
        BY <4>1, <4>2, <3>1
    <3>2. /\ local'[c].at = "offering"
          /\ local'[c].set.supersedes = local[c].set.supersedes
          /\ local'[c].set.decision = local[c].set.decision
      BY <2>4 DEF BeginOffer, TypeOK, Memory, Offer
    <3>3. Keeps
      BY <3>1, <3>2 DEF Keeps
    <3> QED
      BY <2>4, <3>3, QuietStep DEF BeginOffer
  <2>5. CASE ReadPrior(c)
    BY <2>5, PriorStep
  <2>6. CASE StoreOptions(c)
    <3>1. PICK material \in BOOLEAN :
            goal' = [goal EXCEPT !.options = [local[c].set EXCEPT !.material = material], !.chosen = None]
      BY <2>6 DEF StoreOptions
    <3>2. local[c].set \in Offer /\ local[c].set.decision = 0
      BY DEF IInv, TypeOK, Memory, UndecidedSets
    <3>3. goal'.options = [local[c].set EXCEPT !.material = material] /\ goal'.chosen = None
      BY <3>1 DEF TypeOK, Row
    <3>4. goal'.options.decision = 0 /\ goal'.options.supersedes = local[c].set.supersedes
      BY <3>2, <3>3 DEF Offer
    <3> QED
      BY <2>6, <3>3, <3>4, DoneKeeps, OfferStep DEF StoreOptions
  <2>7. CASE ReadOffer(c)
    BY <2>7, OpenStep
  <2>8. CASE RecordDecision(c)
    BY <2>8, RecordStep
  <2>9. CASE WriteChoice(c)
    BY <2>9, WriteStep
  <2> QED
    BY <1>2, <2>1, <2>2, <2>3, <2>4, <2>5, <2>6, <2>7, <2>8, <2>9 DEF Settling
<1>3. ASSUME NEW c \in Caller, Starting(c) PROVE IInv'
  <2>1. CASE GateOnClarification(c)
    BY <2>1, StepKeeps, QuietStep DEF GateOnClarification, Step
  <2>2. CASE GateOnOptions(c)
    BY <2>2, StepKeeps, QuietStep DEF GateOnOptions, Step
  <2>3. CASE Activate(c)
    <3>1. goal'.options = goal.options /\ goal'.chosen = goal.chosen
      BY <2>3 DEF Activate, TypeOK, Row
    <3> QED
      BY <2>3, <3>1, DoneKeeps, QuietStep DEF Activate
  <2> QED
    BY <1>3, <2>1, <2>2, <2>3 DEF Starting
<1>4. ASSUME NEW c \in Caller, GiveUp(c) PROVE IInv'
  BY <1>4, DoneKeeps, QuietStep DEF GiveUp
<1>5. ASSUME NEW k \in Key, Work(k) PROVE IInv'
  <2>1. Keeps
    BY <1>5 DEF Work, Keeps
  <2> QED
    BY <1>5, <2>1, QuietStep DEF Work
<1>6. CASE UNCHANGED vars
  <2>1. Keeps
    BY <1>6 DEF vars, Keeps
  <2> QED
    BY <1>6, <2>1, QuietStep DEF vars
<1> QED
  BY <1>1, <1>2, <1>3, <1>4, <1>5, <1>6 DEF Next

\* The choice a goal shows is the one its offered set was decided by, it is in
\* the log, and nothing there has replaced it: for any number of callers that
\* offer, choose, restate and die between any two of their statements.
THEOREM ChoiceStandsOnRecord == Spec => []ChoiceIsOnRecord
<1>1. IInv => ChoiceIsOnRecord
  BY DEF IInv
<1> QED
  BY <1>1, InitInductive, NextInductive, PTL DEF Spec

-----------------------------------------------------------------------------

LEMMA RankIs ==
  /\ Rank["none"] = 0 /\ Rank["pending"] = 1 /\ Rank["ready"] = 2 /\ Rank["succeeded"] = 3
  BY DEF Rank

\* Promote takes nothing back.
LEMMA PromoteKeeps ==
  ASSUME NEW ts \in [Key -> Status], NEW deps, NEW k \in Key
  PROVE  Rank[ts[k]] <= Rank[Promote(ts, deps)[k]]
<1>1. Promote(ts, deps)[k] = ts[k] \/ (ts[k] = "pending" /\ Promote(ts, deps)[k] = "ready")
  BY DEF Promote
<1> QED
  BY <1>1, RankIs DEF Status

\* Whatever plans land beside each other, and however late, no task loses what
\* it has come to.
THEOREM ProgressKept == Spec => WorkIsKept
<1>1. TypeOK /\ [Next]_vars => [\A k \in Key : Rank[tasks[k]] <= Rank[tasks'[k]]]_vars
  <2> SUFFICES ASSUME TypeOK, Next, NEW k \in Key PROVE Rank[tasks[k]] <= Rank[tasks'[k]]
    OBVIOUS
  <2>1. CASE tasks' = tasks
    BY <2>1, RankIs DEF TypeOK, Status
  <2>2. ASSUME NEW c \in Caller, Apply(c) PROVE Rank[tasks[k]] <= Rank[tasks'[k]]
    <3>1. PICK p \in Plan : tasks' = Promote(Reuse(p), edges \cup p.deps)
      BY <2>2 DEF Apply, BuildPlan
    <3>2. Reuse(p) \in [Key -> Status] /\ (Reuse(p)[k] = tasks[k] \/ tasks[k] = "none")
      BY DEF Reuse, Status, TypeOK
    <3>3. Rank[Reuse(p)[k]] <= Rank[tasks'[k]]
      BY <3>1, <3>2, PromoteKeeps
    <3>4. tasks'[k] \in Status
      BY <3>1, <3>2, PromoteTypes
    <3> QED
      BY <3>2, <3>3, <3>4, RankIs DEF Status
  <2>3. ASSUME NEW j \in Key, Work(j) PROVE Rank[tasks[k]] <= Rank[tasks'[k]]
    <3> DEFINE done == [tasks EXCEPT ![j] = "succeeded"]
    <3>1. done \in [Key -> Status] /\ (done[k] = tasks[k] \/ done[k] = "succeeded")
      BY DEF Status, TypeOK
    <3>2. tasks' = Promote(done, edges)
      BY <2>3 DEF Work
    <3> HIDE DEF done
    <3>3. tasks' \in [Key -> Status]
      BY <3>1, <3>2, PromoteTypes
    <3>4. tasks[k] \in Status /\ tasks'[k] \in Status
      BY <3>3 DEF TypeOK
    <3>5. Rank[done[k]] <= Rank[tasks'[k]]
      BY <3>1, <3>2, PromoteKeeps
    <3> QED
      BY <3>1, <3>4, <3>5, RankIs DEF Status
  <2> QED
    BY <2>1, <2>2, <2>3 DEF Next, Planning, Settling, Starting, BeginPlan, Ask, DropQuestion,
       ReadQuestion, Answer, StateCriteria, BeginOffer, ReadPrior, StoreOptions, ReadOffer,
       RecordDecision, WriteChoice, GateOnClarification, GateOnOptions, Activate, GiveUp
<1> QED
  BY <1>1, TypeCorrect, PTL DEF Spec, WorkIsKept

=============================================================================

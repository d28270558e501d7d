---------------------------- MODULE ToolLoopProofs ----------------------------
(* The ledger and the checkpoints of ToolLoop, for any set of calls and any *)
(* limits.                                                                  *)
EXTENDS ToolLoop, SequenceTheorems, TLAPS

\* The calls that are left after the one in hand.
LEMMA NextCall ==
  ASSUME NEW s \in Seq(Call), s # <<>>
  PROVE  /\ Head(s) \in Call /\ Tail(s) \in Seq(Call)
         /\ Len(s) \in Nat \ {0} /\ Len(Tail(s)) = Len(s) - 1
BY HeadTailProperties

\* A batch the model asked for is a sequence of as many calls.
LEMMA Batch ==
  ASSUME NEW n \in Nat, NEW calls \in [1..n -> Call]
  PROVE  calls \in Seq(Call) /\ Len(calls) = n
<1>1. calls \in Seq(Call)
  BY SeqDef
<1> QED BY <1>1, LenProperties

\* Every row of the ledger is one recordToolCall can write.
LEMMA RowType ==
  ASSUME NEW c \in Call, NEW s \in RowStatus, ledger \in [Call -> Row \cup {None}]
  PROVE  WithRow(c, s) \in [Call -> Row \cup {None}]
BY DEF WithRow, Row

\* While a call is in hand there is one.
HandIsFull ==
  /\ at \in {"admitted", "cleared", "ran"} => batch # <<>>
  /\ at = "ran" => came \in {"succeeded", "failed"}

Typed == TypeOK /\ HandIsFull

\* Every variable keeps its type, and the loop never runs a call it has not got.
THEOREM TypeCorrect == Spec => []Typed
<1>1. Init => Typed
  <2> SUFFICES ASSUME Init PROVE Typed
    OBVIOUS
  <2>1. ledger \in [Call -> Row \cup {None}] /\ runs \in [Call -> Nat] /\ batch \in Seq(Call)
    BY DEF Init
  <2> QED BY <2>1 DEF Init, Typed, TypeOK, HandIsFull, Told
<1>2. Typed /\ [Next]_vars => Typed'
  <2> SUFFICES ASSUME Typed, [Next]_vars PROVE Typed'
    OBVIOUS
  <2> USE LoopAssumption DEF Typed, TypeOK, HandIsFull, loop, kept, past, Leave
  <2>0. <<>> \in Seq(Call)
    BY EmptySeq
  <2>1. CASE Begin
    <3>1. batch' \in Seq(Call) /\ granted' \subseteq Call
      BY <2>0, <2>1 DEF Begin
    <3>2. saved' \subseteq Told /\ talk' \subseteq Told /\ gaps' \subseteq Call
      BY <2>1 DEF Begin
    <3>3. ledger' \in [Call -> Row \cup {None}] /\ runs' \in [Call -> Nat]
      BY <2>1 DEF Begin
    <3>4. attempt' \in Nat
      BY <2>1 DEF Begin
    <3>6. iteration' = 0 /\ made' = 0 /\ stopped' = FALSE
      BY <2>1 DEF Begin
    <3>5. at' = "model" /\ came' = None
      BY <2>1 DEF Begin
    <3> QED BY <3>1, <3>2, <3>3, <3>4, <3>5, <3>6
  <2>2. CASE AskModel
    <3>1. PICK n \in 1..MaxToolCalls : \E calls \in [1..n -> Call] : batch' = calls
      BY <2>2 DEF AskModel
    <3>2. batch' \in Seq(Call)
      BY <3>1, Batch
    <3> QED BY <2>2, <3>2 DEF AskModel
  <2>3. CASE EndAttempt
    BY <2>0, <2>3 DEF EndAttempt
  <2>4. CASE TakeCall
    BY <2>4 DEF TakeCall
  <2>5. CASE AbandonTools
    BY <2>0, <2>5 DEF AbandonTools
  <2>6. ASSUME NEW a \in Answers, batch # <<>>, Tell(a)
        PROVE  /\ talk' \subseteq Told /\ batch' \in Seq(Call) /\ at' = "tools" /\ came' = None
               /\ granted' = granted /\ iteration' = iteration /\ made' = made /\ stopped' = stopped
    BY <2>6, NextCall DEF Tell, Told
  <2>7. CASE RefuseCall
    <3>1. batch # <<>> /\ Tell("refused")
      BY <2>7 DEF RefuseCall
    <3>2. ledger' \in [Call -> Row \cup {None}]
      <4>1. Head(batch) \in Call /\ "refused" \in RowStatus
        BY <3>1, NextCall DEF RowStatus
      <4>2. ledger' = WithRow(Head(batch), "refused") \/ ledger' = ledger
        BY <2>7 DEF RefuseCall
      <4> QED BY <4>1, <4>2, RowType
    <3>3. UNCHANGED <<saved, past>>
      BY <2>7 DEF RefuseCall
    <3>4. "refused" \in Answers
      BY DEF Answers
    <3> QED BY <2>6, <3>1, <3>2, <3>3, <3>4
  <2>8. CASE LookUp
    <3>1. CASE Tell("succeeded")
      BY <2>6, <2>8, <3>1 DEF LookUp, Answers
    <3>2. CASE at' = "cleared" /\ UNCHANGED <<granted, batch, came, iteration, made, stopped, talk>>
      BY <2>8, <3>2 DEF LookUp
    <3> QED BY <2>8, <3>1, <3>2 DEF LookUp
  <2>9. CASE RunTool
    <3>1. Head(batch) \in Call
      BY <2>9, NextCall DEF RunTool
    <3>2. runs' \in [Call -> Nat]
      BY <2>9, <3>1 DEF RunTool
    <3> QED BY <2>9, <3>2 DEF RunTool
  <2>10. CASE RecordCall
    <3>1. batch # <<>> /\ Head(batch) \in Call /\ came \in RowStatus /\ came \in Answers
      BY <2>10, NextCall DEF RecordCall, RowStatus, Answers
    <3>2. gaps' \subseteq Call /\ ledger' \in [Call -> Row \cup {None}]
      BY <2>10, <3>1, RowType DEF RecordCall, Write
    <3>3. \E a \in Answers : Tell(a)
      BY <2>10, <3>1 DEF RecordCall, Answers
    <3> QED BY <2>6, <2>10, <3>1, <3>2, <3>3 DEF RecordCall
  <2>11. CASE Checkpoint
    BY <2>11 DEF Checkpoint
  <2>12. CASE Stop
    BY <2>12 DEF Stop
  <2>13. CASE Crash
    BY <2>0, <2>13, NextCall DEF Crash
  <2>14. CASE UNCHANGED vars
    BY <2>14 DEF vars
  <2> QED BY <2>1, <2>2, <2>3, <2>4, <2>5, <2>7, <2>8, <2>9, <2>10, <2>11, <2>12, <2>13, <2>14 DEF Next
<1> QED BY <1>1, <1>2, PTL DEF Spec

\* Every variable keeps its type, whatever crashes, stops and refused writes the
\* loop meets.
COROLLARY TypesHold == Spec => []TypeOK
<1>1. Typed => TypeOK
  BY DEF Typed
<1> QED BY <1>1, TypeCorrect, PTL
-----------------------------------------------------------------------------
(* What ran, what was recorded and what was told                            *)

\* The call in hand had its effect if it came back as succeeded.
HandIsTrue == at = "ran" /\ came = "succeeded" => runs[Head(batch)] > 0

\* Only a stopped attempt tells its model that a call was stopped.
StopIsTold == \A c \in Call : <<c, "stopped">> \in talk => stopped

LedgerInv ==
  HandIsTrue /\ StopIsTold /\ ClaimsAreTrue /\ EffectsLeaveARow /\ ResumeTellsNoStop

\* The first row of a key keeps its place, and one is there afterwards.
LEMMA RowKept ==
  ASSUME NEW c \in Call, NEW s \in RowStatus, ledger \in [Call -> Row \cup {None}]
  PROVE  /\ WithRow(c, s)[c] # None
         /\ \A d \in Call : ledger[d] # None => WithRow(c, s)[d] = ledger[d]
         /\ \A d \in Call : d # c => WithRow(c, s)[d] = ledger[d]
         /\ ledger[c] = None => WithRow(c, s)[c].status = s
<1>1. [status |-> s, output |-> None] # None
  BY LoopAssumption DEF Row
<1> QED BY <1>1 DEF WithRow, Recorded

\* Nothing the loop does leaves an effect without a row, but a crash, a stop
\* that hides how a call ended, or a database that fails the write; what the
\* ledger, the model or a resumed attempt is told did happen; and a resumed
\* attempt is never told of a stop.
THEOREM LedgerKept == Spec => [](ClaimsAreTrue /\ EffectsLeaveARow /\ ResumeTellsNoStop)
<1>1. Init => LedgerInv
  BY DEF Init, LedgerInv, HandIsTrue, StopIsTold, ClaimsAreTrue, EffectsLeaveARow,
         ResumeTellsNoStop, Standing, Says, Recorded
<1>2. Typed /\ Typed' /\ LedgerInv /\ [Next]_vars => LedgerInv'
  <2> SUFFICES ASSUME Typed, Typed', LedgerInv, [Next]_vars PROVE LedgerInv'
    OBVIOUS
  <2> USE LoopAssumption DEF Typed, TypeOK, HandIsFull, loop, kept, past, LedgerInv,
        HandIsTrue, StopIsTold, ClaimsAreTrue, EffectsLeaveARow, ResumeTellsNoStop,
        Standing, Says, Recorded, InHand
  <2>1. CASE Begin
    BY <2>1 DEF Begin
  <2>2. CASE AskModel
    BY <2>2 DEF AskModel
  <2>3. CASE EndAttempt
    BY <2>3 DEF EndAttempt, Leave
  <2>4. CASE TakeCall
    BY <2>4 DEF TakeCall
  <2>5. CASE AbandonTools
    BY <2>5 DEF AbandonTools, Leave
  <2>6. CASE RefuseCall
    <3>1. /\ talk' = talk \cup {<<Head(batch), "refused">>} /\ at' = "tools" /\ stopped' = stopped
          /\ saved' = saved /\ runs' = runs /\ gaps' = gaps /\ at # "ran" /\ batch # <<>>
      BY <2>6 DEF RefuseCall, Tell
    <3>2. ledger' = WithRow(Head(batch), "refused") \/ ledger' = ledger
      BY <2>6 DEF RefuseCall
    <3>3. \A c \in Call : /\ ledger[c] # None => ledger'[c] = ledger[c]
                          /\ ledger[c] = None /\ ledger'[c] # None => ledger'[c].status = "refused"
      BY <3>1, <3>2, NextCall, RowKept DEF RowStatus
    <3>4. ClaimsAreTrue' /\ EffectsLeaveARow'
      BY <3>1, <3>3
    <3> QED BY <3>1, <3>4
  <2>7. CASE LookUp
    <3>1. CASE Found(Head(batch)) /\ Tell("succeeded")
      <4>1. Head(batch) \in Call /\ runs[Head(batch)] > 0 /\ at # "ran"
        BY <2>7, <3>1, NextCall DEF LookUp, Found
      <4> QED BY <2>7, <3>1, <4>1 DEF LookUp, Tell
    <3>2. CASE at' = "cleared" /\ UNCHANGED <<granted, batch, came, iteration, made, stopped, talk>>
      BY <2>7, <3>2 DEF LookUp
    <3> QED BY <2>7, <3>1, <3>2 DEF LookUp
  <2>8. CASE RunTool
    <3>1. Head(batch) \in Call /\ at = "cleared" /\ at' = "ran" /\ batch' = batch
          /\ UNCHANGED <<talk, stopped, saved, ledger, gaps>>
      BY <2>8, NextCall DEF RunTool
    <3>2. \/ runs' = [runs EXCEPT ![Head(batch)] = @ + 1]
          \/ came' = "failed" /\ runs' = runs
      BY <2>8 DEF RunTool
    <3>3. /\ \A c \in Call : runs[c] > 0 => runs'[c] > 0
          /\ \A c \in Call \ {Head(batch)} : runs'[c] = runs[c]
          /\ came' = "succeeded" => runs'[Head(batch)] > 0
      <4>1. CASE runs' = [runs EXCEPT ![Head(batch)] = @ + 1]
        <5>1. runs[Head(batch)] \in Nat /\ runs'[Head(batch)] = runs[Head(batch)] + 1
          BY <3>1, <4>1
        <5>2. \A c \in Call \ {Head(batch)} : runs'[c] = runs[c]
          BY <4>1
        <5>3. runs'[Head(batch)] > 0
          BY <5>1
        <5>4. ASSUME NEW c \in Call, runs[c] > 0 PROVE runs'[c] > 0
          <6>1. CASE c = Head(batch)
            BY <5>3, <6>1
          <6>2. CASE c # Head(batch)
            BY <5>2, <5>4, <6>2
          <6> QED BY <6>1, <6>2
        <5> QED BY <5>2, <5>3, <5>4
      <4>2. CASE came' = "failed" /\ runs' = runs
        BY <4>2
      <4> QED BY <3>2, <4>1, <4>2
    <3> QED BY <3>1, <3>3
  <2>9. CASE RecordCall
    <3> DEFINE c == Head(batch)
    <3>1. c \in Call /\ at = "ran" /\ runs' = runs /\ saved' = saved /\ came \in RowStatus
      BY <2>9, NextCall DEF RecordCall, RowStatus
    <3>2. CASE CutShort
      BY <2>9, <3>1, <3>2 DEF RecordCall, CutShort, Tell
    <3>3. CASE ~CutShort
      <4>1. /\ talk' = talk \cup {<<c, came>>} /\ at' = "tools" /\ stopped' = stopped
            /\ came \in {"succeeded", "failed"}
        BY <2>9, <3>3 DEF RecordCall, Tell
      <4>2. \/ ledger' = WithRow(c, came) /\ gaps' = gaps
            \/ ledger' = ledger /\ gaps' = gaps \cup {c}
        BY <2>9, <3>3 DEF RecordCall, Write
      <4>3. /\ \A d \in Call : ledger[d] # None => ledger'[d] = ledger[d]
            /\ \A d \in Call : d # c => ledger'[d] = ledger[d]
            /\ ledger'[c] # None \/ c \in gaps'
            /\ ledger[c] = None /\ ledger'[c] # None => ledger'[c].status = came
        BY <3>1, <4>2, RowKept
      <4>4. EffectsLeaveARow'
        BY <3>1, <4>1, <4>2, <4>3
      <4>5. came = "succeeded" => runs[c] > 0
        BY <3>1
      <4>6. \A d \in Call : Says(d, "succeeded")' => runs'[d] > 0
        BY <3>1, <4>3, <4>5
      <4>7. ClaimsAreTrue'
        BY <3>1, <4>1, <4>5, <4>6
      <4> QED BY <3>1, <4>1, <4>4, <4>7
    <3> QED BY <3>2, <3>3
  <2>10. CASE Checkpoint
    BY <2>10 DEF Checkpoint
  <2>11. CASE Stop
    BY <2>11 DEF Stop
  <2>12. CASE Crash
    BY <2>12 DEF Crash, Leave
  <2>13. CASE UNCHANGED vars
    BY <2>13 DEF vars
  <2> QED BY <2>1, <2>2, <2>3, <2>4, <2>5, <2>6, <2>7, <2>8, <2>9, <2>10, <2>11, <2>12, <2>13 DEF Next
<1>3. LedgerInv => ClaimsAreTrue /\ EffectsLeaveARow /\ ResumeTellsNoStop
  BY DEF LedgerInv
<1> QED BY <1>1, <1>2, <1>3, TypeCorrect, PTL DEF Spec

\* An effect on the world leaves a row of the ledger, unless a crash, a stop or
\* a refused write is named for it: what recordToolCall is there for.
COROLLARY EffectsAreOnRecord == Spec => []EffectsLeaveARow
BY LedgerKept, PTL

\* No attempt that resumes from a checkpoint is told of a call that was merely
\* stopped, by an earlier attempt, as one that failed.
COROLLARY ResumesHideStops == Spec => []ResumeTellsNoStop
BY LedgerKept, PTL
-----------------------------------------------------------------------------
(* The two limits of the loop                                               *)

Fan == MaxToolCalls - 1

\* The calls an attempt may have made once it is through n iterations.
Through(n) == n * Fan

LEMMA ThroughOneMore ==
  ASSUME NEW n \in Nat
  PROVE  /\ Fan \in Nat /\ Through(n) \in Nat /\ Through(n + 1) \in Nat
         /\ Through(n + 1) = Through(n) + Fan
         /\ \A m \in Nat : n < m => Through(n + 1) <= Through(m)
<1> DEFINE F == Fan
<1>1. F \in Nat
  BY LoopAssumption DEF Fan
<1> HIDE DEF F
<1>2. n * F \in Nat /\ (n + 1) * F = n * F + F
  BY <1>1
<1>3. ASSUME NEW m \in Nat, n < m PROVE (n + 1) * F <= m * F
  BY <1>1, <1>3
<1> QED BY <1>1, <1>2, <1>3 DEF Through, F

\* The calls made and those still in the batch fit the iterations so far.
CallsCounted ==
  /\ iteration <= MaxIterations
  /\ at = "away" => made = 0 /\ iteration = 0
  /\ at = "model" => made <= Through(iteration)
  /\ at \notin {"away", "model"} => iteration < MaxIterations
  /\ at = "tools" => made + Len(batch) <= Through(iteration + 1)
  /\ at \in {"admitted", "cleared", "ran"} => made + Len(batch) <= Through(iteration + 1) + 1

\* No attempt makes more calls than its two limits allow together, whatever
\* the model asks for.
THEOREM CallsKeptWithinLimits == Spec => []CallsBounded
<1>1. Init => CallsCounted
  BY LoopAssumption DEF Init, CallsCounted
<1>2. Typed /\ CallsCounted /\ [Next]_vars => CallsCounted'
  <2> SUFFICES ASSUME Typed, CallsCounted, [Next]_vars PROVE CallsCounted'
    OBVIOUS
  <2> USE DEF Typed, TypeOK, HandIsFull, CallsCounted, loop
  <2>0. /\ Len(batch) \in Nat /\ iteration \in Nat /\ made \in Nat
        /\ MaxIterations \in Nat \ {0} /\ MaxToolCalls \in Nat \ {0}
        /\ Through(iteration) \in Nat /\ Through(iteration + 1) \in Nat
    BY LoopAssumption, LenProperties, ThroughOneMore
  <2>1. CASE Begin
    <3>1. Through(0) = 0
      BY LoopAssumption DEF Through, Fan
    <3> QED BY <2>0, <2>1, <3>1 DEF Begin
  <2>2. CASE AskModel
    <3>1. PICK n \in 1..MaxToolCalls : FanOut(n) /\ \E calls \in [1..n -> Call] : batch' = calls
      BY <2>2 DEF AskModel
    <3>2. Len(batch') = n /\ n <= Fan /\ n \in Nat
      BY <2>0, <3>1, Batch DEF FanOut, Fan
    <3>3. at = "model" /\ at' = "tools" /\ iteration < MaxIterations /\ iteration' = iteration /\ made' = made
      BY <2>2 DEF AskModel
    <3>4. made + n <= Through(iteration + 1)
      <4>1. Through(iteration + 1) = Through(iteration) + Fan /\ Fan \in Nat
        BY <2>0, ThroughOneMore
      <4>2. made <= Through(iteration)
        BY <3>3
      <4> QED BY <2>0, <3>2, <4>1, <4>2
    <3> QED BY <3>2, <3>3, <3>4
  <2>3. CASE Leave
    BY <2>0, <2>3 DEF Leave
  <2>4. CASE TakeCall
    BY <2>0, <2>4 DEF TakeCall
  <2>5. ASSUME NEW a, Tell(a), at \in {"admitted", "cleared", "ran"} PROVE CallsCounted'
    BY <2>0, <2>5, NextCall DEF Tell
  <2>6. CASE at \in {"admitted", "cleared"} /\ at' \in {"cleared", "ran"}
             /\ UNCHANGED <<batch, iteration, made>>
    BY <2>0, <2>6
  <2>7. CASE Checkpoint
    <3>1. /\ at = "tools" /\ at' = "model" /\ batch = <<>> /\ made' = made
          /\ iteration' = iteration + 1
      BY <2>7 DEF Checkpoint
    <3>2. Len(batch) = 0
      BY <3>1, EmptySeq
    <3> QED BY <2>0, <3>1, <3>2
  <2>8. CASE Stop
    BY <2>8 DEF Stop
  <2>9. CASE UNCHANGED vars
    BY <2>9 DEF vars
  <2>10. CASE EndAttempt \/ AbandonTools \/ Crash
    BY <2>3, <2>10 DEF EndAttempt, AbandonTools, Crash
  <2>11. CASE RefuseCall \/ RecordCall
    BY <2>5, <2>11 DEF RefuseCall, RecordCall
  <2>12. CASE LookUp \/ RunTool
    BY <2>5, <2>6, <2>12 DEF LookUp, RunTool
  <2> QED BY <2>1, <2>2, <2>4, <2>7, <2>8, <2>9, <2>10, <2>11, <2>12 DEF Next
<1>3. Typed /\ CallsCounted => CallsBounded
  <2> SUFFICES ASSUME Typed, CallsCounted PROVE made <= Through(MaxIterations)
    BY DEF CallsBounded, Through, Fan
  <2>1. /\ Len(batch) \in Nat /\ iteration \in Nat /\ made \in Nat /\ MaxIterations \in Nat
        /\ Through(iteration) \in Nat /\ Through(MaxIterations) \in Nat
    BY LoopAssumption, LenProperties, ThroughOneMore DEF Typed, TypeOK
  <2>2. CASE at = "away"
    BY <2>1, <2>2 DEF CallsCounted
  <2>3. CASE at = "model"
    <3>1. Through(iteration) <= Through(MaxIterations)
      BY <2>1, <2>3, ThroughOneMore, LoopAssumption DEF CallsCounted, Fan
    <3> QED BY <2>1, <2>3, <3>1 DEF CallsCounted
  <2>4. CASE at \notin {"away", "model"}
    <3>1. iteration < MaxIterations /\ Through(iteration + 1) <= Through(MaxIterations)
      BY <2>1, <2>4, ThroughOneMore DEF CallsCounted
    <3>2. Through(iteration + 1) \in Nat
      BY <2>1, ThroughOneMore
    <3>3. at \in {"admitted", "cleared", "ran"} => Len(batch) > 0
      BY LenProperties, NextCall DEF Typed, TypeOK, HandIsFull
    <3>4. made <= Through(iteration + 1)
      BY <2>1, <2>4, <3>2, <3>3 DEF CallsCounted, Typed, TypeOK
    <3> QED BY <2>1, <3>1, <3>2, <3>4
  <2> QED BY <2>2, <2>3, <2>4
<1> QED BY <1>1, <1>2, <1>3, TypeCorrect, PTL DEF Spec
===============================================================================

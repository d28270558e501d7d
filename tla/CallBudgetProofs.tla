--------------------------- MODULE CallBudgetProofs ---------------------------
(* What CallBudget guarantees for any ceiling, any sizes of call and any    *)
(* number of workers: every client stays inside the ceiling it sees, tasks  *)
(* that follow one another keep the goal's up to one check, tasks that run  *)
(* at once exceed it by an allowance each, and no token goes unaccounted.   *)
EXTENDS CallBudget, FiniteSetTheorems, TLAPS

\* What a call is assumed to cost is a number of tokens.
LEMMA ReserveNat ==
  ASSUME NEW n \in Nat
  PROVE  CallReserve(n) \in Nat
BY BudgetAssumption DEF CallReserve

\* Every variable keeps its type, however the workers interleave, fail or die.
THEOREM TypeCorrect == Spec => []TypeOK
<1>1. Init => TypeOK
  <2> SUFFICES ASSUME Init PROVE TypeOK
    OBVIOUS
  <2>1. loaded \in [Worker -> [tokens: Nat, largest: Nat]]
    BY DEF Init
  <2>2. /\ own \in [Worker -> Nat] /\ seen \in [Worker -> Nat] /\ cost \in [Worker -> Nat]
        /\ call \in [Worker -> {"none", "placed", "answered"}]
        /\ client \in [Worker -> {"none", "executor", "verifier", "build"}]
        /\ kind \in [Worker -> Kinds]
    BY DEF Init, Kinds
  <2> QED BY <2>1, <2>2 DEF Init, TypeOK
<1>2. TypeOK /\ [Next]_vars => TypeOK'
  <2> SUFFICES ASSUME TypeOK, [Next]_vars PROVE TypeOK'
    OBVIOUS
  <2> USE BudgetAssumption DEF TypeOK, row, tally, asked, past, Kinds
  <2>1. ASSUME NEW w \in Worker, StartTask(w) PROVE TypeOK'
    <3>1. \E k \in Work : kind' = [kind EXCEPT ![w] = k]
                       /\ client' = [client EXCEPT ![w] = IF k = "build" THEN "build" ELSE "executor"]
      BY <2>1 DEF StartTask
    <3>2. kind' \in [Worker -> Kinds] /\ client' \in [Worker -> {"none", "executor", "verifier", "build"}]
      BY <3>1
    <3>3. loaded' \in [Worker -> [tokens: Nat, largest: Nat]]
      BY <2>1 DEF StartTask
    <3>4. overlapped' \in BOOLEAN
      BY <2>1 DEF StartTask
    <3> QED BY <2>1, <3>2, <3>3, <3>4 DEF StartTask
  <2>2. ASSUME NEW w \in Worker, Place(w) PROVE TypeOK'
    BY <2>2 DEF Place
  <2>3. ASSUME NEW w \in Worker, Answered(w) PROVE TypeOK'
    <3>1. PICK n \in Sizes :
            /\ cost' = [cost EXCEPT ![w] = n]
            /\ own' = [own EXCEPT ![w] = @ + n]
            /\ seen' = [seen EXCEPT ![w] = Larger(@, n)]
            /\ served' = served + n
            /\ surprised' = (surprised \/ n > CallReserve(seen[w]))
      BY <2>3 DEF Answered
    <3>2. n \in Nat
      OBVIOUS
    <3>3. Larger(seen[w], n) \in Nat
      BY <3>2 DEF Larger
    <3>4. surprised' \in BOOLEAN
      BY <3>1
    <3> QED BY <2>3, <3>1, <3>2, <3>3, <3>4 DEF Answered
  <2>4. ASSUME NEW w \in Worker, RecordSpend(w) PROVE TypeOK'
    <3>1. spent' \in Nat /\ largest' \in Nat /\ lost' \in Nat
      BY <2>4 DEF RecordSpend, Recorded, Larger
    <3> QED BY <2>4, <3>1 DEF RecordSpend
  <2>5. ASSUME NEW w \in Worker, CallFails(w) PROVE TypeOK'
    BY <2>5 DEF CallFails, Leave
  <2>6. ASSUME NEW w \in Worker, EndClient(w) PROVE TypeOK'
    <3>1. CASE Leave(w) /\ UNCHANGED <<kind, loaded, own, seen, checks>>
      BY <2>6, <3>1 DEF EndClient, Leave
    <3>2. CASE Verify(w)
      <4>1. seen' \in [Worker -> Nat]
        BY <3>2 DEF Verify
      <4>2. client' \in [Worker -> {"none", "executor", "verifier", "build"}]
        BY <3>2 DEF Verify
      <4> QED BY <2>6, <3>2, <4>1, <4>2 DEF EndClient, Verify
    <3> QED BY <2>6, <3>1, <3>2 DEF EndClient
  <2>7. ASSUME NEW w \in Worker, Crash(w) PROVE TypeOK'
    BY <2>7 DEF Crash, Leave
  <2>8. CASE UNCHANGED vars
    BY <2>8 DEF vars
  <2> QED BY <2>1, <2>2, <2>3, <2>4, <2>5, <2>6, <2>7, <2>8 DEF Next, Step
<1> QED BY <1>1, <1>2, PTL DEF Spec
-----------------------------------------------------------------------------
(* One client                                                               *)

\* A client with a call in flight has left room for all it is assumed to cost.
RoomIsReserved ==
  ~surprised => \A w \in Worker :
    call[w] = "placed" => /\ client[w] # "none"
                          /\ Known(w) + CallReserve(seen[w]) <= Ceiling

\* Only a client in use has a call of its own.
CallsAreOwned == \A w \in Worker : client[w] = "none" => call[w] = "none"

ClientInv == CallsAreOwned /\ RoomIsReserved /\ ClientWithinCeiling

\* No client, whatever the others do meanwhile, spends past the ceiling it sees.
THEOREM ClientKeepsRoom == Spec => [](CallsAreOwned /\ ClientWithinCeiling)
<1>1. Init => ClientInv
  BY DEF Init, ClientInv, CallsAreOwned, RoomIsReserved, ClientWithinCeiling
<1>2. TypeOK /\ ClientInv /\ [Next]_vars => ClientInv'
  <2> SUFFICES ASSUME TypeOK, ClientInv, [Next]_vars PROVE ClientInv'
    OBVIOUS
  <2> USE BudgetAssumption DEF TypeOK, row, tally, asked, past, ClientInv,
        CallsAreOwned, RoomIsReserved, ClientWithinCeiling, Known
  <2>1. ASSUME NEW w \in Worker, StartTask(w) PROVE ClientInv'
    <3>1. loaded'[w].tokens = spent /\ own'[w] = 0 /\ spent < Ceiling /\ call[w] = "none"
      BY <2>1 DEF StartTask, GoalSpent
    <3>2. \A v \in Worker \ {w} : /\ loaded'[v] = loaded[v] /\ own'[v] = own[v]
                                  /\ seen'[v] = seen[v] /\ client'[v] = client[v]
      BY <2>1 DEF StartTask
    <3>3. call' = call /\ surprised' = surprised /\ client'[w] # "none"
      BY <2>1 DEF StartTask
    <3> QED BY <3>1, <3>2, <3>3
  <2>2. ASSUME NEW w \in Worker, Place(w) PROVE ClientInv'
    BY <2>2 DEF Place, MayPlace, Fits
  <2>3. ASSUME NEW w \in Worker, Answered(w) PROVE ClientInv'
    <3>1. PICK n \in Sizes :
            /\ own' = [own EXCEPT ![w] = @ + n]
            /\ seen' = [seen EXCEPT ![w] = Larger(@, n)]
            /\ surprised' = (surprised \/ n > CallReserve(seen[w]))
      BY <2>3 DEF Answered
    <3>2. CallReserve(seen[w]) \in Nat /\ n \in Nat
      BY ReserveNat
    <3>3. /\ call[w] = "placed" /\ call' = [call EXCEPT ![w] = "answered"]
          /\ client' = client /\ loaded' = loaded
      BY <2>3 DEF Answered
    <3>4. ASSUME ~surprised' PROVE own'[w] = own[w] + n /\ loaded[w].tokens + own'[w] <= Ceiling
      <4>0. ~surprised /\ ~(n > CallReserve(seen[w]))
        BY <3>1, <3>4, Zenon
      <4>1. ~surprised /\ n <= CallReserve(seen[w])
        BY <4>0, <3>2
      <4>2. loaded[w].tokens + own[w] + CallReserve(seen[w]) <= Ceiling
        BY <3>3, <4>1
      <4>3. own'[w] = own[w] + n
        BY <3>1
      <4>4. own[w] \in Nat /\ loaded[w].tokens \in Nat
        OBVIOUS
      <4> QED BY <3>2, <4>1, <4>2, <4>3, <4>4
    <3>5. \A v \in Worker \ {w} : own'[v] = own[v] /\ seen'[v] = seen[v] /\ call'[v] = call[v]
      BY <3>1, <3>3
    <3>6. call'[w] = "answered" /\ (~surprised' => ~surprised)
      BY <3>1, <3>3
    <3>7. CallsAreOwned'
      BY <3>3, <3>5, <3>6
    <3>8. RoomIsReserved'
      BY <3>3, <3>5, <3>6
    <3>9. ClientWithinCeiling'
      BY <3>3, <3>4, <3>5, <3>6
    <3> QED BY <3>7, <3>8, <3>9
  <2>4. ASSUME NEW w \in Worker, RecordSpend(w) PROVE ClientInv'
    BY <2>4 DEF RecordSpend
  <2>5. ASSUME NEW w \in Worker, CallFails(w) PROVE ClientInv'
    BY <2>5 DEF CallFails, Leave
  <2>6. ASSUME NEW w \in Worker, EndClient(w) PROVE ClientInv'
    <3>1. CASE Leave(w) /\ UNCHANGED <<kind, loaded, own, seen, checks>>
      BY <2>6, <3>1 DEF EndClient, Leave
    <3>2. CASE Verify(w)
      BY <2>6, <3>2 DEF EndClient, Verify
    <3> QED BY <2>6, <3>1, <3>2 DEF EndClient
  <2>7. ASSUME NEW w \in Worker, Crash(w) PROVE ClientInv'
    BY <2>7 DEF Crash, Leave
  <2>8. CASE UNCHANGED vars
    BY <2>8 DEF vars
  <2> QED BY <2>1, <2>2, <2>3, <2>4, <2>5, <2>6, <2>7, <2>8 DEF Next, Step
<1>3. ClientInv => CallsAreOwned /\ ClientWithinCeiling
  BY DEF ClientInv
<1> QED BY <1>1, <1>2, <1>3, TypeCorrect, PTL DEF Spec
LEMMA LargestCall == Max(Sizes) \in Nat \ {0} /\ \A n \in Sizes : n <= Max(Sizes)
<1>1. \E m \in Sizes : \A n \in Sizes : m >= n
  BY BudgetAssumption
<1>2. Max(Sizes) \in Sizes /\ \A n \in Sizes : Max(Sizes) >= n
  BY <1>1 DEF Max
<1> QED BY <1>2, BudgetAssumption
-----------------------------------------------------------------------------
(* Sums over the workers                                                    *)

\* A worker's tokens are as many as are counted for it.
LEMMA Slice ==
  ASSUME NEW w, NEW n \in Nat
  PROVE  IsFiniteSet({w} \X (1..n)) /\ Cardinality({w} \X (1..n)) = n
<1>1. IsFiniteSet({w}) /\ Cardinality({w}) = 1
  BY FS_Singleton
<1>2. IsFiniteSet(1..n) /\ Cardinality(1..n) = n
  BY FS_Interval
<1>3. /\ IsFiniteSet({w} \X (1..n))
      /\ Cardinality({w} \X (1..n)) = Cardinality({w}) * Cardinality(1..n)
  BY <1>1, <1>2, FS_Product, Zenon
<1> QED BY <1>1, <1>2, <1>3

\* One worker's count changes the sum by as much as it changes itself.
LEMMA OneCountChanges ==
  ASSUME NEW f \in [Worker -> Nat], NEW g \in [Worker -> Nat], NEW w \in Worker,
         \A v \in Worker \ {w} : g[v] = f[v],
         IsFiniteSet(Tokens(f))
  PROVE  /\ IsFiniteSet(Tokens(g))
         /\ Cardinality(Tokens(g)) = (Cardinality(Tokens(f)) - f[w]) + g[w]
<1> DEFINE Old  == {w} \X (1..f[w])
           New  == {w} \X (1..g[w])
           Rest == Tokens(f) \ Old
<1>1. /\ Tokens(f) \cap Old = Old
      /\ Tokens(g) = Rest \cup New
      /\ Rest \cap New = {}
  BY DEF Tokens
<1>2. /\ f[w] \in Nat /\ Cardinality(Old) = f[w]
      /\ g[w] \in Nat /\ IsFiniteSet(New) /\ Cardinality(New) = g[w]
  BY Slice
<1> HIDE DEF Old, New
<1>3. /\ IsFiniteSet(Rest)
      /\ Cardinality(Rest) = Cardinality(Tokens(f)) - Cardinality(Tokens(f) \cap Old)
  BY FS_Difference, Zenon
<1> HIDE DEF Rest
<1>4. /\ IsFiniteSet(Rest \cup New)
      /\ Cardinality(Rest \cup New)
           = Cardinality(Rest) + Cardinality(New) - Cardinality(Rest \cap New)
  BY <1>2, <1>3, FS_Union, Zenon
<1>5. Cardinality(Rest) \in Nat /\ Cardinality(Tokens(f)) \in Nat /\ Cardinality({}) = 0
  BY <1>3, FS_CardinalityType, FS_EmptySet
<1>6. /\ IsFiniteSet(Tokens(g))
      /\ Cardinality(Tokens(g)) = Cardinality(Rest) + Cardinality(New) - Cardinality({})
      /\ Cardinality(Rest) = Cardinality(Tokens(f)) - Cardinality(Old)
  BY <1>1, <1>3, <1>4, Zenon
<1> QED BY <1>2, <1>5, <1>6

\* Where nothing is counted there is nothing.
LEMMA NothingCounted ==
  ASSUME NEW f, \A w \in Worker : f[w] = 0
  PROVE  IsFiniteSet(Tokens(f)) /\ Cardinality(Tokens(f)) = 0
<1>1. Tokens(f) = {}
  BY DEF Tokens
<1> QED BY <1>1, FS_EmptySet

\* Each of the other workers counts at most m: together they leave one m free.
LEMMA OthersLeaveRoom ==
  ASSUME NEW f \in [Worker -> Nat], NEW m \in Nat, NEW w \in Worker,
         f[w] = 0, \A v \in Worker : f[v] <= m
  PROVE  /\ IsFiniteSet(Tokens(f))
         /\ Cardinality(Tokens(f)) + m <= Cardinality(Worker) * m
<1> DEFINE others == Worker \ {w}
           all == others \X (1..m)
<1>1. /\ IsFiniteSet(others) /\ Cardinality(others) = Cardinality(Worker) - 1
      /\ Cardinality(Worker) \in Nat
  BY BudgetAssumption, FS_RemoveElement, FS_CardinalityType
<1>2. IsFiniteSet(1..m) /\ Cardinality(1..m) = m
  BY FS_Interval
<1>3. Tokens(f) \in SUBSET all
  BY DEF Tokens
<1>4. IsFiniteSet(all) /\ Cardinality(all) = (Cardinality(Worker) - 1) * m
  <2> HIDE DEF others
  <2>1. IsFiniteSet(all) /\ Cardinality(all) = Cardinality(others) * Cardinality(1..m)
    BY <1>1, <1>2, FS_Product, Zenon
  <2> QED
    BY <1>1, <1>2, <2>1
<1> HIDE DEF all
<1>5. IsFiniteSet(Tokens(f)) /\ Cardinality(Tokens(f)) <= (Cardinality(Worker) - 1) * m
  BY <1>3, <1>4, FS_Subset
<1>6. Cardinality(Tokens(f)) \in Nat
  BY <1>5, FS_CardinalityType
<1>7. \A n \in Nat : (n - 1) * m + m = n * m
  OBVIOUS
<1> QED BY <1>1, <1>5, <1>6, <1>7
-----------------------------------------------------------------------------
(* Every token has a place                                                  *)

\* Only an answer that is not recorded yet has a cost.
OnlyAnswersCost == \A w \in Worker : call[w] # "answered" => cost[w] = 0

AccountInv == IsFiniteSet(Tokens(cost)) /\ OnlyAnswersCost /\ SpendAccounted

LEMMA AccountKept == Spec => []AccountInv
<1>1. Init => AccountInv
  BY NothingCounted DEF Init, AccountInv, OnlyAnswersCost, SpendAccounted, Pending
<1>2. TypeOK /\ AccountInv /\ [Next]_vars => AccountInv'
  <2> SUFFICES ASSUME TypeOK, AccountInv, [Next]_vars PROVE AccountInv'
    OBVIOUS
  <2>1. Cardinality(Tokens(cost)) \in Nat
    BY FS_CardinalityType DEF AccountInv
  <2>2. ASSUME cost' = cost, lost' = lost, served' = served, spent' = spent,
               \A w \in Worker : call[w] = "answered" => call'[w] = "answered"
        PROVE  AccountInv'
    BY <2>2 DEF AccountInv, OnlyAnswersCost, SpendAccounted, Pending
  <2>3. ASSUME NEW w \in Worker, NEW n \in Nat, cost' = [cost EXCEPT ![w] = n],
               (spent' + n) + lost' - served' = (spent + cost[w]) + lost - served,
               spent' \in Nat, lost' \in Nat, served' \in Nat,
               \A v \in Worker \ {w} : call'[v] = call[v],
               call'[w] # "answered" => n = 0
        PROVE  AccountInv'
    <3>1. /\ cost \in [Worker -> Nat] /\ cost' \in [Worker -> Nat] /\ cost'[w] = n
          /\ \A v \in Worker \ {w} : cost'[v] = cost[v]
      BY <2>3 DEF TypeOK
    <3>2. /\ IsFiniteSet(Tokens(cost'))
          /\ Cardinality(Tokens(cost')) = (Cardinality(Tokens(cost)) - cost[w]) + n
      BY <3>1, OneCountChanges DEF AccountInv
    <3>3. Pending \in Nat /\ Pending' = (Pending - cost[w]) + n /\ cost[w] \in Nat
      BY <2>1, <3>1, <3>2 DEF Pending, Tokens
    <3>4. spent + Pending + lost = served
      BY DEF AccountInv, SpendAccounted
    <3>5. SpendAccounted'
      <4>1. /\ spent \in Nat /\ lost \in Nat /\ served \in Nat
            /\ spent' \in Nat /\ lost' \in Nat /\ served' \in Nat
            /\ (spent' + n) + lost' - served' = (spent + cost[w]) + lost - served
        BY <2>3 DEF TypeOK
      <4> QED BY <3>3, <3>4, <4>1 DEF SpendAccounted
    <3>6. OnlyAnswersCost'
      BY <2>3, <3>1 DEF AccountInv, OnlyAnswersCost
    <3>7. IsFiniteSet(Tokens(cost))'
      BY <3>2 DEF Tokens
    <3> QED BY <3>5, <3>6, <3>7 DEF AccountInv
  <2> USE BudgetAssumption DEF TypeOK, row, tally, asked, past
  <2>4. ASSUME NEW w \in Worker, StartTask(w) \/ Place(w) \/ CallFails(w) \/ EndClient(w)
        PROVE  AccountInv'
    BY <2>2, <2>4 DEF StartTask, Place, CallFails, EndClient
  <2>5. ASSUME NEW w \in Worker, Answered(w) PROVE AccountInv'
    <3>1. PICK n \in Sizes : cost' = [cost EXCEPT ![w] = n] /\ served' = served + n
      BY <2>5 DEF Answered
    <3>2. cost[w] = 0
      BY <2>5 DEF Answered, AccountInv, OnlyAnswersCost
    <3>3. /\ n \in Nat /\ spent' = spent /\ lost' = lost
          /\ call' = [call EXCEPT ![w] = "answered"]
      BY <2>5, <3>1 DEF Answered
    <3>4. /\ (spent' + n) + lost' - served' = (spent + cost[w]) + lost - served
          /\ spent' \in Nat /\ lost' \in Nat /\ served' \in Nat
          /\ call'[w] = "answered" /\ \A v \in Worker \ {w} : call'[v] = call[v]
      BY <3>1, <3>2, <3>3
    <3> QED BY <2>3, <3>1, <3>3, <3>4
  <2>6. ASSUME NEW w \in Worker, RecordSpend(w) \/ Crash(w) PROVE AccountInv'
    <3>1. /\ cost' = [cost EXCEPT ![w] = 0] /\ served' = served
          /\ spent' \in Nat /\ lost' \in Nat /\ spent' + lost' = (spent + cost[w]) + lost
          /\ call' = [call EXCEPT ![w] = "none"]
      BY <2>6 DEF RecordSpend, Recorded, Crash
    <3>2. /\ spent \in Nat /\ cost[w] \in Nat /\ lost \in Nat /\ served \in Nat
          /\ served' \in Nat
      BY <3>1
    <3>3. (spent' + 0) + lost' - served' = (spent + cost[w]) + lost - served
      BY <3>1, <3>2
    <3>4. call'[w] # "answered" /\ \A v \in Worker \ {w} : call'[v] = call[v]
      BY <3>1
    <3> QED BY <2>3, <3>1, <3>2, <3>3, <3>4
  <2>7. CASE UNCHANGED vars
    BY <2>2, <2>7 DEF vars
  <2> QED BY <2>4, <2>5, <2>6, <2>7 DEF Next, Step
<1> QED BY <1>1, <1>2, TypeCorrect, PTL DEF Spec

\* What every call cost is on the goal row, on its way there or known lost, however
\* many workers record their calls at once and whatever fails between two statements.
THEOREM NoSpendVanishes == Spec => []SpendAccounted
<1>1. AccountInv => SpendAccounted
  BY DEF AccountInv
<1> QED BY <1>1, AccountKept, PTL
-----------------------------------------------------------------------------
(* Tasks that follow one another                                            *)

\* Nobody has a client beside another's.
Alone == ~overlapped => \A v, w \in Worker : client[v] # "none" /\ client[w] # "none" => v = w

\* A verification is one call, and it has been told.
OneCheck == \A w \in Worker : client[w] = "verifier" =>
              /\ checks /\ own[w] <= Max(Sizes)
              /\ call[w] = "placed" => own[w] = 0

\* What a check may add to the ceiling.
Margin == IF checks THEN Max(Sizes) ELSE 0

\* The row is never ahead of what the one client knows, nor of the ceiling by more
\* than a check; a verifier knows only its own call beside a row within the ceiling.
RowIsKnown ==
  ~surprised /\ ~overlapped =>
    /\ spent <= Ceiling + Margin
    /\ \A w \in Worker : client[w] \in {"executor", "build"} => spent + cost[w] <= Known(w)
    /\ \A w \in Worker : client[w] = "verifier" => spent + cost[w] <= Ceiling + own[w]

AloneInv == OnlyAnswersCost /\ Alone /\ OneCheck /\ RowIsKnown

LEMMA MarginNat == checks \in BOOLEAN => Margin \in Nat
BY LargestCall DEF Margin

LEMMA AloneKept == Spec => []AloneInv
<1>1. Init => AloneInv
  BY BudgetAssumption DEF Init, AloneInv, OnlyAnswersCost, Alone, OneCheck, RowIsKnown, Margin
<1>2. TypeOK /\ CallsAreOwned /\ ClientWithinCeiling /\ AloneInv /\ [Next]_vars => AloneInv'
  <2> SUFFICES ASSUME TypeOK, CallsAreOwned, ClientWithinCeiling, AloneInv, [Next]_vars
               PROVE  AloneInv'
    OBVIOUS
  <2>0. Margin \in Nat /\ Max(Sizes) \in Nat /\ \A n \in Sizes : n \in Nat /\ n <= Max(Sizes)
    BY MarginNat, LargestCall, BudgetAssumption DEF TypeOK
  <2> USE BudgetAssumption DEF TypeOK, row, tally, asked, past, AloneInv, CallsAreOwned,
        OnlyAnswersCost, Alone, OneCheck, RowIsKnown, ClientWithinCeiling, Known
  <2>1. ASSUME NEW w \in Worker, StartTask(w) PROVE AloneInv'
    <3>1. PICK k \in Work :
            client' = [client EXCEPT ![w] = IF k = "build" THEN "build" ELSE "executor"]
      BY <2>1 DEF StartTask
    <3>2. /\ cost[w] = 0 /\ cost' = cost /\ spent' = spent /\ call' = call /\ checks' = checks
          /\ loaded'[w].tokens = spent /\ own'[w] = 0 /\ surprised' = surprised
          /\ \A v \in Worker \ {w} : loaded'[v] = loaded[v] /\ own'[v] = own[v]
      BY <2>1 DEF StartTask
    <3>3. OnlyAnswersCost'
      BY <3>2
    <3>4. ~overlapped' => ~overlapped /\ \A v \in Worker : client[v] = "none"
      BY <2>1, Zenon DEF StartTask
    <3>5. /\ \A v \in Worker \ {w} : client'[v] = client[v]
          /\ client'[w] \in {"executor", "build"}
      <4>1. client'[w] = IF k = "build" THEN "build" ELSE "executor"
        BY <3>1
      <4> QED BY <3>1, <4>1
    <3>6. Alone'
      BY <3>4, <3>5
    <3>7. OneCheck'
      BY <3>2, <3>5
    <3>8. Margin' = Margin
      BY <3>2 DEF Margin
    <3>9. RowIsKnown'
      BY <3>2, <3>4, <3>5, <3>8
    <3> QED BY <3>3, <3>6, <3>7, <3>9
  <2>2. ASSUME NEW w \in Worker, Place(w) PROVE AloneInv'
    BY <2>2 DEF Place, Margin
  <2>3. ASSUME NEW w \in Worker, Answered(w) PROVE AloneInv'
    <3>1. PICK n \in Sizes :
            /\ cost' = [cost EXCEPT ![w] = n]
            /\ own' = [own EXCEPT ![w] = @ + n]
            /\ surprised' = (surprised \/ n > CallReserve(seen[w]))
      BY <2>3 DEF Answered
    <3>2. /\ client' = client /\ loaded' = loaded /\ spent' = spent
          /\ overlapped' = overlapped /\ checks' = checks
          /\ call[w] = "placed" /\ call' = [call EXCEPT ![w] = "answered"]
      BY <2>3 DEF Answered
    <3>3. /\ cost[w] = 0 /\ cost'[w] = n /\ own'[w] = own[w] + n
          /\ n \in Nat /\ n <= Max(Sizes) /\ own[w] \in Nat
      BY <2>0, <3>1, <3>2
    <3>4. ~surprised' => ~surprised
      BY <3>1, Zenon
    <3>5. \A v \in Worker \ {w} : cost'[v] = cost[v] /\ own'[v] = own[v]
      BY <3>1
    <3>6. OneCheck'
      BY <3>2, <3>3, <3>5
    <3>7. Margin' = Margin
      BY <3>2 DEF Margin
    <3>8. ASSUME ~surprised', ~overlapped' PROVE RowIsKnown'
      <4>1. /\ spent <= Ceiling + Margin
            /\ client[w] \in {"executor", "build"} => spent + cost[w] <= Known(w)
            /\ client[w] = "verifier" => spent + cost[w] <= Ceiling + own[w]
            /\ spent \in Nat /\ loaded[w].tokens \in Nat
        BY <3>2, <3>4, <3>8
      <4>2. /\ client[w] \in {"executor", "build"} => spent' + cost'[w] <= Known(w)'
            /\ client[w] = "verifier" => spent' + cost'[w] <= Ceiling + own'[w]
        BY <3>2, <3>3, <4>1
      <4> QED BY <3>2, <3>4, <3>5, <3>7, <3>8, <4>1, <4>2
    <3>9. OnlyAnswersCost' /\ Alone'
      BY <3>1, <3>2
    <3>10. RowIsKnown'
      BY <3>8
    <3> QED BY <3>6, <3>9, <3>10
  <2>4. ASSUME NEW w \in Worker, RecordSpend(w) PROVE AloneInv'
    <3>1. /\ call' = [call EXCEPT ![w] = "none"] /\ cost' = [cost EXCEPT ![w] = 0]
          /\ client' = client /\ loaded' = loaded /\ own' = own
          /\ surprised' = surprised /\ overlapped' = overlapped /\ checks' = checks
      BY <2>4 DEF RecordSpend
    <3>2. spent' <= spent + cost[w] /\ spent' \in Nat
      BY <2>4 DEF RecordSpend, Recorded
    <3>3. client[w] # "none"
      BY <2>4 DEF RecordSpend
    <3>4. Margin' = Margin
      BY <3>1 DEF Margin
    <3>5. ASSUME ~surprised, ~overlapped PROVE RowIsKnown'
      <4>1. \A v \in Worker : client'[v] # "none" => v = w
        BY <3>1, <3>3, <3>5
      <4>2. CASE client[w] = "verifier"
        <5>1. spent + cost[w] <= Ceiling + own[w] /\ own[w] <= Max(Sizes) /\ Margin = Max(Sizes)
          BY <3>5, <4>2 DEF Margin
        <5>2. spent' <= Ceiling + Margin /\ spent' + cost'[w] <= Ceiling + own'[w]
          BY <2>0, <3>1, <3>2, <5>1
        <5> QED BY <3>1, <3>4, <4>1, <4>2, <5>2
      <4>3. CASE client[w] # "verifier"
        <5>1. client[w] \in {"executor", "build"}
          BY <3>3, <4>3
        <5>2. spent + cost[w] <= Known(w) /\ Known(w) <= Ceiling
          BY <3>3, <3>5, <5>1
        <5>3. spent' <= Ceiling + Margin /\ spent' + cost'[w] <= Known(w)'
          BY <2>0, <3>1, <3>2, <5>2
        <5> QED BY <3>1, <3>4, <4>1, <4>3, <5>3
      <4> QED BY <4>2, <4>3
    <3> QED BY <3>1, <3>5
  <2>5. ASSUME NEW w \in Worker, CallFails(w) PROVE AloneInv'
    BY <2>5 DEF CallFails, Leave, Margin
  <2>6. ASSUME NEW w \in Worker, EndClient(w) PROVE AloneInv'
    <3>1. CASE Leave(w) /\ UNCHANGED <<kind, loaded, own, seen, checks>>
      BY <2>6, <3>1 DEF EndClient, Leave, Margin
    <3>2. CASE client[w] = "executor" /\ Verify(w)
      <4>1. /\ cost[w] = 0 /\ cost' = cost /\ spent' = spent /\ call' = call /\ call[w] = "none"
            /\ surprised' = surprised /\ overlapped' = overlapped /\ checks' /\ loaded' = loaded
            /\ client' = [client EXCEPT ![w] = "verifier"] /\ own' = [own EXCEPT ![w] = 0]
        BY <2>6, <3>2 DEF EndClient, Verify
      <4>2. Margin' = Max(Sizes)
        BY <4>1 DEF Margin
      <4>3. ASSUME ~surprised, ~overlapped PROVE RowIsKnown'
        <5>1. \A v \in Worker : client'[v] # "none" => v = w
          BY <3>2, <4>1, <4>3
        <5>2. spent + cost[w] <= Ceiling /\ spent <= Ceiling
          BY <3>2, <4>1, <4>3
        <5> QED BY <2>0, <4>1, <4>2, <5>1, <5>2
      <4>4. OnlyAnswersCost' /\ Alone' /\ OneCheck'
        BY <2>0, <3>2, <4>1
      <4> QED BY <4>1, <4>3, <4>4
    <3> QED BY <2>6, <3>1, <3>2 DEF EndClient
  <2>7. ASSUME NEW w \in Worker, Crash(w) PROVE AloneInv'
    BY <2>7 DEF Crash, Leave, Margin
  <2>8. CASE UNCHANGED vars
    BY <2>8 DEF vars, Margin
  <2> QED BY <2>1, <2>2, <2>3, <2>4, <2>5, <2>6, <2>7, <2>8 DEF Next, Step
<1> QED BY <1>1, <1>2, TypeCorrect, ClientKeepsRoom, PTL DEF Spec

\* While nobody works beside it, what is pending is the one client's last answer.
LEMMA OnePending ==
  ASSUME TypeOK, NEW w \in Worker, \A v \in Worker \ {w} : cost[v] = 0
  PROVE  Pending = cost[w]
<1>1. Tokens(cost) = {w} \X (1..cost[w])
  BY DEF Tokens, TypeOK
<1>2. cost[w] \in Nat
  BY DEF TypeOK
<1>3. Cardinality({w} \X (1..cost[w])) = cost[w]
  BY <1>2, Slice
<1> QED BY <1>1, <1>3, Zenon DEF Pending

\* Tasks that follow one another, on any worker, are served no more than the ceiling, the
\* tokens whose record was lost and, where tasks are checked, one call, unless a call costs
\* more than its reserve: crashes, failed calls and build steps included.
THEOREM CeilingKept == Spec => []CeilingHolds
<1>1. TypeOK /\ CallsAreOwned /\ ClientWithinCeiling /\ AccountInv /\ AloneInv => CeilingHolds
  <2> SUFFICES ASSUME TypeOK, CallsAreOwned, ClientWithinCeiling, AccountInv, AloneInv,
                      ~surprised, ~overlapped
               PROVE  served <= Ceiling + lost + Margin
    BY DEF CeilingHolds, Margin
  <2>1. /\ Margin \in Nat /\ Ceiling \in Nat /\ spent \in Nat /\ lost \in Nat
        /\ spent + Pending + lost = served
    BY MarginNat, BudgetAssumption DEF TypeOK, AccountInv, SpendAccounted
  <2>2. CASE \A w \in Worker : client[w] = "none"
    <3>1. \A w \in Worker : cost[w] = 0
      BY <2>2 DEF CallsAreOwned, AloneInv, OnlyAnswersCost
    <3>2. Pending = 0
      BY <3>1, NothingCounted DEF Pending
    <3> QED BY <2>1, <3>2 DEF AloneInv, RowIsKnown
  <2>3. ASSUME NEW w \in Worker, client[w] # "none" PROVE served <= Ceiling + lost + Margin
    <3>1. \A v \in Worker \ {w} : cost[v] = 0
      BY <2>3 DEF CallsAreOwned, AloneInv, Alone, OnlyAnswersCost
    <3>2. Pending = cost[w] /\ cost[w] \in Nat
      BY <3>1, OnePending DEF TypeOK
    <3>3. spent + cost[w] <= Ceiling + Margin
      <4>1. CASE client[w] = "verifier"
        <5>1. spent + cost[w] <= Ceiling + own[w] /\ own[w] <= Margin /\ own[w] \in Nat
          BY <4>1 DEF AloneInv, RowIsKnown, OneCheck, Margin, TypeOK
        <5> QED BY <2>1, <3>2, <5>1
      <4>2. CASE client[w] # "verifier"
        <5>1. client[w] \in {"executor", "build"}
          BY <2>3, <4>2 DEF TypeOK
        <5>2. spent + cost[w] <= Known(w) /\ Known(w) <= Ceiling /\ Known(w) \in Nat
          BY <2>3, <5>1 DEF AloneInv, RowIsKnown, ClientWithinCeiling, Known, TypeOK
        <5> QED BY <2>1, <3>2, <5>2
      <4> QED BY <4>1, <4>2
    <3> QED BY <2>1, <3>2, <3>3
  <2> QED BY <2>2, <2>3
<1> QED BY <1>1, AccountKept, AloneKept, TypeCorrect, ClientKeepsRoom, PTL
-----------------------------------------------------------------------------
(* Tasks that run at once                                                   *)

\* What a client may still spend: what it takes to be left and one call more, and
\* nothing once it has asked for its verification.
Left(w) == CASE client[w] = "none" -> 0
             [] client[w] = "verifier" -> IF own[w] = 0 THEN Max(Sizes) ELSE 0
             [] OTHER -> (Ceiling - Known(w)) + Max(Sizes)

\* A worker's claim on the goal: what it has yet to record and what it may yet spend.
Claims == [w \in Worker |-> cost[w] + Left(w)]

Allowance == Ceiling + Max(Sizes)

\* What a worker has yet to record is one call of its client.
CostIsOwn == \A w \in Worker : cost[w] <= own[w] /\ cost[w] <= Max(Sizes)

\* A verification that is asked for has cost nothing yet.
VerifiesOnce == \A w \in Worker : call[w] = "placed" /\ client[w] = "verifier" => own[w] = 0

\* Every claim is still covered.
ClaimsCovered ==
  ~surprised => /\ IsFiniteSet(Tokens(Claims))
                /\ spent + Cardinality(Tokens(Claims)) <= Cardinality(Worker) * Allowance

ClaimInv == OnlyAnswersCost /\ CostIsOwn /\ VerifiesOnce /\ ClaimsCovered

\* No claim is more than one allowance.
LEMMA ClaimBound ==
  ASSUME TypeOK, CallsAreOwned, ClientWithinCeiling, OnlyAnswersCost, CostIsOwn, ~surprised
  PROVE  /\ Claims \in [Worker -> Nat]
         /\ \A w \in Worker : Claims[w] <= Allowance
<1> SUFFICES ASSUME NEW w \in Worker
             PROVE  cost[w] + Left(w) \in Nat /\ cost[w] + Left(w) <= Allowance
  BY DEF Claims
<1>1. /\ cost[w] \in Nat /\ own[w] \in Nat /\ loaded[w].tokens \in Nat /\ Ceiling \in Nat
      /\ Max(Sizes) \in Nat /\ cost[w] <= own[w] /\ cost[w] <= Max(Sizes)
  BY BudgetAssumption, LargestCall DEF TypeOK, CostIsOwn
<1>2. client[w] = "none" => cost[w] = 0
  BY DEF CallsAreOwned, OnlyAnswersCost
<1>3. client[w] # "none" => Known(w) <= Ceiling
  BY DEF ClientWithinCeiling
<1>4. /\ client[w] = "none" => Left(w) = 0
      /\ client[w] = "verifier" => Left(w) = IF own[w] = 0 THEN Max(Sizes) ELSE 0
      /\ client[w] \notin {"none", "verifier"} => Left(w) = (Ceiling - Known(w)) + Max(Sizes)
  BY DEF Left
<1> QED BY <1>1, <1>2, <1>3, <1>4 DEF Known, Allowance

\* A step that moves one worker's claim, and takes from it what it adds to the row,
\* leaves every claim covered.
LEMMA ClaimMoves ==
  ASSUME TypeOK, TypeOK', CallsAreOwned, CallsAreOwned', ClientWithinCeiling,
         ClientWithinCeiling', ClaimInv, OnlyAnswersCost', CostIsOwn', ~surprised, ~surprised',
         NEW w \in Worker, \A v \in Worker \ {w} : Claims'[v] = Claims[v],
         \/ spent' + Claims'[w] <= spent + Claims[w]
         \/ Claims[w] = 0 /\ spent' + Claims'[w] <= Allowance
  PROVE  ClaimsCovered'
<1>1. /\ Claims \in [Worker -> Nat] /\ Claims' \in [Worker -> Nat]
      /\ \A v \in Worker : Claims[v] <= Allowance
  <2>1. Claims' \in [Worker -> Nat]
    <3>1. ASSUME NEW v \in Worker PROVE (cost[v] + Left(v))' \in Nat
      <4>1. /\ cost'[v] \in Nat /\ own'[v] \in Nat /\ loaded'[v].tokens \in Nat
            /\ Ceiling \in Nat /\ Max(Sizes) \in Nat
        BY BudgetAssumption, LargestCall DEF TypeOK
      <4>2. client'[v] # "none" => Known(v)' <= Ceiling
        BY DEF ClientWithinCeiling
      <4> QED BY <4>1, <4>2 DEF Left, Known
    <3> QED BY <3>1 DEF Claims
  <2> QED BY <2>1, ClaimBound DEF ClaimInv
<1>2. IsFiniteSet(Tokens(Claims)) /\ Cardinality(Tokens(Claims)) \in Nat
  BY FS_CardinalityType DEF ClaimInv, ClaimsCovered
<1>3. /\ IsFiniteSet(Tokens(Claims'))
      /\ Cardinality(Tokens(Claims')) = (Cardinality(Tokens(Claims)) - Claims[w]) + Claims'[w]
  BY <1>1, <1>2, OneCountChanges
<1>4. /\ Claims[w] \in Nat /\ Claims'[w] \in Nat /\ spent \in Nat /\ spent' \in Nat
      /\ Allowance \in Nat
  BY <1>1, BudgetAssumption, LargestCall DEF TypeOK, Allowance
<1>5. Cardinality(Worker) * Allowance \in Nat
  BY <1>4, BudgetAssumption, FS_CardinalityType
<1>6. spent' + Cardinality(Tokens(Claims')) <= Cardinality(Worker) * Allowance
  <2>1. CASE spent' + Claims'[w] <= spent + Claims[w]
    <3>1. spent + Cardinality(Tokens(Claims)) <= Cardinality(Worker) * Allowance
      BY DEF ClaimInv, ClaimsCovered
    <3> QED BY <1>2, <1>3, <1>4, <1>5, <2>1, <3>1
  <2>2. CASE Claims[w] = 0 /\ spent' + Claims'[w] <= Allowance
    <3>1. Cardinality(Tokens(Claims)) + Allowance <= Cardinality(Worker) * Allowance
      BY <1>1, <1>4, <2>2, OthersLeaveRoom
    <3> QED BY <1>2, <1>3, <1>4, <1>5, <2>2, <3>1
  <2> QED BY <2>1, <2>2
<1>7. Tokens(Claims)' = Tokens(Claims') /\ Allowance' = Allowance
  BY DEF Tokens, Allowance
<1> QED BY <1>3, <1>6, <1>7 DEF ClaimsCovered

\* However many workers run tasks of one goal at once, they take it no further past its
\* ceiling than one allowance each, as long as no call costs more than its reserve.
THEOREM OvershootKept == Spec => []OvershootBounded
<1>1. Init => ClaimInv
  <2> SUFFICES ASSUME Init PROVE ClaimInv
    OBVIOUS
  <2>1. \A w \in Worker : Claims[w] = 0
    BY DEF Init, Claims, Left
  <2>2. IsFiniteSet(Tokens(Claims)) /\ Cardinality(Tokens(Claims)) = 0
    BY <2>1, NothingCounted
  <2>3. Cardinality(Worker) \in Nat /\ Allowance \in Nat
    BY BudgetAssumption, LargestCall, FS_CardinalityType DEF Allowance
  <2>4. 0 <= Cardinality(Worker) * Allowance
    BY <2>3
  <2> QED BY <2>2, <2>4, LargestCall DEF Init, ClaimInv, OnlyAnswersCost, CostIsOwn, VerifiesOnce, ClaimsCovered
<1>2. /\ TypeOK /\ CallsAreOwned /\ ClientWithinCeiling /\ ClaimInv
      /\ TypeOK' /\ CallsAreOwned' /\ ClientWithinCeiling' /\ [Next]_vars
      => ClaimInv'
  <2> SUFFICES ASSUME TypeOK, CallsAreOwned, ClientWithinCeiling, ClaimInv,
                      TypeOK', CallsAreOwned', ClientWithinCeiling', [Next]_vars
               PROVE  ClaimInv'
    OBVIOUS
  <2>1. CASE UNCHANGED vars
    BY <2>1 DEF vars, row, tally, asked, past, ClaimInv, OnlyAnswersCost, CostIsOwn, VerifiesOnce, ClaimsCovered,
                Claims, Left, Known, Tokens
  <2>2. ASSUME NEW w \in Worker, Step(w) PROVE ClaimInv'
    <3>1. /\ cost[w] \in Nat /\ own[w] \in Nat /\ loaded[w].tokens \in Nat /\ spent \in Nat
          /\ Ceiling \in Nat /\ Max(Sizes) \in Nat \ {0} /\ \A n \in Sizes : n \in Nat /\ n <= Max(Sizes)
          /\ call[w] # "answered" => cost[w] = 0
      BY BudgetAssumption, LargestCall DEF TypeOK, ClaimInv, OnlyAnswersCost
    <3> DEFINE Elsewhere == \A v \in Worker \ {w} :
                 /\ cost'[v] = cost[v] /\ own'[v] = own[v] /\ client'[v] = client[v]
                 /\ call'[v] = call[v] /\ loaded'[v] = loaded[v]
               Here == /\ call'[w] # "answered" => cost'[w] = 0
                       /\ cost'[w] <= own'[w] /\ cost'[w] <= Max(Sizes)
                       /\ call'[w] = "placed" /\ client'[w] = "verifier" => own'[w] = 0
                       /\ ~surprised' => ~surprised
    <3>2. Elsewhere /\ Here
      <4> USE DEF TypeOK, row, tally, asked, past, ClaimInv, OnlyAnswersCost, CostIsOwn, VerifiesOnce
      <4>1. CASE StartTask(w)
        <5>1. PICK k \in Work :
                client' = [client EXCEPT ![w] = IF k = "build" THEN "build" ELSE "executor"]
          BY <4>1 DEF StartTask
        <5>2. call[w] = "none"
          BY <4>1 DEF StartTask, CallsAreOwned
        <5> QED BY <3>1, <4>1, <5>1, <5>2 DEF StartTask
      <4>2. CASE Place(w)
        BY <3>1, <4>2 DEF Place
      <4>3. CASE Answered(w)
        <5>1. PICK n \in Sizes :
                /\ cost' = [cost EXCEPT ![w] = n]
                /\ own' = [own EXCEPT ![w] = @ + n]
                /\ surprised' = (surprised \/ n > CallReserve(seen[w]))
          BY <4>3 DEF Answered
        <5>2. ~surprised' => ~surprised
          BY <5>1, Zenon
        <5> QED BY <3>1, <4>3, <5>1, <5>2 DEF Answered
      <4>4. CASE RecordSpend(w)
        BY <3>1, <4>4 DEF RecordSpend
      <4>5. CASE CallFails(w)
        BY <3>1, <4>5 DEF CallFails, Leave
      <4>6. CASE EndClient(w)
        BY <3>1, <4>6 DEF EndClient, Leave, Verify
      <4>7. CASE Crash(w)
        BY <3>1, <4>7 DEF Crash, Leave
      <4> QED BY <2>2, <4>1, <4>2, <4>3, <4>4, <4>5, <4>6, <4>7 DEF Step
    <3>3. /\ OnlyAnswersCost' /\ CostIsOwn' /\ VerifiesOnce' /\ (~surprised' => ~surprised)
      BY <3>2 DEF ClaimInv, OnlyAnswersCost, CostIsOwn, VerifiesOnce
    <3>4. \A v \in Worker \ {w} : Claims'[v] = Claims[v]
      BY <3>2 DEF Claims, Left, Known
    <3>5. ASSUME ~surprised
          PROVE  \/ spent' + Claims'[w] <= spent + Claims[w]
                 \/ Claims[w] = 0 /\ spent' + Claims'[w] <= Allowance
      <4> USE DEF TypeOK, row, tally, asked, past
      <4>0. /\ Claims[w] = cost[w] + Left(w) /\ Claims'[w] = cost'[w] + Left(w)'
            /\ client[w] # "none" => Known(w) <= Ceiling
        BY <3>5 DEF Claims, ClientWithinCeiling
      <4>1. CASE StartTask(w)
        <5>1. PICK k \in Work :
                client' = [client EXCEPT ![w] = IF k = "build" THEN "build" ELSE "executor"]
          BY <4>1 DEF StartTask
        <5>2. /\ Known(w)' = spent /\ cost[w] = 0 /\ cost' = cost /\ spent' = spent
              /\ client[w] = "none" /\ client'[w] \notin {"none", "verifier"}
          BY <3>1, <4>1, <5>1 DEF StartTask, CallsAreOwned, Known
        <5>3. Left(w) = 0 /\ Left(w)' = (Ceiling - spent) + Max(Sizes)
          BY <5>2 DEF Left
        <5> QED BY <3>1, <4>0, <5>2, <5>3 DEF Allowance
      <4>2. CASE Place(w)
        BY <3>1, <4>0, <4>2 DEF Place, Left, Known
      <4>3. CASE Answered(w)
        <5>1. PICK n \in Sizes :
                cost' = [cost EXCEPT ![w] = n] /\ own' = [own EXCEPT ![w] = @ + n]
          BY <4>3 DEF Answered
        <5>2. /\ cost[w] = 0 /\ cost'[w] = n /\ own'[w] = own[w] + n /\ client' = client
              /\ client[w] # "none" /\ loaded' = loaded /\ spent' = spent
          BY <3>1, <4>3, <5>1 DEF Answered, CallsAreOwned
        <5>3. /\ Known(w)' = Known(w) + n /\ n \in Nat /\ n # 0 /\ n <= Max(Sizes)
              /\ client[w] = "verifier" => own[w] = 0
          BY <3>1, <4>3, <5>2, BudgetAssumption DEF Answered, Known, ClaimInv, VerifiesOnce
        <5>4. CASE client[w] = "verifier"
          BY <3>1, <4>0, <5>2, <5>3, <5>4 DEF Left
        <5>5. CASE client[w] # "verifier"
          BY <3>1, <4>0, <5>2, <5>3, <5>5 DEF Left, Known
        <5> QED BY <5>4, <5>5
      <4>4. CASE RecordSpend(w)
        <5>1. /\ Left(w)' = Left(w) /\ cost'[w] = 0 /\ spent' <= spent + cost[w] /\ spent' \in Nat
          BY <3>1, <4>4 DEF RecordSpend, Recorded, Left, Known
        <5>2. Left(w) \in Nat
          BY <3>1, <4>0 DEF Left, Known
        <5> QED BY <3>1, <4>0, <5>1, <5>2
      <4>5. CASE CallFails(w)
        BY <3>1, <4>0, <4>5 DEF CallFails, Leave, Left, Known
      <4>6. CASE EndClient(w)
        <5>1. cost[w] = 0 /\ cost' = cost /\ spent' = spent /\ client[w] # "none"
          BY <3>1, <4>6 DEF EndClient
        <5>2. CASE client'[w] = "none"
          BY <3>1, <4>0, <5>1, <5>2 DEF Left, Known
        <5>3. CASE Verify(w) /\ client[w] = "executor"
          BY <3>1, <4>0, <5>1, <5>3 DEF Verify, Left, Known
        <5> QED BY <4>6, <5>2, <5>3 DEF EndClient, Leave
      <4>7. CASE Crash(w)
        <5>1. cost'[w] = 0 /\ client'[w] = "none" /\ spent' = spent
          BY <4>7 DEF Crash, Leave
        <5> QED BY <3>1, <4>0, <5>1 DEF Left, Known
      <4> QED BY <2>2, <4>1, <4>2, <4>3, <4>4, <4>5, <4>6, <4>7 DEF Step
    <3>6. ASSUME ~surprised' PROVE ClaimsCovered'
      BY <3>3, <3>4, <3>5, <3>6, ClaimMoves
    <3> QED BY <3>3, <3>6 DEF ClaimInv, ClaimsCovered
  <2> QED BY <2>1, <2>2 DEF Next
<1>3. TypeOK /\ CallsAreOwned /\ ClientWithinCeiling /\ ClaimInv => OvershootBounded
  <2> SUFFICES ASSUME TypeOK, CallsAreOwned, ClientWithinCeiling, ClaimInv, ~surprised
               PROVE  spent + Pending <= Cardinality(Worker) * Allowance
    BY DEF OvershootBounded, Allowance
  <2>1. \A w \in Worker : cost[w] \in Nat /\ Claims[w] \in Nat /\ cost[w] <= Claims[w]
    BY BudgetAssumption, LargestCall DEF TypeOK, Claims, Left, Known, ClientWithinCeiling
  <2>2. Tokens(cost) \in SUBSET Tokens(Claims)
    BY <2>1 DEF Tokens
  <2>3. IsFiniteSet(Tokens(Claims)) /\ Cardinality(Tokens(Claims)) \in Nat
    BY FS_CardinalityType DEF ClaimInv, ClaimsCovered
  <2>4. IsFiniteSet(Tokens(cost)) /\ Pending <= Cardinality(Tokens(Claims)) /\ Pending \in Nat
    BY <2>2, <2>3, FS_Subset, FS_CardinalityType DEF Pending
  <2>5. Cardinality(Worker) * Allowance \in Nat /\ spent \in Nat
    BY BudgetAssumption, LargestCall, FS_CardinalityType DEF TypeOK, Allowance
  <2> QED BY <2>3, <2>4, <2>5 DEF ClaimInv, ClaimsCovered
<1> QED BY <1>1, <1>2, <1>3, TypeCorrect, ClientKeepsRoom, PTL DEF Spec
===============================================================================

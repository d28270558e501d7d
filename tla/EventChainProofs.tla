--------------------------- MODULE EventChainProofs ---------------------------
(* The timeline stays whole for any number of writers, transactions of any  *)
(* length, and any number of rows from before the chain.                    *)
EXTENDS EventChain, TLAPS

(* Rows in places 1..n, each linked to the one before it once the chain has
   begun. *)
Chained(rows) ==
  /\ \E n \in Nat : Seqs(rows) = 1..n
  /\ \A r, q \in rows : r.seq = q.seq => r = q
  /\ \A r, q \in rows : r.hash # None /\ r.seq < q.seq => q.hash # None
  /\ \A r, q \in rows : r.hash # None /\ q.seq = r.seq + 1 => q.prev = r.hash
  /\ \A r \in rows : r.hash # None => r.prev \in Hash /\ r.hash = EventHash(r.prev, r.seq, r.fact)

(* What a writer read is nothing, or a row it still sees. *)
Seen(w) ==
  \/ last[w] = Nothing
  \/ \E r \in Visible(w) : last[w].seq = r.seq /\ last[w].hash = r.hash

VisibleChained == \A w \in Writer : Chained(Visible(w))

(* Only one transaction at a time has rows, and they come after what is committed. *)
OneOpen == \A v, w \in Writer : open[v] # {} /\ open[w] # {} => v = w

OpenIsAhead == \A w \in Writer : \A r \in timeline, q \in open[w] : r.seq < q.seq

OpenIsJoined == \A w \in Writer : open[w] # {} => at[w] # "idle" /\ Joined(w)

ReadersSaw == \A w \in Writer : at[w] = "read" => Seen(w)

(* A writer that is about to append has an event to append. *)
EventsDue == \A w \in Writer : at[w] \in {"due", "read"} => todo[w] > 0

RowsInv == Chained(timeline) /\ VisibleChained /\ OneOpen /\ OpenIsAhead

Inv == TypeOK /\ RowsInv /\ OpenIsJoined /\ ReadersSaw /\ EventsDue
-----------------------------------------------------------------------------
(* Rows                                                                     *)

LEMMA HashTyped ==
  ASSUME NEW link \in Hash, NEW seq \in Nat, NEW f \in Nat
  PROVE  EventHash(link, seq, f) \in Hash /\ EventHash(link, seq, f) # None
<1>1. <<seq, f>> \in Nat \X Nat
  OBVIOUS
<1>2. EventHash(link, seq, f) \in Hash
  BY <1>1 DEF EventHash, Hash
<1> QED BY <1>2, ChainAssumption

\* A chained timeline gives an audit nothing to report.
LEMMA ChainedIsIntact ==
  ASSUME NEW rows \in SUBSET Row, Chained(rows)
  PROVE  Findings(rows) = {}
<1>1. MissingHash(rows) = {}
  BY DEF Chained, MissingHash, Hashed
<1>2. ContentAltered(rows) = {}
  BY ChainAssumption DEF Chained, ContentAltered, Hashed
<1>3. ASSUME NEW r \in Hashed(rows), NEW p \in Hashed(rows), Follows(rows, p, r)
      PROVE  r.prev = p.hash
  <2>1. PICK n \in Nat : Seqs(rows) = 1..n
    BY DEF Chained
  <2>2. r \in rows /\ p \in rows /\ p.hash # None /\ p.seq < r.seq
    BY <1>3 DEF Follows, Hashed
  <2>3. p.seq \in 1..n /\ r.seq \in 1..n
    BY <2>1, <2>2 DEF Seqs
  <2>4. p.seq + 1 \in Seqs(rows)
    BY <2>1, <2>2, <2>3
  <2>5. PICK q \in rows : q.seq = p.seq + 1
    BY <2>4 DEF Seqs
  <2>6. q \in Hashed(rows)
    BY <2>2, <2>3, <2>5 DEF Chained, Hashed
  <2>7. r.seq = q.seq
    BY <1>3, <2>2, <2>3, <2>5, <2>6 DEF Follows
  <2>8. r = q
    BY <2>2, <2>5, <2>7 DEF Chained
  <2> QED BY <2>2, <2>5, <2>8 DEF Chained
<1>4. BrokenLink(rows) = {}
  BY <1>3 DEF BrokenLink
<1> QED BY <1>1, <1>2, <1>4 DEF Findings

\* Rows that are there have a last one.
LEMMA LastExists ==
  ASSUME NEW rows \in SUBSET Row, Chained(rows), rows # {}
  PROVE  \E r \in rows : \A q \in rows : q.seq <= r.seq
<1>1. PICK n \in Nat : Seqs(rows) = 1..n
  BY DEF Chained
<1>2. n # 0
  BY <1>1 DEF Seqs
<1>3. n \in Seqs(rows)
  BY <1>1, <1>2
<1>4. PICK r \in rows : r.seq = n
  BY <1>3 DEF Seqs
<1>5. \A q \in rows : q.seq <= n
  <2> TAKE q \in rows
  <2>1. q.seq \in Seqs(rows)
    BY DEF Seqs
  <2> QED BY <1>1, <2>1
<1> QED BY <1>4, <1>5

\* A row in the next place, linked to the last row, keeps the rows chained.
LEMMA NextRowChains ==
  ASSUME NEW rows \in SUBSET Row, Chained(rows),
         NEW n \in Nat, Seqs(rows) = 1..n,
         NEW x \in Row, x.seq = n + 1, x.prev \in Hash, x.hash # None,
         x.hash = EventHash(x.prev, x.seq, x.fact),
         \A r \in rows : r.seq = n /\ r.hash # None => x.prev = r.hash
  PROVE  Chained(rows \cup {x}) /\ \A r \in rows : r.seq < x.seq
<1>1. \A r \in rows : r.seq \in 1..n /\ r.seq \in Nat
  BY DEF Seqs, Row
<1>2. Seqs(rows \cup {x}) = Seqs(rows) \cup {n + 1}
  BY DEF Seqs
<1>3. Seqs(rows \cup {x}) = 1..(n + 1) /\ n + 1 \in Nat
  <2>1. 1..(n + 1) = (1..n) \cup {n + 1}
    OBVIOUS
  <2>2. n + 1 \in Nat
    OBVIOUS
  <2>3. Seqs(rows \cup {x}) = (1..n) \cup {n + 1}
    BY <1>2
  <2> QED BY <2>1, <2>2, <2>3
<1>4. \A r \in rows : r.seq < x.seq /\ ~(x.seq < r.seq) /\ r.seq # x.seq /\ r.seq # x.seq + 1
  BY <1>1
<1>5. \A r, q \in rows \cup {x} : r.seq = q.seq => r = q
  BY <1>4 DEF Chained
<1>6. \A r, q \in rows \cup {x} : r.hash # None /\ r.seq < q.seq => q.hash # None
  BY <1>4 DEF Chained
<1>7. \A r, q \in rows \cup {x} : r.hash # None /\ q.seq = r.seq + 1 => q.prev = r.hash
  <2> SUFFICES ASSUME NEW r \in rows \cup {x}, NEW q \in rows \cup {x},
                      r.hash # None, q.seq = r.seq + 1
               PROVE  q.prev = r.hash
    OBVIOUS
  <2>1. CASE q \in rows /\ r \in rows
    BY <2>1 DEF Chained
  <2>2. CASE q = x /\ r \in rows
    <3>1. r.seq = n
      BY <1>1, <2>2
    <3> QED BY <2>2, <3>1
  <2>3. CASE r = x
    BY <1>4, <2>3
  <2> QED BY <2>1, <2>2, <2>3
<1>8. \A r \in rows \cup {x} :
        r.hash # None => r.prev \in Hash /\ r.hash = EventHash(r.prev, r.seq, r.fact)
  BY DEF Chained
<1> QED BY <1>3, <1>4, <1>5, <1>6, <1>7, <1>8 DEF Chained

\* A read sees nothing, or the last of the rows it can see.
LEMMA ReadIsSeen ==
  ASSUME TypeOK, NEW w \in Writer, Chained(Visible(w))
  PROVE  /\ LastRow(w) \in [seq: Nat, hash: Hash \cup {None}]
         /\ \/ LastRow(w) = Nothing
            \/ \E r \in Visible(w) : LastRow(w).seq = r.seq /\ LastRow(w).hash = r.hash
<1>1. Visible(w) \in SUBSET Row
  BY DEF Visible, TypeOK
<1>2. CASE Visible(w) = {}
  BY <1>2 DEF LastRow, Nothing
<1>3. CASE Visible(w) # {}
  <2> DEFINE r == CHOOSE r \in Visible(w) : \A q \in Visible(w) : q.seq <= r.seq
  <2>1. \E x \in Visible(w) : \A q \in Visible(w) : q.seq <= x.seq
    BY <1>1, <1>3, LastExists
  <2>2. r \in Visible(w)
    BY <2>1
  <2>3. LastRow(w) = [seq |-> r.seq, hash |-> r.hash]
    BY <1>3 DEF LastRow
  <2>4. r \in Row
    BY <1>1, <2>2
  <2> HIDE DEF r
  <2>5. r.seq \in Nat /\ r.hash \in Hash \cup {None}
    BY <2>4 DEF Row
  <2> QED BY <2>2, <2>3, <2>5
<1> QED BY <1>2, <1>3

\* A place that is free and waited for is the one after the last row, and
\* nobody else has a transaction open.
LEMMA FreePlace ==
  ASSUME Inv, NEW w \in Writer, at[w] = "read", ~MustWait(w), ~Taken(w)
  PROVE  /\ \A v \in Writer \ {w} : open[v] = {}
         /\ NextRow(w) \in Row
         /\ Chained(Visible(w) \cup {NextRow(w)})
         /\ \A r \in Visible(w) : r.seq < NextRow(w).seq
<1>1. PICK n \in Nat : Seqs(Visible(w)) = 1..n
  BY DEF Inv, RowsInv, VisibleChained, Chained
<1>2. Visible(w) \in SUBSET Row /\ Chained(Visible(w)) /\ Seen(w) /\ last[w].seq \in Nat
  BY DEF Inv, RowsInv, TypeOK, VisibleChained, ReadersSaw, Visible
<1>3. last[w].seq = 0 \/ last[w].seq \in 1..n
  BY <1>1, <1>2 DEF Seen, Nothing, Seqs
<1>4. last[w].seq + 1 \notin 1..n
  BY <1>1 DEF Taken
<1>5. last[w].seq = n
  BY <1>2, <1>3, <1>4
<1>6. ASSUME NEW v \in Writer \ {w}, open[v] # {} PROVE FALSE
  <2>1. open[w] = {}
    BY <1>6 DEF Inv, RowsInv, OneOpen
  <2>2. Visible(w) = timeline
    BY <2>1 DEF Visible
  <2>3. PICK q \in open[v] : TRUE
    BY <1>6
  <2>4. PICK m \in Nat : Seqs(Visible(v)) = 1..m
    BY DEF Inv, RowsInv, VisibleChained, Chained
  <2>5. q \in Row /\ q.seq \in 1..m
    BY <2>3, <2>4 DEF Seqs, Visible, Inv, TypeOK
  <2>6. n < q.seq
    <3>1. CASE n = 0
      BY <2>5, <3>1
    <3>2. CASE n # 0
      <4>1. n \in Seqs(timeline)
        BY <1>1, <2>2, <3>2
      <4>2. PICK r \in timeline : r.seq = n
        BY <4>1 DEF Seqs
      <4> QED BY <2>3, <4>2 DEF Inv, RowsInv, OpenIsAhead
    <3> QED BY <3>1, <3>2
  <2>7. n + 1 \in Seqs(Visible(v))
    BY <2>4, <2>5, <2>6
  <2>8. PICK x \in Visible(v) : x.seq = n + 1
    BY <2>7 DEF Seqs
  <2>9. x \notin timeline
    BY <1>1, <1>4, <1>5, <2>2, <2>8 DEF Seqs
  <2>10. x \in open[v]
    BY <2>8, <2>9 DEF Visible
  <2> QED BY <1>5, <1>6, <2>8, <2>10 DEF MustWait, Seqs
<1> DEFINE x == NextRow(w)
<1>7. /\ x.seq = n + 1 /\ x.prev \in Hash
      /\ x.hash = EventHash(x.prev, x.seq, x.fact) /\ x.fact \in Nat
      /\ x = [seq |-> x.seq, fact |-> x.fact, prev |-> x.prev, hash |-> x.hash]
  <2>1. chainGenesis \in Hash
    BY DEF chainGenesis, Hash
  <2>2. last[w].hash \in Hash \cup {None} /\ fact[w] \in Nat
    BY DEF Inv, TypeOK
  <2> QED BY <1>5, <2>1, <2>2 DEF NextRow
<1>8. x.prev = IF last[w].hash = None THEN chainGenesis ELSE last[w].hash
  BY DEF NextRow
<1> HIDE DEF x
<1>9. x.hash \in Hash /\ x.hash # None
  <2>1. n + 1 \in Nat
    OBVIOUS
  <2> QED BY <1>7, <2>1, HashTyped
<1>10. x \in Row
  BY <1>7, <1>9 DEF Row
<1>11. ASSUME NEW r \in Visible(w), r.seq = n, r.hash # None PROVE x.prev = r.hash
  <2>1. last[w].hash = r.hash
    <3>1. CASE last[w] = Nothing
      <4>1. n = 0
        BY <1>5, <3>1 DEF Nothing
      <4>2. r.seq \in 1..n
        BY <1>1 DEF Seqs
      <4> QED BY <1>11, <4>1, <4>2
    <3>2. CASE \E q \in Visible(w) : last[w].seq = q.seq /\ last[w].hash = q.hash
      BY <1>2, <1>5, <1>11, <3>2 DEF Chained
    <3> QED BY <1>2, <3>1, <3>2 DEF Seen
  <2> QED BY <1>8, <1>11, <2>1
<1>12. Chained(Visible(w) \cup {x}) /\ \A r \in Visible(w) : r.seq < x.seq
  BY <1>1, <1>2, <1>7, <1>9, <1>10, <1>11, NextRowChains
<1> QED BY <1>6, <1>10, <1>12 DEF x
-----------------------------------------------------------------------------
(* Steps                                                                    *)

LEMMA InitInv == Init => Inv
<1> SUFFICES ASSUME Init PROVE Inv
  OBVIOUS
<1>1. \A r \in timeline : r.seq \in 1..Legacy /\ r.fact = 0 /\ r.prev = None /\ r.hash = None
  BY DEF Init
<1>2. timeline \subseteq Row
  BY ChainAssumption DEF Init, Row
<1>3. TypeOK
  BY <1>2, ChainAssumption DEF Init, TypeOK, Nothing
<1>4. Chained(timeline)
  <2>1. Seqs(timeline) = 1..Legacy
    <3>1. ASSUME NEW n \in 1..Legacy PROVE n \in Seqs(timeline)
      <4> DEFINE r == [seq |-> n, fact |-> 0, prev |-> None, hash |-> None]
      <4>1. r \in timeline /\ r.seq = n
        BY DEF Init
      <4> QED BY <4>1 DEF Seqs
    <3>2. \A n \in Seqs(timeline) : n \in 1..Legacy
      BY <1>1 DEF Seqs
    <3> QED BY <3>1, <3>2
  <2>2. \A r, q \in timeline : r.seq = q.seq => r = q
    BY DEF Init
  <2> QED BY <1>1, <2>1, <2>2, ChainAssumption DEF Chained
<1>5. \A w \in Writer : Visible(w) = timeline /\ open[w] = {}
  BY DEF Init, Visible
<1> QED BY <1>3, <1>4, <1>5 DEF Inv, RowsInv, VisibleChained, OneOpen, OpenIsAhead, OpenIsJoined,
          ReadersSaw, EventsDue, Init

\* Only a fact is begun: the rows are left as they are.
LEMMA BeginKeepsInv ==
  ASSUME Inv, NEW w \in Writer, Act(w) \/ BeginTx(w)
  PROVE  Inv'
<1>1. /\ at[w] = "idle" /\ facts' = facts + 1
      /\ fact' = [fact EXCEPT ![w] = facts'] /\ at' = [at EXCEPT ![w] = "due"]
      /\ timeline' = timeline /\ open' = open /\ last' = last
      /\ joined \subseteq joined'
  BY DEF Act, BeginTx
<1>2. PICK n \in Nat \ {0} : todo' = [todo EXCEPT ![w] = n]
  BY ChainAssumption DEF Act, BeginTx
<1>3. TypeOK'
  <2>1. facts' \in Nat
    BY <1>1 DEF Inv, TypeOK
  <2>2. /\ happened' \subseteq happened \cup {facts'} /\ joined' \subseteq joined \cup {facts'}
        /\ missed' = missed
    BY DEF Act, BeginTx
  <2>3. happened' \subseteq Nat /\ joined' \subseteq Nat /\ missed' \subseteq Nat
    BY <2>1, <2>2 DEF Inv, TypeOK
  <2> QED BY <1>1, <1>2, <2>1, <2>3 DEF Inv, TypeOK
<1>4. open[w] = {}
  BY <1>1 DEF Inv, OpenIsJoined
<1>5. \A v \in Writer : Visible(v)' = Visible(v)
  BY <1>1 DEF Visible
<1>6. OpenIsJoined'
  BY <1>1, <1>4 DEF Inv, OpenIsJoined, Joined, TypeOK
<1>7. ReadersSaw'
  BY <1>1, <1>5 DEF Inv, ReadersSaw, Seen, TypeOK
<1>8. EventsDue'
  BY <1>1, <1>2 DEF Inv, EventsDue, TypeOK
<1>9. RowsInv'
  BY <1>1, <1>5 DEF Inv, RowsInv, VisibleChained, OneOpen, OpenIsAhead
<1> QED BY <1>3, <1>6, <1>7, <1>8, <1>9 DEF Inv

LEMMA ReadKeepsInv ==
  ASSUME Inv, NEW w \in Writer, Read(w)
  PROVE  Inv'
<1>1. /\ at[w] = "due" /\ at' = [at EXCEPT ![w] = "read"]
      /\ last' = [last EXCEPT ![w] = LastRow(w)]
      /\ UNCHANGED <<timeline, open, todo, fact, facts, happened, joined, missed>>
  BY DEF Read, history
<1>2. /\ LastRow(w) \in [seq: Nat, hash: Hash \cup {None}]
      /\ \/ LastRow(w) = Nothing
         \/ \E r \in Visible(w) : LastRow(w).seq = r.seq /\ LastRow(w).hash = r.hash
  BY ReadIsSeen DEF Inv, RowsInv, VisibleChained
<1>3. TypeOK'
  BY <1>1, <1>2 DEF Inv, TypeOK
<1>4. \A v \in Writer : Visible(v)' = Visible(v)
  BY <1>1 DEF Visible
<1>5. ReadersSaw'
  BY <1>1, <1>2, <1>4 DEF Inv, ReadersSaw, Seen, TypeOK
<1>6. RowsInv'
  BY <1>1, <1>4 DEF Inv, RowsInv, VisibleChained, OneOpen, OpenIsAhead
<1>7. OpenIsJoined' /\ EventsDue'
  BY <1>1 DEF Inv, OpenIsJoined, Joined, EventsDue, TypeOK
<1> QED BY <1>3, <1>5, <1>6, <1>7 DEF Inv

\* A row of its own goes into a writer's transaction.
LEMMA InsertInTxKeepsInv ==
  ASSUME Inv, NEW w \in Writer, Insert(w), Joined(w)
  PROVE  Inv'
<1> DEFINE x == NextRow(w)
<1>1. /\ at[w] = "read" /\ ~MustWait(w) /\ ~Taken(w)
      /\ todo' = [todo EXCEPT ![w] = @ - 1]
      /\ open' = [open EXCEPT ![w] = @ \cup {x}]
      /\ at' = [at EXCEPT ![w] = IF todo[w] > 1 THEN "due" ELSE "written"]
      /\ UNCHANGED <<timeline, last, fact, facts, happened, joined, missed>>
  BY DEF Insert, history
<1>2. /\ \A v \in Writer \ {w} : open[v] = {}
      /\ x \in Row
      /\ Chained(Visible(w) \cup {x})
      /\ \A r \in Visible(w) : r.seq < x.seq
  BY <1>1, FreePlace
<1> HIDE DEF x
<1>3. TypeOK'
  <2>1. todo[w] \in Nat /\ todo[w] > 0
    BY <1>1 DEF Inv, EventsDue, TypeOK
  <2>2. todo' \in [Writer -> Nat]
    BY <1>1, <2>1 DEF Inv, TypeOK
  <2> QED BY <1>1, <1>2, <2>2 DEF Inv, TypeOK
<1>4. /\ open'[w] = open[w] \cup {x}
      /\ \A v \in Writer \ {w} : open'[v] = {} /\ at'[v] = at[v] /\ Visible(v)' = Visible(v)
  BY <1>1, <1>2 DEF Visible, Inv, TypeOK
<1>5. Visible(w)' = Visible(w) \cup {x}
  BY <1>1, <1>4 DEF Visible
<1>6. RowsInv'
  <2>1. VisibleChained' /\ Chained(timeline')
    BY <1>1, <1>2, <1>4, <1>5 DEF Inv, RowsInv, VisibleChained
  <2>2. OneOpen'
    BY <1>4 DEF OneOpen
  <2>3. OpenIsAhead'
    BY <1>1, <1>2, <1>4 DEF Inv, RowsInv, OpenIsAhead, Visible
  <2> QED BY <2>1, <2>2, <2>3, <1>1 DEF RowsInv
<1>7. OpenIsJoined'
  BY <1>1, <1>4 DEF OpenIsJoined, Joined, Inv, TypeOK
<1>8. ReadersSaw'
  BY <1>1, <1>4 DEF Inv, ReadersSaw, Seen, TypeOK
<1>9. EventsDue'
  BY <1>1 DEF Inv, EventsDue, TypeOK
<1> QED BY <1>3, <1>6, <1>7, <1>8, <1>9 DEF Inv

\* A row that commits by itself; its writer may never hear of it.
LEMMA LoneInsertKeepsInv ==
  ASSUME Inv, NEW w \in Writer, at[w] = "read", ~MustWait(w), ~Taken(w), ~Joined(w),
         timeline' = timeline \cup {NextRow(w)},
         open' = [open EXCEPT ![w] = {}], at' = [at EXCEPT ![w] = "idle"],
         NEW n \in Nat, todo' = [todo EXCEPT ![w] = n],
         UNCHANGED <<last, fact, facts, happened, joined>>, missed' \subseteq missed \cup {fact[w]}
  PROVE  Inv' /\ \A r \in timeline : r.seq < NextRow(w).seq
<1> DEFINE x == NextRow(w)
<1>1. /\ \A v \in Writer \ {w} : open[v] = {}
      /\ x \in Row
      /\ Chained(Visible(w) \cup {x})
      /\ \A r \in Visible(w) : r.seq < x.seq
  BY FreePlace
<1>2. timeline' = timeline \cup {x}
  OBVIOUS
<1> HIDE DEF x
<1>3. open[w] = {} /\ Visible(w) = timeline
  BY DEF Inv, OpenIsJoined, Visible
<1>4. \A v \in Writer : open'[v] = {} /\ Visible(v)' = timeline'
  BY <1>1 DEF Inv, TypeOK, Visible
<1>5. TypeOK'
  BY <1>1, <1>2 DEF Inv, TypeOK
<1>6. RowsInv'
  BY <1>1, <1>2, <1>3, <1>4 DEF RowsInv, VisibleChained, OneOpen, OpenIsAhead
<1>7. OpenIsJoined'
  BY <1>4 DEF OpenIsJoined
<1>8. ReadersSaw'
  <2> SUFFICES ASSUME NEW v \in Writer, at'[v] = "read" PROVE Seen(v)'
    BY DEF ReadersSaw
  <2>1. v # w /\ at[v] = "read"
    BY DEF Inv, TypeOK
  <2>2. Visible(v) \subseteq Visible(v)'
    BY <1>1, <1>2, <1>4, <2>1 DEF Visible
  <2> QED BY <2>1, <2>2 DEF Inv, ReadersSaw, Seen
<1>9. EventsDue'
  BY DEF Inv, EventsDue, TypeOK
<1> QED BY <1>1, <1>3, <1>5, <1>6, <1>7, <1>8, <1>9 DEF Inv, x

\* A transaction is undone.
LEMMA AbandonKeepsInv ==
  ASSUME Inv, NEW w \in Writer, Abandon(w), timeline' = timeline,
         UNCHANGED <<facts, happened, joined>>, missed' \subseteq missed \cup {fact[w]}
  PROVE  Inv'
<1>1. /\ at' = [at EXCEPT ![w] = "idle"] /\ todo' = [todo EXCEPT ![w] = 0]
      /\ open' = [open EXCEPT ![w] = {}] /\ UNCHANGED <<last, fact>>
  BY DEF Abandon
<1>2. /\ open'[w] = {} /\ Visible(w)' = timeline
      /\ \A v \in Writer \ {w} : open'[v] = open[v] /\ at'[v] = at[v] /\ Visible(v)' = Visible(v)
  BY <1>1 DEF Inv, TypeOK, Visible
<1>3. TypeOK'
  BY <1>1 DEF Inv, TypeOK
<1>4. RowsInv'
  BY <1>1, <1>2 DEF Inv, RowsInv, VisibleChained, OneOpen, OpenIsAhead
<1>5. OpenIsJoined' /\ EventsDue'
  BY <1>1, <1>2 DEF Inv, OpenIsJoined, Joined, EventsDue, TypeOK
<1>6. ReadersSaw'
  BY <1>1, <1>2 DEF Inv, ReadersSaw, Seen, TypeOK
<1> QED BY <1>3, <1>4, <1>5, <1>6 DEF Inv

\* A transaction commits; its writer may never hear of it.
LEMMA CommitKeepsInv ==
  ASSUME Inv, NEW w \in Writer, CommitAll(w), Abandon(w),
         UNCHANGED <<facts, joined>>, missed' \subseteq missed \cup {fact[w]}
  PROVE  Inv'
<1>1. /\ at' = [at EXCEPT ![w] = "idle"] /\ todo' = [todo EXCEPT ![w] = 0]
      /\ open' = [open EXCEPT ![w] = {}] /\ UNCHANGED <<last, fact>>
      /\ timeline' = timeline \cup open[w] /\ happened' = happened \cup {fact[w]}
  BY DEF Abandon, CommitAll
<1>2. /\ open'[w] = {} /\ Visible(w)' = Visible(w) /\ timeline' = Visible(w)
      /\ \A v \in Writer \ {w} : open'[v] = open[v] /\ at'[v] = at[v]
  BY <1>1 DEF Inv, TypeOK, Visible
<1>3. \A v \in Writer \ {w} :
        /\ open[w] # {} => open[v] = {} /\ Visible(v)' = Visible(w)
        /\ open[w] = {} => Visible(v)' = Visible(v)
        /\ Visible(v) \subseteq Visible(v)'
  BY <1>1, <1>2 DEF Inv, RowsInv, OneOpen, Visible
<1>4. TypeOK'
  BY <1>1 DEF Inv, TypeOK
<1>5. RowsInv'
  <2>1. Chained(timeline') /\ VisibleChained'
    BY <1>2, <1>3 DEF Inv, RowsInv, VisibleChained
  <2>2. OneOpen' /\ OpenIsAhead'
    BY <1>1, <1>2, <1>3 DEF Inv, RowsInv, OneOpen, OpenIsAhead
  <2> QED BY <2>1, <2>2 DEF RowsInv
<1>6. OpenIsJoined' /\ EventsDue'
  BY <1>1, <1>2 DEF Inv, OpenIsJoined, Joined, EventsDue, TypeOK
<1>7. ReadersSaw'
  <2> SUFFICES ASSUME NEW v \in Writer, at'[v] = "read" PROVE Seen(v)'
    BY DEF ReadersSaw
  <2>1. v # w /\ at[v] = "read"
    BY <1>1 DEF Inv, TypeOK
  <2> QED BY <1>1, <1>3, <2>1 DEF Inv, ReadersSaw, Seen
<1> QED BY <1>4, <1>5, <1>6, <1>7 DEF Inv
-----------------------------------------------------------------------------
(* The theorems                                                             *)

(* A step adds no row, or rows in places behind all there are. *)
AppendsBehind ==
  /\ timeline \subseteq timeline'
  /\ \A r \in timeline, q \in timeline' \ timeline : r.seq < q.seq

LEMMA NextKeepsInv ==
  ASSUME Inv, Next
  PROVE  Inv' /\ AppendsBehind
<1>1. PICK w \in Writer : Step(w)
  BY DEF Next
<1>2. CASE Act(w) \/ BeginTx(w)
  BY <1>2, BeginKeepsInv DEF Act, BeginTx, AppendsBehind
<1>3. CASE Read(w)
  BY <1>3, ReadKeepsInv DEF Read, AppendsBehind
<1>4. CASE Insert(w)
  <2>1. CASE Joined(w)
    BY <1>4, <2>1, InsertInTxKeepsInv DEF Insert, AppendsBehind
  <2>2. CASE ~Joined(w)
    <3>1. open[w] = {}
      BY <2>2 DEF Inv, OpenIsJoined
    <3>2. open' = [open EXCEPT ![w] = {}]
      BY <1>4, <2>2, <3>1 DEF Insert, Inv, TypeOK
    <3>3. todo[w] - 1 \in Nat
      BY <1>4 DEF Insert, Inv, EventsDue, TypeOK
    <3>4. /\ at[w] = "read" /\ ~MustWait(w) /\ ~Taken(w)
          /\ timeline' = timeline \cup {NextRow(w)} /\ at' = [at EXCEPT ![w] = "idle"]
          /\ todo' = [todo EXCEPT ![w] = todo[w] - 1]
          /\ UNCHANGED <<last, fact, facts, happened, joined, missed>>
      BY <1>4, <2>2 DEF Insert, history
    <3>5. Inv' /\ \A r \in timeline : r.seq < NextRow(w).seq
      BY <2>2, <3>2, <3>3, <3>4, LoneInsertKeepsInv
    <3> QED BY <3>4, <3>5 DEF AppendsBehind
  <2> QED BY <2>1, <2>2
<1>5. CASE Collide(w)
  BY <1>5, AbandonKeepsInv DEF Collide, history, AppendsBehind
<1>6. ASSUME CommitAll(w), Abandon(w), UNCHANGED <<facts, joined>>,
             missed' \subseteq missed \cup {fact[w]}
      PROVE  Inv' /\ AppendsBehind
  <2>1. Inv'
    BY <1>6, CommitKeepsInv
  <2>2. AppendsBehind
    BY <1>6 DEF CommitAll, AppendsBehind, Inv, RowsInv, OpenIsAhead
  <2> QED BY <2>1, <2>2
<1>7. CASE Commit(w)
  BY <1>6, <1>7 DEF Commit
<1>8. CASE Fail(w)
  BY <1>8, AbandonKeepsInv DEF Fail, AppendsBehind
<1>9. CASE FailUnheard(w)
  <2>1. CASE at[w] = "written" /\ CommitAll(w)
    BY <1>6, <1>9, <2>1 DEF FailUnheard
  <2>2. CASE /\ at[w] = "read" /\ ~Joined(w) /\ ~MustWait(w) /\ ~Taken(w)
             /\ timeline' = timeline \cup {NextRow(w)} /\ UNCHANGED happened
    <3>1. Inv' /\ \A r \in timeline : r.seq < NextRow(w).seq
      BY <1>9, <2>2, LoneInsertKeepsInv DEF FailUnheard, Abandon
    <3> QED BY <2>2, <3>1 DEF AppendsBehind
  <2> QED BY <1>9, <2>1, <2>2 DEF FailUnheard
<1> QED BY <1>1, <1>2, <1>3, <1>4, <1>5, <1>7, <1>8, <1>9 DEF Step, Statement

LEMMA StutterKeepsInv ==
  ASSUME Inv, UNCHANGED vars
  PROVE  Inv'
<1> USE DEF vars, writers, history
<1>1. TypeOK'
  BY DEF Inv, TypeOK
<1>2. \A w \in Writer : Visible(w)' = Visible(w)
  BY DEF Visible
<1>3. RowsInv'
  BY <1>2 DEF Inv, RowsInv, VisibleChained, OneOpen, OpenIsAhead
<1>4. OpenIsJoined' /\ EventsDue'
  BY DEF Inv, OpenIsJoined, Joined, EventsDue
<1>5. ReadersSaw'
  BY <1>2 DEF Inv, ReadersSaw, Seen
<1> QED BY <1>1, <1>3, <1>4, <1>5 DEF Inv

LEMMA Invariance == Spec => []Inv
<1>1. Inv /\ [Next]_vars => Inv'
  BY NextKeepsInv, StutterKeepsInv
<1> QED BY <1>1, InitInv, PTL DEF Spec

\* Every variable keeps its type.
THEOREM TypeCorrect == Spec => []TypeOK
<1>1. Inv => TypeOK
  BY DEF Inv
<1> QED BY <1>1, Invariance, PTL

\* Whatever the writers do to each other, an audit finds the chain whole.
THEOREM AuditFindsNothing == Spec => []ChainIntact
<1>1. Inv => ChainIntact
  BY ChainedIsIntact DEF Inv, RowsInv, TypeOK, ChainIntact
<1> QED BY <1>1, Invariance, PTL

\* Rolled-back transactions leave no gap, and no place is given twice.
THEOREM PlacesAreGapless == Spec => []Gapless
<1>1. ASSUME Inv PROVE Gapless
  <2>1. Chained(timeline) /\ timeline \subseteq Row
    BY <1>1 DEF Inv, RowsInv, TypeOK
  <2>2. PICK n \in Nat : Seqs(timeline) = 1..n
    BY <2>1 DEF Chained
  <2>3. ASSUME NEW r \in timeline, r.seq # 1 PROVE r.seq - 1 \in Seqs(timeline) \ {0}
    <3>1. r.seq \in 1..n
      BY <2>2 DEF Seqs
    <3> QED BY <2>2, <2>3, <3>1
  <2> QED BY <2>1, <2>3 DEF Chained, Gapless
<1> QED BY <1>1, Invariance, PTL

\* An event never appears behind one that could already be read.
THEOREM ReadersMissNothing == Spec => AppendsOnly
<1>1. Inv /\ [Next]_vars =>
        [/\ timeline \subseteq timeline'
         /\ \A r \in timeline, q \in timeline' \ timeline : r.seq < q.seq]_vars
  BY NextKeepsInv DEF AppendsBehind
<1> QED BY <1>1, Invariance, PTL DEF Spec, AppendsOnly
-----------------------------------------------------------------------------
(* One transaction for a fact and its events                                *)

Busy(w) == at[w] # "idle"

(* Facts are numbered as they begin, and each has one writer. *)
FactsNumbered ==
  /\ \A w \in Writer : Busy(w) => fact[w] \in 1..facts
  /\ \A v, w \in Writer : Busy(v) /\ Busy(w) /\ fact[v] = fact[w] => v = w
  /\ \A f \in joined \cup happened : f \in 1..facts
  /\ \A r \in timeline : r.fact \in 0..facts

(* A fact that is still being written in a transaction is nowhere yet, and its
   transaction holds rows of it alone. *)
PendingIsHidden ==
  \A w \in Writer : Busy(w) /\ Joined(w) =>
    /\ fact[w] \notin happened
    /\ ~OnTimeline(fact[w])
    /\ \A r \in open[w] : r.fact = fact[w]
    /\ at[w] = "written" => open[w] # {}

(* A fact that was written first is durable. *)
ToldLater ==
  \A w \in Writer : Busy(w) /\ ~Joined(w) => fact[w] \in happened /\ at[w] # "written"

TellInv == FactsNumbered /\ PendingIsHidden /\ ToldLater /\ ToldTogether

LEMMA InitTells == Init => TellInv
<1> SUFFICES ASSUME Init PROVE TellInv
  OBVIOUS
<1>1. \A r \in timeline : r.fact = 0
  BY DEF Init
<1>2. \A w \in Writer : ~Busy(w)
  BY DEF Init, Busy
<1> QED BY <1>1, <1>2 DEF Init, TellInv, FactsNumbered, PendingIsHidden, ToldLater, ToldTogether

\* A new fact has a number nothing has yet.
LEMMA BeginTells ==
  ASSUME Inv, TellInv, NEW w \in Writer, Act(w) \/ BeginTx(w)
  PROVE  TellInv'
<1>1. /\ at[w] = "idle" /\ facts' = facts + 1 /\ facts \in Nat
      /\ fact' = [fact EXCEPT ![w] = facts'] /\ at' = [at EXCEPT ![w] = "due"]
      /\ timeline' = timeline /\ open' = open
      /\ \/ happened' = happened \cup {facts'} /\ joined' = joined
         \/ happened' = happened /\ joined' = joined \cup {facts'}
  BY DEF Act, BeginTx, Inv, TypeOK
<1>2. /\ facts' \notin joined \cup happened /\ facts' \in 1..facts'
      /\ \A f \in 0..facts : f \in 0..facts' /\ f # facts'
      /\ \A f \in 1..facts : f \in 1..facts' /\ f # facts'
  BY <1>1 DEF TellInv, FactsNumbered
<1>3. /\ fact'[w] = facts' /\ at'[w] = "due" /\ open[w] = {}
      /\ \A v \in Writer \ {w} : fact'[v] = fact[v] /\ at'[v] = at[v]
  BY <1>1 DEF Inv, TypeOK, OpenIsJoined
<1>4. \A f : OnTimeline(f)' <=> OnTimeline(f)
  BY <1>1 DEF OnTimeline
<1>5. ~OnTimeline(facts')
  BY <1>2 DEF OnTimeline, TellInv, FactsNumbered
<1>6. \A v \in Writer \ {w} :
        Busy(v)' <=> Busy(v) /\ (Busy(v) => (Joined(v)' <=> Joined(v)))
  BY <1>1, <1>2, <1>3 DEF Busy, Joined, TellInv, FactsNumbered
<1>7. FactsNumbered'
  BY <1>1, <1>2, <1>3 DEF TellInv, FactsNumbered, Busy
<1>8. PendingIsHidden'
  <2>1. ASSUME NEW v \in Writer \ {w}, Busy(v)', Joined(v)'
        PROVE  /\ fact'[v] \notin happened' /\ ~OnTimeline(fact'[v])
               /\ \A r \in open'[v] : r.fact = fact'[v]
               /\ at'[v] = "written" => open'[v] # {}
    <3>1. at[v] # "idle" /\ fact[v] \in 1..facts /\ fact[v] # facts'
      BY <1>2, <1>3, <2>1 DEF Busy, TellInv, FactsNumbered
    <3>2. Busy(v) /\ Joined(v)
      BY <1>1, <1>3, <2>1, <3>1 DEF Busy, Joined
    <3> QED BY <1>1, <1>3, <3>1, <3>2 DEF TellInv, PendingIsHidden
  <2>2. ASSUME Joined(w)'
        PROVE  /\ fact'[w] \notin happened' /\ ~OnTimeline(fact'[w])
               /\ open'[w] = {} /\ at'[w] # "written"
    BY <1>1, <1>2, <1>3, <1>5, <2>2 DEF Joined
  <2>3. \A f : ~OnTimeline(f) => ~OnTimeline(f)'
    BY <1>4
  <2> QED BY <2>1, <2>2, <1>1 DEF PendingIsHidden, OnTimeline
<1>9. ToldLater'
  <2>1. ASSUME NEW v \in Writer \ {w}, Busy(v)', ~Joined(v)'
        PROVE  fact'[v] \in happened' /\ at'[v] # "written"
    BY <1>1, <1>3, <2>1 DEF Busy, Joined, TellInv, ToldLater
  <2>2. ASSUME ~Joined(w)' PROVE fact'[w] \in happened' /\ at'[w] # "written"
    BY <1>1, <1>3, <2>2 DEF Joined
  <2> QED BY <2>1, <2>2 DEF ToldLater
<1>10. ToldTogether'
  BY <1>1, <1>2, <1>5 DEF TellInv, ToldTogether, OnTimeline, FactsNumbered
<1> QED BY <1>7, <1>8, <1>9, <1>10 DEF TellInv

\* A writer that stops writing leaves every other as it is.
LEMMA LeavingTells ==
  ASSUME Inv, TellInv, NEW w \in Writer, Busy(w), at' = [at EXCEPT ![w] = "idle"],
         open' = [open EXCEPT ![w] = {}], UNCHANGED <<fact, facts, joined>>,
         happened \subseteq happened', happened' \subseteq happened \cup {fact[w]},
         timeline \subseteq timeline',
         \A r \in timeline' \ timeline : r.fact = fact[w],
         Joined(w) => (fact[w] \in happened' <=> OnTimeline(fact[w])')
  PROVE  TellInv'
<1>1. /\ ~Busy(w)'
      /\ \A v \in Writer \ {w} : /\ open'[v] = open[v] /\ at'[v] = at[v]
                                 /\ Busy(v) => fact[v] # fact[w]
  BY DEF Busy, TellInv, FactsNumbered, Inv, TypeOK
<1>2. \A f : f # fact[w] => (OnTimeline(f)' <=> OnTimeline(f)) /\ (f \in happened' <=> f \in happened)
  BY DEF OnTimeline
<1>3. fact[w] \in 1..facts /\ fact[w] \in 0..facts
  BY DEF TellInv, FactsNumbered, Inv, TypeOK
<1>4. FactsNumbered'
  BY <1>1, <1>3 DEF TellInv, FactsNumbered, Busy
<1>5. PendingIsHidden'
  <2> SUFFICES ASSUME NEW v \in Writer, Busy(v)', Joined(v)'
               PROVE  /\ fact[v] \notin happened' /\ ~OnTimeline(fact[v])'
                      /\ \A r \in open'[v] : r.fact = fact[v]
                      /\ at'[v] = "written" => open'[v] # {}
    BY DEF PendingIsHidden, OnTimeline
  <2>1. v # w /\ Busy(v) /\ Joined(v)
    BY <1>1 DEF Busy, Joined
  <2> QED BY <1>1, <1>2, <2>1 DEF TellInv, PendingIsHidden
<1>6. ToldLater'
  BY <1>1 DEF TellInv, ToldLater, Busy, Joined
<1>7. ToldTogether'
  <2> SUFFICES ASSUME NEW f \in joined PROVE f \in happened' <=> OnTimeline(f)'
    BY DEF ToldTogether, OnTimeline
  <2>1. CASE f = fact[w]
    BY <2>1 DEF Joined
  <2>2. CASE f # fact[w]
    BY <1>2, <2>2 DEF TellInv, ToldTogether
  <2> QED BY <2>1, <2>2
<1> QED BY <1>4, <1>5, <1>6, <1>7 DEF TellInv

LEMMA NextTells ==
  ASSUME Inv, TellInv, Next
  PROVE  TellInv'
<1>1. PICK w \in Writer : Step(w)
  BY DEF Next
<1>2. CASE Act(w) \/ BeginTx(w)
  BY <1>2, BeginTells
<1>3. CASE Read(w)
  <2>1. /\ \A v \in Writer : (at'[v] = "idle" <=> at[v] = "idle")
                             /\ (at'[v] = "written" <=> at[v] = "written")
        /\ UNCHANGED <<timeline, open, fact, facts, happened, joined>>
    BY <1>3 DEF Read, history, Inv, TypeOK
  <2> QED BY <2>1 DEF TellInv, FactsNumbered, PendingIsHidden, ToldLater, ToldTogether,
            Busy, Joined, OnTimeline
<1>4. CASE Insert(w) /\ Joined(w)
  <2>1. /\ at[w] = "read" /\ open' = [open EXCEPT ![w] = @ \cup {NextRow(w)}]
        /\ at' = [at EXCEPT ![w] = IF todo[w] > 1 THEN "due" ELSE "written"]
        /\ UNCHANGED <<timeline, fact, facts, happened, joined>>
    BY <1>4 DEF Insert, history
  <2>2. NextRow(w).fact = fact[w]
    BY DEF NextRow
  <2>3. /\ open'[w] = open[w] \cup {NextRow(w)} /\ at'[w] \in {"due", "written"}
        /\ \A v \in Writer \ {w} : open'[v] = open[v] /\ at'[v] = at[v]
    BY <2>1 DEF Inv, TypeOK
  <2>4. \A v \in Writer : Busy(v)' <=> Busy(v)
    BY <2>1, <2>3 DEF Busy
  <2>5. FactsNumbered' /\ ToldTogether'
    BY <2>1, <2>4 DEF TellInv, FactsNumbered, ToldTogether, OnTimeline
  <2>6. PendingIsHidden'
    BY <2>1, <2>2, <2>3, <2>4 DEF TellInv, PendingIsHidden, Joined, OnTimeline
  <2>7. ToldLater'
    BY <1>4, <2>1, <2>3, <2>4 DEF TellInv, ToldLater, Joined
  <2> QED BY <2>5, <2>6, <2>7 DEF TellInv
<1>5. ASSUME ~Joined(w), at[w] = "read", timeline' = timeline \cup {NextRow(w)},
             at' = [at EXCEPT ![w] = "idle"], UNCHANGED <<fact, facts, happened, joined>>,
             open' = open \/ open' = [open EXCEPT ![w] = {}]
      PROVE  TellInv'
  <2>1. open[w] = {}
    BY <1>5 DEF Inv, OpenIsJoined
  <2>2. open' = [open EXCEPT ![w] = {}]
    BY <1>5, <2>1 DEF Inv, TypeOK
  <2>3. NextRow(w).fact = fact[w]
    BY DEF NextRow
  <2>4. Busy(w)
    BY <1>5 DEF Busy
  <2>5. \A r \in timeline' \ timeline : r.fact = fact[w]
    BY <1>5, <2>3
  <2> QED BY <1>5, <2>2, <2>4, <2>5, LeavingTells
<1>6. CASE Insert(w) /\ ~Joined(w)
  BY <1>5, <1>6 DEF Insert, history
<1>7. ASSUME Busy(w), Abandon(w), UNCHANGED <<timeline, facts, happened, joined>>
      PROVE  TellInv'
  <2>1. Joined(w) => (fact[w] \in happened' <=> OnTimeline(fact[w])')
    BY <1>7 DEF TellInv, PendingIsHidden, Joined, OnTimeline, Abandon
  <2> QED BY <1>7, <2>1, LeavingTells DEF Abandon
<1>8. CASE Collide(w) \/ Fail(w)
  BY <1>7, <1>8 DEF Collide, Fail, history, Busy
<1>9. ASSUME at[w] = "written", CommitAll(w), Abandon(w), UNCHANGED <<facts, joined>>
      PROVE  TellInv'
  <2>1. Busy(w) /\ Joined(w)
    BY <1>9 DEF Busy, TellInv, ToldLater
  <2>2. open[w] # {} /\ \A r \in open[w] : r.fact = fact[w]
    BY <1>9, <2>1 DEF TellInv, PendingIsHidden
  <2>3. PICK r \in open[w] : r.fact = fact[w]
    BY <2>2
  <2>4. fact[w] \in happened' /\ OnTimeline(fact[w])'
    BY <1>9, <2>3 DEF CommitAll, OnTimeline, Abandon
  <2>5. \A q \in timeline' \ timeline : q.fact = fact[w]
    BY <1>9, <2>2 DEF CommitAll
  <2> QED BY <1>9, <2>1, <2>4, <2>5, LeavingTells DEF CommitAll, Abandon
<1>10. CASE Commit(w)
  BY <1>9, <1>10 DEF Commit
<1>11. CASE FailUnheard(w)
  BY <1>5, <1>9, <1>11 DEF FailUnheard, Abandon
<1> QED BY <1>1, <1>2, <1>3, <1>4, <1>6, <1>8, <1>10, <1>11 DEF Step, Statement

\* A fact written in one transaction with its events is durable exactly when
\* they can be read.
THEOREM FactsAreTold == Spec => []ToldTogether
<1>1. Inv /\ TellInv /\ [Next]_vars => TellInv'
  <2>1. TellInv /\ UNCHANGED vars => TellInv'
    BY DEF vars, writers, history, TellInv, FactsNumbered, PendingIsHidden, ToldLater,
           ToldTogether, Busy, Joined, OnTimeline
  <2> QED BY <2>1, NextTells
<1>2. TellInv => ToldTogether
  BY DEF TellInv
<1> QED BY <1>1, <1>2, InitTells, Invariance, PTL DEF Spec
===============================================================================

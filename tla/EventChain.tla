------------------------------ MODULE EventChain ------------------------------
(* One goal's timeline and the writers that append to it.                   *)
(*                                                                          *)
(* AppendEvent (internal/domain/engine/repository.go) is two statements: it *)
(* reads the last row, computes the next row's place and hash from it, and  *)
(* inserts.  unique (goal_id, seq) refuses the second of two writers that   *)
(* read the same last row.  What a row is about, its fact, is either        *)
(* durable before its event is appended, or written in one transaction with *)
(* it.  VerifyChain (audit.go) walks what is stored.                        *)
EXTENDS Naturals, Sequences

CONSTANTS
  Writer,   \* workers, HTTP handlers and operators of one goal
  None,     \* a null column
  Legacy,   \* rows written before the chain existed
  Batch,    \* events one transaction appends at most
  MaxFacts  \* bound: facts in one behaviour

\* An event's contents are the fact it records, and its place.
Hash == Seq(Nat \X Nat)
Row == [seq: Nat, fact: Nat, prev: Hash \cup {None}, hash: Hash \cup {None}]

ASSUME ChainAssumption ==
  /\ None \notin Hash
  /\ Legacy \in Nat /\ MaxFacts \in Nat
  /\ Batch \in Nat \ {0}

VARIABLES
  timeline,  \* the committed rows of forge_events
  open,      \* rows a writer has inserted and not committed
  at,        \* where a writer is
  todo,      \* events of its fact still to be appended
  last,      \* the seq and hash it read as the last row's
  fact,      \* the fact it records
  facts,     \* facts begun
  happened,  \* facts that are durable
  joined,    \* facts written in one transaction with their events
  missed     \* facts whose writer died, or whose database failed it, halfway

writers == <<open, at, todo, last, fact>>
history == <<facts, happened, joined, missed>>
vars == <<timeline, writers, history>>

TypeOK ==
  /\ timeline \subseteq Row
  /\ open \in [Writer -> SUBSET Row]
  /\ at \in [Writer -> {"idle", "due", "read", "written"}]
  /\ todo \in [Writer -> Nat]
  /\ last \in [Writer -> [seq: Nat, hash: Hash \cup {None}]]
  /\ fact \in [Writer -> Nat]
  /\ facts \in Nat
  /\ happened \subseteq Nat /\ joined \subseteq Nat /\ missed \subseteq Nat

Nothing == [seq |-> 0, hash |-> None]

Init ==
  /\ timeline = {[seq |-> n, fact |-> 0, prev |-> None, hash |-> None] : n \in 1..Legacy}
  /\ open = [w \in Writer |-> {}]
  /\ at = [w \in Writer |-> "idle"]
  /\ todo = [w \in Writer |-> 0]
  /\ last = [w \in Writer |-> Nothing]
  /\ fact = [w \in Writer |-> 0]
  /\ facts = 0 /\ happened = {} /\ joined = {} /\ missed = {}
-----------------------------------------------------------------------------
(* AppendEvent                                                              *)

chainGenesis == <<>>

\* Injective in all it is computed from, which is all the chain asks of SHA-256.
EventHash(link, seq, f) == Append(link, <<seq, f>>)

Seqs(rows) == {r.seq : r \in rows}

\* Read committed: a writer sees what is committed, and its own rows.
Visible(w) == timeline \cup open[w]

\* Defect: a place is drawn whether or not the rows before it are committed.
LastOfAnyone(w) ==
  LET rows == timeline \cup UNION {open[v] : v \in Writer}
  IN IF rows = {} THEN Nothing
     ELSE LET r == CHOOSE r \in rows : \A q \in rows : q.seq <= r.seq
          IN [seq |-> r.seq, hash |-> r.hash]

LastRow(w) ==
  IF Visible(w) = {} THEN Nothing
  ELSE LET r == CHOOSE r \in Visible(w) : \A q \in Visible(w) : q.seq <= r.seq
       IN [seq |-> r.seq, hash |-> r.hash]

\* Defect: the link is the hash the writer's own last event had.
NextRowFromGenesis(w) ==
  [seq |-> last[w].seq + 1, fact |-> fact[w],
   prev |-> chainGenesis, hash |-> EventHash(chainGenesis, last[w].seq + 1, fact[w])]

NextRow(w) ==
  LET link == IF last[w].hash = None THEN chainGenesis ELSE last[w].hash
      seq == last[w].seq + 1
  IN [seq |-> seq, fact |-> fact[w], prev |-> link, hash |-> EventHash(link, seq, fact[w])]

\* unique (goal_id, seq)
Taken(w) == last[w].seq + 1 \in Seqs(Visible(w))

\* An insert waits for the transaction that holds its place.
MustWait(w) == \E v \in Writer \ {w} : last[w].seq + 1 \in Seqs(open[v])
-----------------------------------------------------------------------------
(* Writers                                                                  *)

Joined(w) == fact[w] \in joined

\* A fact that is written first and told afterwards: a task's transition, a
\* settled goal, an answered gate, an activation.
Act(w) ==
  /\ at[w] = "idle" /\ facts < MaxFacts
  /\ facts' = facts + 1
  /\ happened' = happened \cup {facts'}
  /\ fact' = [fact EXCEPT ![w] = facts']
  /\ todo' = [todo EXCEPT ![w] = 1]
  /\ at' = [at EXCEPT ![w] = "due"]
  /\ UNCHANGED <<timeline, open, last, joined, missed>>

\* A fact that is written in a transaction with its events: a gate's request,
\* a plan, an artifact's version, an export.
BeginTx(w) ==
  /\ at[w] = "idle" /\ facts < MaxFacts
  /\ facts' = facts + 1
  /\ joined' = joined \cup {facts'}
  /\ fact' = [fact EXCEPT ![w] = facts']
  /\ \E n \in 1..Batch : todo' = [todo EXCEPT ![w] = n]
  /\ at' = [at EXCEPT ![w] = "due"]
  /\ UNCHANGED <<timeline, open, last, happened, missed>>

Read(w) ==
  /\ at[w] = "due"
  /\ last' = [last EXCEPT ![w] = LastRow(w)]
  /\ at' = [at EXCEPT ![w] = "read"]
  /\ UNCHANGED <<timeline, open, todo, fact, history>>

\* Outside a transaction the insert commits; inside, the row waits for Commit.
Insert(w) ==
  /\ at[w] = "read" /\ ~MustWait(w) /\ ~Taken(w)
  /\ todo' = [todo EXCEPT ![w] = @ - 1]
  /\ IF Joined(w)
     THEN /\ open' = [open EXCEPT ![w] = @ \cup {NextRow(w)}]
          /\ at' = [at EXCEPT ![w] = IF todo[w] > 1 THEN "due" ELSE "written"]
          /\ UNCHANGED timeline
     ELSE /\ timeline' = timeline \cup {NextRow(w)}
          /\ at' = [at EXCEPT ![w] = "idle"]
          /\ UNCHANGED open
  /\ UNCHANGED <<last, fact, history>>

\* Defect: a transaction that failed is not rolled back.
LeaveOpen(w) ==
  /\ at' = [at EXCEPT ![w] = "idle"]
  /\ todo' = [todo EXCEPT ![w] = 0]
  /\ UNCHANGED <<open, last, fact>>

\* InTx rolls back whatever its function wrote.
Abandon(w) ==
  /\ at' = [at EXCEPT ![w] = "idle"]
  /\ todo' = [todo EXCEPT ![w] = 0]
  /\ open' = [open EXCEPT ![w] = {}]
  /\ UNCHANGED <<last, fact>>

\* The loser of a race: no caller appends again.  Outside a transaction the
\* conflict is logged; inside, it undoes the fact as well.
Collide(w) ==
  /\ at[w] = "read" /\ ~MustWait(w) /\ Taken(w)
  /\ Abandon(w)
  /\ UNCHANGED <<timeline, history>>

\* Defect: the fact is committed before the rows that tell it.
CommitFactFirst(w) ==
  /\ happened' = happened \cup {fact[w]}
  /\ UNCHANGED timeline

CommitAll(w) ==
  /\ happened' = happened \cup {fact[w]}
  /\ timeline' = timeline \cup open[w]

Commit(w) ==
  /\ at[w] = "written"
  /\ CommitAll(w)
  /\ Abandon(w)
  /\ UNCHANGED <<facts, joined, missed>>

\* The database fails a statement, or the process dies.
Fail(w) ==
  /\ at[w] # "idle"
  /\ Abandon(w)
  /\ missed' = missed \cup {fact[w]}
  /\ UNCHANGED <<timeline, facts, happened, joined>>

\* A commit, or a lone insert, whose reply is lost.
FailUnheard(w) ==
  /\ \/ at[w] = "written" /\ CommitAll(w)
     \/ /\ at[w] = "read" /\ ~Joined(w) /\ ~MustWait(w) /\ ~Taken(w)
        /\ timeline' = timeline \cup {NextRow(w)}
        /\ UNCHANGED happened
  /\ Abandon(w)
  /\ missed' = missed \cup {fact[w]}
  /\ UNCHANGED <<facts, joined>>

Statement(w) == Read(w) \/ Insert(w) \/ Collide(w) \/ Commit(w)

Step(w) == Act(w) \/ BeginTx(w) \/ Statement(w) \/ Fail(w) \/ FailUnheard(w)

Next == \E w \in Writer : Step(w)

Spec == Init /\ [][Next]_vars

\* Every statement of the code has a deadline, and a lock is held no longer.
FairSpec == Spec /\ \A w \in Writer : WF_vars(Statement(w))
-----------------------------------------------------------------------------
(* VerifyChain                                                              *)

Hashed(rows) == {r \in rows : r.hash # None}

\* p is the last hashed row before r.
Follows(rows, p, r) ==
  /\ p.seq < r.seq
  /\ \A q \in Hashed(rows) : q.seq <= p.seq \/ r.seq <= q.seq

MissingHash(rows) ==
  {r \in rows \ Hashed(rows) : \E p \in Hashed(rows) : p.seq < r.seq}

BrokenLink(rows) ==
  {r \in Hashed(rows) : \E p \in Hashed(rows) : Follows(rows, p, r) /\ r.prev # p.hash}

ContentAltered(rows) ==
  {r \in Hashed(rows) : r.prev = None \/ r.hash # EventHash(r.prev, r.seq, r.fact)}

Findings(rows) == MissingHash(rows) \cup BrokenLink(rows) \cup ContentAltered(rows)
-----------------------------------------------------------------------------
(* Properties                                                               *)

OnTimeline(f) == \E r \in timeline : r.fact = f

\* An audit taken at any moment, between any statements of any writers, has
\* nothing to report: not after a race, a rollback, or a run of old rows.
ChainIntact == Findings(timeline) = {}

\* The places of a timeline are 1, 2, 3 and so on, with no gap where a
\* transaction was rolled back and no place taken twice.
Gapless ==
  /\ \A r \in timeline : r.seq = 1 \/ r.seq - 1 \in Seqs(timeline) \ {0}
  /\ \A r, q \in timeline : r.seq = q.seq => r = q

\* A reader that pages by place misses nothing: an event never appears behind
\* one that was already there, however its transaction and others overlapped.
AppendsOnly ==
  [][/\ timeline \subseteq timeline'
     /\ \A r \in timeline, q \in timeline' \ timeline : r.seq < q.seq]_vars

\* What is written in one transaction with its events is durable exactly when
\* they are on the timeline.
ToldTogether == \A f \in joined : f \in happened <=> OnTimeline(f)

\* A writer waits for another's transaction only so long: every append ends.
AppendsEnd == \A w \in Writer : at[w] # "idle" ~> at[w] = "idle"

\* What happened is told on the timeline, or its writer is still at it, or a
\* crash or the database kept it from it: the loser of a race retries.
RacesLoseNothing ==
  \A f \in happened \ missed :
    OnTimeline(f) \/ \E w \in Writer : at[w] # "idle" /\ fact[w] = f
===============================================================================

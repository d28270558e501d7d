------------------------ MODULE DesignHistoryProofs ------------------------
(***************************************************************************)
(* An artifact has one history, and a step of a build is kept once, for    *)
(* any number of savers, paths, versions and steps.                        *)
(*                                                                         *)
(* OneHistory is not inductive: a saver's number was counted two           *)
(* statements before it is inserted, and the versions it supersedes were   *)
(* read one before.  Inv says what still holds of them.  A number is at    *)
(* most one past the newest (NumbersAreNear).  What a transaction has      *)
(* locked is pending and nobody else's (LocksPend, LocksApart), and is all *)
(* that is pending so long as its number is the next one (LocksSuffice);   *)
(* if it is not, the insert is refused.  A number that was inserted and is *)
(* not committed is nobody else's (InsertsAreNew).                         *)
(*                                                                         *)
(* KeptOnce rests on who is at work (Alone) and on a worker that builds    *)
(* having read that nothing was kept (FreshSteps): of a step whose every   *)
(* version is on record, a version is named by a checkpoint or by the one  *)
(* worker about to write it (OnRecord).                                    *)
(***************************************************************************)
EXTENDS DesignHistory, FiniteSetTheorems, TLAPS

Counted == {"supersede", "insert", "commit"}
Locking == {"insert", "commit"}

\* Whoever is at work is at work on something.
SaversAreAt ==
  \A c \in Saver :
    /\ tx[c].at # "none" => tx[c].path \in Path
    /\ tx[c].at \in Counted => tx[c].number # 0
WorkersAreAt == \A w \in Worker : job[w].at # "idle" => job[w].step \in Step

Types == TypeOK /\ SaversAreAt /\ WorkersAreAt

\* A worker's transaction is its step's, a person's is no step's.
SavesAreOwn ==
  /\ \A w \in Worker : tx[w].at # "none" => job[w].at = "saving" /\ tx[w].step = job[w].step
  /\ \A p \in Person : tx[p].step = 0

Numbers(a) == {r.number : r \in VersionsOf(a)}
Numbered == \A a \in Path : \E n \in Nat : Numbers(a) = 1..n
OneOfEach == \A r, s \in rows : Key(r) = Key(s) => r = s
OnlyLastPends == \A r \in rows : r.disposition = "pending" => r.number = Newest(r.path)

\* What a saver counted, locked and inserted.
NumbersAreNear ==
  \A c \in Saver : tx[c].at \in Counted => tx[c].number <= Newest(tx[c].path) + 1
LocksPend ==
  \A c \in Saver : \A k \in tx[c].locks :
    /\ tx[c].at \in Locking
    /\ \E r \in VersionsOf(tx[c].path) : Key(r) = k /\ r.disposition = "pending"
LocksApart == \A c, d \in Saver : c # d => tx[c].locks \cap tx[d].locks = {}
LocksSuffice ==
  \A c \in Saver : tx[c].at \in Locking /\ tx[c].number = Newest(tx[c].path) + 1
                     => Pending(tx[c].path) \subseteq tx[c].locks
InsertsAreNew ==
  \A c \in Saver : tx[c].at = "commit" =>
    /\ \A r \in rows : Key(r) # Key(tx[c])
    /\ \A d \in Saver \ {c} : tx[d].at = "commit" => Key(tx[d]) # Key(tx[c])

History ==
  Numbered /\ OneOfEach /\ OnlyLastPends /\ NumbersAreNear /\ LocksPend /\ LocksApart
  /\ LocksSuffice /\ InsertsAreNew

\* One worker at a step, and what it knows of the step's versions.
Alone ==
  \A w \in Worker : job[w].at # "idle" =>
    /\ task[job[w].step].status = "running"
    /\ \A v \in Worker \ {w} : job[v].at # "idle" => job[v].step # job[w].step
FreshSteps ==
  \A w \in Worker : job[w].at \in {"building", "saving"} => task[job[w].step].checkpoint = NoVersion
KeptIsNamed == \A w \in Worker : job[w].at = "kept" => job[w].version # NoVersion
OnRecord ==
  \A s \in Step \ torn : (\E r \in rows : r.step = s) =>
    \/ task[s].checkpoint # NoVersion
    \/ \E w \in Worker : job[w].at = "kept" /\ job[w].step = s
OncePerStep == \A s \in Step \ torn : \A r, v \in rows : r.step = s /\ v.step = s => r = v

Kept == Alone /\ FreshSteps /\ KeptIsNamed /\ OnRecord /\ OncePerStep

-----------------------------------------------------------------------------

LEMMA InitTypes == Init => Types
<1> SUFFICES ASSUME Init PROVE Types
  OBVIOUS
<1>1. NoTx \in Transaction /\ NoTx.at = "none"
  BY DEF NoTx, Transaction
<1>2. Idle \in Attempt /\ Idle.at = "idle"
  BY DEF Idle, Attempt
<1>3. \A s \in Step : [status |-> "ready", tries |-> 0, kept |-> NoVersion,
                       checkpoint |-> NoVersion] \in StepTask
  BY DEF StepTask
<1>4. \A c \in Saver : tx[c] = NoTx
  BY DEF Init
<1>5. \A w \in Worker : job[w] = Idle
  BY DEF Init
<1>6. SaversAreAt /\ WorkersAreAt
  BY <1>1, <1>2, <1>4, <1>5 DEF SaversAreAt, WorkersAreAt, Counted
<1>7. tx \in [Saver -> Transaction] /\ job \in [Worker -> Attempt] /\ task \in [Step -> StepTask]
  BY <1>1, <1>2, <1>3 DEF Init
<1> QED
  BY <1>6, <1>7 DEF Init, Types, TypeOK

\* A saver's transaction is replaced by another.
LEMMA TxTypes ==
  ASSUME Types, NEW c \in Saver, NEW m \in Transaction, tx' = [tx EXCEPT ![c] = m],
         m.at # "none" => m.path \in Path, m.at \in Counted => m.number # 0
  PROVE  tx' \in [Saver -> Transaction] /\ SaversAreAt'
  BY DEF Types, TypeOK, SaversAreAt

LEMMA NoTxTypes ==
  ASSUME Types, NEW c \in Saver, tx' = [tx EXCEPT ![c] = NoTx]
  PROVE  tx' \in [Saver -> Transaction] /\ SaversAreAt'
<1>1. NoTx \in Transaction /\ NoTx.at = "none"
  BY DEF NoTx, Transaction
<1> QED
  BY <1>1, TxTypes DEF Counted

LEMMA JobTypes ==
  ASSUME Types, NEW w \in Worker, NEW m \in Attempt, job' = [job EXCEPT ![w] = m],
         m.at # "idle" => m.step \in Step
  PROVE  job' \in [Worker -> Attempt] /\ WorkersAreAt'
  BY DEF Types, TypeOK, WorkersAreAt

LEMMA LeaveTypes ==
  ASSUME Types, NEW w \in Worker, Leave(w)
  PROVE  job' \in [Worker -> Attempt] /\ WorkersAreAt'
<1>1. Idle \in Attempt /\ Idle.at = "idle"
  BY DEF Idle, Attempt
<1> QED
  BY <1>1, JobTypes DEF Leave

\* A worker goes on, with the version it has or with another.
Points == {"claimed", "building", "saving", "kept", "done", "unavailable", "conflict"}
Goes(w, at, v) ==
  job' = [job EXCEPT ![w] = [at |-> at, step |-> job[w].step, tries |-> job[w].tries, version |-> v]]

LEMMA GoesTypes ==
  ASSUME Types, NEW w \in Worker, job[w].at # "idle",
         NEW at \in Points, NEW v \in Version \cup {NoVersion}, Goes(w, at, v)
  PROVE  job' \in [Worker -> Attempt] /\ WorkersAreAt'
<1> DEFINE m == [at |-> at, step |-> job[w].step, tries |-> job[w].tries, version |-> v]
<1>1. job[w] \in Attempt /\ job[w].step \in Step
  BY DEF Types, TypeOK, WorkersAreAt
<1>2. m \in Attempt /\ m.step = job[w].step
  BY <1>1 DEF Attempt, Points
<1>3. job' = [job EXCEPT ![w] = m]
  BY DEF Goes
<1> HIDE DEF m
<1> QED
  BY <1>1, <1>2, <1>3, JobTypes

LEMMA OnGoes ==
  ASSUME Types, NEW w \in Worker, NEW at \in Points, job' = [job EXCEPT ![w].at = at]
  PROVE  Goes(w, at, job[w].version)
<1>1. job[w] \in Attempt /\ job \in [Worker -> Attempt]
  BY DEF Types, TypeOK
<1>2. [job[w] EXCEPT !.at = at] =
        [at |-> at, step |-> job[w].step, tries |-> job[w].tries, version |-> job[w].version]
  BY <1>1 DEF Attempt
<1> QED
  BY <1>1, <1>2 DEF Goes, Attempt

LEMMA OnGoesWith ==
  ASSUME Types, NEW w \in Worker, NEW at \in Points, NEW v \in Version \cup {NoVersion},
         job' = [job EXCEPT ![w].at = at, ![w].version = v]
  PROVE  Goes(w, at, v)
<1>1. job[w] \in Attempt /\ job \in [Worker -> Attempt]
  BY DEF Types, TypeOK
<1> DEFINE f == [job EXCEPT ![w].at = at]
<1>2. f[w] = [at |-> at, step |-> job[w].step, tries |-> job[w].tries, version |-> job[w].version]
  <2>1. [job[w] EXCEPT !.at = at] =
          [at |-> at, step |-> job[w].step, tries |-> job[w].tries, version |-> job[w].version]
    BY <1>1 DEF Attempt
  <2> QED
    BY <1>1, <2>1
<1>3. f \in [Worker -> Attempt]
  BY <1>1 DEF Attempt, Points
<1>4. \A x \in Worker \ {w} : f[x] = job[x]
  BY <1>1
<1>5. job' = [f EXCEPT ![w].version = v]
  OBVIOUS
<1> HIDE DEF f
<1>6. [f[w] EXCEPT !.version = v] =
        [at |-> at, step |-> job[w].step, tries |-> job[w].tries, version |-> v]
  BY <1>2
<1>7. job' = [f EXCEPT ![w] = [at |-> at, step |-> job[w].step, tries |-> job[w].tries, version |-> v]]
  BY <1>3, <1>5, <1>6
<1> QED
  BY <1>1, <1>3, <1>4, <1>7 DEF Goes

-----------------------------------------------------------------------------

LEMMA NewestIs ==
  ASSUME NEW a, NEW n \in Nat, Numbers(a) = 1..n
  PROVE  Newest(a) = n
<1>1. Newest(a) = Max(1..n \cup {0})
  BY DEF Newest, Numbers
<1>2. n \in 1..n \cup {0} /\ \A y \in 1..n \cup {0} : n >= y
  OBVIOUS
<1>3. \A x \in 1..n \cup {0} : (\A y \in 1..n \cup {0} : x >= y) => x = n
  OBVIOUS
<1> QED
  BY <1>1, <1>2, <1>3 DEF Max

LEMMA NewestCounts ==
  ASSUME Numbered, NEW a \in Path
  PROVE  Newest(a) \in Nat /\ Numbers(a) = 1..Newest(a)
<1>1. PICK n \in Nat : Numbers(a) = 1..n
  BY DEF Numbered
<1> QED
  BY <1>1, NewestIs

-----------------------------------------------------------------------------
(* Types. *)

\* A saver reaches the next statement.
LEMMA MovesTypes ==
  ASSUME Types, NEW c \in Saver, tx[c].at # "none",
         NEW at \in {"find", "create", "count", "supersede", "insert", "commit"},
         at \in Counted => tx[c].number # 0, Moves(c, at)
  PROVE  tx' \in [Saver -> Transaction] /\ SaversAreAt'
<1> DEFINE m == [tx[c] EXCEPT !.at = at]
<1>1. tx[c] \in Transaction /\ tx[c].path \in Path
  BY DEF Types, TypeOK, SaversAreAt
<1>2. m \in Transaction /\ m.at = at /\ m.path = tx[c].path /\ m.number = tx[c].number
  BY <1>1 DEF Transaction
<1>3. tx' = [tx EXCEPT ![c] = m]
  BY DEF Moves
<1> HIDE DEF m
<1> QED
  BY <1>1, <1>2, <1>3, TxTypes

LEMMA SaveTypes ==
  ASSUME Types, NEW c \in Saver, NEW pinned, NEW path \in Path, NEW holds \in SUBSET Step,
         NEW step \in Step \cup {0}, Save(c, pinned, path, holds, step)
  PROVE  tx' \in [Saver -> Transaction] /\ SaversAreAt'
<1> DEFINE m == [at |-> IF pinned THEN "count" ELSE "find", path |-> path, number |-> 0,
                 holds |-> holds, step |-> step, locks |-> {}]
<1>1. m \in Transaction /\ m.at \notin Counted /\ m.path \in Path
  BY DEF Transaction, Counted
<1>2. tx' = [tx EXCEPT ![c] = m]
  BY DEF Save
<1> HIDE DEF m
<1> QED
  BY <1>1, <1>2, TxTypes

\* A saver's two fields change, as one of the whole transaction.
LEMMA CountIs ==
  ASSUME Types, NEW c \in Saver, NEW n \in Nat, tx' = [tx EXCEPT ![c].at = "supersede", ![c].number = n]
  PROVE  tx' = [tx EXCEPT ![c] = [at |-> "supersede", path |-> tx[c].path, number |-> n,
                                  holds |-> tx[c].holds, step |-> tx[c].step, locks |-> tx[c].locks]]
<1>1. tx[c] \in Transaction /\ tx \in [Saver -> Transaction]
  BY DEF Types, TypeOK
<1> DEFINE f == [tx EXCEPT ![c].at = "supersede"]
<1>2. f[c] = [at |-> "supersede", path |-> tx[c].path, number |-> tx[c].number,
              holds |-> tx[c].holds, step |-> tx[c].step, locks |-> tx[c].locks]
  <2>1. [tx[c] EXCEPT !.at = "supersede"] =
          [at |-> "supersede", path |-> tx[c].path, number |-> tx[c].number,
           holds |-> tx[c].holds, step |-> tx[c].step, locks |-> tx[c].locks]
    BY <1>1 DEF Transaction
  <2> QED
    BY <1>1, <2>1
<1>3. f \in [Saver -> Transaction]
  BY <1>1 DEF Transaction
<1>4. \A d \in Saver \ {c} : f[d] = tx[d]
  BY <1>1
<1>5. tx' = [f EXCEPT ![c].number = n]
  OBVIOUS
<1> HIDE DEF f
<1>6. [f[c] EXCEPT !.number = n] =
        [at |-> "supersede", path |-> tx[c].path, number |-> n,
         holds |-> tx[c].holds, step |-> tx[c].step, locks |-> tx[c].locks]
  BY <1>2
<1>7. tx' = [f EXCEPT ![c] = [at |-> "supersede", path |-> tx[c].path, number |-> n,
                              holds |-> tx[c].holds, step |-> tx[c].step, locks |-> tx[c].locks]]
  BY <1>3, <1>5, <1>6
<1> QED
  BY <1>1, <1>3, <1>4, <1>7

LEMMA SupersedeIs ==
  ASSUME Types, NEW c \in Saver, NEW ks, tx' = [tx EXCEPT ![c].at = "insert", ![c].locks = ks]
  PROVE  tx' = [tx EXCEPT ![c] = [at |-> "insert", path |-> tx[c].path, number |-> tx[c].number,
                                  holds |-> tx[c].holds, step |-> tx[c].step, locks |-> ks]]
<1>1. tx[c] \in Transaction /\ tx \in [Saver -> Transaction]
  BY DEF Types, TypeOK
<1> DEFINE f == [tx EXCEPT ![c].at = "insert"]
<1>2. f[c] = [at |-> "insert", path |-> tx[c].path, number |-> tx[c].number,
              holds |-> tx[c].holds, step |-> tx[c].step, locks |-> tx[c].locks]
  <2>1. [tx[c] EXCEPT !.at = "insert"] =
          [at |-> "insert", path |-> tx[c].path, number |-> tx[c].number,
           holds |-> tx[c].holds, step |-> tx[c].step, locks |-> tx[c].locks]
    BY <1>1 DEF Transaction
  <2> QED
    BY <1>1, <2>1
<1>3. f \in [Saver -> Transaction]
  BY <1>1 DEF Transaction
<1>4. \A d \in Saver \ {c} : f[d] = tx[d]
  BY <1>1
<1>5. tx' = [f EXCEPT ![c].locks = ks]
  OBVIOUS
<1> HIDE DEF f
<1>6. [f[c] EXCEPT !.locks = ks] =
        [at |-> "insert", path |-> tx[c].path, number |-> tx[c].number,
         holds |-> tx[c].holds, step |-> tx[c].step, locks |-> ks]
  BY <1>2
<1>7. tx' = [f EXCEPT ![c] = [at |-> "insert", path |-> tx[c].path, number |-> tx[c].number,
                              holds |-> tx[c].holds, step |-> tx[c].step, locks |-> ks]]
  BY <1>3, <1>5, <1>6
<1> QED
  BY <1>1, <1>3, <1>4, <1>7

\* What becomes of a version when some of them are ruled on.
Becomes(r, x, ks, d) ==
  /\ x.path = r.path /\ x.number = r.number /\ x.holds = r.holds /\ x.step = r.step
  /\ x.disposition = IF Key(r) \in ks THEN d ELSE r.disposition
  /\ Key(x) = Key(r)
  /\ Key(r) \notin ks => x = r

Row == [path: paths, number: Nat \ {0}, holds: SUBSET Step, step: Step \cup {0},
        disposition: Disposition]

LEMMA RuledRows ==
  ASSUME TypeOK, NEW ks, NEW d \in Disposition
  PROVE  /\ \A x \in Ruled(ks, d) : x \in Row /\ \E r \in rows : Becomes(r, x, ks, d)
         /\ \A r \in rows : \E x \in Ruled(ks, d) : Becomes(r, x, ks, d)
<1> DEFINE new(r) == IF Key(r) \in ks THEN [r EXCEPT !.disposition = d] ELSE r
<1>1. ASSUME NEW r \in rows PROVE new(r) \in Row /\ Becomes(r, new(r), ks, d)
  <2>1. r \in Row
    BY DEF TypeOK, Row
  <2>2. CASE Key(r) \in ks
    <3> DEFINE x == [r EXCEPT !.disposition = d]
    <3>1. /\ x \in Row /\ x.path = r.path /\ x.number = r.number /\ x.holds = r.holds
          /\ x.step = r.step /\ x.disposition = d
      BY <2>1 DEF Row
    <3>2. new(r) = x
      BY <2>2
    <3> HIDE DEF x
    <3> QED
      BY <2>2, <3>1, <3>2 DEF Becomes, Key
  <2>3. CASE Key(r) \notin ks
    BY <2>1, <2>3 DEF Becomes
  <2> QED
    BY <2>2, <2>3
<1>2. Ruled(ks, d) = {new(r) : r \in rows}
  BY DEF Ruled
<1> HIDE DEF new
<1> QED
  BY <1>1, <1>2

\* A transaction that is undone leaves its worker to say so.
LEMMA UndoTypes ==
  ASSUME Types, SavesAreOwn, NEW c \in Saver, tx[c].at # "none",
         NEW how \in {"unavailable", "conflict"}, Undo(c, how)
  PROVE  Types'
<1>1. tx' \in [Saver -> Transaction] /\ SaversAreAt'
  BY NoTxTypes DEF Undo
<1>2. job' \in [Worker -> Attempt] /\ WorkersAreAt'
  <2>1. CASE c \in Worker
    <3>1. job[c].at = "saving" /\ how \in Points
      BY <2>1 DEF SavesAreOwn, Points
    <3>2. Goes(c, how, job[c].version)
      BY <2>1, <3>1, OnGoes DEF Undo
    <3>3. job[c].version \in Version \cup {NoVersion}
      BY <2>1 DEF Types, TypeOK, Attempt
    <3> QED
      BY <2>1, <3>1, <3>2, <3>3, GoesTypes
  <2>2. CASE c \notin Worker
    BY <2>2 DEF Undo, Types, TypeOK, WorkersAreAt
  <2> QED
    BY <2>1, <2>2
<1> QED
  BY <1>1, <1>2 DEF Undo, Types, TypeOK, history, build

LEMMA CommitTypes ==
  ASSUME Types, SavesAreOwn, NEW c \in Saver, Commit(c)
  PROVE  Types'
<1>1. tx' \in [Saver -> Transaction] /\ SaversAreAt'
  BY NoTxTypes DEF Commit
<1>2. tx[c].at = "commit" /\ tx[c] \in Transaction /\ tx[c].path \in Path /\ tx[c].number # 0
  BY DEF Commit, At, Types, TypeOK, SaversAreAt, Counted
<1>3. paths' \subseteq Path
  BY <1>2 DEF Commit, Types, TypeOK
<1>4. rows' \subseteq [path: paths', number: Nat \ {0}, holds: SUBSET Step, step: Step \cup {0},
                       disposition: Disposition]
  <2>1. Ruled(tx[c].locks, "superseded") \subseteq Row
    BY RuledRows DEF Types, Disposition
  <2>2. paths \subseteq paths'
    BY DEF Commit
  <2>3. [path |-> tx[c].path, number |-> tx[c].number, holds |-> tx[c].holds,
         step |-> tx[c].step, disposition |-> "pending"]
          \in [path: paths', number: Nat \ {0}, holds: SUBSET Step, step: Step \cup {0},
               disposition: Disposition]
    BY <1>2 DEF Commit, Transaction, Disposition
  <2> QED
    BY <2>1, <2>2, <2>3 DEF Commit, Appended, Row
<1>5. job' \in [Worker -> Attempt] /\ WorkersAreAt'
  <2>1. CASE c \in Worker
    <3>1. job[c].at = "saving" /\ {"kept", "unavailable"} \subseteq Points
      BY <1>2, <2>1 DEF SavesAreOwn, Points
    <3>2. Key(tx[c]) \in Version
      BY <1>2 DEF Key, Version, Transaction
    <3>3. job[c].version \in Version \cup {NoVersion}
      BY <2>1 DEF Types, TypeOK, Attempt
    <3>4. Goes(c, "kept", Key(tx[c])) \/ Goes(c, "unavailable", job[c].version)
      BY <2>1, <3>1, <3>2, OnGoes, OnGoesWith DEF Commit
    <3> QED
      BY <2>1, <3>1, <3>2, <3>3, <3>4, GoesTypes
  <2>2. CASE c \notin Worker
    BY <2>2 DEF Commit, Types, TypeOK, WorkersAreAt
  <2> QED
    BY <2>1, <2>2
<1>6. torn' \subseteq Step
  <2>1. CASE c \in Worker
    <3>1. tx[c].step \in Step
      BY <1>2, <2>1 DEF SavesAreOwn, Types, WorkersAreAt
    <3> QED
      BY <2>1, <3>1 DEF Commit, Types, TypeOK
  <2>2. CASE c \notin Worker
    BY <2>2 DEF Commit, Types, TypeOK
  <2> QED
    BY <2>1, <2>2
<1> QED
  BY <1>1, <1>3, <1>4, <1>5, <1>6 DEF Commit, Types, TypeOK

LEMMA SavesTypes ==
  ASSUME Types, Numbered, SavesAreOwn, NEW c \in Saver, Saves(c) \/ Fails(c)
  PROVE  Types'
<1>1. ASSUME NEW at \in {"create", "count", "commit"}, at \in Counted => tx[c].number # 0,
             tx[c].at # "none", Moves(c, at), UNCHANGED <<history, build>>
      PROVE  Types'
  <2>1. tx' \in [Saver -> Transaction] /\ SaversAreAt'
    BY <1>1, MovesTypes
  <2> QED
    BY <1>1, <2>1 DEF Types, TypeOK, WorkersAreAt, history, build
<1>2. CASE Find(c)
  BY <1>1, <1>2 DEF Find, At, Counted
<1>3. CASE Create(c)
  BY <1>1, <1>3, UndoTypes DEF Create, At, Counted
<1>4. CASE Count(c)
  <2> DEFINE n == Newest(tx[c].path) + 1
  <2>1. tx[c].path \in Path /\ tx[c] \in Transaction
    BY <1>4 DEF Count, At, Types, TypeOK, SaversAreAt
  <2>2. n \in Nat /\ n # 0
    BY <2>1, NewestCounts
  <2>3. tx' = [tx EXCEPT ![c].at = "supersede", ![c].number = n]
    BY <1>4 DEF Count
  <2> HIDE DEF n
  <2> DEFINE m == [at |-> "supersede", path |-> tx[c].path, number |-> n,
                   holds |-> tx[c].holds, step |-> tx[c].step, locks |-> tx[c].locks]
  <2>4. tx' = [tx EXCEPT ![c] = m]
    BY <2>2, <2>3, CountIs
  <2>5. m \in Transaction /\ m.path \in Path /\ m.number # 0
    BY <2>1, <2>2 DEF Transaction
  <2> HIDE DEF m
  <2>6. tx' \in [Saver -> Transaction] /\ SaversAreAt'
    BY <2>4, <2>5, TxTypes
  <2> QED
    BY <1>4, <2>6 DEF Count, Types, TypeOK, WorkersAreAt, history, build
<1>5. CASE Supersede(c)
  <2> DEFINE ks == Pending(tx[c].path)
  <2>1. tx[c].path \in Path /\ tx[c] \in Transaction /\ tx[c].number # 0
    BY <1>5 DEF Supersede, At, Types, TypeOK, SaversAreAt, Counted
  <2>2. ks \subseteq Version
    BY DEF Pending, VersionsOf, Key, Version, Types, TypeOK
  <2>3. tx' = [tx EXCEPT ![c].at = "insert", ![c].locks = ks]
    BY <1>5 DEF Supersede
  <2> HIDE DEF ks
  <2> DEFINE m == [at |-> "insert", path |-> tx[c].path, number |-> tx[c].number,
                   holds |-> tx[c].holds, step |-> tx[c].step, locks |-> ks]
  <2>4. tx' = [tx EXCEPT ![c] = m]
    BY <2>3, SupersedeIs
  <2>5. m \in Transaction /\ m.path \in Path /\ m.number # 0
    BY <2>1, <2>2 DEF Transaction
  <2> HIDE DEF m
  <2>6. tx' \in [Saver -> Transaction] /\ SaversAreAt'
    BY <2>4, <2>5, TxTypes
  <2> QED
    BY <1>5, <2>6 DEF Supersede, Types, TypeOK, WorkersAreAt, history, build
<1>6. CASE Insert(c)
  BY <1>1, <1>6, UndoTypes DEF Insert, At, Counted, Types, SaversAreAt
<1>7. CASE Fails(c)
  BY <1>7, UndoTypes DEF Fails, At
<1> QED
  BY <1>2, <1>3, <1>4, <1>5, <1>6, <1>7, CommitTypes DEF Saves

LEMMA PeopleTypes ==
  ASSUME Types, (\E p \in Person : Acts(p)) \/ \E r \in rows, d \in Ruling : Dispose(r, d)
  PROVE  Types'
<1>1. ASSUME NEW p \in Person, NEW pinned, NEW path \in Path, NEW holds \in SUBSET Step,
             Save(p, pinned, path, holds, 0), UNCHANGED <<history, build>>
      PROVE  Types'
  <2>1. tx' \in [Saver -> Transaction] /\ SaversAreAt'
    BY <1>1, SaveTypes DEF Saver
  <2> QED
    BY <1>1, <2>1 DEF Types, TypeOK, WorkersAreAt, history, build
<1>2. ASSUME NEW p \in Person, NEW a \in Path, keepGeometry(p, a) PROVE Types'
  <2>1. {} \in SUBSET Step /\ Save(p, FALSE, a, {}, 0) /\ UNCHANGED <<history, build>>
    BY <1>2 DEF keepGeometry
  <2> QED
    BY <1>1, <2>1, Zenon
<1>3. ASSUME NEW p \in Person, NEW r \in rows, Adopt(p, r) \/ Respec(p, r) PROVE Types'
  <2>1. r.path \in Path /\ r.holds \in SUBSET Step
    BY DEF Types, TypeOK
  <2> QED
    BY <1>1, <1>3, <2>1 DEF Adopt, Respec
<1>4. ASSUME NEW r \in rows, NEW d \in Ruling, Dispose(r, d) PROVE Types'
  <2>1. Ruled({Key(r)}, d) \subseteq Row
    BY RuledRows DEF Types, Disposition
  <2> QED
    BY <1>4, <2>1 DEF Dispose, Row, Types, TypeOK, SaversAreAt, WorkersAreAt, build
<1> QED
  BY <1>2, <1>3, <1>4 DEF Acts

LEMMA TaskTypes ==
  ASSUME Types, NEW s \in Step, NEW m \in StepTask, task' = [task EXCEPT ![s] = m]
  PROVE  task' \in [Step -> StepTask]
  BY DEF Types, TypeOK

LEMMA StatusTypes ==
  ASSUME Types, NEW s \in Step, NEW to \in {"ready", "running", "succeeded", "failed"},
         task' = [task EXCEPT ![s].status = to]
  PROVE  task' \in [Step -> StepTask]
<1> DEFINE m == [task[s] EXCEPT !.status = to]
<1>1. m \in StepTask
  BY DEF StepTask, Types, TypeOK
<1>2. task' = [task EXCEPT ![s] = m]
  OBVIOUS
<1> HIDE DEF m
<1> QED
  BY <1>1, <1>2, TaskTypes

\* A task's status changes with another of its fields.
LEMMA StatusAnd ==
  ASSUME Types, NEW s \in Step, NEW to \in {"ready", "running", "succeeded", "failed"}
  PROVE  LET f == [task EXCEPT ![s].status = to]
         IN /\ \A n \in Nat : [f EXCEPT ![s].tries = n] \in [Step -> StepTask]
            /\ \A v \in Version \cup {NoVersion} : [f EXCEPT ![s].kept = v] \in [Step -> StepTask]
<1> DEFINE f == [task EXCEPT ![s].status = to]
<1>1. f \in [Step -> StepTask]
  <2> DEFINE m == [task[s] EXCEPT !.status = to]
  <2>1. m \in StepTask
    BY DEF StepTask, Types, TypeOK
  <2>2. f = [task EXCEPT ![s] = m]
    OBVIOUS
  <2> HIDE DEF m
  <2> QED
    BY <2>1, <2>2 DEF Types, TypeOK
<1> HIDE DEF f
<1>2. ASSUME NEW n \in Nat PROVE [f EXCEPT ![s].tries = n] \in [Step -> StepTask]
  <2> DEFINE m == [f[s] EXCEPT !.tries = n]
  <2>1. m \in StepTask
    BY <1>1 DEF StepTask
  <2>2. [f EXCEPT ![s].tries = n] = [f EXCEPT ![s] = m]
    OBVIOUS
  <2> HIDE DEF m
  <2> QED
    BY <1>1, <2>1, <2>2
<1>3. ASSUME NEW v \in Version \cup {NoVersion} PROVE [f EXCEPT ![s].kept = v] \in [Step -> StepTask]
  <2> DEFINE m == [f[s] EXCEPT !.kept = v]
  <2>1. m \in StepTask
    BY <1>1 DEF StepTask
  <2>2. [f EXCEPT ![s].kept = v] = [f EXCEPT ![s] = m]
    OBVIOUS
  <2> HIDE DEF m
  <2> QED
    BY <1>1, <2>1, <2>2
<1> QED
  BY <1>2, <1>3 DEF f

LEMMA AttemptsTypes ==
  ASSUME Types, SavesAreOwn, NEW w \in Worker, Attempts(w) \/ Fault(w) \/ Die(w)
  PROVE  Types'
<1>1. /\ job[w] \in Attempt /\ job[w].version \in Version \cup {NoVersion}
      /\ job[w].at # "idle" => job[w].step \in Step
  BY DEF Types, TypeOK, WorkersAreAt, Attempt
<1>2. ASSUME NEW at \in Points, NEW v \in Version \cup {NoVersion}, job[w].at # "idle",
             Goes(w, at, v), UNCHANGED <<history, tx, task>>, torn' \subseteq Step
      PROVE  Types'
  <2>1. job' \in [Worker -> Attempt] /\ WorkersAreAt'
    BY <1>2, GoesTypes
  <2> QED
    BY <1>2, <2>1 DEF Types, TypeOK, SaversAreAt, history
<1>3. ASSUME Leave(w), task' \in [Step -> StepTask], UNCHANGED <<history, tx, torn>>
      PROVE  Types'
  <2>1. job' \in [Worker -> Attempt] /\ WorkersAreAt'
    BY <1>3, LeaveTypes
  <2> QED
    BY <1>3, <2>1 DEF Types, TypeOK, SaversAreAt, history
<1>4. CASE Start(w)
  <2>1. On(w, "claimed") /\ job[w].step \in Step /\ torn' \subseteq Step
    BY <1>1, <1>4 DEF Start, On, Types, TypeOK
  <2>2. task[job[w].step].checkpoint \in Version \cup {NoVersion}
    BY <2>1 DEF Types, TypeOK, StepTask
  <2>3. Before(job[w].step) \in Version \cup {NoVersion}
    BY <2>1, HistoryAssumption DEF Before, Types, TypeOK, StepTask, Step
  <2>4. \/ Goes(w, "done", task[job[w].step].checkpoint)
        \/ Goes(w, "building", Before(job[w].step))
    BY <1>4, <2>2, <2>3, OnGoesWith DEF Start, Points
  <2> QED
    BY <1>2, <1>4, <2>1, <2>2, <2>3, <2>4 DEF Start, On, Points
<1>5. CASE Refuse(w) \/ Fault(w)
  <2>1. PICK at \in {"done", "unavailable", "conflict"} : job' = [job EXCEPT ![w].at = at]
    BY <1>5 DEF Refuse, Fault
  <2>2. Goes(w, at, job[w].version) /\ at \in Points
    BY <2>1, OnGoes DEF Points
  <2> QED
    BY <1>1, <1>2, <1>5, <2>2 DEF Refuse, Fault, On, Types, TypeOK
<1>6. ASSUME NEW a \in Path, Build(w, a) PROVE Types'
  <2> DEFINE s == job[w].step
             base == job[w].version
             path == IF base # NoVersion THEN base.path ELSE a
             holds == Holds(base) \cup {s}
  <2>1. s \in Step /\ job[w].at # "idle"
    BY <1>1, <1>6 DEF Build, On
  <2>2. path \in Path
    BY <1>1 DEF Version
  <2>3. holds \in SUBSET Step
    BY <2>1 DEF Holds, Types, TypeOK
  <2>4. Save(w, base # NoVersion, path, holds, s) /\ s \in Step \cup {0}
    BY <1>6, <2>1 DEF Build
  <2> HIDE DEF path, holds
  <2>5. tx' \in [Saver -> Transaction] /\ SaversAreAt'
    BY <2>1, <2>2, <2>3, <2>4, SaveTypes DEF Saver
  <2>6. Goes(w, "saving", job[w].version)
    BY <1>6, OnGoes DEF Build, Points
  <2>7. job' \in [Worker -> Attempt] /\ WorkersAreAt'
    BY <1>1, <2>1, <2>6, GoesTypes DEF Points
  <2> QED
    BY <1>6, <2>5, <2>7 DEF Build, Types, TypeOK, history
<1>7. CASE SaveCheckpoint(w)
  <2>1. job[w].at = "kept" /\ job[w].step \in Step
    BY <1>1, <1>7 DEF SaveCheckpoint, On
  <2>2. Goes(w, "done", job[w].version)
    BY <1>7, OnGoes DEF SaveCheckpoint, Points
  <2>3. job' \in [Worker -> Attempt] /\ WorkersAreAt'
    BY <1>1, <2>1, <2>2, GoesTypes DEF Points
  <2>4. task' \in [Step -> StepTask]
    <3>1. CASE UNCHANGED task
      BY <3>1 DEF Types, TypeOK
    <3>2. CASE task' = [task EXCEPT ![job[w].step].checkpoint = job[w].version]
      <4> DEFINE m == [task[job[w].step] EXCEPT !.checkpoint = job[w].version]
      <4>1. m \in StepTask
        BY <1>1, <2>1 DEF StepTask, Types, TypeOK
      <4>2. task' = [task EXCEPT ![job[w].step] = m]
        BY <3>2
      <4> HIDE DEF m
      <4> QED
        BY <2>1, <4>1, <4>2, TaskTypes
    <3> QED
      BY <1>7, <3>1, <3>2 DEF SaveCheckpoint
  <2>5. torn' \subseteq Step
    BY <1>7, <2>1 DEF SaveCheckpoint, Types, TypeOK
  <2> QED
    BY <1>7, <2>3, <2>4, <2>5 DEF SaveCheckpoint, Types, TypeOK, SaversAreAt, history
<1>8. CASE Succeed(w)
  <2>1. job[w].step \in Step
    BY <1>1, <1>8 DEF Succeed, On
  <2>2. task' \in [Step -> StepTask]
    BY <1>1, <1>8, <2>1, StatusAnd DEF Succeed, Types, TypeOK
  <2> QED
    BY <1>3, <1>8, <2>2 DEF Succeed
<1>9. CASE retryOrFail(w)
  <2>1. job[w].step \in Step
    BY <1>1, <1>9 DEF retryOrFail
  <2>2. task' \in [Step -> StepTask]
    BY <1>9, <2>1, StatusTypes DEF retryOrFail, Types, TypeOK
  <2> QED
    BY <1>3, <1>9, <2>2 DEF retryOrFail
<1>10. CASE Die(w)
  <2>1. tx' \in [Saver -> Transaction] /\ SaversAreAt'
    BY <1>10, NoTxTypes DEF Die, Saver
  <2>2. job' \in [Worker -> Attempt] /\ WorkersAreAt'
    BY <1>10, LeaveTypes DEF Die
  <2>3. torn' \subseteq Step
    BY <1>1, <1>10 DEF Die, On, Types, TypeOK
  <2> QED
    BY <1>10, <2>1, <2>2, <2>3 DEF Die, Types, TypeOK, history
<1> QED
  BY <1>4, <1>5, <1>6, <1>7, <1>8, <1>9, <1>10 DEF Attempts

LEMMA QueueTypes ==
  ASSUME Types, NEW s \in Step, Reap(s) \/ \E w \in Worker : Claim(w, s)
  PROVE  Types'
<1>1. CASE Reap(s)
  <2>1. task' \in [Step -> StepTask]
    BY <1>1, StatusTypes DEF Reap
  <2> QED
    BY <1>1, <2>1 DEF Reap, Types, TypeOK, SaversAreAt, WorkersAreAt, history
<1>2. ASSUME NEW w \in Worker, Claim(w, s) PROVE Types'
  <2>1. task[s].tries \in Nat
    BY DEF Types, TypeOK, StepTask
  <2>2. task' \in [Step -> StepTask]
    <3>1. task[s].tries + 1 \in Nat
      BY <2>1
    <3> QED
      BY <1>2, <3>1, StatusAnd DEF Claim
  <2>3. job' \in [Worker -> Attempt] /\ WorkersAreAt'
    <3> DEFINE m == [at |-> "claimed", step |-> s, tries |-> task[s].tries + 1, version |-> NoVersion]
    <3>1. m \in Attempt /\ m.step \in Step
      BY <2>1 DEF Attempt
    <3>2. job' = [job EXCEPT ![w] = m]
      BY <1>2 DEF Claim
    <3> HIDE DEF m
    <3> QED
      BY <3>1, <3>2, JobTypes
  <2> QED
    BY <1>2, <2>2, <2>3 DEF Claim, Types, TypeOK, SaversAreAt, history
<1> QED
  BY <1>1, <1>2

LEMMA NextTypes == Types /\ Numbered /\ SavesAreOwn /\ [Next]_vars => Types'
<1> SUFFICES ASSUME Types, Numbered, SavesAreOwn, [Next]_vars PROVE Types'
  OBVIOUS
<1>1. CASE UNCHANGED vars
  BY <1>1 DEF vars, history, build, Types, TypeOK, SaversAreAt, WorkersAreAt
<1>2. CASE Next
  BY <1>2, SavesTypes, PeopleTypes, AttemptsTypes, QueueTypes DEF Next
<1> QED
  BY <1>1, <1>2

-----------------------------------------------------------------------------
(* Whose transaction it is. *)

LEMMA NextOwn == Types /\ SavesAreOwn /\ [Next]_vars => SavesAreOwn'
<1> SUFFICES ASSUME Types, SavesAreOwn, [Next]_vars PROVE SavesAreOwn'
  OBVIOUS
<1>1. /\ tx \in [Saver -> Transaction] /\ job \in [Worker -> Attempt]
      /\ Worker \cap Person = {} /\ NoTx.at = "none" /\ NoTx.step = 0
  BY HistoryAssumption DEF Types, TypeOK, NoTx
<1>2. ASSUME NEW c \in Saver, Undo(c, "unavailable") \/ Undo(c, "conflict") PROVE SavesAreOwn'
  BY <1>1, <1>2 DEF Undo, SavesAreOwn, Saver, Attempt
<1>3. ASSUME NEW c \in Saver, UNCHANGED <<job>>, tx[c].at # "none",
             \A d \in Saver : tx'[d].step = tx[d].step /\ (d # c => tx'[d].at = tx[d].at)
      PROVE  SavesAreOwn'
  BY <1>1, <1>3 DEF SavesAreOwn, Saver
<1>4. ASSUME NEW c \in Saver, Saves(c) \/ Fails(c) PROVE SavesAreOwn'
  <2>1. ASSUME NEW at, Moves(c, at), UNCHANGED job, tx[c].at # "none" PROVE SavesAreOwn'
    <3>1. \A d \in Saver : tx'[d].step = tx[d].step /\ (d # c => tx'[d].at = tx[d].at)
      BY <1>1, <2>1 DEF Moves, Transaction
    <3> QED
      BY <1>3, <2>1, <3>1
  <2>2. CASE Find(c) \/ Create(c) \/ Insert(c) \/ Fails(c)
    BY <1>2, <2>1, <2>2 DEF Find, Create, Insert, Fails, At, build
  <2>3. CASE Count(c) \/ Supersede(c)
    <3>1. /\ \A d \in Saver : tx'[d].step = tx[d].step /\ (d # c => tx'[d].at = tx[d].at)
          /\ UNCHANGED job /\ tx[c].at # "none"
      BY <1>1, <2>3 DEF Count, Supersede, At, build, Transaction
    <3> QED
      BY <1>3, <3>1
  <2>4. CASE Commit(c)
    BY <1>1, <2>4 DEF Commit, SavesAreOwn, Saver, Attempt
  <2> QED
    BY <1>4, <2>2, <2>3, <2>4 DEF Saves
<1>5. ASSUME NEW p \in Person, Acts(p) PROVE SavesAreOwn'
  <2>1. UNCHANGED job /\ \A d \in Saver : IF d = p THEN tx'[d].step = 0 ELSE tx'[d] = tx[d]
    BY <1>1, <1>5 DEF Acts, keepGeometry, Adopt, Respec, Save, build, Saver
  <2> QED
    BY <1>1, <2>1 DEF SavesAreOwn, Saver
<1>6. ASSUME NEW r \in rows, NEW d \in Ruling, Dispose(r, d) PROVE SavesAreOwn'
  BY <1>6 DEF Dispose, SavesAreOwn, build
<1>7. ASSUME NEW w \in Worker, Attempts(w) \/ Fault(w) PROVE SavesAreOwn'
  <2>1. ASSUME NEW a \in Path, Build(w, a) PROVE SavesAreOwn'
    <3>1. job'[w].at = "saving" /\ job'[w].step = job[w].step /\ tx'[w].step = job[w].step
      BY <1>1, <2>1 DEF Build, Save, Attempt, Saver
    <3>2. \A v \in Worker \ {w} : job'[v] = job[v]
      BY <1>1, <2>1 DEF Build
    <3>3. \A d \in Saver \ {w} : tx'[d] = tx[d]
      BY <1>1, <2>1 DEF Build, Save
    <3> QED
      BY <1>1, <3>1, <3>2, <3>3 DEF SavesAreOwn, Saver
  <2>2. CASE Start(w) \/ Refuse(w) \/ SaveCheckpoint(w) \/ Succeed(w) \/ retryOrFail(w) \/ Fault(w)
    <3>1. job[w].at # "saving" /\ UNCHANGED tx
      BY <2>2 DEF Start, Refuse, SaveCheckpoint, Succeed, retryOrFail, Fault, On
    <3>2. \A v \in Worker \ {w} : job'[v] = job[v]
      BY <1>1, <2>2 DEF Start, Refuse, SaveCheckpoint, Succeed, retryOrFail, Fault, Leave
    <3> QED
      BY <3>1, <3>2 DEF SavesAreOwn
  <2> QED
    BY <1>7, <2>1, <2>2 DEF Attempts
<1>8. ASSUME NEW w \in Worker, Die(w) PROVE SavesAreOwn'
  BY <1>1, <1>8 DEF Die, Leave, SavesAreOwn, Saver
<1>9. ASSUME NEW s \in Step, Reap(s) \/ \E w \in Worker : Claim(w, s) PROVE SavesAreOwn'
  <2>1. CASE Reap(s)
    BY <2>1 DEF Reap, SavesAreOwn
  <2>2. ASSUME NEW w \in Worker, Claim(w, s) PROVE SavesAreOwn'
    <3>1. job[w].at # "saving" /\ UNCHANGED tx /\ \A v \in Worker \ {w} : job'[v] = job[v]
      BY <1>1, <2>2 DEF Claim, On
    <3> QED
      BY <3>1 DEF SavesAreOwn
  <2> QED
    BY <1>9, <2>1, <2>2
<1>10. CASE UNCHANGED vars
  BY <1>10 DEF vars, build, SavesAreOwn
<1> QED
  BY <1>4, <1>5, <1>6, <1>7, <1>8, <1>9, <1>10 DEF Next

-----------------------------------------------------------------------------
(* One history. *)

\* A saver that holds nothing is where it was, begins, or is done.
Quiet(c) ==
  /\ UNCHANGED rows
  /\ \E m \in Transaction : m.at \notin Counted /\ m.locks = {} /\ tx' = [tx EXCEPT ![c] = m]

\* A saver inserts a number nobody has.
Enters(c) ==
  /\ At(c, "insert") /\ Moves(c, "commit") /\ UNCHANGED rows
  /\ ~ \E d \in Saver \ {c} : Inserts(d, Key(tx[c]))
  /\ ~ \E r \in rows : Key(r) = Key(tx[c])

LEMMA HistorySteps ==
  ASSUME Types, History, [Next]_vars
  PROVE  \/ UNCHANGED <<rows, tx>>
         \/ \E c \in Saver : Quiet(c) \/ Count(c) \/ Supersede(c) \/ Enters(c) \/ Commit(c)
         \/ \E r \in rows, d \in Ruling : Dispose(r, d)
<1>1. ASSUME NEW c \in Saver, UNCHANGED history, tx' = [tx EXCEPT ![c] = NoTx] PROVE Quiet(c)
  <2>1. NoTx \in Transaction /\ NoTx.at \notin Counted /\ NoTx.locks = {}
    BY DEF NoTx, Transaction, Counted
  <2> QED
    BY <1>1, <2>1 DEF Quiet, history
<1>2. ASSUME NEW c \in Saver, tx[c].at \in {"find", "create"}, NEW at \in {"create", "count"},
             Moves(c, at), UNCHANGED history
      PROVE  Quiet(c)
  <2> DEFINE m == [tx[c] EXCEPT !.at = at]
  <2>1. tx[c] \in Transaction /\ tx[c].locks = {}
    BY <1>2 DEF History, LocksPend, Locking, Types, TypeOK
  <2>2. m \in Transaction /\ m.at \notin Counted /\ m.locks = {}
    BY <2>1 DEF Transaction, Counted
  <2>3. tx' = [tx EXCEPT ![c] = m]
    BY <1>2 DEF Moves
  <2> HIDE DEF m
  <2> QED
    BY <1>2, <2>2, <2>3 DEF Quiet, history
<1>3. ASSUME NEW c \in Saver, NEW pinned, NEW path \in Path, NEW holds \in SUBSET Step,
             NEW step \in Step \cup {0}, Save(c, pinned, path, holds, step), UNCHANGED history
      PROVE  Quiet(c)
  <2> DEFINE m == [at |-> IF pinned THEN "count" ELSE "find", path |-> path, number |-> 0,
                   holds |-> holds, step |-> step, locks |-> {}]
  <2>1. m \in Transaction /\ m.at \notin Counted /\ m.locks = {}
    BY DEF Transaction, Counted
  <2>2. tx' = [tx EXCEPT ![c] = m]
    BY <1>3 DEF Save
  <2> HIDE DEF m
  <2> QED
    BY <1>3, <2>1, <2>2 DEF Quiet, history
<1>4. ASSUME NEW c \in Saver, Saves(c) \/ Fails(c)
      PROVE  Quiet(c) \/ Count(c) \/ Supersede(c) \/ Enters(c) \/ Commit(c)
  <2>1. CASE Find(c) \/ Create(c)
    BY <1>1, <1>2, <2>1 DEF Find, Create, Undo, At
  <2>2. CASE Insert(c)
    BY <1>1, <2>2 DEF Insert, Undo, Enters, history
  <2>3. CASE Fails(c)
    BY <1>1, <2>3 DEF Fails, Undo
  <2> QED
    BY <1>4, <2>1, <2>2, <2>3 DEF Saves
<1>5. ASSUME NEW p \in Person, Acts(p) PROVE Quiet(p)
  <2>1. p \in Saver /\ 0 \in Step \cup {0}
    BY DEF Saver
  <2>2. ASSUME NEW a \in Path, keepGeometry(p, a) PROVE Quiet(p)
    <3>1. {} \in SUBSET Step /\ Save(p, FALSE, a, {}, 0) /\ UNCHANGED history
      BY <2>2 DEF keepGeometry
    <3> QED
      BY <1>3, <2>1, <3>1, Zenon
  <2>3. ASSUME NEW r \in rows, Adopt(p, r) \/ Respec(p, r) PROVE Quiet(p)
    <3>1. r.path \in Path /\ r.holds \in SUBSET Step
      BY DEF Types, TypeOK
    <3>2. Save(p, TRUE, r.path, r.holds, 0) /\ UNCHANGED history
      BY <2>3 DEF Adopt, Respec
    <3> QED
      BY <1>3, <2>1, <3>1, <3>2, Zenon
  <2> QED
    BY <1>5, <2>2, <2>3 DEF Acts
<1>6. ASSUME NEW w \in Worker, Attempts(w) \/ Fault(w) \/ Die(w)
      PROVE  UNCHANGED <<rows, tx>> \/ Quiet(w)
  <2>1. ASSUME NEW a \in Path, Build(w, a) PROVE Quiet(w)
    <3> DEFINE s == job[w].step
               base == job[w].version
               path == IF base # NoVersion THEN base.path ELSE a
               holds == Holds(base) \cup {s}
    <3>1. s \in Step
      BY <2>1 DEF Build, On, Types, WorkersAreAt
    <3>2. path \in Path
      BY DEF Version, Types, TypeOK, Attempt
    <3>3. holds \in SUBSET Step
      BY <3>1 DEF Holds, Types, TypeOK
    <3>4. Save(w, base # NoVersion, path, holds, s) /\ s \in Step \cup {0} /\ UNCHANGED history
      BY <2>1, <3>1 DEF Build
    <3> HIDE DEF path, holds
    <3> QED
      BY <1>3, <3>2, <3>3, <3>4 DEF Saver
  <2>2. CASE Start(w) \/ Refuse(w) \/ SaveCheckpoint(w) \/ Succeed(w) \/ retryOrFail(w) \/ Fault(w)
    BY <2>2 DEF Start, Refuse, SaveCheckpoint, Succeed, retryOrFail, Fault, history
  <2>3. CASE Die(w)
    BY <1>1, <2>3 DEF Die, Saver
  <2> QED
    BY <1>6, <2>1, <2>2, <2>3 DEF Attempts
<1>7. ASSUME NEW s \in Step, Reap(s) \/ \E w \in Worker : Claim(w, s) PROVE UNCHANGED <<rows, tx>>
  BY <1>7 DEF Reap, Claim, history
<1>8. CASE UNCHANGED vars
  BY <1>8 DEF vars, history
<1> QED
  BY <1>4, <1>5, <1>6, <1>7, <1>8 DEF Next, Saver

\* Where the versions are the same, so is all that is read of them.
LEMMA SameRows ==
  ASSUME UNCHANGED rows
  PROVE  \A a : /\ VersionsOf(a)' = VersionsOf(a) /\ Numbers(a)' = Numbers(a)
                /\ Newest(a)' = Newest(a) /\ Pending(a)' = Pending(a)
  BY DEF VersionsOf, Numbers, Newest, Pending

LEMMA QuietKeeps ==
  ASSUME Types, History, NEW c \in Saver, Quiet(c)
  PROVE  History'
<1>1. PICK m \in Transaction : m.at \notin Counted /\ m.locks = {} /\ tx' = [tx EXCEPT ![c] = m]
  BY DEF Quiet
<1>2. UNCHANGED rows /\ tx \in [Saver -> Transaction]
  BY DEF Quiet, Types, TypeOK
<1>3. /\ \A d \in Saver : tx'[d] = IF d = c THEN m ELSE tx[d]
      /\ m.at \notin Locking /\ m.at # "commit"
  BY <1>1, <1>2 DEF Counted, Locking
<1>4. Numbered' /\ OneOfEach' /\ OnlyLastPends'
  BY <1>2, SameRows DEF History, Numbered, OneOfEach, OnlyLastPends, Key
<1>5. NumbersAreNear'
  BY <1>1, <1>2, <1>3, SameRows DEF History, NumbersAreNear
<1>6. LocksPend'
  BY <1>1, <1>2, <1>3, SameRows DEF History, LocksPend, Key
<1>7. LocksApart'
  BY <1>1, <1>3 DEF History, LocksApart
<1>8. LocksSuffice'
  BY <1>2, <1>3, SameRows DEF History, LocksSuffice
<1>9. InsertsAreNew'
  BY <1>2, <1>3 DEF History, InsertsAreNew, Key
<1> QED
  BY <1>4, <1>5, <1>6, <1>7, <1>8, <1>9 DEF History

LEMMA CountKeeps ==
  ASSUME Types, History, NEW c \in Saver, Count(c)
  PROVE  History'
<1> DEFINE a == tx[c].path
           n == Newest(a) + 1
           m == [at |-> "supersede", path |-> a, number |-> n,
                 holds |-> tx[c].holds, step |-> tx[c].step, locks |-> tx[c].locks]
<1>1. /\ UNCHANGED rows /\ tx \in [Saver -> Transaction] /\ a \in Path
      /\ tx[c].at = "count" /\ tx[c].locks = {}
  BY DEF Count, At, history, History, LocksPend, Locking, Types, TypeOK, SaversAreAt, Transaction
<1>2. Newest(a) \in Nat /\ n \in Nat
  BY <1>1, NewestCounts DEF History
<1>3. tx' = [tx EXCEPT ![c] = m]
  BY <1>2, CountIs DEF Count
<1>4. m.at = "supersede" /\ m.path = a /\ m.number = Newest(a) + 1 /\ m.locks = {}
  BY <1>1
<1> HIDE DEF m, n
<1>5. \A d \in Saver : tx'[d] = IF d = c THEN m ELSE tx[d]
  BY <1>1, <1>3
<1>6. Numbered' /\ OneOfEach' /\ OnlyLastPends'
  BY <1>1, SameRows DEF History, Numbered, OneOfEach, OnlyLastPends, Key
<1>7. NumbersAreNear'
  BY <1>1, <1>2, <1>4, <1>5, SameRows DEF History, NumbersAreNear
<1>8. LocksPend'
  BY <1>1, <1>4, <1>5, SameRows DEF History, LocksPend, Key
<1>9. LocksApart'
  BY <1>4, <1>5 DEF History, LocksApart
<1>10. LocksSuffice'
  BY <1>1, <1>4, <1>5, SameRows DEF History, LocksSuffice, Locking
<1>11. InsertsAreNew'
  BY <1>1, <1>4, <1>5 DEF History, InsertsAreNew, Key
<1> QED
  BY <1>6, <1>7, <1>8, <1>9, <1>10, <1>11 DEF History

LEMMA SupersedeKeeps ==
  ASSUME Types, History, NEW c \in Saver, Supersede(c)
  PROVE  History'
<1> DEFINE a == tx[c].path
           m == [at |-> "insert", path |-> a, number |-> tx[c].number,
                 holds |-> tx[c].holds, step |-> tx[c].step, locks |-> Pending(a)]
<1>1. /\ UNCHANGED rows /\ tx \in [Saver -> Transaction] /\ tx[c].at = "supersede"
      /\ \A k \in Pending(a) : \A d \in Saver : k \notin tx[d].locks
  BY DEF Supersede, At, history, Locked, Types, TypeOK
<1>2. tx' = [tx EXCEPT ![c] = m]
  BY SupersedeIs DEF Supersede
<1>3. m.at = "insert" /\ m.path = a /\ m.number = tx[c].number /\ m.locks = Pending(a)
  OBVIOUS
<1> HIDE DEF m
<1>4. \A d \in Saver : tx'[d] = IF d = c THEN m ELSE tx[d]
  BY <1>1, <1>2
<1>5. Numbered' /\ OneOfEach' /\ OnlyLastPends'
  BY <1>1, SameRows DEF History, Numbered, OneOfEach, OnlyLastPends, Key
<1>6. NumbersAreNear'
  BY <1>1, <1>3, <1>4, SameRows DEF History, NumbersAreNear, Counted
<1>7. LocksPend'
  <2>1. \A k \in Pending(a) : \E r \in VersionsOf(a) : Key(r) = k /\ r.disposition = "pending"
    BY DEF Pending
  <2> QED
    BY <1>1, <1>3, <1>4, <2>1, SameRows DEF History, LocksPend, Key, Locking
<1>8. LocksApart'
  BY <1>1, <1>3, <1>4 DEF History, LocksApart
<1>9. LocksSuffice'
  BY <1>1, <1>3, <1>4, SameRows DEF History, LocksSuffice
<1>10. InsertsAreNew'
  BY <1>1, <1>3, <1>4 DEF History, InsertsAreNew, Key
<1> QED
  BY <1>5, <1>6, <1>7, <1>8, <1>9, <1>10 DEF History

LEMMA EntersKeeps ==
  ASSUME Types, History, NEW c \in Saver, Enters(c)
  PROVE  History'
<1> DEFINE m == [tx[c] EXCEPT !.at = "commit"]
<1>1. /\ UNCHANGED rows /\ tx \in [Saver -> Transaction] /\ tx[c].at = "insert"
      /\ \A r \in rows : Key(r) # Key(tx[c])
      /\ \A d \in Saver \ {c} : tx[d].at = "commit" => Key(tx[d]) # Key(tx[c])
  BY DEF Enters, Inserts, At, Types, TypeOK
<1>2. tx' = [tx EXCEPT ![c] = m]
  BY DEF Enters, Moves
<1>3. /\ m.at = "commit" /\ m.path = tx[c].path /\ m.number = tx[c].number
      /\ m.locks = tx[c].locks
  BY <1>1 DEF Transaction
<1> HIDE DEF m
<1>4. \A d \in Saver : tx'[d] = IF d = c THEN m ELSE tx[d]
  BY <1>1, <1>2
<1>5. Numbered' /\ OneOfEach' /\ OnlyLastPends'
  BY <1>1, SameRows DEF History, Numbered, OneOfEach, OnlyLastPends, Key
<1>6. NumbersAreNear'
  BY <1>1, <1>3, <1>4, SameRows DEF History, NumbersAreNear, Counted
<1>7. LocksPend'
  BY <1>1, <1>3, <1>4, SameRows DEF History, LocksPend, Key, Locking
<1>8. LocksApart'
  BY <1>3, <1>4 DEF History, LocksApart
<1>9. LocksSuffice'
  BY <1>1, <1>3, <1>4, SameRows DEF History, LocksSuffice, Locking
<1>10. InsertsAreNew'
  BY <1>1, <1>3, <1>4 DEF History, InsertsAreNew, Key
<1> QED
  BY <1>5, <1>6, <1>7, <1>8, <1>9, <1>10 DEF History

\* A ruling changes no version's place.
LEMMA DisposeKeeps ==
  ASSUME Types, History, NEW q \in rows, NEW e \in Ruling, Dispose(q, e)
  PROVE  History'
<1> DEFINE ks == {Key(q)}
<1>1. /\ rows' = Ruled(ks, e) /\ UNCHANGED tx /\ q.disposition = "pending"
      /\ \A c \in Saver : Key(q) \notin tx[c].locks
  BY DEF Dispose, Locked
<1>2. /\ \A x \in rows' : \E r \in rows : Becomes(r, x, ks, e)
      /\ \A r \in rows : \E x \in rows' : Becomes(r, x, ks, e)
  BY <1>1, RuledRows DEF Types, Disposition
<1>3. ASSUME NEW b PROVE Numbers(b)' = Numbers(b) /\ Newest(b)' = Newest(b)
  <2>1. Numbers(b)' = Numbers(b)
    BY <1>2 DEF Numbers, VersionsOf, Becomes
  <2> QED
    BY <2>1 DEF Newest, Numbers
<1>4. e # "pending"
  BY HistoryAssumption
<1>5. ASSUME NEW x \in rows', x.disposition = "pending" PROVE x \in rows /\ Key(x) \notin ks
  BY <1>2, <1>4, <1>5 DEF Becomes
<1>6. ASSUME NEW r \in rows, Key(r) \notin ks PROVE r \in rows'
  BY <1>2, <1>6 DEF Becomes
<1>7. Numbered'
  BY <1>3 DEF History, Numbered
<1>8. OneOfEach'
  <2> SUFFICES ASSUME NEW x \in rows', NEW y \in rows', Key(x) = Key(y) PROVE x = y
    BY DEF OneOfEach, Key
  <2>1. PICK r \in rows : Becomes(r, x, ks, e)
    BY <1>2
  <2>2. PICK s \in rows : Becomes(s, y, ks, e)
    BY <1>2
  <2>3. r = s
    BY <2>1, <2>2 DEF Becomes, History, OneOfEach
  <2>4. x \in Row /\ y \in Row
    BY <1>1, RuledRows DEF Types, Disposition
  <2> QED
    BY <2>1, <2>2, <2>3, <2>4 DEF Becomes, Row
<1>9. OnlyLastPends'
  BY <1>3, <1>5 DEF History, OnlyLastPends
<1>10. NumbersAreNear'
  BY <1>1, <1>3 DEF History, NumbersAreNear
<1>11. LocksPend'
  <2> SUFFICES ASSUME NEW c \in Saver, NEW k \in tx[c].locks
               PROVE  /\ tx[c].at \in Locking
                      /\ \E r \in rows' : r.path = tx[c].path /\ Key(r) = k /\ r.disposition = "pending"
    BY <1>1 DEF LocksPend, VersionsOf, Key
  <2>1. /\ tx[c].at \in Locking
        /\ \E r \in VersionsOf(tx[c].path) : Key(r) = k /\ r.disposition = "pending"
    BY DEF History, LocksPend
  <2>2. PICK r \in rows : r.path = tx[c].path /\ Key(r) = k /\ r.disposition = "pending"
    BY <2>1 DEF VersionsOf
  <2>3. r \in rows'
    BY <1>1, <1>6, <2>2
  <2> QED
    BY <2>1, <2>2, <2>3
<1>12. LocksApart' /\ InsertsAreNew'
  <2>1. LocksApart'
    BY <1>1 DEF History, LocksApart
  <2>2. InsertsAreNew'
    <3>1. \A x \in rows' : \E r \in rows : Key(x) = Key(r)
      BY <1>2 DEF Becomes
    <3> SUFFICES ASSUME NEW c \in Saver, tx'[c].at = "commit"
                 PROVE  /\ \A x \in rows' : Key(x) # Key(tx'[c])
                        /\ \A d \in Saver \ {c} : tx'[d].at = "commit" => Key(tx'[d]) # Key(tx'[c])
      BY DEF InsertsAreNew, Key
    <3>2. /\ tx[c].at = "commit" /\ Key(tx'[c]) = Key(tx[c])
          /\ \A d \in Saver : Key(tx'[d]) = Key(tx[d])
      BY <1>1 DEF Key
    <3> QED
      BY <1>1, <3>1, <3>2 DEF History, InsertsAreNew
  <2> QED
    BY <2>1, <2>2
<1>13. LocksSuffice'
  <2>1. \A b : Pending(b)' \subseteq Pending(b)
    BY <1>5 DEF Pending, VersionsOf, Key
  <2> QED
    BY <1>1, <1>3, <2>1 DEF History, LocksSuffice
<1> QED
  BY <1>7, <1>8, <1>9, <1>10, <1>11, <1>12, <1>13 DEF History

LEMMA CommitKeeps ==
  ASSUME Types, History, NEW c \in Saver, Commit(c)
  PROVE  History'
<1>a. PICK a \in Path : a = tx[c].path
  BY DEF Commit, At, Types, SaversAreAt
<1>n. PICK n \in Nat : n = Newest(a) /\ Numbers(a) = 1..n
  BY NewestCounts DEF History
<1> DEFINE ks == tx[c].locks
           new == [path |-> a, number |-> tx[c].number, holds |-> tx[c].holds,
                   step |-> tx[c].step, disposition |-> "pending"]
<1>1. /\ rows' = Ruled(ks, "superseded") \cup {new} /\ tx' = [tx EXCEPT ![c] = NoTx]
      /\ tx \in [Saver -> Transaction] /\ tx[c].at = "commit" /\ tx[c].number \in Nat \ {0}
  BY <1>a DEF Commit, Appended, At, Types, TypeOK, SaversAreAt, Counted, Transaction
<1>2. /\ \A x \in Ruled(ks, "superseded") : x \in Row /\ \E r \in rows : Becomes(r, x, ks, "superseded")
      /\ \A r \in rows : \E x \in Ruled(ks, "superseded") : Becomes(r, x, ks, "superseded")
  BY RuledRows DEF Types, Disposition
\* The number is free, so it is the next one.
<1>4. tx[c].number = n + 1
  <2>1. tx[c].number \in 1..(n + 1)
    BY <1>1, <1>a, <1>n DEF History, NumbersAreNear, Counted
  <2>2. tx[c].number \notin Numbers(a)
    BY <1>1, <1>a DEF History, InsertsAreNew, Numbers, VersionsOf, Key
  <2> QED
    BY <1>n, <2>1, <2>2
<1>5. /\ new.path = a /\ new.number = n + 1 /\ new.disposition = "pending"
      /\ Key(new) = Key(tx[c]) /\ \A r \in rows : Key(r) # Key(new)
  BY <1>1, <1>4, <1>a DEF Key, History, InsertsAreNew
<1>6. ASSUME NEW b, b # a PROVE Numbers(b)' = Numbers(b) /\ Newest(b)' = Newest(b)
  <2>1. Numbers(b)' = Numbers(b)
    BY <1>1, <1>2, <1>5, <1>6 DEF Numbers, VersionsOf, Becomes
  <2> QED
    BY <2>1 DEF Newest, Numbers
<1>7. Numbers(a)' = 1..(n + 1) /\ Newest(a)' = n + 1
  <2>1. {r.number : r \in {v \in rows' : v.path = a}} = Numbers(a) \cup {n + 1}
    BY <1>1, <1>2, <1>5 DEF Numbers, VersionsOf, Becomes
  <2>2. {r.number : r \in {v \in rows' : v.path = a}} = 1..(n + 1)
    BY <1>n, <2>1
  <2>3. Max(1..(n + 1) \cup {0}) = n + 1
    <3>1. n + 1 \in 1..(n + 1) \cup {0} /\ \A y \in 1..(n + 1) \cup {0} : n + 1 >= y
      BY <1>n
    <3>2. \A x \in 1..(n + 1) \cup {0} : (\A y \in 1..(n + 1) \cup {0} : x >= y) => x = n + 1
      BY <1>n
    <3> QED
      BY <3>1, <3>2 DEF Max
  <2> QED
    BY <2>2, <2>3 DEF Numbers, VersionsOf, Newest
<1> HIDE DEF new
\* All that was pending of the artifact was locked, and is superseded.
<1>8. Pending(a) \subseteq ks
  BY <1>1, <1>4, <1>a, <1>n DEF History, LocksSuffice, Locking
<1>9. ASSUME NEW x \in rows', x # new
      PROVE  \E r \in rows : Becomes(r, x, ks, "superseded")
  BY <1>1, <1>2, <1>9
<1>10. ASSUME NEW x \in rows', x # new, x.disposition = "pending" PROVE x \in rows /\ x.path # a
  <2>1. PICK r \in rows : Becomes(r, x, ks, "superseded")
    BY <1>9, <1>10
  <2>2. Key(r) \notin ks /\ x = r
    BY <1>10, <2>1 DEF Becomes
  <2>3. x \in rows /\ (x.path = a => Key(x) \in Pending(a))
    BY <1>10, <2>2 DEF Pending, VersionsOf
  <2> QED
    BY <1>8, <2>2, <2>3
<1>11. ASSUME NEW d \in Saver PROVE tx'[d] = IF d = c THEN NoTx ELSE tx[d]
  BY <1>1
<1>12. NoTx.at \notin Counted /\ NoTx.at \notin Locking /\ NoTx.at # "commit" /\ NoTx.locks = {}
  BY DEF NoTx, Counted, Locking
<1>13. Numbered'
  BY <1>n, <1>6, <1>7 DEF History, Numbered
<1>14. OneOfEach'
  <2> SUFFICES ASSUME NEW x \in rows', NEW y \in rows', Key(x) = Key(y) PROVE x = y
    BY DEF OneOfEach, Key
  <2>1. CASE x # new /\ y # new
    <3>1. PICK r \in rows : Becomes(r, x, ks, "superseded")
      BY <1>9, <2>1
    <3>2. PICK s \in rows : Becomes(s, y, ks, "superseded")
      BY <1>9, <2>1
    <3>3. r = s
      BY <3>1, <3>2 DEF Becomes, History, OneOfEach
    <3>4. x \in Row /\ y \in Row
      BY <1>1, <1>2, <2>1
    <3> QED
      BY <3>1, <3>2, <3>3, <3>4 DEF Becomes, Row
  <2>2. CASE x = new \/ y = new
    <3>1. \A z \in rows' : z # new => Key(z) # Key(new)
      BY <1>5, <1>9 DEF Becomes
    <3> QED
      BY <2>2, <3>1
  <2> QED
    BY <2>1, <2>2
<1>15. OnlyLastPends'
  <2> SUFFICES ASSUME NEW x \in rows', x.disposition = "pending" PROVE x.number = Newest(x.path)'
    BY DEF OnlyLastPends
  <2>1. CASE x = new
    BY <1>5, <1>7, <2>1
  <2>2. CASE x # new
    BY <1>6, <1>10, <2>2 DEF History, OnlyLastPends
  <2> QED
    BY <2>1, <2>2
<1>16. NumbersAreNear'
  <2> SUFFICES ASSUME NEW d \in Saver, NEW b, tx'[d].at \in Counted, b = tx'[d].path
               PROVE  tx'[d].number <= Newest(b)' + 1
    BY DEF NumbersAreNear, Newest, VersionsOf
  <2>1. tx'[d] = tx[d] /\ b \in Path /\ tx[d].number \in Nat
    BY <1>11, <1>12 DEF Types, TypeOK, SaversAreAt, Counted, Transaction
  <2>2. tx[d].number <= Newest(b) + 1
    BY <2>1 DEF History, NumbersAreNear
  <2>3. CASE b = a
    BY <1>7, <1>n, <2>1, <2>2, <2>3
  <2>4. CASE b # a
    BY <1>6, <2>1, <2>2, <2>4
  <2> QED
    BY <2>3, <2>4
<1>17. LocksPend'
  <2> SUFFICES ASSUME NEW d \in Saver, NEW k \in tx'[d].locks
               PROVE  /\ tx'[d].at \in Locking
                      /\ \E r \in rows' : r.path = tx'[d].path /\ Key(r) = k /\ r.disposition = "pending"
    BY DEF LocksPend, VersionsOf, Key
  <2>1. tx'[d] = tx[d] /\ d # c
    BY <1>11, <1>12
  <2>2. /\ tx[d].at \in Locking
        /\ \E r \in VersionsOf(tx[d].path) : Key(r) = k /\ r.disposition = "pending"
    BY <2>1 DEF History, LocksPend
  <2>3. PICK r \in rows : r.path = tx[d].path /\ Key(r) = k /\ r.disposition = "pending"
    BY <2>2 DEF VersionsOf
  <2>4. k \notin ks
    BY <2>1 DEF History, LocksApart
  <2>5. r \in rows'
    BY <1>1, <1>2, <2>3, <2>4 DEF Becomes
  <2> QED
    BY <2>1, <2>2, <2>3, <2>5
<1>18. LocksApart'
  BY <1>11, <1>12 DEF History, LocksApart
<1>19. LocksSuffice'
  <2> SUFFICES ASSUME NEW d \in Saver, NEW b, b = tx'[d].path, tx'[d].at \in Locking,
                      tx'[d].number = Newest(b)' + 1
               PROVE  Pending(b)' \subseteq tx'[d].locks
    BY DEF LocksSuffice, Newest, Pending, VersionsOf, Key
  <2>1. tx'[d] = tx[d] /\ b \in Path
    BY <1>11, <1>12 DEF Types, SaversAreAt, Locking
  <2>2. CASE b = a
    <3>1. tx[d].number <= n + 1 /\ tx[d].number = n + 2 /\ tx[d].number \in Nat
      BY <1>n, <1>7, <2>1, <2>2 DEF History, NumbersAreNear, Counted, Locking, Types, TypeOK, Transaction
    <3> QED
      BY <1>n, <3>1
  <2>3. CASE b # a
    <3>1. Pending(b) \subseteq tx[d].locks
      BY <1>6, <2>1, <2>3 DEF History, LocksSuffice
    <3>2. \A x \in rows' : x.path = b /\ x.disposition = "pending" => x \in rows
      BY <1>5, <1>10, <2>3
    <3> QED
      BY <2>1, <3>1, <3>2 DEF Pending, VersionsOf, Key
  <2> QED
    BY <2>2, <2>3
<1>20. InsertsAreNew'
  <2> SUFFICES ASSUME NEW d \in Saver, tx'[d].at = "commit"
               PROVE  /\ \A r \in rows' : Key(r) # Key(tx'[d])
                      /\ \A e \in Saver \ {d} : tx'[e].at = "commit" => Key(tx'[e]) # Key(tx'[d])
    BY DEF InsertsAreNew, Key
  <2>1. tx'[d] = tx[d] /\ d # c
    BY <1>11, <1>12
  <2>2. Key(tx[d]) # Key(new)
    BY <1>1, <1>5, <2>1 DEF History, InsertsAreNew
  <2>3. \A x \in rows' : Key(x) # Key(tx[d])
    BY <1>9, <2>1, <2>2 DEF History, InsertsAreNew, Becomes
  <2>4. \A e \in Saver \ {d} : tx'[e].at = "commit" => Key(tx'[e]) # Key(tx'[d])
    BY <1>11, <1>12, <2>1 DEF History, InsertsAreNew
  <2> QED
    BY <2>1, <2>3, <2>4
<1> QED
  BY <1>13, <1>14, <1>15, <1>16, <1>17, <1>18, <1>19, <1>20 DEF History

LEMMA InitHistory == Init => History /\ SavesAreOwn
<1> SUFFICES ASSUME Init PROVE History /\ SavesAreOwn
  OBVIOUS
<1>1. rows = {} /\ \A c \in Saver : tx[c] = NoTx
  BY DEF Init
<1>2. NoTx.at = "none" /\ NoTx.locks = {} /\ NoTx.step = 0
  BY DEF NoTx
<1>3. Numbered
  <2>1. \A a : Numbers(a) = {}
    BY <1>1 DEF Numbers, VersionsOf
  <2>2. 0 \in Nat /\ 1..0 = {}
    OBVIOUS
  <2> QED
    BY <2>1, <2>2 DEF Numbered
<1> QED
  BY <1>1, <1>2, <1>3
  DEF History, OneOfEach, OnlyLastPends, NumbersAreNear, LocksPend, LocksApart, LocksSuffice,
      InsertsAreNew, SavesAreOwn, Saver, Counted, Locking

LEMMA NextHistory == Types /\ History /\ [Next]_vars => History'
<1> SUFFICES ASSUME Types, History, [Next]_vars PROVE History'
  OBVIOUS
<1>1. CASE UNCHANGED <<rows, tx>>
  <2>1. UNCHANGED rows /\ UNCHANGED tx
    BY <1>1
  <2>2. Numbered' /\ OneOfEach' /\ OnlyLastPends'
    BY <2>1, SameRows DEF History, Numbered, OneOfEach, OnlyLastPends, Key
  <2>3. NumbersAreNear' /\ LocksPend' /\ LocksApart' /\ LocksSuffice'
    BY <2>1, SameRows DEF History, NumbersAreNear, LocksPend, LocksApart, LocksSuffice, Key
  <2>4. InsertsAreNew'
    BY <2>1 DEF History, InsertsAreNew, Key
  <2> QED
    BY <2>2, <2>3, <2>4 DEF History
<1> QED
  BY <1>1, HistorySteps, QuietKeeps, CountKeeps, SupersedeKeeps, EntersKeeps, CommitKeeps, DisposeKeeps

LEMMA Invariance == Spec => [](Types /\ SavesAreOwn /\ History)
<1>1. Types /\ SavesAreOwn /\ History /\ [Next]_vars => (Types /\ SavesAreOwn /\ History)'
  BY NextTypes, NextOwn, NextHistory DEF History
<1> QED
  BY InitTypes, InitHistory, <1>1, PTL DEF Spec

\* Versions, transactions, tasks and attempts keep their types.
THEOREM TypeCorrect == Spec => []TypeOK
  BY Invariance, PTL DEF Types

LEMMA HistoryIsOne == Types /\ History => OneHistory
<1> SUFFICES ASSUME Types, History PROVE OneHistory
  OBVIOUS
<1>1. \A a \in Path : {r.number : r \in VersionsOf(a)} = 1..Newest(a)
  BY NewestCounts DEF History, Numbers
<1> QED
  BY <1>1 DEF History, OneOfEach, OnlyLastPends, OneHistory

\* Every artifact's versions are numbered through, one of each, and only the
\* last may wait for a ruling, however many savers race for the next number,
\* fail or are refused it.
THEOREM HistoryHolds == Spec => []OneHistory
<1>1. Types /\ SavesAreOwn /\ History => OneHistory
  BY HistoryIsOne
<1> QED
  BY Invariance, <1>1, PTL

LEMMA RulingsStep ==
  ASSUME Types, History, [Next]_vars
  PROVE  \A r \in rows : \E v \in rows' :
           /\ Key(v) = Key(r) /\ v.holds = r.holds
           /\ r.disposition # "pending" => v = r
<1> SUFFICES ASSUME NEW r \in rows
             PROVE  \E v \in rows' : /\ Key(v) = Key(r) /\ v.holds = r.holds
                                     /\ r.disposition # "pending" => v = r
  OBVIOUS
<1>1. ASSUME NEW ks, NEW d \in Disposition, Ruled(ks, d) \subseteq rows',
             \A k \in ks : \E q \in rows : Key(q) = k /\ q.disposition = "pending"
      PROVE  \E v \in rows' : /\ Key(v) = Key(r) /\ v.holds = r.holds
                              /\ r.disposition # "pending" => v = r
  <2>1. PICK v \in Ruled(ks, d) : Becomes(r, v, ks, d)
    BY RuledRows DEF Types
  <2>2. r.disposition # "pending" => Key(r) \notin ks
    BY <1>1 DEF History, OneOfEach
  <2> QED
    BY <1>1, <2>1, <2>2 DEF Becomes
<1>2. ASSUME NEW c \in Saver, Commit(c)
      PROVE  \E v \in rows' : /\ Key(v) = Key(r) /\ v.holds = r.holds
                              /\ r.disposition # "pending" => v = r
  <2>1. Ruled(tx[c].locks, "superseded") \subseteq rows' /\ "superseded" \in Disposition
    BY <1>2 DEF Commit, Appended, Disposition
  <2>2. \A k \in tx[c].locks : \E q \in rows : Key(q) = k /\ q.disposition = "pending"
    BY DEF History, LocksPend, VersionsOf
  <2> QED
    BY <1>1, <2>1, <2>2
<1>3. ASSUME NEW q \in rows, NEW d \in Ruling, Dispose(q, d)
      PROVE  \E v \in rows' : /\ Key(v) = Key(r) /\ v.holds = r.holds
                              /\ r.disposition # "pending" => v = r
  <2>1. /\ Ruled({Key(q)}, d) \subseteq rows' /\ d \in Disposition
        /\ \A k \in {Key(q)} : \E p \in rows : Key(p) = k /\ p.disposition = "pending"
    BY <1>3 DEF Dispose, Disposition
  <2> QED
    BY <1>1, <2>1
<1>4. ASSUME UNCHANGED rows
      PROVE  \E v \in rows' : /\ Key(v) = Key(r) /\ v.holds = r.holds
                              /\ r.disposition # "pending" => v = r
  BY <1>4
<1> QED
  BY <1>2, <1>3, <1>4, HistorySteps DEF Quiet, Count, Supersede, Enters, history

\* No version is lost, and nobody who appends undoes a ruling.
THEOREM RulingsKept == Spec => RulingsStand
<1>1. Types /\ SavesAreOwn /\ History /\ [Next]_vars
        => [\A r \in rows : \E v \in rows' :
              /\ Key(v) = Key(r) /\ v.holds = r.holds
              /\ r.disposition # "pending" => v = r]_vars
  BY RulingsStep
<1> QED
  BY Invariance, <1>1, PTL DEF Spec, RulingsStand

-----------------------------------------------------------------------------
(* Kept once. *)

\* A worker's step, by itself: nobody else is at what it touches.
LEMMA WorkerKeeps ==
  ASSUME Types, Kept, NEW w \in Worker, UNCHANGED rows, torn \subseteq torn',
         \A v \in Worker \ {w} : job'[v] = job[v],
         \A t \in Step : \/ task'[t].status = task[t].status
                         \/ \A v \in Worker \ {w} : job[v].at # "idle" => job[v].step # t,
         \A t \in Step : \/ task'[t].checkpoint = task[t].checkpoint
                         \/ /\ task'[t].checkpoint # NoVersion
                            /\ \A v \in Worker \ {w} : job[v].at # "idle" => job[v].step # t,
         job'[w].at # "idle" =>
           /\ task'[job'[w].step].status = "running"
           /\ \A v \in Worker \ {w} : job[v].at # "idle" => job[v].step # job'[w].step,
         job'[w].at \in {"building", "saving"} => task'[job'[w].step].checkpoint = NoVersion,
         job'[w].at # "kept",
         job[w].at = "kept" => \/ job[w].step \in torn'
                               \/ task'[job[w].step].checkpoint # NoVersion
  PROVE  Kept'
<1>1. \A v \in Worker : job[v].at # "idle" => job[v].step \in Step
  BY DEF Types, WorkersAreAt
<1>2. Alone'
  BY <1>1 DEF Kept, Alone
<1>3. FreshSteps'
  BY <1>1 DEF Kept, FreshSteps
<1>4. KeptIsNamed'
  BY DEF Kept, KeptIsNamed
<1>5. OnRecord'
  BY <1>1 DEF Kept, OnRecord
<1>6. OncePerStep'
  BY DEF Kept, OncePerStep
<1> QED
  BY <1>2, <1>3, <1>4, <1>5, <1>6 DEF Kept

LEMMA CommitKept ==
  ASSUME Types, SavesAreOwn, Kept, NEW c \in Saver, Commit(c)
  PROVE  Kept'
<1> DEFINE ks == tx[c].locks
           new == [path |-> tx[c].path, number |-> tx[c].number, holds |-> tx[c].holds,
                   step |-> tx[c].step, disposition |-> "pending"]
<1>1. /\ rows' = Ruled(ks, "superseded") \cup {new} /\ new.step = tx[c].step
      /\ tx[c].at = "commit" /\ tx[c].path \in Path /\ tx[c].number # 0 /\ UNCHANGED task
  BY DEF Commit, Appended, At, Types, SaversAreAt, Counted
<1>2. \A x \in Ruled(ks, "superseded") : x \in Row /\ \E r \in rows : Becomes(r, x, ks, "superseded")
  BY RuledRows DEF Types, Disposition
<1> HIDE DEF new
<1>3. ASSUME NEW x \in rows', x # new PROVE x \in Row /\ \E r \in rows : Becomes(r, x, ks, "superseded")
  BY <1>1, <1>2, <1>3
\* Where nothing of a step was appended, what holds of its versions still does.
<1>4. ASSUME NEW s \in Step, s # tx[c].step, s \notin torn
      PROVE  /\ \A x, y \in rows' : x.step = s /\ y.step = s => x = y
             /\ (\E x \in rows' : x.step = s) => \E r \in rows : r.step = s
  <2>1. ASSUME NEW x \in rows', NEW y \in rows', x.step = s, y.step = s PROVE x = y
    <3>1. PICK r \in rows : Becomes(r, x, ks, "superseded")
      BY <1>1, <1>3, <1>4, <2>1
    <3>2. PICK v \in rows : Becomes(v, y, ks, "superseded")
      BY <1>1, <1>3, <1>4, <2>1
    <3>3. r = v
      BY <1>4, <2>1, <3>1, <3>2 DEF Becomes, Kept, OncePerStep
    <3>4. x \in Row /\ y \in Row
      BY <1>1, <1>3, <1>4, <2>1
    <3> QED
      BY <3>1, <3>2, <3>3, <3>4 DEF Becomes, Row
  <2>2. ASSUME NEW x \in rows', x.step = s PROVE \E r \in rows : r.step = s
    BY <1>1, <1>3, <1>4, <2>2 DEF Becomes
  <2> QED
    BY <2>1, <2>2
<1>5. CASE c \in Person
  <2>1. tx[c].step = 0 /\ UNCHANGED <<job, torn>> /\ 0 \notin Step
    BY <1>5, HistoryAssumption DEF Commit, SavesAreOwn, Step
  <2>2. OnRecord' /\ OncePerStep'
    BY <1>1, <1>4, <2>1 DEF Kept, OnRecord, OncePerStep
  <2> QED
    BY <1>1, <2>1, <2>2 DEF Kept, Alone, FreshSteps, KeptIsNamed
<1>6. CASE c \in Worker
  <2> DEFINE s == tx[c].step
  <2>1. /\ job[c].at = "saving" /\ job[c].step = s /\ s \in Step
        /\ job \in [Worker -> Attempt] /\ tx[c] \in Transaction
    BY <1>1, <1>6 DEF SavesAreOwn, Types, TypeOK, WorkersAreAt
  <2>2. Key(tx[c]) # NoVersion
    BY <1>1 DEF Key, NoVersion
  <2>3. /\ \A v \in Worker \ {c} : job'[v] = job[v]
        /\ job'[c].step = s /\ job'[c].at \in {"kept", "unavailable"}
        /\ job'[c].at = "kept" => job'[c].version = Key(tx[c]) /\ UNCHANGED torn
        /\ job'[c].at = "unavailable" => torn' = torn \cup {s}
    <3>1. CASE /\ job' = [job EXCEPT ![c].at = "kept", ![c].version = Key(tx[c])]
               /\ UNCHANGED torn
      <4>1. Goes(c, "kept", Key(tx[c]))
        <5>1. Key(tx[c]) \in Version
          BY <1>1, <2>1 DEF Key, Version, Transaction
        <5> QED
          BY <1>6, <3>1, <5>1, OnGoesWith DEF Points
      <4> QED
        BY <1>6, <2>1, <3>1, <4>1 DEF Goes
    <3>2. CASE /\ job' = [job EXCEPT ![c].at = "unavailable"]
               /\ torn' = torn \cup {s}
      <4>1. Goes(c, "unavailable", job[c].version)
        BY <1>6, <3>2, OnGoes DEF Points
      <4> QED
        BY <1>6, <2>1, <3>2, <4>1 DEF Goes
    <3> QED
      BY <1>6, <3>1, <3>2 DEF Commit
  <2> HIDE DEF s
\* The step was fresh, so nothing of it was kept before.
  <2>4. s \notin torn => \A r \in rows : r.step # s
    BY <2>1, <1>6 DEF Kept, OnRecord, FreshSteps, Alone
  <2>5. s \notin torn => \A x \in rows' : x.step = s => x = new
    BY <1>3, <2>4 DEF Becomes
  <2>6. Alone' /\ FreshSteps' /\ KeptIsNamed'
    BY <1>1, <1>6, <2>1, <2>2, <2>3 DEF Kept, Alone, FreshSteps, KeptIsNamed
  <2>7. OncePerStep'
    <3> SUFFICES ASSUME NEW t \in Step \ torn' PROVE \A x, y \in rows' : x.step = t /\ y.step = t => x = y
      BY DEF OncePerStep, Step
    <3>1. t \notin torn
      BY <2>3
    <3> QED
      BY <1>4, <2>5, <3>1 DEF s
  <2>8. OnRecord'
    <3> SUFFICES ASSUME NEW t \in Step \ torn', \E x \in rows' : x.step = t
                 PROVE  \/ task'[t].checkpoint # NoVersion
                        \/ \E w \in Worker : job'[w].at = "kept" /\ job'[w].step = t
      BY DEF OnRecord, Step
    <3>1. CASE t = s
      BY <1>6, <2>3, <3>1
    <3>2. CASE t # s
      <4>1. t \notin torn /\ \E r \in rows : r.step = t
        BY <1>4, <2>3, <3>2 DEF s
      <4> QED
        BY <1>1, <2>1, <2>3, <4>1 DEF Kept, OnRecord
    <3> QED
      BY <3>1, <3>2
  <2> QED
    BY <2>6, <2>7, <2>8 DEF Kept
<1> QED
  BY <1>5, <1>6 DEF Saver

\* What changes no version, attempt or task.
LEMMA IdleKept ==
  ASSUME Kept, UNCHANGED <<rows, task, job, torn>>
  PROVE  Kept'
  BY DEF Kept, Alone, FreshSteps, KeptIsNamed, OnRecord, OncePerStep

LEMMA DisposeKept ==
  ASSUME Types, Kept, NEW q \in rows, NEW e \in Ruling, Dispose(q, e)
  PROVE  Kept'
<1>1. /\ \A x \in rows' : x \in Row /\ \E r \in rows : Becomes(r, x, {Key(q)}, e)
      /\ UNCHANGED <<task, job, torn>>
  BY RuledRows DEF Dispose, build, Types, Disposition
<1>2. OnRecord'
  BY <1>1 DEF Kept, OnRecord, Becomes
<1>3. OncePerStep'
  <2> SUFFICES ASSUME NEW s \in Step \ torn, NEW x \in rows', NEW y \in rows', x.step = s, y.step = s
               PROVE  x = y
    BY <1>1 DEF OncePerStep
  <2>1. PICK r \in rows : Becomes(r, x, {Key(q)}, e)
    BY <1>1
  <2>2. PICK v \in rows : Becomes(v, y, {Key(q)}, e)
    BY <1>1
  <2>3. r = v
    BY <2>1, <2>2 DEF Becomes, Kept, OncePerStep
  <2>4. x \in Row /\ y \in Row
    BY <1>1
  <2> QED
    BY <2>1, <2>2, <2>3, <2>4 DEF Becomes, Row
<1> QED
  BY <1>1, <1>2, <1>3 DEF Kept, Alone, FreshSteps, KeptIsNamed

LEMMA SavesKept ==
  ASSUME Types, SavesAreOwn, Kept, NEW c \in Saver, Saves(c) \/ Fails(c)
  PROVE  Kept'
<1>1. ASSUME tx[c].at # "none", Undo(c, "unavailable") \/ Undo(c, "conflict") PROVE Kept'
  <2>1. CASE c \notin Worker
    BY <1>1, <2>1, IdleKept DEF Undo, history
  <2>2. CASE c \in Worker
    <3>1. job[c].at = "saving" /\ job \in [Worker -> Attempt] /\ UNCHANGED <<rows, task, torn>>
      BY <1>1, <2>2 DEF SavesAreOwn, Undo, history, Types, TypeOK
    <3>2. Goes(c, "unavailable", job[c].version) \/ Goes(c, "conflict", job[c].version)
      BY <1>1, <2>2, OnGoes DEF Undo, Points
    <3>3. /\ \A v \in Worker \ {c} : job'[v] = job[v]
          /\ job'[c].at \in {"unavailable", "conflict"} /\ job'[c].step = job[c].step
      BY <2>2, <3>1, <3>2 DEF Goes
    <3> QED
      BY <2>2, <3>1, <3>3, WorkerKeeps DEF Kept, Alone
  <2> QED
    BY <2>1, <2>2
<1>2. CASE Find(c) \/ Count(c) \/ Supersede(c)
  BY <1>2, IdleKept DEF Find, Count, Supersede, history, build
<1>3. CASE Create(c) \/ Insert(c) \/ Fails(c)
  BY <1>1, <1>3, IdleKept DEF Create, Insert, Fails, At, history, build
<1> QED
  BY <1>2, <1>3, CommitKept DEF Saves

LEMMA AttemptsKept ==
  ASSUME Types, Kept, NEW w \in Worker, Attempts(w) \/ Fault(w) \/ Die(w)
  PROVE  Kept'
<1>1. /\ job \in [Worker -> Attempt] /\ job[w].version \in Version \cup {NoVersion}
      /\ task \in [Step -> StepTask]
      /\ job[w].at # "idle" => job[w].step \in Step
      /\ Idle.at = "idle"
  BY DEF Types, TypeOK, WorkersAreAt, Attempt, Idle
<1>2. ASSUME NEW at \in Points \ {"kept"}, NEW v \in Version \cup {NoVersion}, Goes(w, at, v),
             job[w].at # "idle", job[w].at # "kept", UNCHANGED <<rows, task, torn>>,
             at \in {"building", "saving"} => task[job[w].step].checkpoint = NoVersion
      PROVE  Kept'
  <2>1. /\ \A x \in Worker \ {w} : job'[x] = job[x]
        /\ job'[w].at = at /\ job'[w].step = job[w].step
    BY <1>1, <1>2 DEF Goes
  <2> QED
    BY <1>2, <2>1, WorkerKeeps DEF Kept, Alone
<1>3. ASSUME Leave(w), job[w].at # "idle", job[w].at = "kept" => job[w].step \in torn',
             UNCHANGED rows, torn \subseteq torn',
             \A t \in Step : task'[t].checkpoint = task[t].checkpoint,
             \A t \in Step : t # job[w].step => task'[t].status = task[t].status
      PROVE  Kept'
  <2>1. (\A x \in Worker \ {w} : job'[x] = job[x]) /\ job'[w].at = "idle"
    BY <1>1, <1>3 DEF Leave
  <2>2. \A x \in Worker \ {w} : job[x].at # "idle" => job[x].step # job[w].step
    BY <1>3 DEF Kept, Alone
  <2> QED
    BY <1>3, <2>1, <2>2, WorkerKeeps
<1>4. CASE Start(w)
  <2>1. job[w].at = "claimed" /\ job[w].step \in Step /\ UNCHANGED <<rows, task, torn>>
    BY <1>1, <1>4 DEF Start, On, history
  <2>2. task[job[w].step].checkpoint \in Version \cup {NoVersion}
    BY <2>1 DEF Types, TypeOK, StepTask
  <2>3. Before(job[w].step) \in Version \cup {NoVersion}
    BY <2>1, HistoryAssumption DEF Before, Types, TypeOK, StepTask, Step
  <2>4. CASE task[job[w].step].checkpoint # NoVersion
    <3>1. Goes(w, "done", task[job[w].step].checkpoint)
      BY <1>4, <2>2, <2>4, OnGoesWith DEF Start, Points
    <3> QED
      BY <1>2, <2>1, <2>2, <3>1 DEF Points
  <2>5. CASE task[job[w].step].checkpoint = NoVersion
    <3>1. Goes(w, "building", Before(job[w].step))
      BY <1>4, <2>3, <2>5, OnGoesWith DEF Start, Points
    <3> QED
      BY <1>2, <2>1, <2>3, <2>5, <3>1 DEF Points
  <2> QED
    BY <2>4, <2>5
<1>5. CASE Refuse(w) \/ Fault(w)
  <2>1. PICK at \in {"done", "unavailable", "conflict"} : job' = [job EXCEPT ![w].at = at]
    BY <1>5 DEF Refuse, Fault
  <2>2. Goes(w, at, job[w].version) /\ at \in Points \ {"kept"}
    BY <2>1, OnGoes DEF Points
  <2> QED
    BY <1>1, <1>2, <1>5, <2>1, <2>2 DEF Refuse, Fault, On, history
<1>6. ASSUME NEW a \in Path, Build(w, a) PROVE Kept'
  <2>1. job[w].at = "building" /\ UNCHANGED <<rows, task, torn>>
    BY <1>6 DEF Build, On, history
  <2>2. Goes(w, "saving", job[w].version)
    BY <1>6, OnGoes DEF Build, Points
  <2>3. task[job[w].step].checkpoint = NoVersion
    BY <2>1 DEF Kept, FreshSteps
  <2> QED
    BY <1>1, <1>2, <2>1, <2>2, <2>3 DEF Points
<1>7. CASE SaveCheckpoint(w)
  <2>1. /\ job[w].at = "kept" /\ job[w].step \in Step /\ UNCHANGED rows
        /\ job[w].version # NoVersion
    BY <1>1, <1>7 DEF SaveCheckpoint, On, history, Kept, KeptIsNamed
  <2>2. /\ task[job[w].step].status = "running"
        /\ \A v \in Worker \ {w} : job[v].at # "idle" => job[v].step # job[w].step
    BY <2>1 DEF Kept, Alone
  <2>3. Goes(w, "done", job[w].version)
    BY <1>7, OnGoes DEF SaveCheckpoint, Points
  <2>4. /\ \A x \in Worker \ {w} : job'[x] = job[x]
        /\ job'[w].at = "done" /\ job'[w].step = job[w].step
    BY <1>1, <2>3 DEF Goes
  <2>5. /\ \A t \in Step : task'[t].status = task[t].status
        /\ \A t \in Step : t # job[w].step => task'[t].checkpoint = task[t].checkpoint
        /\ torn \subseteq torn'
        /\ \/ task'[job[w].step].checkpoint = job[w].version
           \/ UNCHANGED task /\ job[w].step \in torn'
    <3>1. CASE task' = [task EXCEPT ![job[w].step].checkpoint = job[w].version] /\ UNCHANGED torn
      BY <1>1, <2>1, <3>1 DEF StepTask
    <3>2. CASE UNCHANGED task /\ torn' = torn \cup {job[w].step}
      BY <3>2
    <3> QED
      BY <1>7, <3>1, <3>2 DEF SaveCheckpoint
  <2> QED
    BY <2>1, <2>2, <2>4, <2>5, WorkerKeeps
<1>8. CASE Succeed(w)
  <2>1. job[w].at = "done" /\ job[w].step \in Step /\ UNCHANGED <<rows, torn>> /\ Leave(w)
    BY <1>1, <1>8 DEF Succeed, On, history
  <2>2. \A t \in Step : /\ task'[t].checkpoint = task[t].checkpoint
                        /\ t # job[w].step => task'[t].status = task[t].status
    BY <1>1, <1>8, <2>1 DEF Succeed, StepTask
  <2> QED
    BY <1>3, <2>1, <2>2
<1>9. CASE retryOrFail(w)
  <2>1. /\ job[w].at \in {"unavailable", "conflict"} /\ job[w].step \in Step
        /\ UNCHANGED <<rows, torn>> /\ Leave(w)
    BY <1>1, <1>9 DEF retryOrFail, history
  <2>2. \A t \in Step : /\ task'[t].checkpoint = task[t].checkpoint
                        /\ t # job[w].step => task'[t].status = task[t].status
    BY <1>1, <1>9, <2>1 DEF retryOrFail, StepTask
  <2> QED
    BY <1>3, <2>1, <2>2
<1>10. CASE Die(w)
  BY <1>3, <1>10 DEF Die, On, history
<1> QED
  BY <1>4, <1>5, <1>6, <1>7, <1>8, <1>9, <1>10 DEF Attempts

LEMMA QueueKept ==
  ASSUME Types, Kept, NEW s \in Step, Reap(s) \/ \E w \in Worker : Claim(w, s)
  PROVE  Kept'
<1>1. /\ job \in [Worker -> Attempt] /\ task \in [Step -> StepTask]
      /\ \A v \in Worker : job[v].at # "idle" => job[v].step \in Step
  BY DEF Types, TypeOK, WorkersAreAt
<1>2. CASE Reap(s)
  <2>1. /\ UNCHANGED <<rows, job, torn>>
        /\ \A w \in Worker : job[w].at # "idle" => job[w].step # s
        /\ \A t \in Step : /\ task'[t].checkpoint = task[t].checkpoint
                           /\ t # s => task'[t].status = task[t].status
    BY <1>1, <1>2 DEF Reap, Busy, On, history, StepTask
  <2>2. Alone' /\ FreshSteps' /\ KeptIsNamed'
    BY <1>1, <2>1 DEF Kept, Alone, FreshSteps, KeptIsNamed
  <2>3. OnRecord' /\ OncePerStep'
    BY <2>1 DEF Kept, OnRecord, OncePerStep
  <2> QED
    BY <2>2, <2>3 DEF Kept
<1>3. ASSUME NEW w \in Worker, Claim(w, s) PROVE Kept'
  <2>1. /\ job[w].at = "idle" /\ task[s].status = "ready" /\ UNCHANGED <<rows, torn>>
        /\ \A v \in Worker \ {w} : job'[v] = job[v]
        /\ job'[w].at = "claimed" /\ job'[w].step = s
    BY <1>1, <1>3 DEF Claim, On, history
  <2>2. \A t \in Step : /\ task'[t].checkpoint = task[t].checkpoint
                        /\ task'[t].status = IF t = s THEN "running" ELSE task[t].status
    BY <1>1, <1>3 DEF Claim, StepTask
  <2>3. \A v \in Worker : job[v].at # "idle" => job[v].step # s
    BY <2>1 DEF Kept, Alone
  <2> QED
    BY <2>1, <2>2, <2>3, WorkerKeeps
<1> QED
  BY <1>2, <1>3

LEMMA InitKept == Init => Kept
<1> SUFFICES ASSUME Init PROVE Kept
  OBVIOUS
<1>1. rows = {} /\ \A w \in Worker : job[w].at = "idle"
  BY DEF Init, Idle
<1> QED
  BY <1>1 DEF Kept, Alone, FreshSteps, KeptIsNamed, OnRecord, OncePerStep

LEMMA NextKept == Types /\ SavesAreOwn /\ Kept /\ [Next]_vars => Kept'
<1> SUFFICES ASSUME Types, SavesAreOwn, Kept, [Next]_vars PROVE Kept'
  OBVIOUS
<1>1. ASSUME NEW p \in Person, Acts(p) PROVE Kept'
  BY <1>1, IdleKept DEF Acts, keepGeometry, Adopt, Respec, history, build
<1>2. CASE UNCHANGED vars
  BY <1>2, IdleKept DEF vars, history, build
<1> QED
  BY <1>1, <1>2, SavesKept, DisposeKept, AttemptsKept, QueueKept DEF Next

LEMMA KeptIsOnce ==
  ASSUME Kept
  PROVE  KeptOnce
<1> SUFFICES ASSUME NEW s \in Step \ torn PROVE Cardinality({r \in rows : r.step = s}) <= 1
  BY DEF KeptOnce
<1>1. {r \in rows : r.step = s} = {} \/ \E r : {v \in rows : v.step = s} = {r}
  BY DEF Kept, OncePerStep
<1> QED
  BY <1>1, FS_EmptySet, FS_Singleton

\* A step is kept once, however often it is retried, unless an attempt of it
\* ended without its version being on record.
THEOREM KeptHolds == Spec => []KeptOnce
<1>1. /\ Init => Kept
      /\ Types /\ SavesAreOwn /\ Kept /\ [Next]_vars => Kept'
      /\ Kept => KeptOnce
      /\ Types /\ SavesAreOwn /\ History => Types /\ SavesAreOwn
  BY InitKept, NextKept, KeptIsOnce
<1> QED
  BY Invariance, <1>1, PTL DEF Spec

-----------------------------------------------------------------------------
(* One build.                                                              *)
(*                                                                         *)
(* What a step may record Fits the step before it, whose record is final   *)
(* (BaseSettled): the version is of the same artifact, holds what that one *)
(* held, and holds the step's own work if it is another.                   *)

Known(v) == \E r \in rows : Key(r) = v
BaseSettled(s) == s > 1 => task[s - 1].status = "succeeded"

Fits(s, v) ==
  /\ v # NoVersion => Known(v)
  /\ Before(s) # NoVersion =>
       /\ Known(Before(s)) /\ v # NoVersion /\ v.path = Before(s).path
       /\ Holds(Before(s)) \subseteq Holds(v)
  /\ v # Before(s) => s \in Holds(v)

RecordsFit ==
  \A s \in Step :
    /\ task[s].status # "ready" => BaseSettled(s)
    /\ task[s].status = "succeeded" => Fits(s, task[s].kept)
    /\ task[s].checkpoint # NoVersion => BaseSettled(s) /\ Fits(s, task[s].checkpoint)

\* What an attempt builds on, saves, and is about to record.
AttemptsFit ==
  \A w \in Worker :
    /\ job[w].at \in {"building", "saving"} => job[w].version = Before(job[w].step)
    /\ job[w].at \in {"kept", "done"} => Fits(job[w].step, job[w].version)
    /\ tx[w].at # "none" =>
         /\ job[w].step \in tx[w].holds
         /\ Before(job[w].step) # NoVersion =>
              /\ Known(Before(job[w].step)) /\ tx[w].path = Before(job[w].step).path
              /\ Holds(Before(job[w].step)) \subseteq tx[w].holds

\* What a finished step's record says of every step before it.
BuildSoFar ==
  \A s \in Step : task[s].status = "succeeded" =>
    \A t \in 1..s :
      /\ task[t].status = "succeeded"
      /\ task[t].kept # Before(t) => t \in Holds(task[s].kept)
      /\ task[t].kept # NoVersion =>
           task[s].kept # NoVersion /\ task[s].kept.path = task[t].kept.path

Built == RecordsFit /\ AttemptsFit /\ BuildSoFar

LEMMA HoldsIs ==
  ASSUME OneOfEach, NEW r \in rows
  PROVE  Holds(Key(r)) = r.holds
<1>1. {v \in rows : Key(v) = Key(r)} = {r}
  BY DEF OneOfEach
<1> QED
  BY <1>1 DEF Holds

LEMMA NothingHolds ==
  ASSUME Types
  PROVE  Holds(NoVersion) = {}
<1>1. \A r \in rows : r.number # 0
  BY DEF Types, TypeOK
<1>2. {v \in rows : Key(v) = NoVersion} = {}
  BY <1>1 DEF Key, NoVersion
<1> QED
  BY <1>2 DEF Holds

\* Nothing that was kept is lost or changed.
LEMMA KnownStays ==
  ASSUME Types, History, [Next]_vars, NEW k, Known(k)
  PROVE  Known(k)' /\ Holds(k)' = Holds(k)
<1>1. PICK r \in rows : Key(r) = k
  BY DEF Known
<1>2. PICK v \in rows' : Key(v) = Key(r) /\ v.holds = r.holds
  BY RulingsStep
<1>3. OneOfEach /\ OneOfEach'
  BY NextHistory DEF History
<1>4. Holds(k) = r.holds
  BY <1>1, <1>3, HoldsIs
<1>5. {q \in rows' : Key(q) = k} = {v}
  BY <1>1, <1>2, <1>3 DEF OneOfEach, Key
<1>6. Holds(k)' = v.holds
  BY <1>5 DEF Holds, Key
<1>7. Known(k)'
  BY <1>1, <1>2 DEF Known, Key
<1> QED
  BY <1>2, <1>4, <1>6, <1>7

LEMMA NextTasks ==
  ASSUME Types, [Next]_vars, NEW t \in Step
  PROVE  /\ task[t].status = "succeeded" =>
              task'[t].status = "succeeded" /\ task'[t].kept = task[t].kept
         /\ task'[t].status # "ready" => task[t].status # "ready" \/ BaseSettled(t)
         /\ task'[t].status = "succeeded" =>
              \/ task[t].status = "succeeded"
              \/ \E w \in Worker : /\ job[w].at = "done" /\ job[w].step = t
                                   /\ task'[t].kept = job[w].version
         /\ \/ task'[t].checkpoint = task[t].checkpoint
            \/ \E w \in Worker : /\ job[w].at = "kept" /\ job[w].step = t
                                 /\ task'[t].checkpoint = job[w].version
<1> DEFINE P == /\ task[t].status = "succeeded" =>
                     task'[t].status = "succeeded" /\ task'[t].kept = task[t].kept
                /\ task'[t].status # "ready" => task[t].status # "ready" \/ BaseSettled(t)
                /\ task'[t].status = "succeeded" =>
                     \/ task[t].status = "succeeded"
                     \/ \E w \in Worker : /\ job[w].at = "done" /\ job[w].step = t
                                          /\ task'[t].kept = job[w].version
                /\ \/ task'[t].checkpoint = task[t].checkpoint
                   \/ \E w \in Worker : /\ job[w].at = "kept" /\ job[w].step = t
                                        /\ task'[t].checkpoint = job[w].version
<1>1. task \in [Step -> StepTask] /\ \A w \in Worker : job[w].at # "idle" => job[w].step \in Step
  BY DEF Types, TypeOK, WorkersAreAt
<1>2. CASE UNCHANGED task
  BY <1>2
<1>3. ASSUME NEW w \in Worker, SaveCheckpoint(w) PROVE P
  BY <1>1, <1>3 DEF SaveCheckpoint, On, StepTask
<1>4. ASSUME NEW w \in Worker, Succeed(w) PROVE P
  BY <1>1, <1>4 DEF Succeed, On, StepTask
<1>5. ASSUME NEW w \in Worker, retryOrFail(w) PROVE P
  BY <1>1, <1>5 DEF retryOrFail, StepTask
<1>6. ASSUME NEW w \in Worker, NEW s \in Step, Claim(w, s) PROVE P
  BY <1>1, <1>6 DEF Claim, StepTask, BaseSettled
<1>7. ASSUME NEW s \in Step, Reap(s) PROVE P
  BY <1>1, <1>7 DEF Reap, StepTask
<1>8. ASSUME NEW w \in Worker, Attempts(w) \/ Fault(w) \/ Die(w)
      PROVE  UNCHANGED task \/ SaveCheckpoint(w) \/ Succeed(w) \/ retryOrFail(w)
  BY <1>8 DEF Attempts, Start, Refuse, Build, Fault, Die
<1>9. ASSUME NEW c \in Saver, Saves(c) \/ Fails(c) PROVE UNCHANGED task
  BY <1>9 DEF Saves, Find, Create, Count, Supersede, Insert, Commit, Fails, Undo, build
<1>10. ASSUME (\E p \in Person : Acts(p)) \/ \E r \in rows, d \in Ruling : Dispose(r, d)
       PROVE  UNCHANGED task
  BY <1>10 DEF Acts, keepGeometry, Adopt, Respec, Dispose, build
<1>11. CASE UNCHANGED vars
  BY <1>2, <1>11 DEF vars, build
<1> QED
  BY <1>2, <1>3, <1>4, <1>5, <1>6, <1>7, <1>8, <1>9, <1>10, <1>11 DEF Next

\* A settled base is final.
LEMMA BaseStays ==
  ASSUME Types, [Next]_vars, NEW s \in Step, BaseSettled(s)
  PROVE  BaseSettled(s)' /\ Before(s)' = Before(s)
<1>1. CASE s = 1
  BY <1>1 DEF BaseSettled, Before
<1>2. CASE s # 1
  <2>1. s - 1 \in Step /\ s > 1
    BY <1>2, HistoryAssumption DEF Step
  <2> QED
    BY <1>2, <2>1, NextTasks DEF BaseSettled, Before
<1> QED
  BY <1>1, <1>2

LEMMA FitsStays ==
  ASSUME Types, History, [Next]_vars, NEW s \in Step, NEW v, BaseSettled(s), Fits(s, v)
  PROVE  Fits(s, v)'
<1>1. PICK b : b = Before(s)
  OBVIOUS
<1>2. Before(s)' = b
  BY <1>1, BaseStays
<1>3. v # NoVersion => Known(v) /\ Known(v)' /\ Holds(v)' = Holds(v)
  BY KnownStays DEF Fits
<1>4. b # NoVersion => /\ Known(b)' /\ Holds(b)' = Holds(b)
                       /\ v # NoVersion /\ v.path = b.path /\ Holds(b) \subseteq Holds(v)
  BY <1>1, KnownStays DEF Fits
<1>5. v # b => v # NoVersion /\ s \in Holds(v)
  <2>1. v # b => s \in Holds(v)
    BY <1>1 DEF Fits
  <2>2. b # NoVersion => v # NoVersion
    BY <1>4
  <2> QED
    BY <2>1, <2>2
<1>6. /\ v # NoVersion => Known(v)'
      /\ b # NoVersion => /\ Known(b)' /\ v # NoVersion /\ v.path = b.path
                          /\ Holds(b)' \subseteq Holds(v)'
      /\ v # b => s \in Holds(v)'
  BY <1>3, <1>4, <1>5
<1> QED
  BY <1>2, <1>6 DEF Fits, Known, Holds, Key

LEMMA WorkersSettled ==
  ASSUME Types, Kept, Built, NEW w \in Worker, job[w].at # "idle"
  PROVE  job[w].step \in Step /\ task[job[w].step].status = "running" /\ BaseSettled(job[w].step)
<1>1. job[w].step \in Step /\ task[job[w].step].status = "running"
  BY DEF Types, WorkersAreAt, Kept, Alone
<1> QED
  BY <1>1 DEF Built, RecordsFit

LEMMA RecordsStep ==
  ASSUME Types, History, Kept, Built, [Next]_vars
  PROVE  RecordsFit'
<1> SUFFICES ASSUME NEW s \in Step
             PROVE  /\ task'[s].status # "ready" => BaseSettled(s)'
                    /\ task'[s].status = "succeeded" => Fits(s, task[s].kept)'
                    /\ task'[s].checkpoint # NoVersion
                         => BaseSettled(s)' /\ Fits(s, task[s].checkpoint)'
  BY DEF RecordsFit, Step
<1>1. task'[s].status # "ready" => BaseSettled(s)'
  BY NextTasks, BaseStays DEF Built, RecordsFit
<1>2. ASSUME task'[s].status = "succeeded" PROVE Fits(s, task[s].kept)'
  <2>1. PICK v : v = task'[s].kept
    OBVIOUS
  <2>2. BaseSettled(s) /\ Fits(s, v)
    <3>1. CASE task[s].status = "succeeded"
      BY <2>1, <3>1, NextTasks DEF Built, RecordsFit
    <3>2. CASE task[s].status # "succeeded"
      <4>1. PICK w \in Worker : job[w].at = "done" /\ job[w].step = s /\ v = job[w].version
        BY <1>2, <2>1, <3>2, NextTasks
      <4>2. Fits(s, v)
        BY <4>1 DEF Built, AttemptsFit
      <4> QED
        BY <4>1, <4>2, WorkersSettled
    <3> QED
      BY <3>1, <3>2
  <2>3. Fits(s, v)'
    BY <2>2, FitsStays
  <2> QED
    BY <2>1, <2>3 DEF Fits
<1>3. ASSUME task'[s].checkpoint # NoVersion
      PROVE  BaseSettled(s)' /\ Fits(s, task[s].checkpoint)'
  <2>1. PICK v : v = task'[s].checkpoint
    OBVIOUS
  <2>2. BaseSettled(s) /\ Fits(s, v)
    <3>1. CASE task'[s].checkpoint = task[s].checkpoint
      BY <1>3, <2>1, <3>1 DEF Built, RecordsFit
    <3>2. CASE task'[s].checkpoint # task[s].checkpoint
      <4>1. PICK w \in Worker : job[w].at = "kept" /\ job[w].step = s /\ v = job[w].version
        BY <2>1, <3>2, NextTasks
      <4>2. Fits(s, v)
        BY <4>1 DEF Built, AttemptsFit
      <4> QED
        BY <4>1, <4>2, WorkersSettled
    <3> QED
      BY <3>1, <3>2
  <2>3. Fits(s, v)'
    BY <2>2, FitsStays
  <2> QED
    BY <2>1, <2>2, <2>3, BaseStays DEF Fits
<1> QED
  BY <1>1, <1>2, <1>3

LEMMA BuildStep ==
  ASSUME Types, History, Kept, Built, [Next]_vars
  PROVE  BuildSoFar'
<1> SUFFICES ASSUME NEW s \in Step, task'[s].status = "succeeded", NEW t \in 1..s
             PROVE  /\ task'[t].status = "succeeded"
                    /\ task'[t].kept # Before(t)' => t \in Holds(task[s].kept)'
                    /\ task'[t].kept # NoVersion =>
                         task'[s].kept # NoVersion /\ task'[s].kept.path = task'[t].kept.path
  BY DEF BuildSoFar, Step
<1>1. s \in Nat /\ s >= 1 /\ t \in Step /\ Steps \in Nat
  BY HistoryAssumption DEF Step
<1>2. PICK k : k = task'[s].kept
  OBVIOUS
<1>3. BaseSettled(s) /\ Fits(s, k)
  <2>1. CASE task[s].status = "succeeded"
    BY <1>2, <2>1, NextTasks DEF Built, RecordsFit
  <2>2. CASE task[s].status # "succeeded"
    <3>1. PICK w \in Worker : job[w].at = "done" /\ job[w].step = s /\ k = job[w].version
      BY <1>2, <2>2, NextTasks
    <3>2. Fits(s, k)
      BY <3>1 DEF Built, AttemptsFit
    <3> QED
      BY <3>1, <3>2, WorkersSettled
  <2> QED
    BY <2>1, <2>2
\* Before the step: what its base says of the steps before it, it says too.
<1>4. /\ t # s => task[t].status = "succeeded"
      /\ t # s /\ task[t].kept # Before(t) => t \in Holds(k)
      /\ t # s /\ task[t].kept # NoVersion => k # NoVersion /\ k.path = task[t].kept.path
  <2> SUFFICES ASSUME t # s
               PROVE  /\ task[t].status = "succeeded"
                      /\ task[t].kept # Before(t) => t \in Holds(k)
                      /\ task[t].kept # NoVersion => k # NoVersion /\ k.path = task[t].kept.path
    OBVIOUS
  <2>1. s - 1 \in Step /\ s > 1 /\ t \in 1..(s - 1)
    BY <1>1 DEF Step
  <2>2. task[s - 1].status = "succeeded" /\ Before(s) = task[s - 1].kept
    BY <1>3, <2>1 DEF BaseSettled, Before
  <2>3. /\ task[t].status = "succeeded"
        /\ task[t].kept # Before(t) => t \in Holds(Before(s))
        /\ task[t].kept # NoVersion =>
             Before(s) # NoVersion /\ Before(s).path = task[t].kept.path
    BY <2>1, <2>2 DEF Built, BuildSoFar
  <2>4. Before(s) # NoVersion => /\ k # NoVersion /\ k.path = Before(s).path
                                 /\ Holds(Before(s)) \subseteq Holds(k)
    BY <1>3 DEF Fits
  <2>5. Before(s) = NoVersion => Holds(Before(s)) = {}
    BY NothingHolds
  <2> QED
    BY <2>3, <2>4, <2>5
<1>5. t = s => (k # Before(s) => t \in Holds(k))
  BY <1>3 DEF Fits
<1>6. k # NoVersion => Holds(k)' = Holds(k)
  BY <1>3, KnownStays DEF Fits
<1>7. k = NoVersion => Holds(k) = {}
  BY NothingHolds
<1>8. BaseSettled(t) /\ Before(t)' = Before(t)
  <2>1. BaseSettled(t)
    BY <1>1, <1>3, <1>4 DEF Built, RecordsFit
  <2> QED
    BY <1>1, <2>1, BaseStays
<1>9. t # s => task'[t].status = "succeeded" /\ task'[t].kept = task[t].kept
  BY <1>1, <1>4, NextTasks
<1>10. task'[t].kept # Before(t)' => t \in Holds(k)'
  BY <1>2, <1>4, <1>5, <1>6, <1>7, <1>8, <1>9
<1>11. task'[t].kept # NoVersion => k # NoVersion /\ k.path = task'[t].kept.path
  BY <1>2, <1>4, <1>9
<1> QED
  BY <1>2, <1>9, <1>10, <1>11 DEF Holds, Key

\* What may happen to one worker's attempt and its transaction.
LEMMA WorkerSteps ==
  ASSUME [Next]_vars, Types, SavesAreOwn, NEW w \in Worker
  PROVE  \/ job'[w] = job[w] /\ tx'[w] = tx[w]
         \/ /\ job'[w] = job[w] /\ tx[w].at # "none"
            /\ tx'[w].path = tx[w].path /\ tx'[w].holds = tx[w].holds
         \/ tx[w].at # "none" /\ (Undo(w, "unavailable") \/ Undo(w, "conflict"))
         \/ Commit(w) \/ Attempts(w) \/ Fault(w) \/ Die(w) \/ \E s \in Step : Claim(w, s)
<1>1. /\ tx \in [Saver -> Transaction] /\ job \in [Worker -> Attempt] /\ w \in Saver
      /\ w \notin Person
  BY HistoryAssumption DEF Types, TypeOK, Saver
<1>2. ASSUME NEW c \in Saver, c # w, Saves(c) \/ Fails(c)
      PROVE  job'[w] = job[w] /\ tx'[w] = tx[w]
  BY <1>1, <1>2 DEF Saves, Find, Create, Count, Supersede, Insert, Commit, Fails, Undo, Moves, build
<1>3. ASSUME Saves(w) \/ Fails(w)
      PROVE  \/ /\ job'[w] = job[w] /\ tx[w].at # "none"
                /\ tx'[w].path = tx[w].path /\ tx'[w].holds = tx[w].holds
             \/ tx[w].at # "none" /\ (Undo(w, "unavailable") \/ Undo(w, "conflict"))
             \/ Commit(w)
  <2>1. ASSUME NEW at, Moves(w, at)
        PROVE  tx'[w].path = tx[w].path /\ tx'[w].holds = tx[w].holds
    BY <1>1, <2>1 DEF Moves, Transaction
  <2>2. CASE Find(w) \/ Create(w) \/ Insert(w) \/ Fails(w)
    BY <2>1, <2>2 DEF Find, Create, Insert, Fails, At, build
  <2>3. CASE Count(w) \/ Supersede(w)
    BY <1>1, <2>3 DEF Count, Supersede, At, build, Transaction
  <2> QED
    BY <1>3, <2>2, <2>3 DEF Saves
<1>4. ASSUME NEW p \in Person, Acts(p) PROVE job'[w] = job[w] /\ tx'[w] = tx[w]
  BY <1>1, <1>4 DEF Acts, keepGeometry, Adopt, Respec, Save, build
<1>5. ASSUME NEW r \in rows, NEW d \in Ruling, Dispose(r, d) PROVE job'[w] = job[w] /\ tx'[w] = tx[w]
  BY <1>5 DEF Dispose, build
<1>6. ASSUME NEW v \in Worker, v # w, Attempts(v) \/ Fault(v) \/ Die(v)
      PROVE  job'[w] = job[w] /\ tx'[w] = tx[w]
  BY <1>1, <1>6
  DEF Attempts, Start, Refuse, Build, Save, SaveCheckpoint, Succeed, retryOrFail, Fault, Die, Leave
<1>7. ASSUME NEW v \in Worker, v # w, NEW s \in Step, Claim(v, s)
      PROVE  job'[w] = job[w] /\ tx'[w] = tx[w]
  BY <1>1, <1>7 DEF Claim
<1>8. ASSUME NEW s \in Step, Reap(s) PROVE job'[w] = job[w] /\ tx'[w] = tx[w]
  BY <1>8 DEF Reap
<1>9. CASE UNCHANGED vars
  BY <1>9 DEF vars, build
<1> QED
  BY <1>2, <1>3, <1>4, <1>5, <1>6, <1>7, <1>8, <1>9 DEF Next

\* Of an attempt that is at a step and stays there.
LEMMA AttemptFits ==
  ASSUME Types, SavesAreOwn, History, Kept, Built, [Next]_vars, NEW w \in Worker,
         job[w].at # "idle", NEW s \in Step, s = job[w].step
  PROVE  /\ BaseSettled(s) /\ Before(s)' = Before(s)
         /\ \A v : Fits(s, v) => Fits(s, v)'
         /\ Before(s) # NoVersion =>
              Known(Before(s)) /\ Known(Before(s))' /\ Holds(Before(s))' = Holds(Before(s))
<1>1. BaseSettled(s)
  BY WorkersSettled
<1>2. Before(s)' = Before(s)
  BY <1>1, BaseStays
<1>3. PICK b : b = Before(s)
  OBVIOUS
<1>4. ASSUME b # NoVersion PROVE Known(b)
  <2>1. s # 1 /\ s - 1 \in Step /\ s > 1 /\ b = task[s - 1].kept
    BY <1>3, <1>4, HistoryAssumption DEF Before, Step
  <2>2. Fits(s - 1, b)
    BY <1>1, <2>1 DEF BaseSettled, Built, RecordsFit
  <2> QED
    BY <1>4, <2>2 DEF Fits
<1>5. b # NoVersion => Known(b)' /\ Holds(b)' = Holds(b)
  BY <1>4, KnownStays
<1>6. ASSUME NEW v, Fits(s, v) PROVE Fits(s, v)'
  BY <1>1, <1>6, FitsStays
<1> QED
  BY <1>1, <1>2, <1>3, <1>4, <1>5, <1>6 DEF Known, Holds, Key

\* What AttemptsFit says of one worker.
AttemptFit(w) ==
  /\ job[w].at \in {"building", "saving"} => job[w].version = Before(job[w].step)
  /\ job[w].at \in {"kept", "done"} => Fits(job[w].step, job[w].version)
  /\ tx[w].at # "none" =>
       /\ job[w].step \in tx[w].holds
       /\ Before(job[w].step) # NoVersion =>
            /\ Known(Before(job[w].step)) /\ tx[w].path = Before(job[w].step).path
            /\ Holds(Before(job[w].step)) \subseteq tx[w].holds

\* The version a commit makes known fits its step.
LEMMA CommitFits ==
  ASSUME Types, SavesAreOwn, History, Kept, Built, NEW w \in Worker, Commit(w),
         NEW s \in Step, s = job[w].step, NEW k, k = Key(tx[w])
  PROVE  Fits(s, k)' /\ k # NoVersion
<1>1. /\ tx[w].at = "commit" /\ tx[w].path \in Path /\ tx[w].number # 0 /\ job[w].at = "saving"
      /\ w \in Saver
  BY DEF Commit, At, Types, SaversAreAt, Counted, SavesAreOwn, Saver
<1>2. [Next]_vars
  BY <1>1 DEF Next, Saves
<1>3. PICK b : b = Before(s)
  OBVIOUS
<1>4. /\ Before(s)' = b /\ (b # NoVersion => Known(b) /\ Known(b)' /\ Holds(b)' = Holds(b))
  BY <1>1, <1>2, <1>3, AttemptFits, KnownStays
<1> DEFINE new == [path |-> tx[w].path, number |-> tx[w].number, holds |-> tx[w].holds,
                   step |-> tx[w].step, disposition |-> "pending"]
<1>6. new \in rows' /\ Key(new) = k /\ new.holds = tx[w].holds
  BY DEF Commit, Appended, Key
<1> HIDE DEF new
<1>7. OneOfEach'
  BY <1>2, NextHistory DEF History
<1>8. {v \in rows' : Key(v) = k} = {new}
  BY <1>6, <1>7 DEF OneOfEach, Key
<1>9. Known(k)' /\ Holds(k)' = tx[w].holds
  <2>1. Holds(k)' = new.holds
    BY <1>8 DEF Holds, Key
  <2> QED
    BY <1>6, <2>1 DEF Known, Key
<1>10. k # NoVersion /\ k.path = tx[w].path
  BY <1>1 DEF Key, NoVersion
<1>11. /\ s \in tx[w].holds
       /\ b # NoVersion => tx[w].path = b.path /\ Holds(b) \subseteq tx[w].holds
  BY <1>1, <1>3 DEF Built, AttemptsFit
<1>12. Fits(s, k)'
  <2>1. /\ Known(k)'
        /\ b # NoVersion => /\ Known(b)' /\ k # NoVersion /\ k.path = b.path
                            /\ Holds(b)' \subseteq Holds(k)'
        /\ s \in Holds(k)'
    BY <1>4, <1>9, <1>10, <1>11
  <2> QED
    BY <1>4, <2>1 DEF Fits, Known, Holds, Key
<1> QED
  BY <1>10, <1>12

\* An attempt that rests claims nothing.
LEMMA RestFits ==
  ASSUME NEW w \in Worker, tx'[w].at = "none",
         job'[w].at \notin {"building", "saving", "kept", "done"}
  PROVE  AttemptFit(w)'
  BY DEF AttemptFit

\* One that goes on at its step fits what is behind it.
LEMMA OnFits ==
  ASSUME Types, SavesAreOwn, History, Kept, Built, [Next]_vars, NEW w \in Worker,
         job[w].at # "idle", NEW s \in Step, s = job[w].step,
         NEW j, j = job'[w], NEW x, x = tx'[w], j.step = s,
         j.at \in {"building", "saving"} => j.version = Before(s),
         j.at \in {"kept", "done"} => Fits(s, j.version) \/ Fits(s, j.version)',
         x.at # "none" =>
           /\ s \in x.holds
           /\ Before(s) # NoVersion => x.path = Before(s).path /\ Holds(Before(s)) \subseteq x.holds
  PROVE  AttemptFit(w)'
<1>1. PICK b : b = Before(s)
  OBVIOUS
<1>2. Before(s)' = b /\ (b # NoVersion => Known(b)' /\ Holds(b)' = Holds(b))
  BY <1>1, AttemptFits, KnownStays
<1>3. j.at \in {"kept", "done"} => Fits(s, j.version)'
  BY AttemptFits
<1>4. /\ j.at \in {"building", "saving"} => j.version = b
      /\ x.at # "none" =>
           /\ s \in x.holds
           /\ b # NoVersion => Known(b)' /\ x.path = b.path /\ Holds(b)' \subseteq x.holds
  BY <1>1, <1>2
<1> QED
  BY <1>2, <1>3, <1>4 DEF AttemptFit, Fits, Known, Holds, Key

LEMMA AttemptsStep ==
  ASSUME Types, SavesAreOwn, History, Kept, Built, [Next]_vars, NEW w \in Worker
  PROVE  AttemptFit(w)'
<1> DEFINE s == job[w].step
<1>1. /\ tx \in [Saver -> Transaction] /\ job \in [Worker -> Attempt] /\ w \in Saver
      /\ task \in [Step -> StepTask]
  BY DEF Types, TypeOK, Saver
<1>2. AttemptFit(w)
  BY DEF Built, AttemptsFit, AttemptFit
<1>3. job[w].at # "idle" => s \in Step
  BY DEF Types, WorkersAreAt
<1>4. NoTx.at = "none" /\ Idle.at = "idle" /\ (job[w].at # "saving" => tx[w].at = "none")
  BY DEF NoTx, Idle, SavesAreOwn
<1>5. ASSUME NEW at \in Points, NEW v \in Version \cup {NoVersion}, Goes(w, at, v)
      PROVE  job'[w].at = at /\ job'[w].step = s /\ job'[w].version = v
  BY <1>1, <1>5 DEF Goes
<1>6. job[w].version \in Version \cup {NoVersion} /\ (job[w].at # "idle" => Before(s) \in Version \cup {NoVersion})
  <2>1. ASSUME job[w].at # "idle" PROVE Before(s) \in Version \cup {NoVersion}
    BY <1>1, <1>3, <2>1, HistoryAssumption DEF Before, Step, StepTask
  <2> QED
    BY <1>1, <2>1 DEF Attempt
<1> HIDE DEF s
<1>7. CASE job'[w] = job[w] /\ tx'[w] = tx[w]
  <2>1. CASE job[w].at = "idle"
    BY <1>4, <1>7, <2>1, RestFits
  <2>2. CASE job[w].at # "idle"
    BY <1>2, <1>3, <1>7, <2>2, OnFits DEF AttemptFit, s
  <2> QED
    BY <2>1, <2>2
<1>8. CASE /\ job'[w] = job[w] /\ tx[w].at # "none"
           /\ tx'[w].path = tx[w].path /\ tx'[w].holds = tx[w].holds
  <2>1. job[w].at # "idle"
    BY <1>4, <1>8
  <2> QED
    BY <1>2, <1>3, <1>8, <2>1, OnFits DEF AttemptFit, s
<1>9. CASE Undo(w, "unavailable") \/ Undo(w, "conflict")
  <2>1. tx'[w].at = "none"
    BY <1>1, <1>4, <1>9 DEF Undo
  <2>2. job'[w].at \in {"unavailable", "conflict"}
    BY <1>5, <1>6, <1>9, OnGoes DEF Undo, Points
  <2> QED
    BY <2>1, <2>2, RestFits
<1>10. CASE Commit(w)
  <2>1. tx'[w].at = "none" /\ tx[w].at # "none" /\ job[w].at = "saving"
    BY <1>1, <1>4, <1>10 DEF Commit, At
  <2>2. CASE job' = [job EXCEPT ![w].at = "unavailable"]
    <3>1. job'[w].at = "unavailable"
      BY <1>5, <1>6, <2>2, OnGoes DEF Points
    <3> QED
      BY <2>1, <3>1, RestFits
  <2>3. CASE job' = [job EXCEPT ![w].at = "kept", ![w].version = Key(tx[w])]
    <3>1. PICK k, t : k = Key(tx[w]) /\ t = s
      OBVIOUS
    <3>2. t \in Step /\ t = job[w].step
      BY <1>3, <2>1, <3>1 DEF s
    <3>3. Fits(t, k)'
      BY <1>10, <3>1, <3>2, CommitFits
    <3>4. k \in Version
      BY <1>1, <1>10, <3>1 DEF Key, Version, Types, SaversAreAt, Commit, At, Counted, Transaction
    <3>5. job'[w].at = "kept" /\ job'[w].step = t /\ job'[w].version = k
      BY <1>5, <2>3, <3>1, <3>4, OnGoesWith DEF Points
    <3> QED
      BY <2>1, <3>2, <3>3, <3>5, OnFits
  <2> QED
    BY <1>10, <2>2, <2>3 DEF Commit
<1>11. ASSUME Leave(w), tx'[w].at = "none" PROVE AttemptFit(w)'
  BY <1>1, <1>4, <1>11, RestFits DEF Leave
<1>12. CASE Start(w)
  <2>1. /\ job[w].at = "claimed" /\ tx'[w] = tx[w] /\ tx[w].at = "none" /\ s \in Step
        /\ task[s].checkpoint \in Version \cup {NoVersion}
    BY <1>1, <1>3, <1>4, <1>12 DEF Start, On, StepTask
  <2>2. CASE job' = [job EXCEPT ![w].at = "done", ![w].version = task[s].checkpoint]
             /\ task[s].checkpoint # NoVersion
    <3>1. Fits(s, task[s].checkpoint)
      BY <2>1, <2>2 DEF Built, RecordsFit
    <3>2. job'[w].at = "done" /\ job'[w].step = s /\ job'[w].version = task[s].checkpoint
      BY <1>5, <2>1, <2>2, OnGoesWith DEF Points
    <3> QED
      BY <2>1, <3>1, <3>2, OnFits DEF s
  <2>3. CASE job' = [job EXCEPT ![w].at = "building", ![w].version = Before(s)]
    <3>1. job'[w].at = "building" /\ job'[w].step = s /\ job'[w].version = Before(s)
      BY <1>5, <1>6, <2>1, <2>3, OnGoesWith DEF Points
    <3> QED
      BY <2>1, <3>1, OnFits DEF s
  <2> QED
    BY <1>12, <2>2, <2>3 DEF Start, s
<1>13. CASE Refuse(w)
  <2>1. job[w].at = "building" /\ tx'[w] = tx[w] /\ tx[w].at = "none" /\ s \in Step
    BY <1>3, <1>4, <1>13 DEF Refuse, On
  <2>2. job'[w].at = "done" /\ job'[w].step = s /\ job'[w].version = Before(s)
    BY <1>2, <1>5, <1>6, <1>13, <2>1, OnGoes DEF Refuse, Points, AttemptFit, s
  <2>3. Fits(s, Before(s))
    BY <2>1, AttemptFits DEF Fits, s
  <2> QED
    BY <2>1, <2>2, <2>3, OnFits DEF s
<1>14. CASE Fault(w)
  <2>1. tx'[w].at = "none" /\ job[w].at = "building"
    BY <1>4, <1>14 DEF Fault, On
  <2>2. job'[w].at \in {"unavailable", "conflict"}
    BY <1>5, <1>6, <1>14, OnGoes DEF Fault, Points
  <2> QED
    BY <2>1, <2>2, RestFits
<1>15. ASSUME NEW a \in Path, Build(w, a) PROVE AttemptFit(w)'
  <2>1. job[w].at = "building" /\ s \in Step
    BY <1>3, <1>15 DEF Build, On
  <2>2. job'[w].at = "saving" /\ job'[w].step = s /\ job'[w].version = Before(s)
    BY <1>2, <1>5, <1>6, <1>15, <2>1, OnGoes DEF Build, Points, AttemptFit, s
  <2>3. job[w].version = Before(s)
    BY <1>2, <2>1 DEF AttemptFit, s
  <2>4. /\ tx'[w].holds = Holds(Before(s)) \cup {s}
        /\ Before(s) # NoVersion => tx'[w].path = Before(s).path
    BY <1>1, <1>15, <2>3 DEF Build, Save, s
  <2> QED
    BY <2>1, <2>2, <2>4, OnFits DEF s
<1>16. CASE SaveCheckpoint(w)
  <2>1. job[w].at = "kept" /\ tx'[w] = tx[w] /\ tx[w].at = "none" /\ s \in Step
    BY <1>3, <1>4, <1>16 DEF SaveCheckpoint, On
  <2>2. job'[w].at = "done" /\ job'[w].step = s /\ job'[w].version = job[w].version
    BY <1>5, <1>6, <1>16, OnGoes DEF SaveCheckpoint, Points
  <2>3. Fits(s, job[w].version)
    BY <1>2, <2>1 DEF AttemptFit, s
  <2> QED
    BY <2>1, <2>2, <2>3, OnFits DEF s
<1>17. CASE Succeed(w) \/ retryOrFail(w) \/ Die(w)
  <2>1. Leave(w) /\ tx'[w].at = "none"
    BY <1>1, <1>4, <1>17 DEF Succeed, retryOrFail, Die, On
  <2> QED
    BY <1>11, <2>1
<1>18. ASSUME NEW t \in Step, Claim(w, t) PROVE AttemptFit(w)'
  <2>1. tx'[w].at = "none" /\ job'[w].at = "claimed"
    BY <1>1, <1>4, <1>18 DEF Claim, On
  <2> QED
    BY <2>1, RestFits
<1> QED
  BY <1>7, <1>8, <1>9, <1>10, <1>12, <1>13, <1>14, <1>15, <1>16, <1>17, <1>18, WorkerSteps DEF Attempts

LEMMA NextBuilt == Types /\ SavesAreOwn /\ History /\ Kept /\ Built /\ [Next]_vars => Built'
<1> SUFFICES ASSUME Types, SavesAreOwn, History, Kept, Built, [Next]_vars PROVE Built'
  OBVIOUS
<1>1. \A w \in Worker : AttemptFit(w)'
  BY AttemptsStep
<1>2. AttemptsFit'
  BY <1>1 DEF AttemptsFit, AttemptFit
<1> QED
  BY <1>2, RecordsStep, BuildStep DEF Built

LEMMA InitBuilt == Init => Built
<1> SUFFICES ASSUME Init PROVE Built
  OBVIOUS
<1>1. \A s \in Step : task[s].status = "ready" /\ task[s].checkpoint = NoVersion
  BY DEF Init
<1>2. \A w \in Worker : job[w].at = "idle" /\ tx[w].at = "none"
  BY DEF Init, Idle, NoTx, Saver
<1> QED
  BY <1>1, <1>2 DEF Built, RecordsFit, AttemptsFit, BuildSoFar

LEMMA BuiltIsOne == Types /\ Built => BuildIsOneHistory
<1> SUFFICES ASSUME Types, Built,
                    NEW s \in Step, task[s].status = "succeeded", task[s].kept # NoVersion
             PROVE  /\ task[s].kept \in {Key(r) : r \in rows}
                    /\ {t \in 1..s : task[t].kept # Before(t)} \subseteq Holds(task[s].kept)
                    /\ \A t \in Step : task[t].status = "succeeded" /\ task[t].kept # NoVersion
                         => task[t].kept.path = task[s].kept.path
  BY DEF BuildIsOneHistory
<1>1. task[s].kept \in {Key(r) : r \in rows}
  BY DEF Built, RecordsFit, Fits, Known
<1>2. {t \in 1..s : task[t].kept # Before(t)} \subseteq Holds(task[s].kept)
  BY DEF Built, BuildSoFar
<1>3. ASSUME NEW t \in Step, task[t].status = "succeeded", task[t].kept # NoVersion
      PROVE  task[t].kept.path = task[s].kept.path
  <2>1. t \in 1..s \/ s \in 1..t
    BY HistoryAssumption DEF Step
  <2> QED
    BY <1>3, <2>1 DEF Built, BuildSoFar
<1> QED
  BY <1>1, <1>2, <1>3

\* The steps' recorded versions are versions of one artifact, and each holds the
\* work of every step before it that kept any.
THEOREM BuildHolds == Spec => []BuildIsOneHistory
<1>1. /\ Init => Kept /\ Built
      /\ Types /\ SavesAreOwn /\ History /\ Kept /\ Built /\ [Next]_vars => Kept' /\ Built'
      /\ Types /\ Built => BuildIsOneHistory
  BY InitKept, InitBuilt, NextKept, NextBuilt, BuiltIsOne
<1> QED
  BY Invariance, <1>1, PTL DEF Spec
=============================================================================

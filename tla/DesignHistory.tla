------------------------------ MODULE DesignHistory ------------------------------
(* The versions of a project's designs, and a build that keeps one of each   *)
(* step (internal/domain/workspace/{service,repository}.go,                  *)
(* internal/domain/geometry/service.go, internal/agent/buildgoal.go).        *)
(*                                                                           *)
(* Whoever keeps a design appends a version in one transaction: find or open *)
(* the artifact at a path, count its versions, supersede what is pending,    *)
(* insert.  At read committed a statement sees what is committed, waits for  *)
(* a row another transaction has changed, and is refused a key another has   *)
(* committed, which undoes its whole transaction.  The event and the anchor  *)
(* written beside a version are left out: an insert of either may wait or    *)
(* fail, and a failure undoes the version too (Fails).                       *)
(*                                                                           *)
(* A build's steps are tasks, one behind the other, taken by workers.  What  *)
(* leases and transitions promise is TaskEngine's: here a task has one       *)
(* worker at a time, and its lease lapses only when that worker is gone.     *)
EXTENDS FiniteSets, FiniteSetsExt, Integers

CONSTANTS
  Worker,
  Person,       \* who proposes, adopts and re-specifies designs
  Path,         \* the paths the names of designs resolve to
  Ruling,       \* accepted, rejected: what a person says of a version
  Steps,        \* of the build
  MaxAttempts,  \* of a step
  MaxVersions,  \* bound: no person begins a version when there are so many
  None

ASSUME HistoryAssumption ==
  /\ Steps \in Nat /\ MaxAttempts \in Nat /\ MaxVersions \in Nat
  /\ None \notin Path /\ Worker \cap Person = {}
  /\ Ruling \cap {"pending", "superseded"} = {}

VARIABLES
  paths,  \* forge_artifacts
  rows,   \* forge_artifact_versions
  tx,     \* a saver's open transaction
  task,   \* the build's tasks, with their latest checkpoint
  job,    \* a worker's attempt
  torn    \* steps an attempt of which ended without its version being on record (history)

history == <<paths, rows>>
build == <<task, job, torn>>
vars == <<history, tx, build>>

Saver == Worker \cup Person
Step == 1..Steps
Version == [path: Path, number: Nat \ {0}]
NoVersion == [path |-> None, number |-> 0]
Disposition == Ruling \cup {"pending", "superseded"}

Key(r) == [path |-> r.path, number |-> r.number]
VersionsOf(a) == {r \in rows : r.path = a}
Pending(a) == {Key(r) : r \in {v \in VersionsOf(a) : v.disposition = "pending"}}
Newest(a) == Max({r.number : r \in VersionsOf(a)} \cup {0})

NoTx == [at |-> "none", path |-> None, number |-> 0, holds |-> {}, step |-> 0, locks |-> {}]
Idle == [at |-> "idle", step |-> 0, tries |-> 0, version |-> NoVersion]

Transaction ==
  [at: {"none", "find", "create", "count", "supersede", "insert", "commit"},
   path: Path \cup {None}, number: Nat, holds: SUBSET Step, step: Step \cup {0},
   locks: SUBSET Version]
StepTask ==
  [status: {"ready", "running", "succeeded", "failed"}, tries: Nat,
   kept: Version \cup {NoVersion}, checkpoint: Version \cup {NoVersion}]
Attempt ==
  [at: {"idle", "claimed", "building", "saving", "kept", "done", "unavailable", "conflict"},
   step: Step \cup {0}, tries: Nat, version: Version \cup {NoVersion}]

TypeOK ==
  /\ paths \subseteq Path
  /\ rows \subseteq [path: paths, number: Nat \ {0}, holds: SUBSET Step, step: Step \cup {0},
                     disposition: Disposition]
  /\ tx \in [Saver -> Transaction]
  /\ task \in [Step -> StepTask]
  /\ job \in [Worker -> Attempt]
  /\ torn \subseteq Step

Init ==
  /\ paths = {} /\ rows = {}
  /\ tx = [c \in Saver |-> NoTx]
  /\ task = [s \in Step |-> [status |-> "ready", tries |-> 0, kept |-> NoVersion,
                             checkpoint |-> NoVersion]]
  /\ job = [w \in Worker |-> Idle]
  /\ torn = {}

----------------------------------------------------------------------------
(* One save: RecordChangeIn, and the transaction of geometry's Save it is in *)

\* A change that names its artifact goes straight to it; any other goes by path.
Save(c, pinned, path, holds, step) ==
  tx' = [tx EXCEPT ![c] = [at |-> IF pinned THEN "count" ELSE "find", path |-> path, number |-> 0,
                           holds |-> holds, step |-> step, locks |-> {}]]

At(c, at) == tx[c].at = at
Moves(c, at) == tx' = [tx EXCEPT ![c].at = at]

\* Uncommitted rows others would wait for.
Opens(c, a) == tx[c].path = a /\ a \notin paths /\ tx[c].at \in {"count", "supersede", "insert", "commit"}
Inserts(c, k) == Key(tx[c]) = k /\ At(c, "commit")
Locked(k) == \E c \in Saver : k \in tx[c].locks

\* The transaction is undone, and whoever began it told how it failed.
Undo(c, how) ==
  /\ tx' = [tx EXCEPT ![c] = NoTx]
  /\ job' = IF c \in Worker THEN [job EXCEPT ![c].at = how] ELSE job
  /\ UNCHANGED <<history, task, torn>>

\* FindOrCreateArtifact reads, ...
Find(c) ==
  /\ At(c, "find")
  /\ Moves(c, IF tx[c].path \in paths THEN "count" ELSE "create")
  /\ UNCHANGED <<history, build>>

\* ... and inserts what it did not find.  Refused, it reads again, in a
\* transaction the refusal has ended: that read fails too.
Create(c) ==
  /\ At(c, "create")
  /\ ~ \E d \in Saver \ {c} : Opens(d, tx[c].path)
  /\ IF tx[c].path \in paths THEN Undo(c, "unavailable")
     ELSE Moves(c, "count") /\ UNCHANGED <<history, build>>

\* AppendVersion counts, ...
Count(c) ==
  /\ At(c, "count")
  /\ tx' = [tx EXCEPT ![c].at = "supersede", ![c].number = Newest(tx[c].path) + 1]
  /\ UNCHANGED <<history, build>>

\* Defect: whatever is not superseded yet is, rulings and all.
SupersedeAll(c) ==
  LET old == {Key(r) : r \in {v \in VersionsOf(tx[c].path) : v.disposition # "superseded"}}
  IN /\ At(c, "supersede")
     /\ \A k \in old : ~Locked(k)
     /\ tx' = [tx EXCEPT ![c].at = "insert", ![c].locks = old]
     /\ UNCHANGED <<history, build>>

\* ... supersedes what nobody has ruled on, and waits where another has, or is ...
Supersede(c) ==
  /\ At(c, "supersede")
  /\ \A k \in Pending(tx[c].path) : ~Locked(k)
  /\ tx' = [tx EXCEPT ![c].at = "insert", ![c].locks = Pending(tx[c].path)]
  /\ UNCHANGED <<history, build>>

\* Defect: nothing keeps a version's number unique.
InsertUnchecked(c) ==
  /\ At(c, "insert") /\ Moves(c, "commit")
  /\ UNCHANGED <<history, build>>

\* ... and inserts, unless the number is taken.
Insert(c) ==
  /\ At(c, "insert")
  /\ ~ \E d \in Saver \ {c} : Inserts(d, Key(tx[c]))
  /\ IF \E r \in rows : Key(r) = Key(tx[c]) THEN Undo(c, "conflict")
     ELSE Moves(c, "commit") /\ UNCHANGED <<history, build>>

Ruled(keys, d) == {IF Key(r) \in keys THEN [r EXCEPT !.disposition = d] ELSE r : r \in rows}
Appended(c) ==
  Ruled(tx[c].locks, "superseded")
    \cup {[path |-> tx[c].path, number |-> tx[c].number, holds |-> tx[c].holds,
           step |-> tx[c].step, disposition |-> "pending"]}

\* The commit is heard of, or reads to its caller as the database failing.
Commit(c) ==
  /\ At(c, "commit")
  /\ paths' = paths \cup {tx[c].path} /\ rows' = Appended(c)
  /\ tx' = [tx EXCEPT ![c] = NoTx]
  /\ IF c \in Worker
     THEN \/ /\ job' = [job EXCEPT ![c].at = "kept", ![c].version = Key(tx[c])]
             /\ UNCHANGED torn
          \/ /\ job' = [job EXCEPT ![c].at = "unavailable"]
             /\ torn' = torn \cup {tx[c].step}
     ELSE UNCHANGED <<job, torn>>
  /\ UNCHANGED task

\* A statement fails, or the save's deadline passes.
Fails(c) == ~At(c, "none") /\ Undo(c, "unavailable")

----------------------------------------------------------------------------
(* People *)

MayBegin(p) == At(p, "none") /\ Cardinality(rows) < MaxVersions

\* A turn of a conversation keeps what it drew under its own name.
keepGeometry(p, a) ==
  /\ MayBegin(p) /\ Save(p, FALSE, a, {}, 0)
  /\ UNCHANGED <<history, build>>

\* A version that is not the current one is brought forward.
Adopt(p, r) ==
  /\ MayBegin(p) /\ r.number # Newest(r.path)
  /\ Save(p, TRUE, r.path, r.holds, 0)
  /\ UNCHANGED <<history, build>>

\* Any version, with other values.
Respec(p, r) ==
  /\ MayBegin(p) /\ Save(p, TRUE, r.path, r.holds, 0)
  /\ UNCHANGED <<history, build>>

\* SetDisposition, which waits for whoever is superseding the version.
Dispose(r, d) ==
  /\ r.disposition = "pending" /\ ~Locked(Key(r))
  /\ rows' = Ruled({Key(r)}, d)
  /\ UNCHANGED <<paths, tx, build>>

----------------------------------------------------------------------------
(* A build step *)

On(w, at) == job[w].at = at
Leave(w) == job' = [job EXCEPT ![w] = Idle]

\* A step is offered behind the step before it.
Claim(w, s) ==
  /\ On(w, "idle") /\ task[s].status = "ready"
  /\ s > 1 => task[s - 1].status = "succeeded"
  /\ task' = [task EXCEPT ![s].status = "running", ![s].tries = task[s].tries + 1]
  /\ job' = [job EXCEPT ![w] = [at |-> "claimed", step |-> s, tries |-> task[s].tries + 1,
                                version |-> NoVersion]]
  /\ UNCHANGED <<history, tx, torn>>

\* modelSoFar: the version the step before recorded.
Before(s) == IF s = 1 THEN NoVersion ELSE task[s - 1].kept

\* Defect: the checkpoint is not asked.
StartAfresh(w) ==
  /\ On(w, "claimed")
  /\ job' = [job EXCEPT ![w].at = "building", ![w].version = Before(job[w].step)]
  /\ UNCHANGED <<history, tx, task, torn>>

\* A step whose version a checkpoint names is done; another starts from the
\* model so far.
Start(w) ==
  LET kept == task[job[w].step].checkpoint
  IN /\ On(w, "claimed")
     /\ job' = IF kept # NoVersion
               THEN [job EXCEPT ![w].at = "done", ![w].version = kept]
               ELSE [job EXCEPT ![w].at = "building", ![w].version = Before(job[w].step)]
     /\ UNCHANGED <<history, tx, task, torn>>

\* Nothing the model sent was fit to keep: the step stays at the model so far.
Refuse(w) ==
  /\ On(w, "building")
  /\ job' = [job EXCEPT ![w].at = "done"]
  /\ UNCHANGED <<history, tx, task, torn>>

\* The model, the ledger or the budget fails the attempt.
Fault(w) ==
  /\ On(w, "building")
  /\ \E how \in {"unavailable", "conflict"} : job' = [job EXCEPT ![w].at = how]
  /\ UNCHANGED <<history, tx, task, torn>>

Holds(k) == UNION {r.holds : r \in {v \in rows : Key(v) = k}}

\* Defect: every step's version goes by its name.
BuildByName(w, a) ==
  LET s == job[w].step
      base == job[w].version
  IN /\ On(w, "building")
     /\ Save(w, FALSE, a, Holds(base) \cup {s}, s)
     /\ job' = [job EXCEPT ![w].at = "saving"]
     /\ UNCHANGED <<history, task, torn>>

\* The version goes to the artifact of the version it was built on; the first
\* one kept goes by the name the model gave it.
Build(w, a) ==
  LET s == job[w].step
      base == job[w].version
  IN /\ On(w, "building")
     /\ Save(w, base # NoVersion, IF base # NoVersion THEN base.path ELSE a, Holds(base) \cup {s}, s)
     /\ job' = [job EXCEPT ![w].at = "saving"]
     /\ UNCHANGED <<history, task, torn>>

\* A checkpoint that cannot be written is logged.
SaveCheckpoint(w) ==
  /\ On(w, "kept")
  /\ \/ /\ task' = [task EXCEPT ![job[w].step].checkpoint = job[w].version]
        /\ UNCHANGED torn
     \/ /\ torn' = torn \cup {job[w].step}
        /\ UNCHANGED task
  /\ job' = [job EXCEPT ![w].at = "done"]
  /\ UNCHANGED <<history, tx>>

Succeed(w) ==
  LET s == job[w].step
  IN /\ On(w, "done") /\ Leave(w)
     /\ task' = IF task[s].status # "running" THEN task
                ELSE [task EXCEPT ![s].status = "succeeded", ![s].kept = job[w].version]
     /\ UNCHANGED <<history, tx, torn>>

\* A conflict is not retried: its step fails.
retryOrFail(w) ==
  LET s == job[w].step
      to == IF On(w, "unavailable") /\ job[w].tries < MaxAttempts THEN "ready" ELSE "failed"
  IN /\ job[w].at \in {"unavailable", "conflict"} /\ Leave(w)
     /\ task' = IF task[s].status # "running" THEN task ELSE [task EXCEPT ![s].status = to]
     /\ UNCHANGED <<history, tx, torn>>

\* A worker dies, or cannot write how its attempt ended.
Die(w) ==
  /\ ~On(w, "idle") /\ Leave(w)
  /\ tx' = [tx EXCEPT ![w] = NoTx]
  /\ torn' = IF On(w, "kept") THEN torn \cup {job[w].step} ELSE torn
  /\ UNCHANGED <<history, task>>

Busy(s) == \E w \in Worker : ~On(w, "idle") /\ job[w].step = s

Reap(s) ==
  /\ task[s].status = "running" /\ ~Busy(s)
  /\ task' = [task EXCEPT ![s].status = IF task[s].tries < MaxAttempts THEN "ready" ELSE "failed"]
  /\ UNCHANGED <<history, tx, job, torn>>

----------------------------------------------------------------------------
Saves(c) == Find(c) \/ Create(c) \/ Count(c) \/ Supersede(c) \/ Insert(c) \/ Commit(c)
Attempts(w) == Start(w) \/ Refuse(w) \/ (\E a \in Path : Build(w, a)) \/ SaveCheckpoint(w)
               \/ Succeed(w) \/ retryOrFail(w)
Acts(p) == \/ \E a \in Path : keepGeometry(p, a)
           \/ \E r \in rows : Adopt(p, r) \/ Respec(p, r)

Next ==
  \/ \E c \in Saver : Saves(c) \/ Fails(c)
  \/ \E p \in Person : Acts(p)
  \/ \E r \in rows, d \in Ruling : Dispose(r, d)
  \/ \E w \in Worker : Attempts(w) \/ Fault(w) \/ Die(w) \/ \E s \in Step : Claim(w, s)
  \/ \E s \in Step : Reap(s)

Spec == Init /\ [][Next]_vars

----------------------------------------------------------------------------
(* Properties *)

\* Whoever appends at once, an artifact's versions are numbered through, one of
\* each, and only the last may still wait for a ruling (repository.go,
\* AppendVersion: "makes a race lose rather than produce two version 4s").
OneHistory ==
  /\ \A r, s \in rows : Key(r) = Key(s) => r = s
  /\ \A a \in Path : {r.number : r \in VersionsOf(a)} = 1..Newest(a)
  /\ \A r \in rows : r.disposition = "pending" => r.number = Newest(r.path)

\* No version is lost, and what a person ruled on, or was superseded, stays so,
\* whoever appends over it (SetDisposition: "a one-way step").
RulingsStand == [][\A r \in rows : \E v \in rows' :
                     /\ Key(v) = Key(r) /\ v.holds = r.holds
                     /\ r.disposition # "pending" => v = r]_vars

\* The steps' recorded versions are versions of one artifact, whatever the
\* steps called the model, and each holds the work of every step before it that
\* kept any (buildgoal.go: "the second to be kept would silently drop the first").
BuildIsOneHistory ==
  LET kept == {s \in Step : task[s].status = "succeeded" /\ task[s].kept # NoVersion}
  IN \A s \in kept :
       /\ task[s].kept \in {Key(r) : r \in rows}
       /\ {t \in 1..s : task[t].kept # Before(t)} \subseteq Holds(task[s].kept)
       /\ \A t \in kept : task[t].kept.path = task[s].kept.path

\* However often a step is retried, it is kept twice only if an attempt of it
\* kept its version and ended before a checkpoint said so (buildgoal.go, run:
\* "A step whose model was kept is not built again").
KeptOnce == \A s \in Step \ torn : Cardinality({r \in rows : r.step = s}) <= 1

\* What the comments say and the code does not keep: an attempt that ends
\* between its commit and its checkpoint leaves a version behind, and the next
\* attempt of a first step keeps another, on another artifact if it names the
\* model differently.
KeptIsNotBuiltAgain == \A s \in Step : Cardinality({r \in rows : r.step = s}) <= 1
OneArtifactPerBuild == \A r, s \in rows : r.step # 0 /\ s.step # 0 => r.path = s.path

\* A race over an artifact's next number costs nobody their step: AppendVersion
\* tells its caller to append again, and no caller does.
CollisionsAreRetried ==
  [][\A w \in Worker : On(w, "saving") => job'[w].at # "conflict"]_vars
=============================================================================

----------------------------- MODULE Deployment -----------------------------
(***************************************************************************)
(* Servers of several releases that start, migrate the one schema, answer  *)
(* probes and end: db/migrate.js, db/health.js, readiness.service.js,      *)
(* gracefulShutdown.js and server.js.                                      *)
(*                                                                         *)
(* A migration runs on one connection, which holds an advisory lock from   *)
(* its first statement to its last; every statement is a step, but for a   *)
(* file's transaction, which shows nothing before its commit.  A process   *)
(* may end at any time: PostgreSQL then rolls back what is open and frees  *)
(* the lock.  `migrate --check` and the probes of a running server take no *)
(* lock; they read the catalogue first and the rows next.                  *)
(***************************************************************************)
EXTENDS Naturals, FiniteSets

CONSTANTS
  Servers,   \* processes
  Releases,  \* builds of the backend
  Names,     \* file names of migrations, as numbers in their order
  Files,     \* Files[r]: [names -> content], the migrations of release r
  Plain,     \* names of files with the marker "migrate: no-transaction"
  Legacy,    \* rows that earlier builds have left, [names -> content]
  Nobody     \* not a process

VARIABLES
  table,     \* the table schema_migrations exists
  rows,      \* its rows: [names -> checksum], Unrecorded for a missing one
  times,     \* observer: times[n]: how often n's SQL is committed (2: more)
  lock,      \* the process that holds the advisory lock
  pc,        \* pc[s]: how far process s is
  local,     \* local[s]: its release and what it has read
  probe,     \* probe[s]: how far its check of the schema is
  answer     \* answer[s]: the result it keeps of its last check

vars == <<table, rows, times, lock, pc, local, probe, answer>>

Unrecorded == "unrecorded"
Contents == UNION {{Files[r][n] : n \in DOMAIN Files[r]} : r \in Releases}
Checksums == Contents \cup {Unrecorded}
Tables == UNION {[N -> Checksums] : N \in SUBSET Names}

Phases == {"off", "lock", "ensure", "read", "backfill", "constrain", "reread",
           "apply", "record", "unlock", "up", "closing", "cli"}

(* release: what it runs; applied: the rows it has read; todo: those of    *)
(* them that lack a checksum; fails: it ends as soon as the lock is free.  *)
Locals == [release: Releases, applied: Tables, todo: SUBSET Names, fails: BOOLEAN]

Empty == [n \in {} |-> Unrecorded]
Fresh(r) == [release |-> r, applied |-> Empty, todo |-> {}, fails |-> FALSE]

Init ==
  /\ \/ table = FALSE /\ rows = Empty
     \/ table = TRUE /\ rows = [n \in DOMAIN Legacy |-> Unrecorded]
  /\ times = [n \in Names |-> IF n \in DOMAIN rows THEN 1 ELSE 0]
  /\ lock = Nobody
  /\ pc = [s \in Servers |-> "off"]
  /\ local = [s \in Servers |-> Fresh(CHOOSE r \in Releases : TRUE)]
  /\ probe = [s \in Servers |-> "none"]
  /\ answer = [s \in Servers |-> "none"]

-----------------------------------------------------------------------------
Disk(s) == Files[local[s].release]

Goto(s, phase) == pc' = [pc EXCEPT ![s] = phase]
Keep(s, l) == local' = [local EXCEPT ![s] = l]
Database == <<table, rows, times>>
Checks == <<probe, answer>>

(* An error: the lock is given back and the process ends.                  *)
Failed(s) == Goto(s, "unlock") /\ Keep(s, [local[s] EXCEPT !.fails = TRUE])

(* server.js: the migrations come before the first connection is accepted. *)
Start(s, r) ==
  /\ pc[s] = "off"
  /\ Goto(s, "lock") /\ Keep(s, Fresh(r))
  /\ UNCHANGED <<Database, lock, Checks>>

(* pg_advisory_lock waits; PostgreSQL serves who waits in turn.            *)
Lock(s) ==
  /\ pc[s] = "lock" /\ lock = Nobody
  /\ lock' = s /\ Goto(s, "ensure")
  /\ UNCHANGED <<Database, local, Checks>>

Ensure(s) ==
  /\ pc[s] = "ensure"
  /\ table' = TRUE /\ Goto(s, "read")
  /\ UNCHANGED <<rows, times, lock, local, Checks>>

NeedsBackfill(t) == {n \in DOMAIN t : t[n] = Unrecorded}

Read(s) ==
  /\ pc[s] = "read"
  /\ Keep(s, [local[s] EXCEPT !.applied = rows, !.todo = NeedsBackfill(rows)])
  /\ Goto(s, "backfill")
  /\ UNCHANGED <<Database, lock, Checks>>

(* A row of before the checksums gets that of the file on disk; no such    *)
(* file is an error.                                                       *)
Backfill(s) ==
  /\ pc[s] = "backfill"
  /\ \E n \in local[s].todo :
       IF n \in DOMAIN Disk(s)
       THEN /\ rows' = [rows EXCEPT ![n] = IF @ = Unrecorded THEN Disk(s)[n] ELSE @]
            /\ Keep(s, [local[s] EXCEPT !.todo = @ \ {n}])
            /\ UNCHANGED pc
       ELSE UNCHANGED rows /\ Failed(s)
  /\ UNCHANGED <<table, times, lock, Checks>>

(* SET NOT NULL fails on a row without a checksum.                         *)
Constrain(s) ==
  /\ pc[s] = "backfill" /\ local[s].todo = {}
  /\ IF NeedsBackfill(rows) = {} THEN Goto(s, "reread") /\ UNCHANGED local ELSE Failed(s)
  /\ UNCHANGED <<Database, lock, Checks>>

(* Mutant: a file that was changed after it was applied is no error.       *)
MatchingAnyway(t, disk) == TRUE

(* assertMigrationChecksumsMatch.                                          *)
Matching(t, disk) == \A n \in DOMAIN disk \cap DOMAIN t : t[n] = disk[n]

Reread(s) ==
  /\ pc[s] = "reread"
  /\ IF Matching(rows, Disk(s))
     THEN Goto(s, "apply") /\ Keep(s, [local[s] EXCEPT !.applied = rows])
     ELSE Failed(s)
  /\ UNCHANGED <<Database, lock, Checks>>

NotApplied(s) == DOMAIN Disk(s) \ DOMAIN local[s].applied
First(N) == CHOOSE n \in N : \A k \in N : n <= k

Recorded(n, sum) == [k \in DOMAIN rows \cup {n} |-> IF k = n THEN sum ELSE rows[k]]
Executed(n) == [times EXCEPT ![n] = IF @ = 2 THEN 2 ELSE @ + 1]
Took(s, n) == Keep(s, [local[s] EXCEPT !.applied = Recorded(n, Disk(s)[n])])

(* Mutant: no file has a transaction.                                      *)
InTransactionNever(n) == FALSE

InTransaction(n) == n \notin Plain

(* A file and its row in one transaction; a second row of a name is        *)
(* refused by the primary key, and with it the file.                       *)
Apply(s) ==
  LET n == First(NotApplied(s)) IN
  /\ pc[s] = "apply" /\ NotApplied(s) # {} /\ InTransaction(n)
  /\ IF n \in DOMAIN rows
     THEN Failed(s) /\ UNCHANGED <<rows, times>>
     ELSE rows' = Recorded(n, Disk(s)[n]) /\ times' = Executed(n) /\ Took(s, n) /\ UNCHANGED pc
  /\ UNCHANGED <<table, lock, Checks>>

(* A file with the marker takes effect, and its row follows.               *)
ApplyPlain(s) ==
  LET n == First(NotApplied(s)) IN
  /\ pc[s] = "apply" /\ NotApplied(s) # {} /\ ~InTransaction(n)
  /\ times' = Executed(n)
  /\ Goto(s, "record")
  /\ UNCHANGED <<table, rows, lock, local, Checks>>

Record(s) ==
  LET n == First(NotApplied(s)) IN
  /\ pc[s] = "record"
  /\ IF n \in DOMAIN rows
     THEN Failed(s) /\ UNCHANGED rows
     ELSE rows' = Recorded(n, Disk(s)[n]) /\ Took(s, n) /\ Goto(s, "apply")
  /\ UNCHANGED <<table, times, lock, Checks>>

Applied(s) ==
  /\ pc[s] = "apply" /\ NotApplied(s) = {}
  /\ Goto(s, "unlock")
  /\ UNCHANGED <<Database, lock, local, Checks>>

(* The SQL of a file, or any other statement, fails on a connection that   *)
(* goes on.                                                                *)
Fail(s) ==
  /\ pc[s] \in {"ensure", "read", "backfill", "reread", "apply", "record"}
  /\ Failed(s)
  /\ UNCHANGED <<Database, lock, Checks>>

Unlock(s) ==
  /\ pc[s] = "unlock"
  /\ lock' = Nobody
  /\ Goto(s, IF local[s].fails THEN "off" ELSE "up")
  /\ UNCHANGED <<Database, local, Checks>>

-----------------------------------------------------------------------------
(* The checks: `migrate --check`, and /api/ready of a server that is up,   *)
(* whose callers share the check that runs and the answer while it is new. *)

StartCli(s, r) ==
  /\ pc[s] = "off"
  /\ Goto(s, "cli") /\ Keep(s, Fresh(r))
  /\ UNCHANGED <<Database, lock, Checks>>

Probe(s) ==
  /\ pc[s] \in {"up", "cli"}
  /\ probe[s] = "none" /\ answer[s] = "none"
  /\ probe' = [probe EXCEPT ![s] = "table"]
  /\ UNCHANGED <<Database, lock, pc, local, answer>>

Answered(s, a) ==
  /\ answer' = [answer EXCEPT ![s] = a]
  /\ probe' = [probe EXCEPT ![s] = "none"]
  /\ UNCHANGED <<Database, lock, pc, local>>

CheckTable(s) ==
  /\ probe[s] = "table"
  /\ IF table
     THEN probe' = [probe EXCEPT ![s] = "rows"] /\ UNCHANGED <<Database, lock, pc, local, answer>>
     ELSE Answered(s, "unhealthy")

(* Nothing pending, nothing changed, nothing unknown.                      *)
InOrder(disk) == rows = disk

CheckRows(s) ==
  /\ probe[s] = "rows"
  /\ Answered(s, IF InOrder(Disk(s)) THEN "ready" ELSE "unhealthy")

(* The database cannot be reached.                                         *)
CheckFails(s) == probe[s] # "none" /\ Answered(s, "unhealthy")

(* READINESS_CACHE_TTL_MS after the answer.                                *)
Forget(s) ==
  /\ answer[s] # "none" /\ pc[s] # "cli"
  /\ answer' = [answer EXCEPT ![s] = "none"]
  /\ UNCHANGED <<Database, lock, pc, local, probe>>

-----------------------------------------------------------------------------
(* The end of a process.                                                   *)

(* SIGTERM: no new connections; those there are get their time.            *)
Terminate(s) ==
  /\ pc[s] = "up"
  /\ Goto(s, "closing")
  /\ UNCHANGED <<Database, lock, local, Checks>>

Ended(s) ==
  /\ Goto(s, "off")
  /\ lock' = IF lock = s THEN Nobody ELSE lock
  /\ probe' = [probe EXCEPT ![s] = "none"]
  /\ answer' = [answer EXCEPT ![s] = "none"]
  /\ UNCHANGED <<Database, local>>

(* The connections are closed and the pool is ended, or the timer forces   *)
(* the exit; the check of the command line has its answer.                 *)
Close(s) == pc[s] \in {"closing", "cli"} /\ (pc[s] = "cli" => answer[s] # "none") /\ Ended(s)

Die(s) == pc[s] # "off" /\ Ended(s)

Step(s) ==
  \/ Ensure(s) \/ Read(s) \/ Backfill(s) \/ Constrain(s) \/ Reread(s)
  \/ Apply(s) \/ ApplyPlain(s) \/ Record(s) \/ Applied(s) \/ Unlock(s)

Next ==
  \E s \in Servers :
    \/ \E r \in Releases : Start(s, r) \/ StartCli(s, r)
    \/ Lock(s) \/ Step(s) \/ Fail(s)
    \/ Probe(s) \/ CheckTable(s) \/ CheckRows(s) \/ CheckFails(s) \/ Forget(s)
    \/ Terminate(s) \/ Close(s) \/ Die(s)

Spec == Init /\ [][Next]_vars

(* A process goes on, and PostgreSQL's queue for a lock leaves nobody out. *)
Fairness == \A s \in Servers : WF_vars(Step(s)) /\ SF_vars(Lock(s))

-----------------------------------------------------------------------------
(* The types of the variables; the lock is with a process that migrates.   *)
TypeOK ==
  /\ table \in BOOLEAN
  /\ rows \in Tables
  /\ times \in [Names -> 0..2]
  /\ lock \in Servers \cup {Nobody}
  /\ pc \in [Servers -> Phases]
  /\ local \in [Servers -> Locals]
  /\ probe \in [Servers -> {"none", "table", "rows"}]
  /\ answer \in [Servers -> {"none", "ready", "unhealthy"}]
  /\ lock # Nobody =>
       pc[lock] \in {"ensure", "read", "backfill", "reread", "apply", "record", "unlock"}

(* However servers of different releases start, fail and start again, one  *)
(* that accepts connections, and one that keeps a good answer of a check,  *)
(* finds every migration of its own release in the table as it is on its   *)
(* disk, for as long as it lives.                                          *)
ServersFitSchema ==
  \A s \in Servers :
    pc[s] \in {"up", "closing"} \/ answer[s] = "ready" =>
      \A n \in DOMAIN Disk(s) : n \in DOMAIN rows /\ rows[n] = Disk(s)[n]

(* A migration is recorded exactly when its SQL is committed, once, but    *)
(* for a file that runs outside a transaction, which a crash before its    *)
(* row makes the next start repeat.                                        *)
MigratedOnce ==
  \A n \in Names :
    /\ n \in DOMAIN rows => times[n] >= 1
    /\ n \notin Plain => times[n] = IF n \in DOMAIN rows THEN 1 ELSE 0

(* Every start comes to an end: the server accepts connections or is gone. *)
EveryStartEnds ==
  \A s \in Servers : pc[s] = "lock" ~> pc[s] \in {"up", "off"}

=============================================================================

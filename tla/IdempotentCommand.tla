------------------------- MODULE IdempotentCommand -------------------------
(***************************************************************************)
(* The idempotency layer of the backend: runIdempotentCommand of           *)
(* backend/src/services/idempotency.service.js, its repository, the        *)
(* transaction wrapper it runs in and the clean-up script.                 *)
(*                                                                         *)
(* One HTTP attempt (an element of Requests) carries an Idempotency-Key.   *)
(* A key here is the whole unique triple of the table idempotency_records: *)
(* actor scope, operation and key fingerprint.  The attempt opens a        *)
(* PostgreSQL transaction (READ COMMITTED), inserts a "processing" row or  *)
(* finds the row that is there, runs the command's handler, marks the row  *)
(* "completed" and commits.  Every await of the code is a step here, so    *)
(* attempts interleave wherever the event loop, another server process or  *)
(* the database lets them.                                                 *)
(*                                                                         *)
(* What the database does is modelled by what the code relies on: a row    *)
(* written by an open transaction is seen by that transaction only; an     *)
(* INSERT of the same triple waits for the open transaction that inserted  *)
(* it; SELECT ... FOR UPDATE waits for the transaction that holds the row. *)
(***************************************************************************)
EXTENDS Naturals, FiniteSets

CONSTANTS
  Requests,   \* HTTP attempts, first tries and retries alike
  Keys,       \* (actor_scope, operation, idempotency_key_hash) triples
  Payloads,   \* request hashes
  Detached,   \* the keys of operations whose handler ignores the transaction
  NoOne       \* "no request": a free row lock, an answer without a result

ASSUME DetachedAssumption == Detached \subseteq Keys
ASSUME NoOneAssumption == NoOne \notin Requests

VARIABLES
  record,     \* record[k]: the committed row of key k
  expired,    \* the keys whose committed row has passed its expires_at
  lock,       \* lock[k]: the open transaction that inserted or locked row k
  pc,         \* pc[r]: how far attempt r is
  call,       \* call[r]: what attempt r asks for
  working,    \* working[r]: the row as r's open transaction has written it
  effects,    \* effects[k]: attempts whose business effect is committed
  cleaned,    \* observer: attempts whose record the clean-up has deleted
  answer      \* answer[r]: the response of attempt r

vars == <<record, expired, lock, pc, call, working, effects, cleaned, answer>>

-----------------------------------------------------------------------------
(* The table's row and the values that travel.                             *)

States == {"processing", "completed", "failed_retryable", "failed_terminal"}

Records == [state: States, hash: Payloads, result: Requests \cup {NoOne}]

NoRecord == [state |-> "absent", hash |-> "absent", result |-> NoOne]

Processing(hash) == [state |-> "processing", hash |-> hash, result |-> NoOne]

Calls == [key: Keys, hash: Payloads, permitted: BOOLEAN]

NoCall == [key |-> "absent", hash |-> "absent", permitted |-> FALSE]

(* A response: "ok" carries the attempt that executed, whose result it is.  *)
Answers ==
  [kind: {"none", "conflict", "in_progress", "forbidden", "error", "lost"},
   result: {NoOne}]
    \cup [kind: {"ok"}, result: Requests]

Refusal(kind) == [kind |-> kind, result |-> NoOne]
Success(q) == [kind |-> "ok", result |-> q]

InTransaction == {"resolve", "execute", "complete", "commit", "rollback"}

Steps == {"idle", "insert", "lookup", "reply", "done"} \cup InTransaction

KeyOf(r) == call[r].key

TypeOK ==
  /\ record \in [Keys -> Records \cup {NoRecord}]
  /\ expired \subseteq Keys
  /\ lock \in [Keys -> Requests \cup {NoOne}]
  /\ pc \in [Requests -> Steps]
  /\ call \in [Requests -> Calls \cup {NoCall}]
  /\ working \in [Requests -> Records \cup {NoRecord}]
  /\ effects \in [Keys -> SUBSET Requests]
  /\ cleaned \in [Keys -> SUBSET Requests]
  /\ answer \in [Requests -> Answers]

Init ==
  /\ record = [k \in Keys |-> NoRecord]
  /\ expired = {}
  /\ lock = [k \in Keys |-> NoOne]
  /\ pc = [r \in Requests |-> "idle"]
  /\ call = [r \in Requests |-> NoCall]
  /\ working = [r \in Requests |-> NoRecord]
  /\ effects = [k \in Keys |-> {}]
  /\ cleaned = [k \in Keys |-> {}]
  /\ answer = [r \in Requests |-> Refusal("none")]

-----------------------------------------------------------------------------
(* Reading the record.                                                     *)

(* Mutant: a row is replayed without comparing the request hash.           *)
ResolutionIgnoringHash(row, hash, permitted, stale) ==
  IF row.state = "completed" /\ permitted THEN "replay" ELSE "forbidden"

(* What resolveExistingRecord decides for the row it has locked.  Whether   *)
(* a processing row is older than the processing timeout is the clock's    *)
(* business: stale.                                                         *)
Resolution(row, hash, permitted, stale) ==
  CASE row.hash # hash                                -> "conflict"
    [] row.hash = hash /\ row.state = "processing"    ->
         IF stale THEN "reclaim" ELSE "in_progress"
    [] row.hash = hash /\ row.state = "failed_retryable" -> "reacquire"
    [] OTHER -> IF permitted THEN "replay" ELSE "forbidden"

-----------------------------------------------------------------------------
(* The statements on the record, each on the row with the given id.        *)

(* reacquireIdempotencyRecord: the row is as if it had just been inserted. *)
Reacquired(row, hash) ==
  [row EXCEPT !.state = "processing", !.hash = hash, !.result = NoOne]

(* completeIdempotencyRecord with the response to store.                   *)
Completed(row, r) == [state |-> "completed", hash |-> row.hash, result |-> r]

(* markIdempotencyFailedRetryable and markIdempotencyFailedTerminal.       *)
Failed(row, mark) == [row EXCEPT !.state = mark]

-----------------------------------------------------------------------------
(* One attempt, from arrival to response.                                  *)

(* The middleware has validated the key and computed the scope and hash;   *)
(* permitted is what the policy checks will say of req.user, which is read *)
(* once, before the transaction, and not again.                            *)
Arrive(r) ==
  /\ pc[r] = "idle"
  /\ \E c \in Calls : call' = [call EXCEPT ![r] = c]
  /\ pc' = [pc EXCEPT ![r] = "insert"]
  /\ UNCHANGED <<record, expired, lock, working, effects, cleaned, answer>>

(* Mutant: no unique index on the triple, so the INSERT waits for nobody.  *)
InsertWithoutIndex(r) ==
  /\ pc[r] = "insert"
  /\ lock' = [lock EXCEPT ![KeyOf(r)] = r]
  /\ working' = [working EXCEPT ![r] = Processing(call[r].hash)]
  /\ pc' = [pc EXCEPT ![r] = "execute"]
  /\ UNCHANGED <<record, expired, call, effects, cleaned, answer>>

(* INSERT ... ON CONFLICT DO NOTHING.  With no committed row it waits for   *)
(* the transaction that holds the triple, then inserts.                    *)
InsertProcessing(r) ==
  LET k == KeyOf(r) IN
  /\ pc[r] = "insert"
  /\ record[k] = NoRecord
  /\ lock[k] = NoOne
  /\ lock' = [lock EXCEPT ![k] = r]
  /\ working' = [working EXCEPT ![r] = Processing(call[r].hash)]
  /\ pc' = [pc EXCEPT ![r] = "execute"]
  /\ UNCHANGED <<record, expired, call, effects, cleaned, answer>>

(* A committed row, locked or not, makes the INSERT return nothing.        *)
InsertFindsRow(r) ==
  /\ pc[r] = "insert"
  /\ record[KeyOf(r)] # NoRecord
  /\ pc' = [pc EXCEPT ![r] = "lookup"]
  /\ UNCHANGED <<record, expired, lock, call, working, effects, cleaned, answer>>

(* SELECT ... FOR UPDATE of the row the INSERT ran into.                   *)
FindForUpdate(r) ==
  LET k == KeyOf(r) IN
  /\ pc[r] = "lookup"
  /\ record[k] # NoRecord
  /\ lock[k] = NoOne
  /\ lock' = [lock EXCEPT ![k] = r]
  /\ working' = [working EXCEPT ![r] = record[k]]
  /\ pc' = [pc EXCEPT ![r] = "resolve"]
  /\ UNCHANGED <<record, expired, call, effects, cleaned, answer>>

(* The row is gone by now: mapRow returns null and reading                 *)
(* record.requestHash throws, which rolls the empty transaction back.      *)
FindNothing(r) ==
  /\ pc[r] = "lookup"
  /\ record[KeyOf(r)] = NoRecord
  /\ answer' = [answer EXCEPT ![r] = Refusal("error")]
  /\ pc' = [pc EXCEPT ![r] = "reply"]
  /\ UNCHANGED <<record, expired, lock, call, working, effects, cleaned>>

(* resolveExistingRecord, and reacquireIdempotencyRecord where it leads     *)
(* there.  The reclaim of a stale row is an UPDATE sent through the pool,   *)
(* that is on another connection than the one whose transaction holds the  *)
(* row: it waits for itself, hence no step.                                *)
Resolve(r) ==
  /\ pc[r] = "resolve"
  /\ \E stale \in BOOLEAN :
       LET kind == Resolution(working[r], call[r].hash, call[r].permitted, stale) IN
       /\ kind # "reclaim"
       /\ working' = [working EXCEPT ![r] =
            IF kind = "reacquire" THEN Reacquired(@, call[r].hash) ELSE @]
       /\ answer' = [answer EXCEPT ![r] =
            CASE kind = "replay"    -> Success(working[r].result)
              [] kind = "reacquire" -> @
              [] OTHER              -> Refusal(kind)]
       /\ pc' = [pc EXCEPT ![r] =
            CASE kind = "replay"    -> "commit"
              [] kind = "reacquire" -> "execute"
              [] OTHER              -> "rollback"]
  /\ UNCHANGED <<record, expired, lock, call, effects, cleaned>>

(* Mutant: a handler of a transactional command writes through the pool.   *)
HandlerReturnsOutside(r) ==
  /\ pc[r] = "execute"
  /\ call[r].permitted
  /\ effects' = [effects EXCEPT ![KeyOf(r)] = @ \cup {r}]
  /\ pc' = [pc EXCEPT ![r] = "complete"]
  /\ UNCHANGED <<record, expired, lock, call, working, cleaned, answer>>

(* execute(client) returns.  A handler that passes the client on writes    *)
(* inside this transaction; one that ignores it has committed its work     *)
(* already.                                                                 *)
HandlerReturns(r) ==
  LET k == KeyOf(r) IN
  /\ pc[r] = "execute"
  /\ call[r].permitted
  /\ effects' = IF k \in Detached
                THEN [effects EXCEPT ![k] = @ \cup {r}]
                ELSE effects
  /\ pc' = [pc EXCEPT ![r] = "complete"]
  /\ UNCHANGED <<record, expired, lock, call, working, cleaned, answer>>

HandlerThrowsAfterWork(r) ==
  /\ pc[r] = "execute"
  /\ effects' = [effects EXCEPT ![KeyOf(r)] = @ \cup {r}]
  /\ working' = [working EXCEPT ![r].state = "failed_terminal"]
  /\ answer' = [answer EXCEPT ![r] =
       Refusal(IF call[r].permitted THEN "error" ELSE "forbidden")]
  /\ pc' = [pc EXCEPT ![r] = "rollback"]
  /\ UNCHANGED <<record, expired, lock, call, cleaned>>

(* The catch block: an AppError below 500 marks the row failed_terminal,   *)
(* anything else failed_retryable, and the error is thrown on.  The domain *)
(* guards refuse a caller who is not permitted before they write anything; *)
(* another failure may come after a detached handler has done its work.    *)
HandlerThrows(r) ==
  LET k == KeyOf(r) IN
  /\ pc[r] = "execute"
  /\ \E mark \in {"failed_terminal", "failed_retryable"}, late \in BOOLEAN :
       /\ ~call[r].permitted => (mark = "failed_terminal" /\ ~late)
       /\ effects' = IF late /\ k \in Detached
                     THEN [effects EXCEPT ![k] = @ \cup {r}]
                     ELSE effects
       /\ working' = [working EXCEPT ![r] = Failed(working[r], mark)]
  /\ answer' = [answer EXCEPT ![r] =
       Refusal(IF call[r].permitted THEN "error" ELSE "forbidden")]
  /\ pc' = [pc EXCEPT ![r] = "rollback"]
  /\ UNCHANGED <<record, expired, lock, call, cleaned>>

(* The handler's response is stored, and will be sent.                     *)
Complete(r) ==
  /\ pc[r] = "complete"
  /\ working' = [working EXCEPT ![r] = Completed(working[r], r)]
  /\ answer' = [answer EXCEPT ![r] = Success(r)]
  /\ pc' = [pc EXCEPT ![r] = "commit"]
  /\ UNCHANGED <<record, expired, lock, call, effects, cleaned>>

(* The response is too large to store (an AppError 500) or the UPDATE      *)
(* fails: the catch block runs after the handler has.                      *)
CompleteThrows(r) ==
  /\ pc[r] = "complete"
  /\ working' = [working EXCEPT ![r] = Failed(working[r], "failed_retryable")]
  /\ answer' = [answer EXCEPT ![r] = Refusal("error")]
  /\ pc' = [pc EXCEPT ![r] = "rollback"]
  /\ UNCHANGED <<record, expired, lock, call, effects, cleaned>>

(* COMMIT: the row and what the handler wrote through the client become    *)
(* durable together.  The acknowledgement may be lost on the way, then     *)
(* withTransaction throws although the database has committed.             *)
Commit(r) ==
  LET k == KeyOf(r)
      ran == working[r].result = r IN
  /\ pc[r] = "commit"
  /\ record' = [record EXCEPT ![k] = working[r]]
  /\ expired' = IF ran THEN expired \ {k} ELSE expired
  /\ effects' = IF ran THEN [effects EXCEPT ![k] = @ \cup {r}] ELSE effects
  /\ lock' = [lock EXCEPT ![k] = NoOne]
  /\ working' = [working EXCEPT ![r] = NoRecord]
  /\ answer' \in {answer, [answer EXCEPT ![r] = Refusal("error")]}
  /\ pc' = [pc EXCEPT ![r] = "reply"]
  /\ UNCHANGED <<call, cleaned>>

(* The database refuses the COMMIT: withTransaction rolls back.            *)
CommitFails(r) ==
  /\ pc[r] = "commit"
  /\ answer' = [answer EXCEPT ![r] = Refusal("error")]
  /\ pc' = [pc EXCEPT ![r] = "rollback"]
  /\ UNCHANGED <<record, expired, lock, call, working, effects, cleaned>>

(* Mutant: the error path does not end the transaction before it releases  *)
(* the client to the pool.                                                 *)
RollbackForgotten(r) ==
  /\ pc[r] = "rollback"
  /\ pc' = [pc EXCEPT ![r] = "reply"]
  /\ UNCHANGED <<record, expired, lock, call, working, effects, cleaned, answer>>

(* ROLLBACK: what the transaction wrote, its marks included, is gone.      *)
Rollback(r) ==
  /\ pc[r] = "rollback"
  /\ lock' = [lock EXCEPT ![KeyOf(r)] = NoOne]
  /\ working' = [working EXCEPT ![r] = NoRecord]
  /\ pc' = [pc EXCEPT ![r] = "reply"]
  /\ UNCHANGED <<record, expired, call, effects, cleaned, answer>>

(* sendResponse, or the error handler; the response may not arrive.        *)
Reply(r) ==
  /\ pc[r] = "reply"
  /\ pc' = [pc EXCEPT ![r] = "done"]
  /\ answer' \in {answer, [answer EXCEPT ![r] = Refusal("lost")]}
  /\ UNCHANGED <<record, expired, lock, call, working, effects, cleaned>>

(* The server process or its database connection dies: an open transaction *)
(* is rolled back by the database and nobody answers.                      *)
Die(r) ==
  /\ pc[r] \notin {"idle", "done"}
  /\ lock' = [k \in Keys |-> IF lock[k] = r THEN NoOne ELSE lock[k]]
  /\ working' = [working EXCEPT ![r] = NoRecord]
  /\ answer' = [answer EXCEPT ![r] = Refusal("lost")]
  /\ pc' = [pc EXCEPT ![r] = "done"]
  /\ UNCHANGED <<record, expired, call, effects, cleaned>>

-----------------------------------------------------------------------------
(* The clock and the clean-up script.                                      *)

Expire(k) ==
  /\ record[k] # NoRecord
  /\ k \notin expired
  /\ expired' = expired \cup {k}
  /\ UNCHANGED <<record, lock, pc, call, working, effects, cleaned, answer>>

(* Mutant: the DELETE does not look at expires_at.                         *)
CleanUpEverything(k) ==
  /\ lock[k] = NoOne
  /\ record[k].state \in States \ {"processing"}
  /\ record' = [record EXCEPT ![k] = NoRecord]
  /\ expired' = expired \ {k}
  /\ cleaned' = [cleaned EXCEPT ![k] = @ \cup {record[k].result}]
  /\ UNCHANGED <<lock, pc, call, working, effects, answer>>

(* deleteExpiredIdempotencyRecords; the DELETE waits for a locked row.     *)
CleanUp(k) ==
  /\ k \in expired
  /\ lock[k] = NoOne
  /\ record[k].state \in States \ {"processing"}
  /\ record' = [record EXCEPT ![k] = NoRecord]
  /\ expired' = expired \ {k}
  /\ cleaned' = [cleaned EXCEPT ![k] = @ \cup {record[k].result}]
  /\ UNCHANGED <<lock, pc, call, working, effects, answer>>

-----------------------------------------------------------------------------
Attempt(r) ==
  \/ InsertProcessing(r)
  \/ InsertFindsRow(r)
  \/ FindForUpdate(r)
  \/ FindNothing(r)
  \/ Resolve(r)
  \/ HandlerReturns(r)
  \/ HandlerThrows(r)
  \/ Complete(r)
  \/ CompleteThrows(r)
  \/ Commit(r)
  \/ CommitFails(r)
  \/ Rollback(r)
  \/ Reply(r)

Environment ==
  \/ \E r \in Requests : Arrive(r) \/ Die(r)
  \/ \E k \in Keys : Expire(k) \/ CleanUp(k)

Next ==
  \/ \E r \in Requests : Attempt(r)
  \/ Environment

Spec == Init /\ [][Next]_vars

(* The event loop and the database make progress on an attempt that has    *)
(* begun; nothing makes a client call, a process die or the clean-up run.  *)
FairSpec == Spec /\ \A r \in Requests : WF_vars(Attempt(r))

-----------------------------------------------------------------------------
(* Safety.                                                                 *)

(* The business effects of a key that count: those whose record has not    *)
(* been cleaned up after its expiry.                                       *)
LiveEffects(k) == effects[k] \ cleaned[k]

(* One effect per record, and none without one: while a record lives, the  *)
(* database holds exactly the effect of the attempt whose result the       *)
(* record stores, and a key without a record has no effect outstanding,    *)
(* whatever duplicates, failures, crashes and lost acknowledgements came   *)
(* in between.  For handlers that write through the transaction's client.  *)
RecordIffEffect ==
  \A k \in Keys \ Detached :
    LiveEffects(k) = IF record[k] = NoRecord THEN {} ELSE {record[k].result}

(* A request is answered "ok" only with the result of an execution of the  *)
(* same key and the same payload that is durable by the time the response  *)
(* leaves, and only if its caller is permitted: no replay of another       *)
(* payload's result, no success before the commit.                         *)
AnswersAreEarned ==
  \A r \in Requests :
    answer[r].kind = "ok" /\ pc[r] \in {"reply", "done"} =>
      LET q == answer[r].result IN
      /\ q \in effects[KeyOf(r)]
      /\ KeyOf(q) = KeyOf(r)
      /\ call[q].hash = call[r].hash
      /\ call[r].permitted

(* Nobody ever sees a record that is not completed: the failure marks and  *)
(* the processing row die with the transaction that wrote them, so the     *)
(* branches of resolveExistingRecord for them are never taken.             *)
OnlyCompletedVisible ==
  \A k \in Keys : record[k] # NoRecord => record[k].state = "completed"

(* A refusal is final: a caller told "conflict", "in_progress" or          *)
(* "forbidden" has had no effect at all, not even through a handler that   *)
(* ignores the transaction.                                                *)
RefusedWithoutEffect ==
  \A r \in Requests :
    answer[r].kind \in {"conflict", "in_progress", "forbidden"} =>
      \A k \in Keys : r \notin effects[k]

(* A stored result never changes under its key: it is deleted by the       *)
(* clean-up once expired, and only then can another execution take its     *)
(* place.                                                                  *)
StoredResultStable ==
  [][\A k \in Keys :
       record[k] # NoRecord =>
         \/ record'[k] = record[k]
         \/ record'[k] = NoRecord /\ k \in expired]_vars

-----------------------------------------------------------------------------
(* Liveness: an attempt that has begun ends, with an answer or with the    *)
(* death of its process: the waits on the row lock never become a          *)
(* deadlock between attempts.                                              *)
EveryAttemptEnds == \A r \in Requests : pc[r] = "insert" ~> pc[r] = "done"

-----------------------------------------------------------------------------
(* Refinement.  The ledger entry of a transactional key is the effect the  *)
(* database holds for it; a caller is told when the response is on its     *)
(* way.                                                                    *)
EffectOf(k) ==
  IF LiveEffects(k) = {} THEN NoOne ELSE CHOOSE r \in LiveEffects(k) : TRUE

ToldTo(r) ==
  IF pc[r] \in {"reply", "done"} /\ KeyOf(r) \notin Detached
  THEN answer[r].result ELSE NoOne

Ledger ==
  INSTANCE CommandLedger WITH
    Keys   <- Keys \ Detached,
    ledger <- [k \in Keys \ Detached |-> EffectOf(k)],
    told   <- [r \in Requests |-> ToldTo(r)]

(* The commands that write through the transaction implement the ledger:   *)
(* every retry, race, crash, failed commit and lost response looks from    *)
(* outside like one atomic execution that later callers are told about.    *)
ImplementsLedger == Ledger!LedgerSpec

-----------------------------------------------------------------------------
(* What the documentation promises of every protected operation, also of   *)
(* those whose handler ignores the client: at most one effect outstanding. *)
AtMostOneEffect == \A k \in Keys : Cardinality(LiveEffects(k)) <= 1

=============================================================================

---------------------- MODULE IdempotentCommandProofs ----------------------
(***************************************************************************)
(* Proofs about IdempotentCommand for every number of attempts, keys and   *)
(* payloads.  IInv is the inductive invariant; its parts say who holds a   *)
(* row lock, what an open transaction's private row can be, and where an   *)
(* effect comes from.                                                      *)
(***************************************************************************)
EXTENDS IdempotentCommand, TLAPS

USE DetachedAssumption, NoOneAssumption

(* An attempt holds the lock of its key exactly while its transaction is   *)
(* past the insert or the SELECT ... FOR UPDATE.                           *)
LockInv ==
  /\ \A r \in Requests : pc[r] # "idle" => call[r] \in Calls
  /\ \A r \in Requests : pc[r] \in InTransaction => lock[KeyOf(r)] = r
  /\ \A k \in Keys : lock[k] # NoOne =>
       pc[lock[k]] \in InTransaction /\ KeyOf(lock[k]) = k

(* A visible record is the completed record of an attempt that is over.    *)
RecordInv ==
  \A k \in Keys : record[k] # NoRecord =>
    /\ record[k].state = "completed"
    /\ record[k].result \in Requests
    /\ record[k].result \in effects[k] \ cleaned[k]
    /\ pc[record[k].result] \in {"reply", "done"}
    /\ record[k].hash = call[record[k].result].hash

(* An effect belongs to an attempt on that key that got to its handler;    *)
(* through the transaction's client it appears at the commit only.         *)
EffectInv ==
  \A k \in Keys :
    /\ \A r \in cleaned[k] : r \in effects[k] /\ pc[r] \in {"reply", "done"}
    /\ \A r \in effects[k] :
         /\ pc[r] \notin {"idle", "insert", "lookup", "resolve", "execute"}
         /\ KeyOf(r) = k
         /\ k \notin Detached => pc[r] \in {"reply", "done"}

(* The private row of an open transaction, by the step it is at.           *)
WorkInv ==
  \A r \in Requests :
    LET k == KeyOf(r) IN
    /\ pc[r] = "resolve" => record[k] # NoRecord /\ working[r] = record[k]
    /\ pc[r] \in {"execute", "complete"} =>
         record[k] = NoRecord /\ working[r] = Processing(call[r].hash)
    /\ pc[r] = "complete" =>
         call[r].permitted /\ (k \in Detached => r \in effects[k])
    /\ pc[r] = "commit" =>
         /\ call[r].permitted
         /\ \/ /\ record[k] # NoRecord
               /\ working[r] = record[k]
               /\ record[k].hash = call[r].hash
               /\ answer[r] = Success(record[k].result)
            \/ /\ record[k] = NoRecord
               /\ working[r] = [state |-> "completed", hash |-> call[r].hash,
                                result |-> r]
               /\ answer[r] = Success(r)
               /\ k \in Detached => r \in effects[k]

(* No answer is formed before the command is resolved or has run.          *)
AnswerInv ==
  \A r \in Requests :
    /\ pc[r] \in {"idle", "insert", "lookup", "resolve", "execute", "complete"}
         => answer[r] = Refusal("none")
    /\ pc[r] = "rollback" => answer[r].kind # "ok"

IInv ==
  /\ TypeOK
  /\ LockInv
  /\ RecordInv
  /\ EffectInv
  /\ WorkInv
  /\ AnswerInv
  /\ AnswersAreEarned
  /\ RefusedWithoutEffect
  /\ RecordIffEffect

(* Refusals that carry no result are answers.                              *)
LEMMA RefusalType ==
  Refusal("lost") \in Answers /\ Refusal("error") \in Answers
BY DEF Refusal, Answers

-----------------------------------------------------------------------------
(* One lemma per action.                                                   *)

(* An attempt arrives with no answer, no lock and no effect of its own.    *)
LEMMA ArrivePreserves ==
  ASSUME IInv, NEW r \in Requests, Arrive(r)
  PROVE  IInv'
<1> USE DEF IInv, Arrive
<1>1. TypeOK'
  BY DEF TypeOK, Steps
<1>2. LockInv'
  BY DEF TypeOK, LockInv, KeyOf, InTransaction
<1>3. RecordInv'
  BY DEF RecordInv
<1>4. EffectInv'
  BY DEF EffectInv, KeyOf
<1>5. WorkInv'
  BY DEF WorkInv, KeyOf
<1>6. AnswerInv'
  BY DEF AnswerInv
<1>7. AnswersAreEarned'
  BY DEF LockInv, EffectInv, AnswersAreEarned, KeyOf, Calls
<1>8. RefusedWithoutEffect'
  BY DEF RefusedWithoutEffect
<1>9. RecordIffEffect'
  BY DEF RecordIffEffect, LiveEffects
<1> QED BY <1>1, <1>2, <1>3, <1>4, <1>5, <1>6, <1>7, <1>8, <1>9

(* The insert takes the free lock of a key that has no record.             *)
LEMMA InsertProcessingPreserves ==
  ASSUME IInv, NEW r \in Requests, InsertProcessing(r)
  PROVE  IInv'
<1> USE DEF IInv, InsertProcessing
<1>0. call[r] \in Calls /\ KeyOf(r) \in Keys
  BY DEF LockInv, KeyOf, Calls
<1>1. TypeOK'
  BY DEF TypeOK, LockInv, Steps, Records, Calls, InTransaction, States,
         Processing
<1>2. LockInv'
  BY DEF TypeOK, LockInv, KeyOf, Calls, InTransaction
<1>3. RecordInv'
  BY DEF RecordInv
<1>4. EffectInv'
  BY DEF EffectInv, KeyOf
<1>5. WorkInv'
  BY DEF TypeOK, WorkInv, KeyOf
<1>6. AnswerInv'
  BY DEF AnswerInv
<1>7. AnswersAreEarned'
  BY DEF AnswersAreEarned, KeyOf
<1>8. RefusedWithoutEffect'
  BY DEF RefusedWithoutEffect
<1>9. RecordIffEffect'
  BY DEF RecordIffEffect, LiveEffects
<1> QED BY <1>1, <1>2, <1>3, <1>4, <1>5, <1>6, <1>7, <1>8, <1>9

(* An insert that runs into a committed row writes nothing.                *)
LEMMA InsertFindsRowPreserves ==
  ASSUME IInv, NEW r \in Requests, InsertFindsRow(r)
  PROVE  IInv'
<1> USE DEF IInv, InsertFindsRow
<1>1. TypeOK'
  BY DEF TypeOK, Steps
<1>2. LockInv'
  BY DEF LockInv, KeyOf, InTransaction
<1>3. RecordInv'
  BY DEF RecordInv
<1>4. EffectInv'
  BY DEF EffectInv, KeyOf
<1>5. WorkInv'
  BY DEF WorkInv, KeyOf
<1>6. AnswerInv'
  BY DEF AnswerInv
<1>7. AnswersAreEarned'
  BY DEF AnswersAreEarned, KeyOf
<1>8. RefusedWithoutEffect'
  BY DEF RefusedWithoutEffect
<1>9. RecordIffEffect'
  BY DEF RecordIffEffect, LiveEffects
<1> QED BY <1>1, <1>2, <1>3, <1>4, <1>5, <1>6, <1>7, <1>8, <1>9

(* The SELECT ... FOR UPDATE takes the free lock of a key with a record,   *)
(* whose row becomes the transaction's private row.                        *)
LEMMA FindForUpdatePreserves ==
  ASSUME IInv, NEW r \in Requests, FindForUpdate(r)
  PROVE  IInv'
<1> USE DEF IInv, FindForUpdate
<1>0. call[r] \in Calls /\ KeyOf(r) \in Keys
  BY DEF LockInv, KeyOf, Calls
<1>1. TypeOK'
  BY DEF TypeOK, LockInv, KeyOf, Steps, Calls, InTransaction
<1>2. LockInv'
  BY DEF TypeOK, LockInv, KeyOf, Calls, InTransaction
<1>3. RecordInv'
  BY DEF RecordInv
<1>4. EffectInv'
  BY DEF EffectInv, KeyOf
<1>5. WorkInv'
  BY DEF TypeOK, WorkInv, KeyOf
<1>6. AnswerInv'
  BY DEF AnswerInv
<1>7. AnswersAreEarned'
  BY DEF AnswersAreEarned, KeyOf
<1>8. RefusedWithoutEffect'
  BY DEF RefusedWithoutEffect
<1>9. RecordIffEffect'
  BY DEF RecordIffEffect, LiveEffects
<1> QED BY <1>1, <1>2, <1>3, <1>4, <1>5, <1>6, <1>7, <1>8, <1>9

(* An attempt whose row was cleaned up under it only fails.                *)
LEMMA FindNothingPreserves ==
  ASSUME IInv, NEW r \in Requests, FindNothing(r)
  PROVE  IInv'
<1> USE DEF IInv, FindNothing
<1>1. TypeOK'
  BY DEF TypeOK, Steps, Answers, Refusal
<1>2. LockInv'
  BY DEF LockInv, KeyOf, InTransaction
<1>3. RecordInv'
  BY DEF RecordInv
<1>4. EffectInv'
  BY DEF EffectInv, KeyOf
<1>5. WorkInv'
  BY DEF WorkInv, KeyOf
<1>6. AnswerInv'
  BY DEF TypeOK, AnswerInv
<1>7. AnswersAreEarned'
  BY DEF TypeOK, AnswersAreEarned, KeyOf, Refusal
<1>8. RefusedWithoutEffect'
  BY DEF EffectInv, RefusedWithoutEffect
<1>9. RecordIffEffect'
  BY DEF RecordIffEffect, LiveEffects
<1> QED BY <1>1, <1>2, <1>3, <1>4, <1>5, <1>6, <1>7, <1>8, <1>9

(* The locked row is completed, so only a replay goes on, and a replay     *)
(* has compared the payload and the caller's permission.                   *)
LEMMA ResolvePreserves ==
  ASSUME IInv, NEW r \in Requests, Resolve(r)
  PROVE  IInv'
<1> USE DEF IInv, Resolve, Reacquired
<1>1. TypeOK'
  BY DEF TypeOK, LockInv, RecordInv, WorkInv, KeyOf, Steps, Calls, Answers,
         InTransaction, Refusal, Success, Resolution
<1>2. LockInv'
  BY DEF LockInv, KeyOf, InTransaction
<1>3. RecordInv'
  BY DEF RecordInv
<1>4. EffectInv'
  BY DEF EffectInv, KeyOf
<1>5. WorkInv'
  BY DEF TypeOK, LockInv, RecordInv, WorkInv, KeyOf, Calls, Resolution
<1>6. AnswerInv'
  BY DEF TypeOK, AnswerInv, Refusal, Resolution
<1>7. AnswersAreEarned'
  BY DEF AnswersAreEarned, KeyOf
<1>8. RefusedWithoutEffect'
  BY DEF EffectInv, RefusedWithoutEffect
<1>9. RecordIffEffect'
  BY DEF RecordIffEffect, LiveEffects
<1> QED BY <1>1, <1>2, <1>3, <1>4, <1>5, <1>6, <1>7, <1>8, <1>9

(* A handler that ignores the transaction leaves its effect now; the       *)
(* others leave none before the commit.                                    *)
LEMMA HandlerReturnsPreserves ==
  ASSUME IInv, NEW r \in Requests, HandlerReturns(r)
  PROVE  IInv'
<1> USE DEF IInv, HandlerReturns
<1>1. TypeOK'
  BY DEF TypeOK, Steps, InTransaction
<1>2. LockInv'
  BY DEF LockInv, KeyOf, InTransaction
<1>3. RecordInv'
  BY DEF RecordInv
<1>4. EffectInv'
  BY DEF TypeOK, EffectInv, KeyOf
<1>5. WorkInv'
  BY DEF TypeOK, WorkInv, KeyOf
<1>6. AnswerInv'
  BY DEF AnswerInv
<1>7. AnswersAreEarned'
  BY DEF AnswersAreEarned, KeyOf
<1>8. RefusedWithoutEffect'
  BY DEF AnswerInv, RefusedWithoutEffect, Refusal
<1>9. RecordIffEffect'
  BY DEF RecordIffEffect, LiveEffects
<1> QED BY <1>1, <1>2, <1>3, <1>4, <1>5, <1>6, <1>7, <1>8, <1>9

(* A failing handler ends in a rollback; what it refuses has no effect.    *)
LEMMA HandlerThrowsPreserves ==
  ASSUME IInv, NEW r \in Requests, HandlerThrows(r)
  PROVE  IInv'
<1> USE DEF IInv, HandlerThrows, Failed
<1>1. TypeOK'
  BY DEF TypeOK, WorkInv, Steps, Records, Answers, InTransaction, States,
         NoRecord, Refusal, Success, Processing
<1>2. LockInv'
  BY DEF LockInv, KeyOf, InTransaction
<1>3. RecordInv'
  BY DEF RecordInv
<1>4. EffectInv'
  BY DEF TypeOK, EffectInv, KeyOf
<1>5. WorkInv'
  BY DEF TypeOK, WorkInv, KeyOf
<1>6. AnswerInv'
  BY DEF TypeOK, AnswerInv, Refusal
<1>7. AnswersAreEarned'
  BY DEF AnswersAreEarned, KeyOf
<1>8. RefusedWithoutEffect'
  BY DEF TypeOK, EffectInv, RefusedWithoutEffect, Refusal
<1>9. RecordIffEffect'
  BY DEF RecordIffEffect, LiveEffects
<1> QED BY <1>1, <1>2, <1>3, <1>4, <1>5, <1>6, <1>7, <1>8, <1>9

(* A row that is being processed, when it is completed.                    *)
LEMMA CompletedRow ==
  ASSUME NEW hash, NEW q
  PROVE  Completed(Processing(hash), q) =
           [state |-> "completed", hash |-> hash, result |-> q]
BY DEF Completed, Processing

(* The private row is completed with this attempt's own result.            *)
LEMMA CompletePreserves ==
  ASSUME IInv, NEW r \in Requests, Complete(r)
  PROVE  IInv'
<1> USE DEF IInv, Complete
<1>a. working' = [working EXCEPT ![r] = [state |-> "completed",
                                         hash |-> call[r].hash, result |-> r]]
  <2>1. working[r] = Processing(call[r].hash)
    BY DEF WorkInv
  <2> QED BY <2>1, CompletedRow
<1>1. TypeOK'
  <2>1. call[r].hash \in Payloads
    BY DEF TypeOK, WorkInv, Calls, NoCall
  <2>2. working' \in [Requests -> Records \cup {NoRecord}]
    BY <1>a, <2>1 DEF TypeOK, Records, States
  <2> QED BY <2>2 DEF TypeOK, Steps, InTransaction, Answers, Success
<1>2. LockInv'
  BY DEF LockInv, KeyOf, InTransaction
<1>3. RecordInv'
  BY DEF RecordInv
<1>4. EffectInv'
  BY DEF EffectInv, KeyOf
<1>5. WorkInv'
  <2>1. /\ working'[r] = [state |-> "completed", hash |-> call[r].hash, result |-> r]
        /\ \A q \in Requests \ {r} : working'[q] = working[q]
    BY <1>a DEF TypeOK
  <2>2. /\ pc'[r] = "commit" /\ answer'[r] = Success(r)
        /\ \A q \in Requests \ {r} : pc'[q] = pc[q] /\ answer'[q] = answer[q]
        /\ UNCHANGED <<record, call, effects>>
    BY DEF TypeOK
  <2> HIDE DEF Complete
  <2> QED BY <2>1, <2>2, Complete(r) DEF WorkInv, KeyOf, Complete
<1>6. AnswerInv'
  BY DEF TypeOK, AnswerInv
<1>7. AnswersAreEarned'
  BY DEF AnswersAreEarned, KeyOf
<1>8. RefusedWithoutEffect'
  BY DEF RefusedWithoutEffect, Success
<1>9. RecordIffEffect'
  BY DEF RecordIffEffect, LiveEffects
<1> QED BY <1>1, <1>2, <1>3, <1>4, <1>5, <1>6, <1>7, <1>8, <1>9

(* A failure after the handler ends in a rollback.                         *)
LEMMA CompleteThrowsPreserves ==
  ASSUME IInv, NEW r \in Requests, CompleteThrows(r)
  PROVE  IInv'
<1> USE DEF IInv, CompleteThrows, Failed
<1>1. TypeOK'
  BY DEF TypeOK, WorkInv, Steps, Records, Answers, InTransaction, States,
         NoRecord, Refusal, Processing
<1>2. LockInv'
  BY DEF LockInv, KeyOf, InTransaction
<1>3. RecordInv'
  BY DEF RecordInv
<1>4. EffectInv'
  BY DEF EffectInv, KeyOf
<1>5. WorkInv'
  BY DEF TypeOK, WorkInv, KeyOf
<1>6. AnswerInv'
  BY DEF TypeOK, AnswerInv, Refusal
<1>7. AnswersAreEarned'
  BY DEF AnswersAreEarned, KeyOf
<1>8. RefusedWithoutEffect'
  BY DEF RefusedWithoutEffect, Refusal
<1>9. RecordIffEffect'
  BY DEF RecordIffEffect, LiveEffects
<1> QED BY <1>1, <1>2, <1>3, <1>4, <1>5, <1>6, <1>7, <1>8, <1>9

(* The row and the effect of a fresh execution become durable together; a  *)
(* replay rewrites the row it read.                                        *)
LEMMA CommitPreserves ==
  ASSUME IInv, NEW r \in Requests, Commit(r)
  PROVE  IInv'
<1> USE DEF IInv, Commit
<1>0. call[r] \in Calls /\ KeyOf(r) \in Keys
  BY DEF LockInv, KeyOf, Calls
<1>1. TypeOK'
  <2>1. answer' \in [Requests -> Answers]
    BY RefusalType DEF TypeOK
  <2> QED BY <1>0, <2>1 DEF TypeOK, Steps
<1>2. LockInv'
  BY DEF TypeOK, LockInv, KeyOf, InTransaction
<1>3. RecordInv'
  <2>1. CASE working[r].result = r
    BY <1>0, <2>1 DEF TypeOK, RecordInv, EffectInv, WorkInv
  <2>2. CASE working[r].result # r
    BY <1>0, <2>2 DEF TypeOK, RecordInv, WorkInv
  <2> QED BY <2>1, <2>2
<1>4. EffectInv'
  BY DEF TypeOK, EffectInv, KeyOf
<1>5. WorkInv'
  BY DEF TypeOK, LockInv, WorkInv, KeyOf, InTransaction
<1>6. AnswerInv'
  BY DEF TypeOK, AnswerInv
<1>7. AnswersAreEarned'
  BY DEF TypeOK, LockInv, RecordInv, EffectInv, WorkInv, AnswersAreEarned,
         KeyOf, Calls, Refusal, Success
<1>8. RefusedWithoutEffect'
  BY DEF TypeOK, WorkInv, RefusedWithoutEffect, Refusal, Success
<1>9. RecordIffEffect'
  BY DEF TypeOK, EffectInv, WorkInv, RecordIffEffect, LiveEffects, NoRecord
<1> QED BY <1>1, <1>2, <1>3, <1>4, <1>5, <1>6, <1>7, <1>8, <1>9

(* A refused commit is rolled back.                                        *)
LEMMA CommitFailsPreserves ==
  ASSUME IInv, NEW r \in Requests, CommitFails(r)
  PROVE  IInv'
<1> USE DEF IInv, CommitFails
<1>1. TypeOK'
  BY DEF TypeOK, Steps, Answers, InTransaction, Refusal
<1>2. LockInv'
  BY DEF LockInv, KeyOf, InTransaction
<1>3. RecordInv'
  BY DEF RecordInv
<1>4. EffectInv'
  BY DEF EffectInv, KeyOf
<1>5. WorkInv'
  BY DEF TypeOK, WorkInv, KeyOf
<1>6. AnswerInv'
  BY DEF TypeOK, AnswerInv, Refusal
<1>7. AnswersAreEarned'
  BY DEF AnswersAreEarned, KeyOf
<1>8. RefusedWithoutEffect'
  BY DEF RefusedWithoutEffect, Refusal
<1>9. RecordIffEffect'
  BY DEF RecordIffEffect, LiveEffects
<1> QED BY <1>1, <1>2, <1>3, <1>4, <1>5, <1>6, <1>7, <1>8, <1>9

(* A rollback frees the key and leaves what is committed alone.            *)
LEMMA RollbackPreserves ==
  ASSUME IInv, NEW r \in Requests, Rollback(r)
  PROVE  IInv'
<1> USE DEF IInv, Rollback
<1>1. TypeOK'
  BY DEF TypeOK, Steps
<1>2. LockInv'
  BY DEF TypeOK, LockInv, KeyOf, InTransaction
<1>3. RecordInv'
  BY DEF RecordInv
<1>4. EffectInv'
  BY DEF EffectInv, KeyOf
<1>5. WorkInv'
  BY DEF WorkInv, KeyOf
<1>6. AnswerInv'
  BY DEF AnswerInv
<1>7. AnswersAreEarned'
  BY DEF AnswerInv, AnswersAreEarned, KeyOf
<1>8. RefusedWithoutEffect'
  BY DEF RefusedWithoutEffect
<1>9. RecordIffEffect'
  BY DEF RecordIffEffect, LiveEffects
<1> QED BY <1>1, <1>2, <1>3, <1>4, <1>5, <1>6, <1>7, <1>8, <1>9

(* A response sent or lost changes no record.                              *)
LEMMA ReplyPreserves ==
  ASSUME IInv, NEW r \in Requests, Reply(r)
  PROVE  IInv'
<1> USE DEF IInv, Reply
<1>1. TypeOK'
  <2>1. answer' \in [Requests -> Answers]
    BY RefusalType DEF TypeOK
  <2> QED BY <2>1 DEF TypeOK, Steps
<1>2. LockInv'
  BY DEF LockInv, KeyOf, InTransaction
<1>3. RecordInv'
  BY DEF RecordInv
<1>4. EffectInv'
  BY DEF EffectInv, KeyOf
<1>5. WorkInv'
  BY DEF TypeOK, WorkInv, KeyOf
<1>6. AnswerInv'
  BY DEF TypeOK, AnswerInv
<1>7. AnswersAreEarned'
  BY DEF TypeOK, AnswersAreEarned, KeyOf, Refusal
<1>8. RefusedWithoutEffect'
  BY DEF TypeOK, RefusedWithoutEffect, Refusal
<1>9. RecordIffEffect'
  BY DEF RecordIffEffect, LiveEffects
<1> QED BY <1>1, <1>2, <1>3, <1>4, <1>5, <1>6, <1>7, <1>8, <1>9

(* An attempt that dies frees its key; what it had committed stays.        *)
LEMMA DiePreserves ==
  ASSUME IInv, NEW r \in Requests, Die(r)
  PROVE  IInv'
<1> USE DEF IInv, Die
<1>1. TypeOK'
  BY DEF TypeOK, Steps, Answers, Refusal
<1>2. LockInv'
  BY DEF TypeOK, LockInv, KeyOf, Calls, InTransaction
<1>3. RecordInv'
  BY DEF RecordInv
<1>4. EffectInv'
  BY DEF EffectInv, KeyOf
<1>5. WorkInv'
  BY DEF TypeOK, WorkInv, KeyOf
<1>6. AnswerInv'
  BY DEF TypeOK, AnswerInv
<1>7. AnswersAreEarned'
  BY DEF TypeOK, AnswersAreEarned, KeyOf, Refusal
<1>8. RefusedWithoutEffect'
  BY DEF RefusedWithoutEffect, Refusal
<1>9. RecordIffEffect'
  BY DEF RecordIffEffect, LiveEffects
<1> QED BY <1>1, <1>2, <1>3, <1>4, <1>5, <1>6, <1>7, <1>8, <1>9

(* Expiry marks a record and changes nothing else.                         *)
LEMMA ExpirePreserves ==
  ASSUME IInv, NEW k \in Keys, Expire(k)
  PROVE  IInv'
<1> USE DEF IInv, Expire
<1>1. TypeOK'
  BY DEF TypeOK
<1>2. LockInv'
  BY DEF LockInv, KeyOf
<1>3. RecordInv'
  BY DEF RecordInv
<1>4. EffectInv'
  BY DEF EffectInv, KeyOf
<1>5. WorkInv'
  BY DEF WorkInv, KeyOf
<1>6. AnswerInv'
  BY DEF AnswerInv
<1>7. AnswersAreEarned'
  BY DEF AnswersAreEarned, KeyOf
<1>8. RefusedWithoutEffect'
  BY DEF RefusedWithoutEffect
<1>9. RecordIffEffect'
  BY DEF RecordIffEffect, LiveEffects
<1> QED BY <1>1, <1>2, <1>3, <1>4, <1>5, <1>6, <1>7, <1>8, <1>9

(* The clean-up takes the record and its effect out of account together.   *)
LEMMA CleanUpPreserves ==
  ASSUME IInv, NEW k \in Keys, CleanUp(k)
  PROVE  IInv'
<1> USE DEF IInv, CleanUp
<1>1. TypeOK'
  BY DEF TypeOK, RecordInv, States, NoRecord
<1>2. LockInv'
  BY DEF LockInv, KeyOf
<1>3. RecordInv'
  BY DEF TypeOK, RecordInv
<1>4. EffectInv'
  BY DEF RecordInv, EffectInv, KeyOf, States, NoRecord
<1>5. WorkInv'
  BY DEF LockInv, WorkInv, KeyOf, InTransaction
<1>6. AnswerInv'
  BY DEF AnswerInv
<1>7. AnswersAreEarned'
  BY DEF AnswersAreEarned, KeyOf
<1>8. RefusedWithoutEffect'
  BY DEF RefusedWithoutEffect
<1>9. RecordIffEffect'
  BY DEF TypeOK, RecordIffEffect, LiveEffects
<1> QED BY <1>1, <1>2, <1>3, <1>4, <1>5, <1>6, <1>7, <1>8, <1>9
-----------------------------------------------------------------------------
(* The invariant.                                                          *)

(* Nothing is stored, locked, carried out or answered at first.            *)
LEMMA InitIInv == Init => IInv
<1> SUFFICES ASSUME Init PROVE IInv
  OBVIOUS
<1> USE DEF Init
<1>1. TypeOK
  BY DEF TypeOK, Steps, Answers, Refusal
<1>2. LockInv /\ RecordInv /\ EffectInv /\ WorkInv /\ AnswerInv
  BY DEF LockInv, RecordInv, EffectInv, WorkInv, AnswerInv, InTransaction
<1>3. AnswersAreEarned /\ RefusedWithoutEffect /\ RecordIffEffect
  BY DEF AnswersAreEarned, RefusedWithoutEffect, RecordIffEffect, LiveEffects,
         Refusal
<1> QED BY <1>1, <1>2, <1>3 DEF IInv

(* Every step preserves the invariant.                                     *)
LEMMA StepIInv ==
  ASSUME IInv, [Next]_vars
  PROVE  IInv'
<1>1. CASE UNCHANGED vars
  BY <1>1 DEF vars, IInv, TypeOK, LockInv, RecordInv, EffectInv, WorkInv,
       AnswerInv, AnswersAreEarned, RefusedWithoutEffect, RecordIffEffect,
       LiveEffects, KeyOf
<1>2. ASSUME NEW r \in Requests, Attempt(r) PROVE IInv'
  BY <1>2, InsertProcessingPreserves, InsertFindsRowPreserves,
     FindForUpdatePreserves, FindNothingPreserves, ResolvePreserves,
     HandlerReturnsPreserves, HandlerThrowsPreserves, CompletePreserves,
     CompleteThrowsPreserves, CommitPreserves, CommitFailsPreserves,
     RollbackPreserves, ReplyPreserves
     DEF Attempt
<1>3. CASE Environment
  BY <1>3, ArrivePreserves, DiePreserves, ExpirePreserves, CleanUpPreserves
     DEF Environment
<1> QED BY <1>1, <1>2, <1>3 DEF Next

(* The strengthened invariant holds throughout every execution.            *)
THEOREM Invariance == Spec => []IInv
<1>1. IInv /\ [Next]_vars => IInv'
  BY StepIInv
<1> QED BY InitIInv, <1>1, PTL DEF Spec

-----------------------------------------------------------------------------
(* What it gives.                                                          *)

(* Every variable keeps its type.                                          *)
THEOREM TypeCorrect == Spec => []TypeOK
<1>1. IInv => TypeOK
  BY DEF IInv
<1> QED BY Invariance, <1>1, PTL

(* A transactional command's stored record and its committed effect come   *)
(* and go together: no execution without a record, no second execution     *)
(* beside one.                                                             *)
THEOREM OneEffectPerRecord == Spec => []RecordIffEffect
<1>1. IInv => RecordIffEffect
  BY DEF IInv
<1> QED BY Invariance, <1>1, PTL

(* Who is told "ok" is told the durable result of the same key and payload. *)
THEOREM EarnedAnswers == Spec => []AnswersAreEarned
<1>1. IInv => AnswersAreEarned
  BY DEF IInv
<1> QED BY Invariance, <1>1, PTL

(* Failure marks and processing rows are never visible to another attempt. *)
THEOREM NothingHalfDoneVisible == Spec => []OnlyCompletedVisible
<1>1. IInv => OnlyCompletedVisible
  BY DEF IInv, RecordInv, OnlyCompletedVisible
<1> QED BY Invariance, <1>1, PTL

(* Who is refused has had no effect, not even through a handler that       *)
(* ignores the transaction.                                                *)
THEOREM RefusalsHaveNoEffect == Spec => []RefusedWithoutEffect
<1>1. IInv => RefusedWithoutEffect
  BY DEF IInv
<1> QED BY Invariance, <1>1, PTL

(* A stored result stays until it has expired and is deleted.              *)
LEMMA StoredStep ==
  ASSUME IInv, [Next]_vars, NEW k \in Keys, record[k] # NoRecord
  PROVE  record'[k] = record[k] \/ (record'[k] = NoRecord /\ k \in expired)
<1> USE DEF IInv
<1>1. CASE record' = record
  BY <1>1
<1>2. ASSUME NEW r \in Requests, Commit(r) PROVE record'[k] = record[k]
  BY <1>2 DEF Commit, WorkInv, TypeOK
<1>3. ASSUME NEW j \in Keys, CleanUp(j)
      PROVE  record'[k] = record[k] \/ (record'[k] = NoRecord /\ k \in expired)
  BY <1>3 DEF CleanUp, TypeOK
<1>4. ASSUME NEW r \in Requests, Attempt(r), ~Commit(r) PROVE record' = record
  BY <1>4 DEF Attempt, InsertProcessing, InsertFindsRow, FindForUpdate,
       FindNothing, Resolve, Reacquired, HandlerReturns, HandlerThrows, Failed,
       Complete, Completed, CompleteThrows, CommitFails, Rollback, Reply
<1>5. ASSUME Environment, \A j \in Keys : ~CleanUp(j) PROVE record' = record
  BY <1>5 DEF Environment, Arrive, Die, Expire
<1> QED BY <1>1, <1>2, <1>3, <1>4, <1>5 DEF Next, Environment, vars

(* What a key's callers are told does not change while its record lives.   *)
THEOREM StoredStaysStored == Spec => StoredResultStable
<1> DEFINE Stable ==
      \A k \in Keys :
        record[k] # NoRecord =>
          \/ record'[k] = record[k]
          \/ record'[k] = NoRecord /\ k \in expired
<1>1. IInv /\ [Next]_vars => [Stable]_vars
  BY StoredStep
<1> QED BY Invariance, <1>1, PTL DEF Spec, StoredResultStable

-----------------------------------------------------------------------------
(* Refinement.                                                             *)

(* The ledger's entry of a key, read off its record.                       *)
Entry(k) == IF record[k] = NoRecord THEN NoOne ELSE record[k].result

(* The effect the database holds for a key is the one its record stores.   *)
LEMMA EffectIs ==
  ASSUME RecordIffEffect, NEW k \in Keys \ Detached
  PROVE  EffectOf(k) = Entry(k)
BY DEF RecordIffEffect, EffectOf, Entry

(* The same of the next state.                                             *)
LEMMA EffectIsNext ==
  ASSUME RecordIffEffect', NEW k \in Keys \ Detached
  PROVE  EffectOf(k)' = Entry(k)'
BY DEF RecordIffEffect, EffectOf, Entry

(* A step that leaves the records and the responses alone, or tells a      *)
(* caller nothing, changes nothing the ledger can see.                     *)
LEMMA QuietStep ==
  ASSUME IInv, IInv', record' = record,
         \A r \in Requests : ToldTo(r)' = ToldTo(r)
  PROVE  UNCHANGED Ledger!ledgerVars
<1>1. \A k \in Keys \ Detached : EffectOf(k)' = EffectOf(k)
  BY EffectIs, EffectIsNext DEF IInv, Entry
<1> QED BY <1>1 DEF Ledger!ledgerVars

(* What a caller is told changes only when the response is formed or lost. *)
LEMMA ToldStep ==
  ASSUME IInv, [Next]_vars, NEW s \in Requests,
         ~Commit(s), ~Reply(s), ~Die(s)
  PROVE  ToldTo(s)' = ToldTo(s)
<1> USE DEF IInv, ToldTo, KeyOf
<1>1. CASE UNCHANGED vars
  BY <1>1 DEF vars
<1>2. ASSUME NEW r \in Requests, Attempt(r), r # s PROVE ToldTo(s)' = ToldTo(s)
  BY <1>2 DEF TypeOK, Attempt, InsertProcessing, InsertFindsRow, FindForUpdate,
       FindNothing, Resolve, Reacquired, HandlerReturns, HandlerThrows, Failed,
       Complete, Completed, CompleteThrows, Commit, CommitFails, Rollback, Reply
<1>3. CASE Attempt(s)
  <2>1. CASE FindNothing(s)
    BY <2>1 DEF FindNothing, TypeOK, Refusal
  <2>2. CASE Rollback(s)
    <3>1. answer[s].result = NoOne
      BY <2>2 DEF Rollback, TypeOK, AnswerInv, Answers
    <3> QED BY <2>2, <3>1 DEF Rollback, TypeOK
  <2>3. CASE ~FindNothing(s) /\ ~Rollback(s)
    BY <1>3, <2>3 DEF TypeOK, Attempt, InsertProcessing, InsertFindsRow,
         FindForUpdate, Resolve, Reacquired, HandlerReturns, HandlerThrows, Failed,
         Complete, Completed,
         CompleteThrows, CommitFails
  <2> QED BY <2>1, <2>2, <2>3
<1>4. CASE Environment
  BY <1>4 DEF Environment, Arrive, Die, Expire, CleanUp, TypeOK
<1> QED BY <1>1, <1>2, <1>3, <1>4 DEF Next

(* A commit carries the command out, replays it, or (of a handler that     *)
(* ignores the transaction) concerns no key of the ledger.                 *)
LEMMA CommitRefines ==
  ASSUME IInv, IInv', NEW r \in Requests, Commit(r)
  PROVE  [Ledger!LedgerNext]_(Ledger!ledgerVars)
<1> USE DEF IInv
<1>0. PICK k \in Keys : k = KeyOf(r)
  BY DEF Commit, LockInv, KeyOf, Calls
<1>1. /\ pc[r] = "commit" /\ pc'[r] = "reply" /\ call' = call
      /\ record' = [record EXCEPT ![k] = working[r]]
      /\ answer' \in {answer, [answer EXCEPT ![r] = Refusal("error")]}
      /\ \A s \in Requests \ {r} : pc'[s] = pc[s]
  BY <1>0 DEF Commit, TypeOK
<1>2. k \in Keys /\ call[r] \in Calls /\ KeyOf(r)' = k
  BY <1>0, <1>1 DEF LockInv, KeyOf, Calls
<1>3. \/ /\ record[k] # NoRecord
         /\ working[r] = record[k]
         /\ answer[r] = Success(record[k].result)
      \/ /\ record[k] = NoRecord
         /\ working[r] = [state |-> "completed", hash |-> call[r].hash,
                          result |-> r]
         /\ answer[r] = Success(r)
  <2> WorkInv
    OBVIOUS
  <2> HIDE DEF IInv
  <2> QED BY <1>0, <1>1 DEF WorkInv
<1>4. answer[r].result = working[r].result /\ working[r] # NoRecord
  BY <1>3 DEF Success, NoRecord
<1>5. answer'[r].result \in {NoOne, working[r].result}
  BY <1>1, <1>4 DEF TypeOK, Refusal
<1>6. \A s \in Requests \ {r} : ToldTo(s)' = ToldTo(s)
  BY <1>1 DEF ToldTo, KeyOf, TypeOK
<1>7. \A j \in Keys \ {k} : Entry(j)' = Entry(j)
  BY <1>1, <1>2 DEF Entry, TypeOK
<1>8. ToldTo(r) = NoOne
  BY <1>1 DEF ToldTo
<1>9. CASE k \in Detached
  <2>1. ToldTo(r)' = NoOne
    BY <1>1, <1>2, <1>9 DEF ToldTo
  <2>2. \A j \in Keys \ Detached : EffectOf(j)' = EffectOf(j)
    BY <1>7, <1>9, EffectIs, EffectIsNext
  <2> QED BY <1>6, <1>8, <2>1, <2>2 DEF Ledger!ledgerVars
<1>10. CASE k \notin Detached
  <2>0. k \in Keys \ Detached
    BY <1>2, <1>10
  <2>1. ToldTo(r)' \in {NoOne, working[r].result}
    BY <1>1, <1>2, <1>5, <1>10 DEF ToldTo
  <2>2. \A j \in Keys \ Detached : j # k => EffectOf(j)' = EffectOf(j)
    BY <1>7, EffectIs, EffectIsNext
  <2>3. EffectOf(k)' = working[r].result
    <3>1. Entry(k)' = working[r].result
      BY <1>1, <1>2, <1>4 DEF Entry, TypeOK
    <3> QED BY <3>1, <2>0, EffectIsNext
  <2>4. CASE record[k] # NoRecord
    <3>1. working[r] = record[k] /\ record[k].result \in Requests
      BY <1>3, <2>4 DEF RecordInv
    <3>2. EffectOf(k) = record[k].result
      BY <2>0, <2>4, EffectIs DEF Entry
    <3>3. \A j \in Keys \ Detached : EffectOf(j)' = EffectOf(j)
      BY <2>2, <2>3, <3>1, <3>2
    <3>4. CASE ToldTo(r)' = NoOne
      BY <1>6, <1>8, <3>3, <3>4 DEF Ledger!ledgerVars
    <3>5. CASE ToldTo(r)' = working[r].result
      <4>1. Ledger!Replay(k, r)
        BY <1>6, <1>8, <2>0, <3>1, <3>2, <3>3, <3>5, NoOneAssumption
           DEF Ledger!Replay
      <4> QED BY <2>0, <4>1 DEF Ledger!LedgerNext
    <3> QED BY <2>1, <3>4, <3>5
  <2>5. CASE record[k] = NoRecord
    <3>1. working[r].result = r
      BY <1>3, <2>5
    <3>2. EffectOf(k) = NoOne
      BY <2>0, <2>5, EffectIs DEF Entry
    <3>3. Ledger!CarryOut(k, r)
      BY <1>6, <1>8, <2>0, <2>1, <2>2, <2>3, <3>1, <3>2 DEF Ledger!CarryOut
    <3> QED BY <2>0, <3>3 DEF Ledger!LedgerNext
  <2> QED BY <2>4, <2>5
<1> QED BY <1>9, <1>10

(* The clean-up forgets a key, if it is one of the ledger's.               *)
LEMMA CleanUpRefines ==
  ASSUME IInv, IInv', NEW k \in Keys, CleanUp(k)
  PROVE  [Ledger!LedgerNext]_(Ledger!ledgerVars)
<1> USE DEF IInv
<1>1. /\ record[k] # NoRecord /\ record' = [record EXCEPT ![k] = NoRecord]
      /\ record[k].result \in Requests
      /\ UNCHANGED <<pc, call, answer>>
  BY DEF CleanUp, RecordInv, States, NoRecord
<1>2. \A s \in Requests : ToldTo(s)' = ToldTo(s)
  BY <1>1 DEF ToldTo, KeyOf
<1>3. \A j \in Keys \ Detached : j # k => EffectOf(j)' = EffectOf(j)
  BY <1>1, EffectIs, EffectIsNext DEF Entry, TypeOK
<1>4. CASE k \in Detached
  BY <1>2, <1>3, <1>4 DEF Ledger!ledgerVars
<1>5. CASE k \notin Detached
  <2>1. EffectOf(k)' = NoOne /\ EffectOf(k) # NoOne /\ k \in Keys \ Detached
    BY <1>1, <1>5, EffectIs, EffectIsNext, NoOneAssumption DEF Entry, TypeOK
  <2>2. Ledger!Forget(k)
    BY <1>2, <1>3, <2>1 DEF Ledger!Forget
  <2> QED BY <2>1, <2>2 DEF Ledger!LedgerNext
<1> QED BY <1>4, <1>5

(* A lost response, or none, is a loss of the ledger.                      *)
LEMMA AnswerRefines ==
  ASSUME IInv, IInv', [Next]_vars, NEW r \in Requests, Reply(r) \/ Die(r)
  PROVE  [Ledger!LedgerNext]_(Ledger!ledgerVars)
<1> USE DEF IInv
<1>1. record' = record /\ call' = call
  BY DEF Reply, Die
<1>2. \A s \in Requests \ {r} : ToldTo(s)' = ToldTo(s)
  BY DEF Reply, Die, ToldTo, KeyOf, TypeOK
<1>3. ToldTo(r)' \in {ToldTo(r), NoOne}
  BY DEF Reply, Die, ToldTo, KeyOf, TypeOK, Refusal
<1>4. CASE ToldTo(r)' = ToldTo(r)
  BY <1>1, <1>2, <1>4, QuietStep
<1>5. CASE ToldTo(r)' = NoOne
  <2>1. \A k \in Keys \ Detached : EffectOf(k)' = EffectOf(k)
    BY <1>1, EffectIs, EffectIsNext DEF Entry
  <2>2. Ledger!Lose(r)
    BY <1>2, <1>5, <2>1 DEF Ledger!Lose
  <2> QED BY <2>2 DEF Ledger!LedgerNext
<1> QED BY <1>3, <1>4, <1>5

(* Every step of the layer is a step of CommandLedger or changes nothing   *)
(* it can see.                                                             *)
LEMMA StepRefines ==
  ASSUME IInv, [Next]_vars
  PROVE  [Ledger!LedgerNext]_(Ledger!ledgerVars)
<1>1. IInv'
  BY StepIInv
<1>2. CASE \E r \in Requests : Commit(r)
  BY <1>1, <1>2, CommitRefines
<1>3. CASE \E k \in Keys : CleanUp(k)
  BY <1>1, <1>3, CleanUpRefines
<1>4. CASE \E r \in Requests : Reply(r) \/ Die(r)
  BY <1>1, <1>4, AnswerRefines
<1>5. CASE /\ \A r \in Requests : ~Commit(r) /\ ~Reply(r) /\ ~Die(r)
           /\ \A k \in Keys : ~CleanUp(k)
  <2>1. record' = record
    BY <1>5 DEF Next, vars, Environment, Arrive, Expire, Attempt,
         InsertProcessing, InsertFindsRow, FindForUpdate, FindNothing, Resolve,
         Reacquired, HandlerReturns, HandlerThrows, Failed, Complete, Completed,
         CompleteThrows, CommitFails,
         Rollback
  <2>2. \A s \in Requests : ToldTo(s)' = ToldTo(s)
    BY <1>5, ToldStep
  <2> QED BY <1>1, <2>1, <2>2, QuietStep
<1> QED BY <1>2, <1>3, <1>4, <1>5

(* Seen from outside, every command that writes through the transaction is *)
(* carried out atomically and at most once while its key is remembered.    *)
THEOREM CommandsImplementLedger == Spec => ImplementsLedger
<1>1. Init => Ledger!LedgerInit
  BY NoOneAssumption DEF Init, Ledger!LedgerInit, EffectOf, LiveEffects, ToldTo
<1>2. IInv /\ [Next]_vars => [Ledger!LedgerNext]_(Ledger!ledgerVars)
  BY StepRefines
<1> QED BY Invariance, <1>1, <1>2, PTL
          DEF Spec, ImplementsLedger, Ledger!LedgerSpec

=============================================================================

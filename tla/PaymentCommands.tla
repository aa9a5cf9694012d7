--------------------------- MODULE PaymentCommands ---------------------------
(***************************************************************************)
(* What administrators do to the payment of a lead and to its export, over *)
(* a pool of database connections: payment.service.js,                     *)
(* docketwise-admin.service.js, their repositories, db/transaction.js and  *)
(* db/pool.js, with the statements of the DSAR erasure that meet the same  *)
(* rows in another order.                                                  *)
(*                                                                         *)
(* A command keeps one connection from its BEGIN to its end.  Its handler  *)
(* reads before it writes, and reads through the pool: for each read it    *)
(* needs a second connection for a moment, and for the erasure, whose      *)
(* handler takes no client, to the end.  An UPDATE keeps its row locked    *)
(* until the command ends, and nothing shows before the commit.            *)
(***************************************************************************)
EXTENDS Naturals, Sequences, FiniteSets

CONSTANTS
  Commands,   \* commands under way
  PoolMax,    \* DB_POOL_MAX
  Statuses,   \* PAYMENT_STATUSES
  Pending,    \* of them, the status a submission begins with
  Nobody      \* not a command

VARIABLES
  row,        \* the committed columns of the lead's rows
  holder,     \* holder[t]: the command that has the row of table t locked
  conn,       \* conn[c]: connections that command c keeps
  pc,         \* pc[c]: 0 idle, 1 before its first connection, then its plan
  local       \* local[c]: what it is asked for and has written

vars == <<row, holder, conn, pc, local>>

-----------------------------------------------------------------------------
Tables == {"payments", "intakes", "docketwise_sync"}

(* payments.status and hosted_payment_url, docketwise_sync.status, and the *)
(* copies of the two statuses in intakes.                                  *)
Columns == [status: Statuses, url: BOOLEAN, export: BOOLEAN,
            intakeStatus: Statuses, intakeExport: BOOLEAN]

(* What each kind of command does in turn: the reads, the tables whose rows *)
(* it writes, the second connection that the erasure takes for its own     *)
(* transaction.                                                            *)
UpdateLeadPaymentStatus == <<"look", "payments", "intakes", "audit">>
SetLeadHostedPaymentUrl == <<"payments">>
SyncLeadToDocketwise == <<"look", "look", "look", "docketwise_sync", "intakes">>
EraseLeads == <<"nest", "intakes", "payments", "docketwise_sync">>

Plans ==
  [status |-> UpdateLeadPaymentStatus, url |-> SetLeadHostedPaymentUrl,
   sync |-> SyncLeadToDocketwise, erase |-> EraseLeads]

Kinds == DOMAIN Plans
Idle == [kind |-> "url", status |-> Pending, written |-> {}]

(* createPaymentRecord, createIntakeRecord, createDocketwiseSyncRecord:    *)
(* the copies begin as what they are copies of.                            *)
NewPayment == [status |-> Pending, url |-> FALSE]
NewIntake == [intakeStatus |-> Pending, intakeExport |-> FALSE]
NewDocketwiseSync == [export |-> FALSE]

(* persistIntakeSubmission: the rows of one transaction.                   *)
Init ==
  /\ row = [status |-> NewPayment.status, url |-> NewPayment.url,
             export |-> NewDocketwiseSync.export,
             intakeStatus |-> NewIntake.intakeStatus, intakeExport |-> NewIntake.intakeExport]
  /\ holder = [t \in Tables |-> Nobody]
  /\ conn = [c \in Commands |-> 0]
  /\ pc = [c \in Commands |-> 0]
  /\ local = [c \in Commands |-> Idle]

Connections == {k \in Commands \X {1, 2} : k[2] <= conn[k[1]]}
Taken == Cardinality(Connections)

Free == Taken < PoolMax

Todo(c) ==
  LET plan == Plans[local[c].kind] IN
  IF pc[c] = 0 THEN "none"
  ELSE IF pc[c] = 1 THEN "connect"
  ELSE IF pc[c] - 1 > Len(plan) THEN "commit"
  ELSE plan[pc[c] - 1]

Advance(c) == pc' = [pc EXCEPT ![c] = @ + 1]

(* The end of a command, whatever its outcome: locks and connections go.   *)
End(c) ==
  /\ pc' = [pc EXCEPT ![c] = 0]
  /\ local' = [local EXCEPT ![c] = Idle]
  /\ holder' = [t \in Tables |-> IF holder[t] = c THEN Nobody ELSE holder[t]]
  /\ conn' = [conn EXCEPT ![c] = 0]

Start(c, kind, status) ==
  /\ pc[c] = 0
  /\ pc' = [pc EXCEPT ![c] = 1]
  /\ local' = [local EXCEPT ![c] = [Idle EXCEPT !.kind = kind, !.status = status]]
  /\ UNCHANGED <<row, holder, conn>>

Connect(c) ==
  /\ Todo(c) \in {"connect", "nest"}
  /\ Free
  /\ conn' = [conn EXCEPT ![c] = @ + 1]
  /\ Advance(c)
  /\ UNCHANGED <<row, holder, local>>

(* findLatestPaymentByLeadId; findLeadById, findLatestIntakeByLeadId and   *)
(* findLatestDocketwiseSyncByLeadId: the connection is back at once.       *)
Look(c) ==
  /\ Todo(c) = "look"
  /\ Free
  /\ Advance(c)
  /\ UNCHANGED <<row, holder, conn, local>>

(* The columns each statement sets.                                        *)
PaymentStatus(status) == [status |-> status]
IntakePaymentStatus(status) == [intakeStatus |-> status]
HostedPaymentUrl == [url |-> TRUE]
AnonymizedPayment == [url |-> FALSE]
DocketwiseSync == [export |-> TRUE]
IntakeDocketwiseStatus == [intakeExport |-> TRUE]

Sets(c, t) ==
  LET l == local[c] IN
  CASE l.kind = "status" /\ t = "payments" -> PaymentStatus(l.status)
    [] l.kind = "status" /\ t = "intakes" -> IntakePaymentStatus(l.status)
    [] l.kind = "url" -> HostedPaymentUrl
    [] l.kind = "erase" /\ t = "payments" -> AnonymizedPayment
    [] t = "docketwise_sync" -> DocketwiseSync
    [] OTHER -> IntakeDocketwiseStatus

(* The row with what the statements on the tables T set.                   *)
After(c, T) ==
  [f \in DOMAIN row |->
     IF \E t \in T : f \in DOMAIN Sets(c, t)
     THEN Sets(c, CHOOSE t \in T : f \in DOMAIN Sets(c, t))[f]
     ELSE row[f]]

(* Mutant: the copies are written without the command's client.            *)
WriteThroughPool(c) ==
  LET t == Todo(c) IN
  /\ t \in Tables
  /\ holder[t] \in {Nobody, c}
  /\ IF t = "intakes"
     THEN row' = After(c, {t}) /\ UNCHANGED <<holder, local>>
     ELSE /\ holder' = [holder EXCEPT ![t] = c]
          /\ local' = [local EXCEPT ![c].written = @ \cup {t}]
          /\ UNCHANGED row
  /\ Advance(c)
  /\ UNCHANGED conn

Write(c) ==
  LET t == Todo(c) IN
  /\ t \in Tables
  /\ holder[t] \in {Nobody, c}
  /\ holder' = [holder EXCEPT ![t] = c]
  /\ local' = [local EXCEPT ![c].written = @ \cup {t}]
  /\ Advance(c)
  /\ UNCHANGED <<row, conn>>

(* recordAuditEvent with the client: its error is the command's.           *)
Audit(c) ==
  /\ Todo(c) = "audit"
  /\ Advance(c)
  /\ UNCHANGED <<row, holder, conn, local>>

Commit(c) ==
  /\ Todo(c) = "commit"
  /\ row' = After(c, local[c].written)
  /\ End(c)

(* A statement, the audit or the commit fails, the row is not there, or    *)
(* the process dies.                                                       *)
Fail(c) ==
  /\ pc[c] > 1
  /\ End(c)
  /\ UNCHANGED row

(* Mutant: connectionTimeoutMillis is 0.                                   *)
TimeoutNever(c) == FALSE /\ UNCHANGED vars

(* connectionTimeoutMillis: the pool refuses who has waited long.          *)
Timeout(c) ==
  /\ Todo(c) \in {"connect", "nest", "look"}
  /\ ~Free
  /\ End(c)
  /\ UNCHANGED row

(* Commands that wait for each other's rows: PostgreSQL ends one of them.  *)
WaitsFor(c, d) == Todo(c) \in Tables /\ holder[Todo(c)] = d /\ d # c

Deadlock(c) ==
  /\ \E d \in Commands : WaitsFor(c, d) /\ WaitsFor(d, c)
  /\ End(c)
  /\ UNCHANGED row

(* What a command has to wait for, and what it need not.                   *)
Obtain(c) == Connect(c) \/ Look(c) \/ Write(c)
Proceed(c) == Audit(c) \/ Commit(c) \/ Timeout(c) \/ Deadlock(c)

Next ==
  \E c \in Commands :
    \/ \E kind \in Kinds, status \in Statuses : Start(c, kind, status)
    \/ Obtain(c) \/ Proceed(c) \/ Fail(c)

Spec == Init /\ [][Next]_vars

(* A command goes on; the queues for connections and rows are fair; the    *)
(* pool's timer and PostgreSQL's search for deadlocks run.                 *)
Fairness ==
  \A c \in Commands : SF_vars(Obtain(c)) /\ WF_vars(Proceed(c))

-----------------------------------------------------------------------------
(* The types of the variables; the pool is never overdrawn, and only a     *)
(* command with a connection has a row locked.                             *)
TypeOK ==
  /\ row \in Columns
  /\ holder \in [Tables -> Commands \cup {Nobody}]
  /\ conn \in [Commands -> 0..2]
  /\ pc \in [Commands -> 0..7]
  /\ local \in [Commands -> [kind: Kinds, status: Statuses, written: SUBSET Tables]]
  /\ Taken <= PoolMax
  /\ \A t \in Tables : holder[t] # Nobody => conn[holder[t]] > 0

(* However commands overlap, fail and are ended in a deadlock, the intake  *)
(* says of the payment and of the export what their own rows say.          *)
CopiesAgree == row.intakeStatus = row.status /\ row.intakeExport = row.export

(* Every command ends, also when all connections are with commands that    *)
(* wait for another one, or when two wait for each other's rows.           *)
EveryCommandEnds == \A c \in Commands : pc[c] # 0 ~> pc[c] = 0

=============================================================================

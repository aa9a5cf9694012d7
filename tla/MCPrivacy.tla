----------------------------- MODULE MCPrivacy ------------------------------
(* Privacy requests under overlapping handlers, runs of the retention, and  *)
(* the mail that may be sent to an account, for the model checker.  They    *)
(* share no state here: a behaviour is of one of them while the others stay *)
(* where they began.                                                        *)
EXTENDS MCDsarRequests

CONSTANTS
  None, Single,                            \* nothing, and just one handler
  Lead, Document,                          \* a matter
  LogRow, AdminRow, AuditRows, SessionRow  \* the other tables

VARIABLES
  part,                                    \* the part that moves
  now, record, parts, rpc, batch, changes, reported, touched, owed, missed, torn,
  rewritten,
  user, suppressed, sender, out

dsarVars == vars
retentionVars == <<now, record, parts, rpc, batch, changes, reported, touched, owed, missed, torn,
                   rewritten>>
mailVars == <<user, suppressed, sender, out>>

Off == {}
RetentionOff ==
  /\ now = Off /\ record = Off /\ parts = Off /\ rpc = Off /\ batch = Off /\ changes = Off
  /\ reported = Off /\ touched = Off /\ owed = Off /\ missed = Off /\ torn = Off
  /\ rewritten = Off
MailOff == user = Off /\ suppressed = Off /\ sender = Off /\ out = Off

(* A lead and its agreement; two runs of the retention or requests at once. *)
Matter ==
  INSTANCE RetentionProofs WITH
    row <- record, pc <- rpc, local <- batch,
    Logs <- {}, AdminLogs <- {}, Audits <- {}, Sessions <- {},
    Leads <- {Lead}, Documents <- {Document},
    LeadOf <- [d \in {Document} |-> Lead], Rank <- [r \in {Lead, Document} |-> 1],
    Selections <- {{"lead", "document"}}, Limit <- 2, MaxTime <- 1, MaxChanges <- 1

(* Rows of the other tables, two of them in the audit trail, in batches of  *)
(* two; one run or request at a time.                                       *)
LogRows == {LogRow, AdminRow, SessionRow} \cup AuditRows
Rank == CHOOSE f \in [LogRows -> 1..2] :
          /\ \A r, q \in AuditRows : f[r] = f[q] => r = q
          /\ \A r \in LogRows \ AuditRows : f[r] = 1
Logbooks ==
  INSTANCE RetentionProofs WITH
    row <- record, pc <- rpc, local <- batch,
    Logs <- {LogRow}, AdminLogs <- {AdminRow}, Audits <- AuditRows, Sessions <- {SessionRow},
    Leads <- {}, Documents <- {}, LeadOf <- <<>>,
    Selections <- {{"technical_log", "security_audit", "auth_session"}},
    Handlers <- Single, Limit <- 2, MaxTime <- 2, MaxChanges <- 1

ASSUME RetentionParameters == Matter!Parameters /\ Logbooks!Parameters

Mail == INSTANCE MarketingMail WITH local <- sender

MCInit ==
  /\ Init
  /\ \/ part = "dsar" /\ RetentionOff /\ MailOff
     \/ part = "matter" /\ Matter!Init /\ MailOff
     \/ part = "logbooks" /\ Logbooks!Init /\ MailOff
     \/ part = "mail" /\ Mail!Init /\ RetentionOff

MCNext ==
  /\ UNCHANGED part
  /\ \/ part = "dsar" /\ Next /\ UNCHANGED <<retentionVars, mailVars>>
     \/ part = "matter" /\ Matter!Next /\ UNCHANGED <<dsarVars, mailVars>>
     \/ part = "logbooks" /\ Logbooks!Next /\ UNCHANGED <<dsarVars, mailVars>>
     \/ part = "mail" /\ Mail!Next /\ UNCHANGED <<dsarVars, retentionVars>>

MCSpec == MCInit /\ [][MCNext]_<<part, dsarVars, retentionVars, mailVars>>

-----------------------------------------------------------------------------
(* The values of each part are of their types.                              *)
TypesOK ==
  /\ part = "dsar" => TypeOK
  /\ part = "matter" => Matter!TypeOK
  /\ part = "logbooks" => Logbooks!TypeOK
  /\ part = "mail" => Mail!TypeOK

(* Retention: a row is only taken when it is due and not on hold.           *)
TakenForCause ==
  [][/\ part = "matter" => Matter!TakesForCause
     /\ part = "logbooks" => Logbooks!TakesForCause]_<<part, retentionVars>>

(* Retention: a run misses nothing, counts once and anonymizes wholly, but  *)
(* for what conflict checks write later.                                    *)
RunsKeepTheirWord ==
  /\ part = "matter" => Matter!RunsAreRight
  /\ part = "logbooks" => Logbooks!RunsAreRight

(* Mail: none is sent after the opt-out from its category.                  *)
NoMailAfterOptOut == part = "mail" => Mail!NoMailAfterOptOut
=============================================================================

----------------------------- MODULE Retention -----------------------------
(***************************************************************************)
(* Retention of records: services/retention.service.js with                *)
(* repositories/retention.repository.js and domain/retention.policy.js.    *)
(*                                                                         *)
(* A run goes through its categories.  It reads a batch of rows that are   *)
(* due, the oldest first, and then deletes or anonymizes them: in one      *)
(* statement for logs, sessions and audit rows, one after the other for    *)
(* leads and documents.  No transaction covers a run, so administrators    *)
(* change dates and holds, matters move, and conflict checks are written   *)
(* (services/conflict-check.service.js) between its statements.            *)
(*                                                                         *)
(* Left out: the rows that a run writes into the audit trail, but for the  *)
(* failures they cause, and what is in the rows that are erased.           *)
(***************************************************************************)
EXTENDS Naturals, FiniteSets, Sequences

CONSTANTS
  Logs,        \* rows of cookie_consent_logs and one-time tokens
  AdminLogs,   \* rows of admin_audit_log
  Audits,      \* rows of audit_events
  Sessions,    \* rows of auth_refresh_tokens
  Leads,       \* rows of leads
  Documents,   \* rows of agreements
  LeadOf,      \* LeadOf[d]: the lead of document d
  Rank,        \* Rank[r]: the place of r by age; 1 is the oldest
  Selections,  \* the choices of categories that runs are asked for
  Handlers,    \* runs and requests of the staff under way
  Limit,       \* the limit of a batch
  MaxTime,     \* bound on the clock
  MaxChanges,  \* bound on what the staff asks for
  None         \* no date, no row, no stage

VARIABLES
  now,         \* the clock, in retention periods
  row,         \* row[r]: what the engine looks at
  parts,       \* parts[l]: the tables that still tell who lead l is
  pc, local,   \* how far a handler is, and what it has read
  changes,     \* how much the staff has asked for
  reported,    \* observer: reported[r]: how often runs counted r as worked
  touched,     \* observer: touched[h]: rows changed by others in run h
  owed,        \* observer: owed[h]: rows that run h has to work
  missed,      \* observer: rows that a complete run has not worked
  torn,        \* observer: leads whose anonymization stopped half-way
  rewritten    \* observer: leads named again by a later conflict check

observers == <<reported, touched, owed, missed, torn, rewritten>>
vars == <<now, row, parts, pc, local, changes, observers>>

-----------------------------------------------------------------------------
Records == Logs \cup AdminLogs \cup Audits \cup Sessions \cup Leads \cup Documents

Categories == <<"technical_log", "security_audit", "auth_session", "lead", "document">>

Names == {Categories[i] : i \in 1..Len(Categories)}

(* What is supposed of the constants: the tables are finite, those of the  *)
(* matters have rows of their own, and every document belongs to a lead.   *)
Parameters ==
  /\ LeadOf \in [Documents -> Leads] /\ Rank \in [Records -> Nat]
  /\ IsFiniteSet(Records) /\ Leads \cap Documents = {}
  /\ (Leads \cup Documents) \cap (Logs \cup AdminLogs \cup Audits \cup Sessions) = {}
  /\ Limit \in Nat /\ MaxTime \in Nat \ {0} /\ MaxChanges \in Nat
  /\ Selections \subseteq SUBSET Names

(* The categories are always gone through in this order.                   *)
First(todo) ==
  Categories[CHOOSE i \in 1..Len(Categories) :
               /\ Categories[i] \in todo
               /\ \A j \in 1..i - 1 : Categories[j] \notin todo]

InCategory(c) ==
  CASE c = "technical_log"  -> Logs
    [] c = "security_audit" -> Audits \cup AdminLogs
    [] c = "auth_session"   -> Sessions
    [] c = "lead"           -> Leads
    [] c = "document"       -> Documents

Dates == 0..MaxTime + 1
Fates == {"kept", "hidden", "anonymized", "deleted"}
Stages == {"inactive", "review", "engaged"}

(* since: updated_at, created_at, or the end of a session; stage: where    *)
(* the matter of a lead is, or whether a document is approved.             *)
RowSet == [fate: Fates, hold: BOOLEAN, since: Dates, until: Dates \cup {None},
           scheduled: Dates \cup {None}, stage: Stages \cup {"approved"}]

Tables == {"intakes", "lead_conflict_checks"}

Settings == {"schedule", "cancel", "hold", "release", "override"}

Steps == {"idle", "find", "purge", "work", "write", "check", "move"} \cup Tables

(* Of a run: whether it is a dry one, the categories left, the rows it has *)
(* read, whether a batch was full; of an administrator's request: the row, *)
(* the setting and its date; of one that works on a matter: its lead,      *)
(* whether what it will write names somebody, and the stage to move to.    *)
Locals == [dry: BOOLEAN, todo: SUBSET Names, batch: SUBSET Records,
           full: BOOLEAN, target: Records \cup {None}, setting: Settings,
           date: Dates \cup {None}, names: BOOLEAN, stage: Stages \cup {None}]

NoLocal == [dry |-> FALSE, todo |-> {}, batch |-> {}, full |-> FALSE,
            target |-> None, setting |-> "hold", date |-> None,
            names |-> FALSE, stage |-> None]

Fresh == {x \in RowSet : /\ x.fate = "kept" /\ ~x.hold /\ x.since <= 1
                         /\ x.until = None /\ x.scheduled = None}

FirstStages(r) ==
  IF r \in Leads THEN {"inactive", "review"}
  ELSE IF r \in Documents THEN {"inactive", "approved"} ELSE {"inactive"}

Init ==
  /\ now = 1
  /\ row \in [Records -> Fresh]
  /\ \A r \in Records : row[r].stage \in FirstStages(r)
  /\ parts = [l \in Leads |-> Tables]
  /\ pc = [h \in Handlers |-> "idle"]
  /\ local = [h \in Handlers |-> NoLocal]
  /\ changes = 0
  /\ reported = [r \in Records |-> 0]
  /\ touched = [h \in Handlers |-> {}]
  /\ owed = [h \in Handlers |-> {}]
  /\ missed = {}
  /\ torn = {}
  /\ rewritten = {}

-----------------------------------------------------------------------------
(* domain/retention.policy.js; a row is old one period after "since".      *)

Protected == {"review", "engaged"}

ScheduleIsDue(x) == x.scheduled # None /\ x.scheduled <= now

PeriodIsOver(x) == IF x.until # None THEN x.until <= now ELSE x.since < now

LeadEligible(x) ==
  /\ x.stage \notin Protected
  /\ ScheduleIsDue(x) \/ PeriodIsOver(x)

(* An approved document of a protected matter is kept until a date that is *)
(* set for it alone.                                                       *)
DocumentEligible(x, lead) ==
  /\ ~lead.hold
  /\ \/ ScheduleIsDue(x)
     \/ PeriodIsOver(x) /\ ~(x.stage = "approved" /\ lead.stage \in Protected)

Eligible(r) ==
  /\ ~row[r].hold
  /\ r \in Leads => LeadEligible(row[r])
  /\ r \in Documents => DocumentEligible(row[r], row[LeadOf[r]])

(* The WHERE clauses: rows on hold are read with those that are due.       *)
FoundLead(x) ==
  /\ x.stage = "inactive"
  /\ x.hold \/ ScheduleIsDue(x) \/ PeriodIsOver(x)

FoundDocument(x, lead) ==
  /\ lead.fate # "hidden"
  /\ \/ x.hold \/ lead.hold
     \/ /\ ~(x.stage = "approved" /\ lead.stage = "engaged")
        /\ ScheduleIsDue(x) \/ PeriodIsOver(x)

Found(r) ==
  /\ row[r].fate = "kept"
  /\ r \in Leads => FoundLead(row[r])
  /\ r \in Documents => FoundDocument(row[r], row[LeadOf[r]])
  /\ r \in Audits => row[r].hold \/ ScheduleIsDue(row[r]) \/ PeriodIsOver(row[r])
  /\ r \in Logs \cup AdminLogs \cup Sessions => row[r].since < now

(* Mutant: the last row of a batch is left for later.                      *)
OldestShort(S) == {r \in S : Cardinality({q \in S : Rank[q] < Rank[r]}) < Limit - 1}

(* ORDER BY the age, LIMIT the batch; every table has a batch of its own.  *)
Oldest(S) == {r \in S : Cardinality({q \in S : Rank[q] < Rank[r]}) < Limit}

Batch(c) ==
  Oldest({r \in InCategory(c) \cap AdminLogs : Found(r)})
    \cup Oldest({r \in InCategory(c) \ AdminLogs : Found(r)})

(* Mutant: rows are eligible by their age alone.                           *)
WorkableByAge(S) == {r \in S : ~row[r].hold /\ PeriodIsOver(row[r])}

(* The rows of a batch that the run works; the rest it skips.              *)
Workable(S) == {r \in S : Eligible(r)}

-----------------------------------------------------------------------------
Goto(h, step, l) ==
  /\ pc' = [pc EXCEPT ![h] = step]
  /\ local' = [local EXCEPT ![h] = l]

(* What others change while run h is on its way it need not work.          *)
Touch(S) ==
  /\ touched' = [h \in Handlers |-> IF pc[h] = "idle" THEN {} ELSE touched[h] \cup S]
  /\ owed' = [h \in Handlers |-> owed[h] \ S]

Forget(h) ==
  /\ owed' = [owed EXCEPT ![h] = {}]
  /\ touched' = [touched EXCEPT ![h] = {}]

(* A lead, and the documents that are judged by it.                        *)
With(r) == {r} \cup {d \in Documents : LeadOf[d] = r}

-----------------------------------------------------------------------------
(* Runs.                                                                   *)

(* runRetentionJobs, once its start is in the audit trail.                 *)
StartRun(h, dry, selected) ==
  /\ pc[h] = "idle"
  /\ Goto(h, "find", [NoLocal EXCEPT !.dry = dry, !.todo = selected])
  /\ owed' = [owed EXCEPT ![h] =
                IF dry THEN {}
                ELSE {r \in UNION {InCategory(c) : c \in selected} : Found(r) /\ Eligible(r)}]
  /\ touched' = [touched EXCEPT ![h] = {}]
  /\ UNCHANGED <<now, row, parts, changes, reported, missed, torn, rewritten>>

(* To the next row of the batch, or the next category.                     *)
Proceed(h, step, l) == Goto(h, IF l.batch = {} THEN "find" ELSE step, l)

(* The next category's batch.  Rows are judged as they were read; a dry    *)
(* run leaves it at that.                                                  *)
Find(h) ==
  LET l == local[h]
      c == First(l.todo)
      batch == Batch(c)
  IN
  /\ pc[h] = "find" /\ l.todo # {}
  /\ Proceed(h, IF c \in {"lead", "document"} THEN "work" ELSE "purge",
             [l EXCEPT !.batch = IF l.dry THEN {} ELSE Workable(batch),
                       !.todo = @ \ {c},
                       !.full = l.full \/ Cardinality(batch) >= Limit])
  /\ UNCHANGED <<now, row, parts, changes, observers>>

Count(S) == reported' = [r \in Records |-> reported[r] + (IF r \in S THEN 1 ELSE 0)]

(* Mutant: the hold is not looked at again.                                *)
StillOpenOnHold(r) == row[r].fate = "kept"

(* Mutant: a row that another run has anonymized is anonymized again.      *)
StillOpenTwice(r) == ~row[r].hold

(* What the UPDATE looks at again: the row's own hold and fate.            *)
StillOpen(r) == row[r].fate = "kept" /\ ~row[r].hold

(* Audit rows lose who and whence, the others are deleted.                 *)
Purged(S) ==
  [r \in Records |->
     IF r \notin S THEN row[r]
     ELSE [row[r] EXCEPT !.fate = IF r \in Audits THEN "anonymized" ELSE "deleted"]]

(* Logs, sessions and audit rows: one statement for all that were read.    *)
Purge(h) ==
  LET l == local[h]
      S == IF l.batch \cap Audits # {} THEN l.batch \cap Audits ELSE l.batch
      done == {r \in S : StillOpen(r)}
  IN
  /\ pc[h] = "purge"
  /\ row' = Purged(done)
  /\ Count(done)
  /\ Proceed(h, "purge", [l EXCEPT !.batch = @ \ S])
  /\ UNCHANGED <<now, parts, changes, touched, owed, missed, torn, rewritten>>

NextOf(batch) == {r \in batch : \A q \in batch : Rank[r] <= Rank[q]}

(* The UPDATE by id, which changes nothing when it finds the row closed.   *)
Anonymize(r) ==
  IF StillOpen(r)
  THEN row' = [row EXCEPT ![r].fate = "anonymized"] /\ Count({r})
  ELSE UNCHANGED <<row, reported>>

(* runLeadRetention; the lead's other tables follow its row.               *)
AnonymizeLead(h) ==
  LET l == local[h] IN
  /\ pc[h] = "work"
  /\ \E r \in NextOf(l.batch) \cap Leads :
       LET rest == [l EXCEPT !.batch = @ \ {r}] IN
       /\ Anonymize(r)
       /\ IF StillOpen(r) THEN Goto(h, "intakes", [rest EXCEPT !.target = r])
                          ELSE Proceed(h, "work", rest)
  /\ UNCHANGED <<now, parts, changes, touched, owed, missed, torn, rewritten>>

(* runDocumentRetention, agreements and packets alike.                     *)
AnonymizeDocument(h) ==
  LET l == local[h] IN
  /\ pc[h] = "work"
  /\ \E r \in NextOf(l.batch) \cap Documents :
       Anonymize(r) /\ Proceed(h, "work", [l EXCEPT !.batch = @ \ {r}])
  /\ UNCHANGED <<now, parts, changes, touched, owed, missed, torn, rewritten>>

(* Mutant: the conflict check keeps the opposing party's name.             *)
TablesAfterNone(table) == {}

(* anonymizeLeadById comes to the intake first, then to the check.         *)
TablesAfter(table) == IF table = "intakes" THEN {"lead_conflict_checks"} ELSE {}

(* The two other statements of anonymizeLeadById.                          *)
AnonymizeParts(h) ==
  LET l == local[h] IN
  /\ pc[h] \in Tables
  /\ parts' = [parts EXCEPT ![l.target] = @ \ {pc[h]}]
  /\ \/ \E table \in TablesAfter(pc[h]) : Goto(h, table, l)
     \/ /\ TablesAfter(pc[h]) = {}
        /\ Proceed(h, "work", [l EXCEPT !.target = None])
  /\ rewritten' = IF pc[h] = "lead_conflict_checks" THEN rewritten \ {l.target} ELSE rewritten
  /\ UNCHANGED <<now, row, changes, reported, touched, owed, missed, torn>>

Torn(h) == IF pc[h] \in Tables THEN torn \cup {local[h].target} ELSE torn

(* A statement on one row fails: the error is counted and the run goes on. *)
FailRow(h) ==
  LET l == local[h] IN
  /\ torn' = Torn(h)
  /\ \/ /\ pc[h] = "work"
        /\ \E r \in NextOf(l.batch) :
             /\ Proceed(h, "work", [l EXCEPT !.batch = @ \ {r}])
             /\ owed' = [owed EXCEPT ![h] = @ \ {r}]
     \/ /\ pc[h] \in Tables
        /\ Proceed(h, "work", [l EXCEPT !.target = None])
        /\ UNCHANGED owed
  /\ UNCHANGED <<now, row, parts, changes, reported, touched, missed, rewritten>>

(* The run is over, and its summary goes into the audit trail.             *)
Complete(h) ==
  LET l == local[h] IN
  /\ pc[h] = "find" /\ l.todo = {}
  /\ missed' = IF l.full THEN missed ELSE missed \cup {r \in owed[h] : row[r].fate = "kept"}
  /\ Goto(h, "idle", NoLocal)
  /\ Forget(h)
  /\ UNCHANGED <<now, row, parts, changes, reported, torn, rewritten>>

(* Any other failure ends the run, or the request, where it is.            *)
Die(h) ==
  /\ pc[h] # "idle"
  /\ torn' = Torn(h)
  /\ Goto(h, "idle", NoLocal)
  /\ Forget(h)
  /\ UNCHANGED <<now, row, parts, changes, reported, missed, rewritten>>

-----------------------------------------------------------------------------
(* applyRetentionAdminAction: it reads the target and then writes it.      *)

(* findRetentionTarget: rows that are deleted are not found.               *)
Targets == {r \in Audits \cup Leads \cup Documents : row[r].fate # "hidden"}

Ask(h, r, setting, date) ==
  /\ pc[h] = "idle" /\ changes < MaxChanges
  /\ r \in Targets
  /\ (date # None) <=> (setting \in {"schedule", "override"})
  /\ ~(row[r].hold /\ date # None)
  /\ changes' = changes + 1
  /\ Goto(h, "write", [NoLocal EXCEPT !.target = r, !.setting = setting, !.date = date])
  /\ Forget(h)
  /\ UNCHANGED <<now, row, parts, reported, missed, torn, rewritten>>

Patched(x, setting, date) ==
  CASE setting = "schedule" -> [x EXCEPT !.scheduled = date, !.until = None]
    [] setting = "cancel"   -> [x EXCEPT !.scheduled = None]
    [] setting = "hold"     -> [x EXCEPT !.hold = TRUE]
    [] setting = "release"  -> [x EXCEPT !.hold = FALSE]
    [] setting = "override" -> [x EXCEPT !.until = date, !.scheduled = None]

(* updateRetentionOverride, by the id alone.                               *)
Overridden(r, setting, date) == [row EXCEPT ![r] = Patched(@, setting, date)]

Write(h) ==
  LET l == local[h] IN
  /\ pc[h] = "write"
  /\ row' = Overridden(l.target, l.setting, l.date)
  /\ Goto(h, "idle", NoLocal)
  /\ Touch(With(l.target))
  /\ UNCHANGED <<now, parts, changes, reported, missed, torn, rewritten>>

-----------------------------------------------------------------------------
(* The staff works on matters.  A handler reads the lead, and what it has  *)
(* read decides what it writes some statements later, by the id alone.     *)

(* domain/lead-state.policy.js, as far as the retention tells the statuses *)
(* apart: who is accepted, engaged or filed comes from a review.           *)
Transitions == (Stages \X Stages) \ {<<"inactive", "engaged">>, <<"engaged", "review">>}

(* loadLeadForWorkflow, and the check of the transition.                   *)
Consider(h, l, step, names, stage) ==
  /\ pc[h] = "idle" /\ changes < MaxChanges
  /\ row[l].fate # "hidden"
  /\ stage # None => <<row[l].stage, stage>> \in Transitions
  /\ changes' = changes + 1
  /\ Goto(h, step, [NoLocal EXCEPT !.target = l, !.names = names, !.stage = stage])
  /\ Forget(h)
  /\ UNCHANGED <<now, row, parts, reported, missed, torn, rewritten>>

(* updateLeadState.                                                        *)
ConsiderMove(h, l, stage) == stage # None /\ Consider(h, l, "move", FALSE, stage)

(* submitConflictCheck takes the client's name from the lead, and          *)
(* updateConflictCheck what is not asked to be changed from the check as   *)
(* it was; the rest is typed by the staff and may name anybody.  A check   *)
(* that finds no conflict leads on, one that finds a conflict declines.    *)
ConsiderCheck(h, l, names, stage) ==
  /\ ~names => row[l].fate # "kept" \/ "lead_conflict_checks" \notin parts[l]
  /\ stage # "engaged"
  /\ Consider(h, l, "check", names, stage)

(* upsertConflictCheck looks neither at the lead nor at the check.  For    *)
(* the way on, though not to decline, the lead is read once more.          *)
WriteCheck(h) ==
  LET l == local[h]
      goes == /\ l.stage # None
              /\ l.stage = "review" => /\ row[l.target].fate # "hidden"
                                       /\ <<row[l.target].stage, l.stage>> \in Transitions
  IN
  /\ pc[h] = "check"
  /\ parts' = [parts EXCEPT ![l.target] =
                 IF l.names THEN @ \cup {"lead_conflict_checks"}
                            ELSE @ \ {"lead_conflict_checks"}]
  /\ rewritten' = IF l.names /\ row[l.target].fate = "anonymized"
                  THEN rewritten \cup {l.target} ELSE rewritten
  /\ IF goes THEN Goto(h, "move", l) ELSE Goto(h, "idle", NoLocal)
  /\ UNCHANGED <<now, row, changes, reported, touched, owed, missed, torn>>

(* updateLeadStateById, which passes over a lead that is deleted.          *)
Moved(l, stage) ==
  IF row[l].fate = "hidden" THEN row
  ELSE [row EXCEPT ![l].stage = stage, ![l].since = now]

(* The matter moves, and counts as updated.                                *)
Move(h) ==
  LET l == local[h] IN
  /\ pc[h] = "move"
  /\ row' = Moved(l.target, l.stage)
  /\ Goto(h, "idle", NoLocal)
  /\ Touch(With(l.target))
  /\ UNCHANGED <<now, parts, changes, reported, missed, torn, rewritten>>

(* softDeleteLeadById.                                                     *)
Hide(l) ==
  /\ row[l].fate # "hidden"
  /\ changes < MaxChanges
  /\ changes' = changes + 1
  /\ row' = [row EXCEPT ![l].fate = "hidden"]
  /\ Touch(With(l))
  /\ UNCHANGED <<now, parts, pc, local, reported, missed, torn, rewritten>>

Tick ==
  /\ now < MaxTime
  /\ now' = now + 1
  /\ UNCHANGED <<row, parts, pc, local, changes, observers>>

Next ==
  \/ \E h \in Handlers :
       \/ \E dry \in BOOLEAN, selected \in Selections : StartRun(h, dry, selected)
       \/ Find(h) \/ Purge(h)
       \/ AnonymizeLead(h) \/ AnonymizeDocument(h) \/ AnonymizeParts(h)
       \/ FailRow(h) \/ Complete(h) \/ Die(h)
       \/ \E r \in Records, s \in Settings, date \in Dates \cup {None} : Ask(h, r, s, date)
       \/ \E l \in Leads, stage \in Stages \cup {None} :
            \/ ConsiderMove(h, l, stage)
            \/ \E names \in BOOLEAN : ConsiderCheck(h, l, names, stage)
       \/ Write(h) \/ WriteCheck(h) \/ Move(h)
  \/ \E l \in Leads : Hide(l)
  \/ Tick

Spec == Init /\ [][Next]_vars

-----------------------------------------------------------------------------
TypeOK ==
  /\ now \in 1..MaxTime
  /\ row \in [Records -> RowSet]
  /\ parts \in [Leads -> SUBSET Tables]
  /\ pc \in [Handlers -> Steps]
  /\ local \in [Handlers -> Locals]
  /\ changes \in 0..MaxChanges
  /\ reported \in [Records -> Nat]
  /\ touched \in [Handlers -> SUBSET Records]
  /\ owed \in [Handlers -> SUBSET Records]
  /\ missed \subseteq Records
  /\ torn \subseteq Leads /\ rewritten \subseteq Leads

Taken(r) == row[r].fate = "kept" /\ row'[r].fate \in {"anonymized", "deleted"}

(* A run never takes a row that is on hold, however late the hold came,    *)
(* and a row that is not due any more, or whose matter is protected, only  *)
(* when somebody has changed it since the run began.                       *)
TakesForCause ==
  \A r \in Records :
    Taken(r) =>
      /\ ~row[r].hold
      /\ (Found(r) /\ Eligible(r)) \/ \E h \in Handlers : r \in touched[h]

TakenForCause == [][TakesForCause]_vars

(* A run that ends without an error and never had a full batch has worked  *)
(* every row that was due when it began and that nobody has changed.       *)
NothingIsMissed == missed = {}

(* Runs that overlap do not report one row twice.                          *)
CountedOnce == \A r \in Records : reported[r] <= 1

(* A run is at the other tables of lead l.                                 *)
BeingWorked(l) == \E h \in Handlers : pc[h] \in Tables /\ local[h].target = l

(* An anonymized lead leaves no name in its other tables, unless a         *)
(* statement failed or the process died between the three; only a conflict *)
(* check that is written later names somebody again, and there alone.      *)
AnonymizedWholly ==
  \A l \in Leads \ torn :
    row[l].fate = "anonymized" /\ ~BeingWorked(l) =>
      parts[l] \subseteq (IF l \in rewritten THEN {"lead_conflict_checks"} ELSE {})

(* The three together: what a run reports as done is done, wholly and once.*)
RunsAreRight == NothingIsMissed /\ CountedOnce /\ AnonymizedWholly

=============================================================================

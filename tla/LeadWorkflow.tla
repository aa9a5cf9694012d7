---------------------------- MODULE LeadWorkflow ----------------------------
(***************************************************************************)
(* The staff workflow of one lead: lead-state.service.js,                  *)
(* conflict-check.service.js, the gates of lead-state.policy.js and        *)
(* lead-workflow.policy.js, the documents made for the lead and its        *)
(* deletion.                                                               *)
(*                                                                         *)
(* No handler opens a transaction or locks a row: each query is a          *)
(* statement of its own, so a handler decides on what it read before and   *)
(* writes unconditionally.  An element of Handlers is a place where one    *)
(* request after another is handled; MaxActive says how many of them are   *)
(* at work at once (1: staff who wait for each other).                     *)
(***************************************************************************)
EXTENDS Naturals, FiniteSets

CONSTANTS
  Handlers,    \* requests being handled
  MaxActive,   \* how many of them overlap
  Inputs       \* the requests that arrive

VARIABLES
  lead,       \* the row of leads
  conflict,   \* the result in lead_conflict_checks, "none" without a row
  packet,     \* the row of onboarding_packets
  pc,         \* pc[h]: how far handler h is
  want,       \* want[h]: the request h handles
  read,       \* read[h]: what h has read and what it is to write
  passed      \* observer: what has been the case at some time

vars == <<lead, conflict, packet, pc, want, read, passed>>

-----------------------------------------------------------------------------
States == {"new", "conflict_check", "attorney_review", "accepted",
           "engaged", "declined", "filed"}

(* LEAD_STATE_TRANSITIONS.                                                 *)
Transitions ==
  [s \in States |->
     CASE s = "new"             -> {"conflict_check", "declined"}
       [] s = "conflict_check"  -> {"attorney_review", "declined"}
       [] s = "attorney_review" -> {"accepted", "declined"}
       [] s = "accepted"        -> {"engaged", "declined"}
       [] s = "engaged"         -> {"filed"}
       [] OTHER                 -> {}]

Results == {"pending", "clear", "conflict_found", "needs_more_info"}
Decisions == {"accepted", "declined"}

Leads == [status: States, review: Decisions \cup {"none"},
          confirmed: BOOLEAN, deleted: BOOLEAN]

(* What a request asks for: arg is the result of an update ("absent" for   *)
(* one that edits other fields), the decision of a review or the state of  *)
(* a change of state; confirm confirms the responsible attorney; admin     *)
(* tells an administrator from an attorney.                                *)
LeadRequests ==
  [kind: {"submit", "packet", "agreement", "approve"}, arg: {"absent"},
   confirm: {FALSE}, admin: BOOLEAN]
  \cup [kind: {"delete"}, arg: {"absent"}, confirm: {FALSE}, admin: {TRUE}]
  \cup [kind: {"update"}, arg: Results \cup {"absent"},
        confirm: {FALSE}, admin: BOOLEAN]
  \cup [kind: {"review"}, arg: Decisions, confirm: BOOLEAN, admin: BOOLEAN]
  \cup [kind: {"state"}, arg: States, confirm: {FALSE}, admin: BOOLEAN]

ASSUME MaxActiveAssumption == MaxActive \in Nat
ASSUME InputsAssumption == Inputs \subseteq LeadRequests

NoWant == [kind |-> "none", arg |-> "absent", confirm |-> FALSE, admin |-> FALSE]

Reads == [status: States \cup {"none"}, review: Decisions \cup {"none"},
          confirmed: BOOLEAN, conflict: Results \cup {"none"},
          to: States \cup {"none"}]

NoRead == [status |-> "none", review |-> "none", confirmed |-> FALSE,
           conflict |-> "none", to |-> "none"]

Ended == {"idle", "refused", "failed"}
Steps == {"load", "existing", "upsert", "record", "find", "check", "update",
          "gate", "insert", "approve", "delete"} \cup Ended

TypeOK ==
  /\ lead \in Leads
  /\ conflict \in Results \cup {"none"}
  /\ packet \in {"none", "draft", "approved"}
  /\ pc \in [Handlers -> Steps]
  /\ want \in [Handlers -> LeadRequests \cup {NoWant}]
  /\ read \in [Handlers -> Reads]
  /\ passed \subseteq {"clear", "accepted", "engaged"}

(* createLead: the columns not given have their defaults.                  *)
NewLead == [status |-> "new", review |-> "none", confirmed |-> FALSE,
            deleted |-> FALSE]

Init ==
  /\ lead = NewLead
  /\ conflict = "none"
  /\ packet = "none"
  /\ pc = [h \in Handlers |-> "idle"]
  /\ want = [h \in Handlers |-> NoWant]
  /\ read = [h \in Handlers |-> NoRead]
  /\ passed = {}

(* The handler goes on to a step with what it has read, is refused with an *)
(* AppError, or is done.                                                   *)
Goto(h, step, r) ==
  /\ pc' = [pc EXCEPT ![h] = step]
  /\ read' = [read EXCEPT ![h] = r]
  /\ UNCHANGED want

Refuse(h) == Goto(h, "refused", read[h])

Return(h) ==
  /\ pc' = [pc EXCEPT ![h] = "idle"]
  /\ read' = [read EXCEPT ![h] = NoRead]
  /\ want' = [want EXCEPT ![h] = NoWant]

(* updateLeadState is called with the state to move to.                    *)
MoveTo(h, state) == Goto(h, "find", [NoRead EXCEPT !.to = state])

-----------------------------------------------------------------------------
(* A request arrives, and the lead is loaded.                              *)

Begin(h) ==
  /\ pc[h] \in Ended
  /\ Cardinality({g \in Handlers : pc[g] \notin Ended}) < MaxActive
  /\ \E w \in Inputs :
       /\ want' = [want EXCEPT ![h] = w]
       /\ pc' = [pc EXCEPT ![h] =
            CASE w.kind = "state"               -> "find"
              [] w.kind \in {"delete", "approve"} -> w.kind
              [] OTHER                          -> "load"]
       /\ read' = [read EXCEPT ![h] =
            IF w.kind = "state" THEN [NoRead EXCEPT !.to = w.arg] ELSE NoRead]
  /\ UNCHANGED <<lead, conflict, packet, passed>>

(* loadLeadForWorkflow, or findLeadById of a document request.  Attorneys  *)
(* see leads in every state.                                               *)
Load(h) ==
  /\ pc[h] = "load"
  /\ IF lead.deleted THEN Refuse(h)
     ELSE Goto(h, CASE want[h].kind = "submit"               -> "upsert"
                    [] want[h].kind \in {"update", "review"} -> "existing"
                    [] OTHER                                 -> "gate",
               [NoRead EXCEPT !.status = lead.status, !.review = lead.review,
                              !.confirmed = lead.confirmed])
  /\ UNCHANGED <<lead, conflict, packet, passed>>

-----------------------------------------------------------------------------
(* The conflict check and the attorney's review.                           *)

(* findConflictCheckByLeadId: an update needs a row, a review a clear one. *)
Existing(h) ==
  /\ pc[h] = "existing"
  /\ IF IF want[h].kind = "update" THEN conflict # "none" ELSE conflict = "clear"
     THEN Goto(h, IF want[h].kind = "update" THEN "upsert" ELSE "record",
               [read[h] EXCEPT !.conflict = conflict])
     ELSE Refuse(h)
  /\ UNCHANGED <<lead, conflict, packet, passed>>

(* Mutant: an update that brings no result overwrites the stored one.      *)
NextResultOverwriting(h) ==
  IF want[h].kind = "submit" THEN "pending" ELSE want[h].arg

(* payload.result ?? existing.result                                       *)
NextResult(h) ==
  IF want[h].kind = "submit" THEN "pending"
  ELSE IF want[h].arg = "absent" THEN read[h].conflict ELSE want[h].arg

(* What the upsert leads to, by the status that was read before it.        *)
AfterUpsert(h, result) ==
  LET from == read[h].status IN
  CASE want[h].kind = "submit" /\ from = "new" -> MoveTo(h, "conflict_check")
    [] result = "clear" /\ from = "conflict_check" -> MoveTo(h, "attorney_review")
    [] result = "conflict_found" /\ from # "declined" ->
         IF "declined" \in Transitions[from]
         THEN Goto(h, "update", [NoRead EXCEPT !.to = "declined"])
         ELSE Refuse(h)
    [] OTHER -> Return(h)

(* upsertConflictCheck, with the result of a stale read where the request  *)
(* brings none.                                                            *)
Upsert(h) ==
  LET result == NextResult(h) IN
  /\ pc[h] = "upsert"
  /\ conflict' = result
  /\ passed' = passed \cup (IF result = "clear" THEN {"clear"} ELSE {})
  /\ AfterUpsert(h, result)
  /\ UNCHANGED <<lead, packet>>

(* updateAttorneyReviewByLeadId: a confirmation is never taken back.       *)
Reviewed(l, decision, confirm) ==
  [l EXCEPT !.review = decision, !.confirmed = @ \/ confirm]

(* submitAttorneyReview.  The RETURNING row has no conflict_check_result,  *)
(* so assertLeadCanMoveToAccepted refuses every acceptance after it has    *)
(* been stored; a rejection goes on to move the lead.                      *)
RecordReview(h) ==
  LET decision == want[h].arg IN
  /\ pc[h] = "record"
  /\ IF lead.deleted THEN UNCHANGED <<lead, passed>>
     ELSE /\ lead' = Reviewed(lead, decision, want[h].confirm)
          /\ passed' = passed \cup ({decision} \cap {"accepted"})
  /\ IF decision = "accepted" THEN Refuse(h) ELSE MoveTo(h, "declined")
  /\ UNCHANGED <<conflict, packet>>

-----------------------------------------------------------------------------
(* updateLeadState: read, check, write.                                    *)

AttorneyMoves(from) ==
  CASE from = "conflict_check"  -> {"attorney_review", "declined"}
    [] from = "attorney_review" -> {"accepted", "declined"}
    [] from = "accepted"        -> {"engaged", "declined"}
    [] from = "engaged"         -> {"filed"}
    [] OTHER                    -> {}

(* Mutant: LEAD_STATE_TRANSITIONS is not consulted.                        *)
CanTransitionAnywhere(admin, from, to) == admin \/ to \in AttorneyMoves(from)

CanTransition(admin, from, to) ==
  /\ to \in Transitions[from]
  /\ admin \/ to \in AttorneyMoves(from)

(* findLeadById and assertCanTransitionLeadState.                          *)
Find(h) ==
  LET to == read[h].to IN
  /\ pc[h] = "find"
  /\ IF lead.deleted \/ ~CanTransition(want[h].admin, lead.status, to)
     THEN Refuse(h)
     ELSE Goto(h, "check", [NoRead EXCEPT !.to = to, !.review = lead.review,
                                          !.confirmed = lead.confirmed])
  /\ UNCHANGED <<lead, conflict, packet, passed>>

(* Mutant: only the move to attorney_review is gated.                      *)
PreconditionsForgotten(to, result, review, confirmed) ==
  to = "attorney_review" => result = "clear"

(* assertLeadCanMoveToAttorneyReview, -Accepted and -Engaged; the status   *)
(* they look at has just been checked.                                     *)
Preconditions(to, result, review, confirmed) ==
  /\ to \in {"attorney_review", "accepted", "engaged"} => result = "clear"
  /\ to \in {"accepted", "engaged"} => review = "accepted"
  /\ to = "engaged" => confirmed

(* findConflictCheckByLeadId, findLatestIntakeByLeadId and                 *)
(* assertWorkflowPreconditions; whether the matter is one the firm takes   *)
(* is the intake's business.                                               *)
Check(h) ==
  LET r == read[h] IN
  /\ pc[h] = "check"
  /\ \E available \in BOOLEAN :
       IF /\ Preconditions(r.to, conflict, r.review, r.confirmed)
          /\ r.to = "accepted" => available
       THEN Goto(h, "update", [NoRead EXCEPT !.to = r.to])
       ELSE Refuse(h)
  /\ UNCHANGED <<lead, conflict, packet, passed>>

(* updateLeadStateById: UPDATE ... WHERE id = $1 AND deleted_at IS NULL.   *)
Update(h) ==
  LET to == read[h].to IN
  /\ pc[h] = "update"
  /\ IF lead.deleted
     THEN Refuse(h) /\ UNCHANGED <<lead, passed>>
     ELSE /\ lead' = [lead EXCEPT !.status = to]
          /\ passed' = passed \cup ({to} \cap {"engaged"})
          /\ Return(h)
  /\ UNCHANGED <<conflict, packet>>

(* softDeleteLeadById.                                                     *)
Delete(h) ==
  /\ pc[h] = "delete"
  /\ IF lead.deleted
     THEN Refuse(h) /\ UNCHANGED lead
     ELSE /\ lead' = [lead EXCEPT !.status = "declined", !.deleted = TRUE]
          /\ Return(h)
  /\ UNCHANGED <<conflict, packet, passed>>

-----------------------------------------------------------------------------
(* The documents.                                                          *)

(* Mutant: the gate asks for the attorney's review only.                   *)
DocumentGateOpen(kind, r) == r.review = "accepted"

(* assertLeadCanGenerateAgreement and assertLeadCanGenerateFilingPacket.   *)
DocumentGate(kind, r) ==
  IF kind = "agreement"
  THEN r.status \in {"accepted", "engaged"} /\ r.review = "accepted" /\ r.confirmed
  ELSE r.status = "engaged" /\ r.review = "accepted" /\ conflict = "clear"

(* enrichLeadWithWorkflow and the gate.  An agreement fails behind it:     *)
(* generateAgreementForLead calls a withUnitOfWork nobody imported.        *)
Gate(h) ==
  /\ pc[h] = "gate"
  /\ IF ~DocumentGate(want[h].kind, read[h]) THEN Refuse(h)
     ELSE Goto(h, IF want[h].kind = "agreement" THEN "failed" ELSE "insert", NoRead)
  /\ UNCHANGED <<lead, conflict, packet, passed>>

(* Mutant: an existing packet is made anew.                                *)
InsertAgain(h) ==
  /\ pc[h] = "insert"
  /\ packet' = "draft"
  /\ Return(h)
  /\ UNCHANGED <<lead, conflict, passed>>

(* An existing packet is returned, whether it is found or runs into the    *)
(* unique index.                                                           *)
Insert(h) ==
  /\ pc[h] = "insert"
  /\ packet' = IF packet = "none" THEN "draft" ELSE packet
  /\ Return(h)
  /\ UNCHANGED <<lead, conflict, passed>>

(* approveOnboardingPacket: UPDATE ... WHERE status = 'draft'.             *)
Approve(h) ==
  /\ pc[h] = "approve"
  /\ IF packet = "draft"
     THEN packet' = "approved" /\ Return(h)
     ELSE UNCHANGED packet /\ Refuse(h)
  /\ UNCHANGED <<lead, conflict, passed>>

(* The process or a query fails; what has been written stays.              *)
Die(h) ==
  /\ pc[h] \notin Ended
  /\ Return(h)
  /\ UNCHANGED <<lead, conflict, packet, passed>>

-----------------------------------------------------------------------------
Next ==
  \E h \in Handlers :
    \/ Begin(h)
    \/ Load(h)
    \/ Existing(h)
    \/ Upsert(h)
    \/ RecordReview(h)
    \/ Find(h)
    \/ Check(h)
    \/ Update(h)
    \/ Delete(h)
    \/ Gate(h)
    \/ Insert(h)
    \/ Approve(h)
    \/ Die(h)

Spec == Init /\ [][Next]_vars

-----------------------------------------------------------------------------
(* Safety, however handlers overlap.                                       *)

(* Nobody is taken on as a client on the side: a matter is never accepted  *)
(* before its conflict check has been clear and an attorney has accepted   *)
(* it, nor engaged or filed before a responsible attorney is confirmed.    *)
(* Overlapping handlers can bring a declined lead back, but only to where  *)
(* it has been or could have gone.                                         *)
MattersAreEarned ==
  /\ lead.status \in {"attorney_review", "accepted", "engaged", "filed"} =>
       "clear" \in passed
  /\ lead.status \in {"accepted", "engaged", "filed"} => "accepted" \in passed
  /\ lead.status \in {"engaged", "filed"} =>
       lead.confirmed /\ "engaged" \in passed

(* A filing packet exists only for a matter that has been engaged.         *)
PacketsAreEarned == packet # "none" => {"clear", "accepted", "engaged"} \subseteq passed

(* An approved packet is neither replaced nor sent back to draft, not even *)
(* by a generation that began before the approval.                         *)
ApprovalIsFinal == [][packet = "approved" => packet' = "approved"]_vars

-----------------------------------------------------------------------------
(* Handlers that wait for each other implement the state machine of the    *)
(* policies, although they read in one statement, check in another and     *)
(* write in a third, and may die in between: no self-transition, no step   *)
(* back, nothing after declined or filed, no gate passed by.               *)
Life ==
  INSTANCE LeadLifecycle WITH
    Moves     <- Transitions,
    status    <- lead.status,
    review    <- lead.review,
    confirmed <- lead.confirmed

-----------------------------------------------------------------------------
(* What the documentation says of the review: an attorney who accepts a    *)
(* matter in attorney review, with a clear conflict check, accepts it.     *)
AcceptanceAccepts ==
  \A h \in Handlers :
    /\ want[h].kind = "review" /\ want[h].arg = "accepted"
    /\ read[h].status = "attorney_review" /\ read[h].conflict = "clear"
    => pc[h] # "refused"

=============================================================================

---------------------------- MODULE DsarRequests ----------------------------
(***************************************************************************)
(* The privacy requests (DSAR) of one person with an account: the          *)
(* administrators' handlers of services/dsar.service.js, the deletion      *)
(* workflow behind them and what they do to the person's data.             *)
(*                                                                         *)
(* Every handler reads the request's row, checks what it has read, and     *)
(* later writes some of its columns with an UPDATE by id; there is no lock *)
(* and, but for the erasing statements, no transaction.  Each read and     *)
(* each write is a step, so handlers overlap as their awaits let them, and *)
(* a handler may end after any of them.                                    *)
(*                                                                         *)
(* Left out: request events, notes and audit rows, which no decision       *)
(* reads, and requests of people without an account.                       *)
(***************************************************************************)
EXTENDS Naturals, FiniteSets

CONSTANTS
  Requests,    \* the rows of dsar_requests
  Exports,     \* of type access, export or portability
  Deletions,   \* of type deletion or anonymization
  Objections,  \* of type objection
  OptOuts,     \* of type ccpa_opt_out
  Handlers,    \* administrators' requests under way
  MaxActive,   \* bound on how many are under way at a time
  Inputs       \* what they may ask for

VARIABLES
  row,         \* row[q]: the columns of request q
  files,       \* the requests whose PDF is on disk
  person,      \* the person's data in the other tables
  pc,          \* pc[h]: how far handler h is
  want,        \* want[h]: what it was asked for
  local,       \* local[h]: what it has found and is to write
  identified,  \* observer: the requests that have been verified
  served,      \* observer: those on whose behalf data was changed
  erasers      \* observer: those for which the data was erased

observers == <<identified, served, erasers>>
vars == <<row, files, person, pc, want, local, identified, served, erasers>>

-----------------------------------------------------------------------------
Statuses ==
  {"submitted", "identity_verification_required", "identity_verified",
   "in_review", "action_required", "processing", "partially_completed",
   "completed", "failed", "blocked_by_legal_hold", "denied", "cancelled"}

(* DSAR_STATUS_TRANSITIONS.                                                *)
Transitions ==
  [s \in Statuses |->
     CASE s = "submitted" ->
            {"identity_verification_required", "identity_verified",
             "in_review", "denied", "cancelled"}
       [] s = "identity_verification_required" ->
            {"identity_verified", "denied", "cancelled"}
       [] s = "identity_verified" ->
            {"in_review", "action_required", "processing", "denied", "cancelled"}
       [] s = "in_review" ->
            {"action_required", "processing", "completed",
             "partially_completed", "failed", "denied"}
       [] s = "action_required" ->
            {"processing", "completed", "partially_completed", "failed", "denied"}
       [] s = "processing" -> {"completed", "partially_completed", "failed"}
       [] s \in {"partially_completed", "failed"} -> {"processing"}
       [] OTHER -> {}]

Identities == {"pending", "verified", "failed", "not_required"}

(* payload and path: the stored export and the path of its PDF; personal:  *)
(* the requester's address, message and changes.                           *)
Rows == [status: Statuses, identity: Identities, hold: {"on", "off"},
         payload: BOOLEAN, path: BOOLEAN, personal: BOOLEAN]

(* The account and the latest lead carry the person's name or not; the     *)
(* lead may be soft-deleted; records are the intakes, payments, documents, *)
(* drafts and tokens.                                                      *)
Persons == [account: BOOLEAN, lead: BOOLEAN, removed: BOOLEAN, records: BOOLEAN]

Wants ==
  [kind: {"export", "pdf", "correct", "restrict", "opt_out", "anonymize"},
   q: Requests, arg: {"absent"}]
  \cup [kind: {"identity"}, q: Requests, arg: Identities]
  \cup [kind: {"status"}, q: Requests, arg: Statuses]
  \cup [kind: {"hold"}, q: Requests, arg: {"on", "off"}]
  \cup [kind: {"object"}, q: Requests, arg: {"accepted", "denied"}]

ASSUME TypesAssumption ==
  Exports \cup Deletions \cup Objections \cup OptOuts \subseteq Requests
ASSUME MaxActiveAssumption == MaxActive \in Nat
ASSUME InputsAssumption == Inputs \subseteq Wants

NoWant == [kind |-> "none", q |-> "none", arg |-> "absent"]

(* An UPDATE of a request: "keep" is a column it does not set.             *)
Updates == [status: Statuses \cup {"keep"}, identity: Identities \cup {"keep"},
            hold: {"on", "off", "keep"}, payload: BOOLEAN, path: BOOLEAN]

NoUpdate == [status |-> "keep", identity |-> "keep", hold |-> "keep",
             payload |-> FALSE, path |-> FALSE]

(* paths: the PDFs the deletion is to unlink; failed: one could not be.    *)
Locals == [update: Updates, paths: SUBSET Requests, failed: BOOLEAN]

NoLocal == [update |-> NoUpdate, paths |-> {}, failed |-> FALSE]

Steps == {"idle", "refused", "load", "build", "render", "act", "start",
          "collect", "erase", "unlink", "inspect", "write"}
Ended == {"idle", "refused"}

TypeOK ==
  /\ row \in [Requests -> Rows]
  /\ files \subseteq Requests
  /\ person \in Persons
  /\ pc \in [Handlers -> Steps]
  /\ want \in [Handlers -> Wants \cup {NoWant}]
  /\ local \in [Handlers -> Locals]
  /\ identified \subseteq Requests
  /\ served \subseteq Requests
  /\ erasers \subseteq Requests

(* submitDsarRequest: every type requires the identity to be verified.     *)
Submitted ==
  [status |-> "identity_verification_required", identity |-> "pending",
   hold |-> "off", payload |-> FALSE, path |-> FALSE, personal |-> TRUE]

(* The requests have been made, with or without a session; the person is   *)
(* found by the address.                                                   *)
Init ==
  /\ row = [q \in Requests |-> Submitted]
  /\ files = {}
  /\ person = [account |-> TRUE, lead |-> TRUE, removed |-> FALSE, records |-> TRUE]
  /\ pc = [h \in Handlers |-> "idle"]
  /\ want = [h \in Handlers |-> NoWant]
  /\ local = [h \in Handlers |-> NoLocal]
  /\ identified = {}
  /\ served = {}
  /\ erasers = {}

-----------------------------------------------------------------------------
(* Steps of a handler.                                                     *)

Goto(h, step, l) ==
  /\ pc' = [pc EXCEPT ![h] = step]
  /\ local' = [local EXCEPT ![h] = l]
  /\ UNCHANGED want

End(h, how) ==
  /\ pc' = [pc EXCEPT ![h] = how]
  /\ local' = [local EXCEPT ![h] = NoLocal]
  /\ want' = [want EXCEPT ![h] = NoWant]

(* The last step of most handlers is an UPDATE of the request.             *)
GoWrite(h, update) == Goto(h, "write", [NoLocal EXCEPT !.update = update])

SetStatus(s) == [NoUpdate EXCEPT !.status = s]

(* Mutant: a column that is not given is overwritten.                      *)
UpdatedThroughout(r, u) ==
  [r EXCEPT !.status = u.status, !.identity = u.identity, !.hold = u.hold,
            !.payload = u.payload, !.path = u.path]

(* updateDsarRequest: UPDATE ... WHERE id = $1, of the columns given.      *)
Updated(r, u) ==
  [r EXCEPT !.status = IF u.status = "keep" THEN @ ELSE u.status,
            !.identity = IF u.identity = "keep" THEN @ ELSE u.identity,
            !.hold = IF u.hold = "keep" THEN @ ELSE u.hold,
            !.payload = @ \/ u.payload,
            !.path = @ \/ u.path]

Begin(h) ==
  /\ pc[h] \in Ended
  /\ Cardinality({g \in Handlers : pc[g] \notin Ended}) < MaxActive
  /\ \E w \in Inputs : want' = [want EXCEPT ![h] = w]
  /\ pc' = [pc EXCEPT ![h] = "load"]
  /\ local' = [local EXCEPT ![h] = NoLocal]
  /\ UNCHANGED <<row, files, person, observers>>

-----------------------------------------------------------------------------
(* findDsarRequestById and the checks of what it returns.                  *)

NeedsIdentity == {"export", "pdf", "correct", "restrict", "opt_out",
                  "object", "anonymize"}

(* Mutant: only the exports check the identity.                            *)
IdentityCheckedForExports(w, r) ==
  w.kind \in {"export", "pdf"} => r.identity = "verified"

(* assertIdentityVerified.                                                 *)
IdentityChecked(w, r) == w.kind \in NeedsIdentity => r.identity = "verified"

(* A correction and a restriction do not look at the request's type.       *)
TypeFits(w) ==
  /\ w.kind \in {"export", "pdf"} => w.q \in Exports
  /\ w.kind = "opt_out" => w.q \in OptOuts
  /\ w.kind = "object" => w.q \in Objections
  /\ w.kind = "anonymize" => w.q \in Deletions

(* Mutant: the anonymization forgets the hold.                             *)
HoldIgnored(w, r) == TRUE

(* assertNoLegalHold.                                                      *)
HoldRespected(w, r) == w.kind = "anonymize" => r.hold = "off"

(* Mutant: updateDsarStatus completes deletions as well.                   *)
MoveAllowedCompleting(w, r) == w.kind = "status" => w.arg \in Transitions[r.status]

(* assertStatusTransition, and no deletion is completed by hand.           *)
MoveAllowed(w, r) ==
  /\ w.kind = "identity" /\ w.arg = "verified" =>
       "identity_verified" \in Transitions[r.status]
  /\ w.kind = "status" => /\ w.arg \in Transitions[r.status]
                          /\ w.q \in Deletions => w.arg # "completed"

Allowed(w, r) ==
  TypeFits(w) /\ IdentityChecked(w, r) /\ HoldRespected(w, r) /\ MoveAllowed(w, r)

(* What the handlers go on with.  verifyDsarIdentity: only a decision      *)
(* moves the request.                                                      *)
VerifyIdentity(h, arg) ==
  GoWrite(h, [NoUpdate EXCEPT !.identity = arg,
               !.status = CASE arg = "verified" -> "identity_verified"
                            [] arg = "failed"   -> "denied"
                            [] OTHER            -> "keep"])

(* updateDsarLegalHold: whatever the request's status.                     *)
UpdateLegalHold(h, arg) == GoWrite(h, [NoUpdate EXCEPT !.hold = arg])

(* generateDsarExport stores the copy it builds meanwhile.                 *)
GenerateExport(h) ==
  GoWrite(h, [SetStatus("action_required") EXCEPT !.payload = TRUE])

(* generateDsarPdfExport takes the stored copy, if there is one.           *)
GeneratePdf(h, r) == Goto(h, IF r.payload THEN "render" ELSE "build", NoLocal)

(* applyDsarAnonymization answers with what it finds if an erasure is      *)
(* under way or has been concluded.                                        *)
Anonymize(h, r) ==
  IF r.status \in {"processing", "completed", "partially_completed"}
  THEN End(h, "idle") ELSE Goto(h, "start", NoLocal)

AfterLoad(h, w, r) ==
  CASE w.kind = "identity"  -> VerifyIdentity(h, w.arg)
    [] w.kind = "status"    -> GoWrite(h, SetStatus(w.arg))
    [] w.kind = "hold"      -> UpdateLegalHold(h, w.arg)
    [] w.kind = "object" /\ w.arg = "denied" -> GoWrite(h, SetStatus("denied"))
    [] w.kind = "export"    -> GenerateExport(h)
    [] w.kind = "pdf"       -> GeneratePdf(h, r)
    [] w.kind = "anonymize" -> Anonymize(h, r)
    [] OTHER                -> Goto(h, "act", NoLocal)

Load(h) ==
  LET w == want[h] IN
  /\ pc[h] = "load"
  /\ IF Allowed(w, row[w.q]) THEN AfterLoad(h, w, row[w.q]) ELSE End(h, "refused")
  /\ UNCHANGED <<row, files, person, observers>>

(* The UPDATE that ends a handler.                                         *)
Write(h) ==
  LET q == want[h].q
      u == local[h].update
  IN
  /\ pc[h] = "write"
  /\ row' = [row EXCEPT ![q] = Updated(@, u)]
  /\ identified' = identified \cup (IF u.identity = "verified" THEN {q} ELSE {})
  /\ End(h, "idle")
  /\ UNCHANGED <<files, person, served, erasers>>

-----------------------------------------------------------------------------
(* Exports.                                                                *)

(* generateDsarPdfExport stores the payload it has had to build, ...       *)
Build(h) ==
  LET q == want[h].q IN
  /\ pc[h] = "build"
  /\ row' = [row EXCEPT ![q].payload = TRUE]
  /\ Goto(h, "render", NoLocal)
  /\ UNCHANGED <<files, person, observers>>

(* ... writes the file, and then its path.                                 *)
Render(h) ==
  /\ pc[h] = "render"
  /\ files' = files \cup {want[h].q}
  /\ GoWrite(h, [NoUpdate EXCEPT !.path = TRUE])
  /\ UNCHANGED <<row, person, observers>>

-----------------------------------------------------------------------------
(* Corrections, restrictions, objections and opt-outs: the statement on    *)
(* the person's data, then the status.                                     *)

(* The latest lead that is not removed gets the corrected name.            *)
Corrected(p) == [p EXCEPT !.lead = @ \/ ~p.removed]

Correct(w) == w.kind = "correct" /\ person' = Corrected(person)

(* The account is marked restricted or opted out: nothing is erased.       *)
Mark(w) == w.kind # "correct" /\ UNCHANGED person

Act(h) ==
  LET w == want[h] IN
  /\ pc[h] = "act"
  /\ Correct(w) \/ Mark(w)
  /\ served' = served \cup {w.q}
  /\ GoWrite(h, SetStatus("completed"))
  /\ UNCHANGED <<row, files, identified, erasers>>

-----------------------------------------------------------------------------
(* applyDsarAnonymization and runDsarDeletionWorkflow.                     *)

Start(h) ==
  /\ pc[h] = "start"
  /\ row' = [row EXCEPT ![want[h].q].status = "processing"]
  /\ Goto(h, "collect", NoLocal)
  /\ UNCHANGED <<files, person, observers>>

(* listDsarExportPathsForUser.                                             *)
Collect(h) ==
  /\ pc[h] = "collect"
  /\ Goto(h, "erase", [NoLocal EXCEPT !.paths = {q \in Requests : row[q].path}])
  /\ UNCHANGED <<row, files, person, observers>>

(* A request without what it stores of the person.                         *)
Cleared(r) == [r EXCEPT !.payload = FALSE, !.path = FALSE, !.personal = FALSE]

(* The person's rows, without those of a lead that is removed.             *)
Erased(p) == [account |-> FALSE, lead |-> p.lead /\ p.removed,
              removed |-> p.removed, records |-> FALSE]

(* executeDsarDatabaseDeletion, one transaction: the person's rows, and    *)
(* what every request of the person stores.                                *)
Erase(h) ==
  /\ pc[h] = "erase"
  /\ row' = [q \in Requests |-> Cleared(row[q])]
  /\ person' = Erased(person)
  /\ erasers' = erasers \cup {want[h].q}
  /\ Goto(h, "unlink", local[h])
  /\ UNCHANGED <<files, identified, served>>

(* deleteDsarExportFiles: a file that cannot be removed is counted, and    *)
(* its path is not kept.                                                   *)
Unlink(h) ==
  /\ pc[h] = "unlink"
  /\ \E stuck \in SUBSET (local[h].paths \cap files) :
       /\ files' = files \ (local[h].paths \ stuck)
       /\ Goto(h, "inspect", [local[h] EXCEPT !.failed = stuck # {}])
  /\ UNCHANGED <<row, person, observers>>

(* findRemainingPiiIndicators: leads that are removed are not counted, nor *)
(* files.                                                                  *)
NothingRemains ==
  /\ ~person.account
  /\ ~(person.lead /\ ~person.removed)
  /\ ~person.records
  /\ \A q \in Requests : ~row[q].payload /\ ~row[q].path /\ ~row[q].personal

FinalStatus(clean, failed) ==
  IF failed THEN "partially_completed" ELSE IF clean THEN "completed" ELSE "failed"

(* verifyDsarDeletionComplete; the final status is written in a step of    *)
(* its own.                                                                *)
Inspect(h) ==
  /\ pc[h] = "inspect"
  /\ Goto(h, "write",
          [NoLocal EXCEPT
             !.update = SetStatus(FinalStatus(NothingRemains, local[h].failed))])
  /\ UNCHANGED <<row, files, person, observers>>

-----------------------------------------------------------------------------
(* A handler fails or its process dies; what it has written stays.         *)
Die(h) ==
  /\ pc[h] \notin Ended
  /\ End(h, "idle")
  /\ UNCHANGED <<row, files, person, observers>>

(* The other parts of the program: somebody saves a record of the person,  *)
(* from a request that was let in before or for the firm's own books, or   *)
(* an administrator removes the lead.                                      *)
Record ==
  /\ person' = [person EXCEPT !.records = TRUE]
  /\ UNCHANGED <<row, files, pc, want, local, observers>>

RemoveLead ==
  /\ person' = [person EXCEPT !.removed = TRUE]
  /\ UNCHANGED <<row, files, pc, want, local, observers>>

Next ==
  \/ \E h \in Handlers :
       \/ Begin(h) \/ Load(h) \/ Write(h)
       \/ Build(h) \/ Render(h) \/ Act(h)
       \/ Start(h) \/ Collect(h) \/ Erase(h) \/ Unlink(h) \/ Inspect(h)
       \/ Die(h)
  \/ Record
  \/ RemoveLead

Spec == Init /\ [][Next]_vars

-----------------------------------------------------------------------------
(* Safety, however handlers overlap.                                       *)

(* Nobody's data is copied, changed or erased before the requester has     *)
(* been identified, whatever becomes of the identification in between:     *)
(* the check is on a row read some awaits earlier.                         *)
EffectsAreIdentified ==
  /\ served \cup erasers \subseteq identified
  /\ \A q \in Requests :
       row[q].payload \/ row[q].path \/ q \in files => q \in identified \cap Exports
  /\ erasers \subseteq Deletions

(* A deletion is only ever reported as completed after its data has been   *)
(* erased, or by one of the handlers that do not look at the type: neither *)
(* the table of moves nor a deletion that failed on its way completes it.  *)
CompletionIsWorked ==
  \A q \in Deletions : row[q].status = "completed" => q \in erasers \cup served

-----------------------------------------------------------------------------
(* Handlers that wait for each other implement the decisions of            *)
(* DsarLifecycle, although each reads, acts and writes in separate         *)
(* statements and may fail after any of them: held requests are not        *)
(* erased, unidentified ones not answered, and only an erasure that has    *)
(* taken effect is concluded.                                              *)
Life ==
  INSTANCE DsarLifecycle WITH
    Moves <- Transitions,
    status <- [q \in Requests |-> row[q].status],
    identity <- [q \in Requests |-> row[q].identity],
    hold <- [q \in Requests |-> row[q].hold],
    erased <- erasers

-----------------------------------------------------------------------------
(* What the documentation says of a completed deletion: there is no false  *)
(* "completed", so the data of the person has been erased.                 *)
NoFalseCompleted ==
  \A q \in Deletions : row[q].status = "completed" => q \in erasers

=============================================================================

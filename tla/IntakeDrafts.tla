---------------------------- MODULE IntakeDrafts ----------------------------
(* The intake form of one client, open in several tabs of a browser         *)
(* (frontend/src/context/IntakeContext.jsx), the draft the server keeps of  *)
(* it (intake_drafts, services and repositories/intake-draft) and its       *)
(* submission (services/intake.service.js).                                 *)
(*                                                                          *)
(* A tab has no single request under way: the timer of the autosave waits   *)
(* for no answer.  A save is two statements, each committed by itself; a    *)
(* submission is one transaction, whose replay IdempotentCommand is about.  *)
(* Requests and answers overtake one another and are lost.                  *)
(*                                                                          *)
(* A content of the form is a number, fresh with every edit; Blank is the   *)
(* default state.  Left out: the fields, signing out, other accounts.       *)
(****************************************************************************)
EXTENDS Naturals

CONSTANTS
  Tabs,        \* tabs of the client's browsers
  Calls,       \* requests under way
  None,
  MaxEdits,    \* bound: contents of the form
  MaxVersion   \* bound: versions of the draft

ASSUME BoundsAssumption == MaxEdits \in Nat /\ MaxVersion \in Nat

VARIABLES
  draft,       \* the row of the account in intake_drafts, or None
  leads,       \* the contents that leads have been created from
  tab,         \* tab[t]: the form and what IntakeContext keeps beside it
  call,        \* call[c]: a request, at the server or as its answer
  edits        \* the last content that was used

vars == <<draft, leads, tab, call, edits>>

-----------------------------------------------------------------------------
Blank == 0
Contents == Blank..MaxEdits
Versions == 1..MaxVersion

(* status: with submitted_at it is submitted, past expires_at expired.      *)
Rows == [data: Contents, version: Versions, status: {"open", "submitted", "expired"}]

ASSUME NoneIsNoRow == None \notin Rows

(* findIntakeDraftByUserId: neither submitted nor expired.                  *)
OpenDraft == IF draft # None /\ draft.status = "open" THEN draft ELSE None

(* seen (observer): what the tab has last been told the row contains; None  *)
(* when it has been told nothing, or the row has been deleted since.        *)
(* version: draftVersionRef, or None.  due: the timer of the autosave runs. *)
TabSet == [phase: {"closed", "loading", "ready", "reset"}, form: Contents,
           version: Versions \cup {None}, due: BOOLEAN, seen: Contents \cup {None}]
Closed == [phase |-> "closed", form |-> Blank, version |-> None, due |-> FALSE, seen |-> None]

(* at: sent, found (between the statements of a save), or the answer: done, *)
(* with the row of the draft in got if there is one, or refused.            *)
Idle == [kind |-> "idle"]
Call(t, kind, data, version, seen) ==
  [kind |-> kind, tab |-> t, at |-> "sent", data |-> data, version |-> version,
   seen |-> seen, found |-> None, got |-> None]

Init ==
  /\ draft = None
  /\ leads = {}
  /\ tab = [t \in Tabs |-> Closed]
  /\ call = [c \in Calls |-> Idle]
  /\ edits = Blank

-----------------------------------------------------------------------------
(* The tab.                                                                 *)

Send(c, t, kind) ==
  /\ call[c] = Idle
  /\ call' = [call EXCEPT ![c] =
       CASE kind = "save"   -> Call(t, kind, tab[t].form, tab[t].version, tab[t].seen)
         [] kind = "submit" -> Call(t, kind, tab[t].form, None, None)
         [] OTHER           -> Call(t, kind, Blank, None, None)]

(* loadDraftForUser; the form may be filled in while the draft is loaded.   *)
Open(c, t) ==
  /\ tab[t].phase = "closed"
  /\ Send(c, t, "load")
  /\ tab' = [tab EXCEPT ![t].phase = "loading"]
  /\ UNCHANGED <<draft, leads, edits>>

(* updateField(s): with a loaded draft the effect sets the timer anew.      *)
Edit(t) ==
  /\ tab[t].phase # "closed"
  /\ edits < MaxEdits
  /\ edits' = edits + 1
  /\ tab' = [tab EXCEPT ![t].form = edits', ![t].due = (tab[t].phase = "ready")]
  /\ UNCHANGED <<draft, leads, call>>

(* The timer runs off.                                                      *)
Autosave(c, t) ==
  /\ tab[t].due
  /\ Send(c, t, "save")
  /\ tab' = [tab EXCEPT ![t].due = FALSE]
  /\ UNCHANGED <<draft, leads, edits>>

(* handleSubmit of the last step; what is missing is refused in the tab.    *)
SubmitForm(c, t) ==
  /\ tab[t].phase # "closed" /\ tab[t].form # Blank
  /\ \A d \in Calls : call[d] # Idle => call[d].tab # t \/ call[d].kind # "submit"
  /\ Send(c, t, "submit")
  /\ UNCHANGED <<draft, leads, tab, edits>>

(* resetIntake, when the client returns home: no autosave from then on, as  *)
(* skipNextAutosaveRef stays set until another user is signed in.  Nobody   *)
(* waits for the answer.                                                    *)
Reset(c, t) ==
  /\ tab[t].phase \in {"ready", "reset"}
  /\ call[c] = Idle
  /\ call' = [call EXCEPT ![c] = Call(None, "delete", Blank, None, None)]
  /\ tab' = [tab EXCEPT ![t] = [Closed EXCEPT !.phase = "reset"]]
  /\ UNCHANGED <<draft, leads, edits>>

(* The tab is closed or reloaded; what it has asked to store goes on.       *)
Close(t) ==
  /\ tab[t].phase # "closed"
  /\ tab' = [tab EXCEPT ![t] = Closed]
  /\ call' = [c \in Calls |->
       IF call[c] = Idle \/ call[c].tab # t THEN call[c]
       ELSE IF call[c].kind \in {"save", "submit"} /\ call[c].at \in {"sent", "found"}
       THEN [call[c] EXCEPT !.tab = None] ELSE Idle]
  /\ UNCHANGED <<draft, leads, edits>>

-----------------------------------------------------------------------------
(* The server.                                                              *)

At(c, kinds, stage) == call[c].kind \in kinds /\ call[c].at = stage

(* An answer for a tab that is gone reaches nobody.                         *)
Answer(c, at, got, seen) ==
  LET answer == Call(call[c].tab, call[c].kind, Blank, None, seen) IN
  [call EXCEPT ![c] = IF @.tab = None THEN Idle ELSE [answer EXCEPT !.at = at, !.got = got]]
Answered(c, got, seen) == Answer(c, "done", got, seen)
Refused(c) == Answer(c, "refused", None, None)

(* getIntakeDraftForUser; the answer is the open row or none (204).         *)
Load(c) ==
  /\ At(c, {"load", "reload"}, "sent")
  /\ call' = Answered(c, OpenDraft, IF OpenDraft = None THEN None ELSE draft.data)
  /\ UNCHANGED <<draft, leads, tab, edits>>

(* Mutant: the version the tab names is not compared.                       *)
VersionAnyway(c) == TRUE

(* upsertIntakeDraft: a tab that names no version is not asked for one.     *)
VersionFits(c) ==
  OpenDraft # None /\ call[c].version # None => draft.version = call[c].version

FindDraft(c) ==
  /\ At(c, {"save"}, "sent")
  /\ call' = IF VersionFits(c) THEN [call EXCEPT ![c].at = "found", ![c].found = OpenDraft]
             ELSE Refused(c)
  /\ UNCHANGED <<draft, leads, tab, edits>>

NewRow(data, version) ==
  [data |-> data, version |-> version, status |-> "open"]

Stored(c, version) ==
  /\ version \in Versions
  /\ draft' = NewRow(call[c].data, version)
  /\ call' = Answered(c, draft', call[c].data)
  /\ UNCHANGED <<leads, tab, edits>>

(* The row found is updated while it has the version read and is not        *)
(* submitted; nobody asks again whether it has expired.                     *)
UpdateDraft(c) ==
  /\ At(c, {"save"}, "found") /\ call[c].found # None
  /\ IF draft # None /\ draft.version = call[c].found.version /\ draft.status # "submitted"
     THEN Stored(c, draft.version + 1)
     ELSE /\ call' = Refused(c)
          /\ UNCHANGED <<draft, leads, tab, edits>>

(* No open row was found: INSERT ... ON CONFLICT (user_id) DO UPDATE, which *)
(* reopens a row that is closed.                                            *)
InsertDraft(c) ==
  /\ At(c, {"save"}, "found") /\ call[c].found = None
  /\ Stored(c, IF draft = None THEN 1 ELSE draft.version + 1)

(* createIntakeController: assertProcessingNotRestricted and                *)
(* assertIntakeAvailability may refuse it.                                  *)
RefuseIntake(c) ==
  /\ At(c, {"submit"}, "sent")
  /\ call' = Refused(c)
  /\ UNCHANGED <<draft, leads, tab, edits>>

(* The lead with its intake, booking, payment and export rows is inserted   *)
(* and the draft closed, whatever it contains, in one transaction.          *)
CreateIntake(c) ==
  /\ At(c, {"submit"}, "sent")
  /\ leads' = leads \cup {call[c].data}
  /\ draft' = IF draft = None THEN None ELSE [draft EXCEPT !.status = "submitted"]
  /\ call' = Answered(c, None, None)
  /\ UNCHANGED <<tab, edits>>

(* deleteIntakeDraftForUser: open or not.  Who knew the row knows nothing   *)
(* of the next one, whose versions begin at 1 again.                        *)
DeleteDraft(c) ==
  /\ At(c, {"delete"}, "sent")
  /\ draft' = None
  /\ call' = [d \in Calls |-> IF d = c \/ call[d] = Idle THEN Idle
                              ELSE [call[d] EXCEPT !.seen = None]]
  /\ tab' = [t \in Tabs |-> [tab[t] EXCEPT !.seen = None]]
  /\ UNCHANGED <<leads, edits>>

(* Thirty days without a save.                                              *)
Expire ==
  /\ OpenDraft # None
  /\ draft' = [draft EXCEPT !.status = "expired"]
  /\ UNCHANGED <<leads, tab, call, edits>>

(* The connection or the server fails, at any stage.                        *)
Fail(c) ==
  /\ call[c] # Idle
  /\ call' = [call EXCEPT ![c] = Idle]
  /\ tab' = IF call[c].kind = "load"
            THEN [tab EXCEPT ![call[c].tab].phase = "ready", ![call[c].tab].due = TRUE]
            ELSE tab
  /\ UNCHANGED <<draft, leads, edits>>

-----------------------------------------------------------------------------
(* Answers.                                                                 *)

(* setIntake with the row's content runs the effect, and so the timer.      *)
Shown(c, t) ==
  LET got == call[c].got IN
  IF got = None THEN tab[t]
  ELSE [tab[t] EXCEPT !.form = got.data, !.version = got.version, !.seen = call[c].seen,
                      !.due = (@ \/ tab[t].phase = "ready")]

(* A draft replaces the form; the flag and the effect are free afterwards.  *)
Loaded(c, t) == [Shown(c, t) EXCEPT !.phase = "ready", !.due = TRUE]

Saved(c, t) == [tab[t] EXCEPT !.version = call[c].got.version, !.seen = call[c].seen]

(* setSubmissionResult changes the intake, and the effect sets the timer.   *)
Submitted(c, t) == [tab[t] EXCEPT !.due = (@ \/ tab[t].phase = "ready")]

Receive(c) ==
  LET t == call[c].tab IN
  /\ call[c].kind # "idle" /\ call[c].at \in {"done", "refused"}
  /\ tab' = [tab EXCEPT ![t] =
       CASE call[c].kind = "load"   -> Loaded(c, t)
         [] call[c].kind = "reload" -> Shown(c, t)
         [] call[c].kind = "save" /\ call[c].at = "done"   -> Saved(c, t)
         [] call[c].kind = "submit" /\ call[c].at = "done" -> Submitted(c, t)
         [] OTHER -> tab[t]]
  /\ call' = [call EXCEPT ![c] =
       IF call[c].kind = "save" /\ call[c].at = "refused"
       THEN Call(t, "reload", Blank, None, None)   \* after a 409
       ELSE Idle]
  /\ UNCHANGED <<draft, leads, edits>>

Next ==
  \/ \E c \in Calls, t \in Tabs : Open(c, t) \/ Autosave(c, t) \/ SubmitForm(c, t) \/ Reset(c, t)
  \/ \E t \in Tabs : Edit(t) \/ Close(t)
  \/ \E c \in Calls : Load(c) \/ FindDraft(c) \/ UpdateDraft(c) \/ InsertDraft(c)
       \/ RefuseIntake(c) \/ CreateIntake(c) \/ DeleteDraft(c) \/ Fail(c) \/ Receive(c)
  \/ Expire

Spec == Init /\ [][Next]_vars

-----------------------------------------------------------------------------
CallSet ==
  [kind: {"load", "reload", "save", "submit", "delete"}, tab: Tabs \cup {None},
   at: {"sent", "found", "done", "refused"}, data: Contents, version: Versions \cup {None},
   seen: Contents \cup {None}, found: Rows \cup {None},
   got: Rows \cup {None}]

TypeOK ==
  /\ draft \in Rows \cup {None}
  /\ leads \subseteq Contents
  /\ tab \in [Tabs -> TabSet]
  /\ \A c \in Calls : call[c] \in CallSet \cup {Idle}
  /\ edits \in Contents

(* A save that names a version and finds an open draft replaces the content *)
(* its tab has seen and no other, however many tabs and requests there are, *)
(* unless the row was deleted in between (UPDATE ... WHERE version).        *)
SavesReplaceWhatWasSeen ==
  \A c \in Calls :
    /\ call[c].kind = "save" /\ call[c].found # None
    /\ call[c].version # None /\ call[c].seen # None
    /\ draft # None /\ draft.version = call[c].found.version
    => draft.data = call[c].seen

(* What has been submitted is not a draft any more: the submission closes   *)
(* the draft, and no open draft has the content of a lead.                  *)
SubmittedDraftStaysClosed == OpenDraft # None => OpenDraft.data \notin leads

=============================================================================

--------------------------- MODULE ClientsProofs ----------------------------
(* No save of an intake draft replaces what its tab has not seen, for any   *)
(* number of tabs, requests, contents and versions; and what AccountsProofs *)
(* shows of accounts is so of every account that MCClients puts beside the  *)
(* draft.                                                                   *)
(*                                                                          *)
(* A tab knows a version and a content that belong together for as long as  *)
(* the row has that version: whoever writes the row raises the version, and *)
(* whoever deletes it makes everybody forget.  The invariant says so of     *)
(* every tab, every save and every answer.                                  *)
EXTENDS MCClients, TLAPS

(* Whoever has seen content s in version v of the row: it is not older than *)
(* row d, and is what d contains if d has still this version.               *)
Fits(d, v, s) ==
  s # None /\ v # None =>
    /\ d # None /\ v <= d.version
    /\ d.version = v => d.data = s

(* A row that comes after row d: only its status is another one, or its     *)
(* version is higher.                                                       *)
Later(d, e) ==
  \/ e = d
  \/ /\ d # None /\ e # None
     /\ e.version = d.version /\ e.data = d.data
  \/ /\ e # None
     /\ d # None => d.version < e.version

(* A call, about row d: it, or its answer, knows a content by its version;  *)
(* a save has found the version it names; a save that is done has stored.   *)
CallFits(d, k) ==
  k # Idle =>
    /\ Fits(d, k.version, k.seen)
    /\ k.found # None /\ k.version # None => k.found.version = k.version
    /\ k.got # None => Fits(d, k.got.version, k.seen)
    /\ k.kind = "save" /\ k.at = "done" => k.got # None

TabsFit == \A t \in Tabs : Fits(draft, tab[t].version, tab[t].seen)
CallsFit == \A c \in Calls : CallFits(draft, call[c])

Inv ==
  /\ TypeOK
  /\ call = [c \in Calls |-> call[c]]
  /\ TabsFit
  /\ CallsFit

(* Versions are numbers.                                                    *)
LEMMA VersionsAreNumbers == Versions \subseteq Nat
  BY BoundsAssumption DEF Versions

(* What is known of a row is true of every later one.                       *)
LEMMA FitsLater ==
  ASSUME NEW d \in Rows \cup {None}, NEW e \in Rows \cup {None}, Later(d, e),
         NEW v \in Versions \cup {None}, NEW s, Fits(d, v, s)
  PROVE  Fits(e, v, s)
<1> SUFFICES ASSUME s # None, v # None
             PROVE  e # None /\ v <= e.version /\ (e.version = v => e.data = s)
  BY DEF Fits
<1>1. d # None /\ v <= d.version /\ (d.version = v => d.data = s)
  BY DEF Fits
<1>2. v \in Nat /\ d.version \in Nat
  BY <1>1, VersionsAreNumbers DEF Rows
<1>3. CASE e = d
  BY <1>1, <1>3
<1>4. CASE e # None /\ e.version = d.version /\ e.data = d.data
  BY <1>1, <1>4
<1>5. CASE e # None /\ d.version < e.version
  <2>1. e.version \in Nat
    BY <1>5, VersionsAreNumbers DEF Rows
  <2> QED
    BY <1>1, <1>2, <1>5, <2>1
<1> QED
  BY <1>1, <1>3, <1>4, <1>5 DEF Later

(* So it is of what a call knows.                                           *)
LEMMA CallFitsLater ==
  ASSUME NEW d \in Rows \cup {None}, NEW e \in Rows \cup {None}, Later(d, e),
         NEW k \in CallSet \cup {Idle}, CallFits(d, k)
  PROVE  CallFits(e, k)
<1> SUFFICES ASSUME k # Idle PROVE CallFits(e, k)
  BY DEF CallFits
<1>1. k \in CallSet
  OBVIOUS
<1>2. k.version \in Versions \cup {None}
  BY <1>1 DEF CallSet
<1>3. k.got # None => k.got.version \in Versions
  BY <1>1 DEF CallSet, Rows
<1>4. Fits(e, k.version, k.seen)
  BY <1>2, FitsLater DEF CallFits
<1>5. k.got # None => Fits(e, k.got.version, k.seen)
  BY <1>3, FitsLater DEF CallFits
<1> QED
  BY <1>4, <1>5 DEF CallFits

(* A step keeps the invariant if the row after it is a later one, and every *)
(* tab and call that has learnt something has learnt it of that row.        *)
LEMMA StepInv ==
  ASSUME Inv,
         draft' \in Rows \cup {None}, Later(draft, draft'),
         leads' \subseteq Contents, edits' \in Contents,
         tab' \in [Tabs -> TabSet],
         \A t \in Tabs : \/ tab'[t].version = tab[t].version /\ tab'[t].seen = tab[t].seen
                         \/ Fits(draft', tab'[t].version, tab'[t].seen),
         call' = [c \in Calls |-> call'[c]],
         \A c \in Calls : \/ call'[c] = call[c]
                          \/ call'[c] \in CallSet \cup {Idle} /\ CallFits(draft', call'[c])
  PROVE  Inv'
<1>1. TypeOK /\ TabsFit /\ CallsFit
  BY DEF Inv
<1>2. draft \in Rows \cup {None}
  BY <1>1 DEF TypeOK
<1>3. TypeOK'
  BY <1>1 DEF TypeOK
<1>4. TabsFit'
  <2> SUFFICES ASSUME NEW t \in Tabs PROVE Fits(draft', tab'[t].version, tab'[t].seen)
    BY DEF TabsFit
  <2>1. tab[t].version \in Versions \cup {None}
    BY <1>1 DEF TypeOK, TabSet
  <2>2. Fits(draft, tab[t].version, tab[t].seen)
    BY <1>1 DEF TabsFit
  <2>3. Fits(draft', tab[t].version, tab[t].seen)
    BY <1>2, <2>1, <2>2, FitsLater
  <2> QED
    BY <2>3
<1>5. CallsFit'
  <2> SUFFICES ASSUME NEW c \in Calls PROVE CallFits(draft', call'[c])
    BY DEF CallsFit
  <2>1. call[c] \in CallSet \cup {Idle} /\ CallFits(draft, call[c])
    BY <1>1 DEF TypeOK, CallsFit
  <2>2. CallFits(draft', call[c])
    BY <1>2, <2>1, CallFitsLater
  <2> QED
    BY <2>2
<1> QED
  BY <1>3, <1>4, <1>5 DEF Inv

(* A call that is just made, or forgotten, and knows what its tab knows.    *)
LEMMA NewCall ==
  ASSUME NEW d, NEW t \in Tabs \cup {None},
         NEW kind \in {"load", "reload", "save", "submit", "delete"},
         NEW data \in Contents, NEW v \in Versions \cup {None}, NEW s \in Contents \cup {None},
         Fits(d, v, s)
  PROVE  /\ Call(t, kind, data, v, s) \in CallSet
         /\ CallFits(d, Call(t, kind, data, v, s))
  BY DEF Call, CallSet, CallFits, Idle

(* The steps of a tab that send a request: the row stays, and the call has  *)
(* what the tab has.                                                        *)
LEMMA SendInv ==
  ASSUME Inv, NEW c \in Calls, NEW k, k \in CallSet, CallFits(draft, k),
         call' = [call EXCEPT ![c] = k],
         tab' \in [Tabs -> TabSet],
         \A t \in Tabs : \/ tab'[t].version = tab[t].version /\ tab'[t].seen = tab[t].seen
                         \/ tab'[t].seen = None,
         UNCHANGED <<draft, leads, edits>>
  PROVE  Inv'
<1>1. Later(draft, draft') /\ draft' \in Rows \cup {None} /\ leads' \subseteq Contents
      /\ edits' \in Contents
  BY DEF Later, Inv, TypeOK
<1>2. call' = [d \in Calls |-> IF d = c THEN k ELSE call[d]]
  BY DEF Inv
<1>3. \A d \in Calls : \/ call'[d] = call[d]
                       \/ call'[d] \in CallSet \cup {Idle} /\ CallFits(draft', call'[d])
  BY <1>2
<1>4. call' = [d \in Calls |-> call'[d]]
  BY <1>2
<1>5. \A t \in Tabs : \/ tab'[t].version = tab[t].version /\ tab'[t].seen = tab[t].seen
                      \/ Fits(draft', tab'[t].version, tab'[t].seen)
  BY DEF Fits
<1> QED
  BY <1>1, <1>3, <1>4, <1>5, StepInv

(* loadDraftForUser, the timer, handleSubmit and resetIntake.               *)
LEMMA TabInv ==
  ASSUME Inv, NEW c \in Calls, NEW t \in Tabs,
         Open(c, t) \/ Autosave(c, t) \/ SubmitForm(c, t) \/ Reset(c, t)
  PROVE  Inv'
<1>1. TypeOK /\ TabsFit /\ tab \in [Tabs -> TabSet] /\ tab[t] \in TabSet
  BY DEF Inv, TypeOK
<1>2. /\ tab[t].form \in Contents /\ tab[t].version \in Versions \cup {None}
      /\ tab[t].seen \in Contents \cup {None} /\ Blank \in Contents
      /\ tab[t].phase \in {"closed", "loading", "ready", "reset"} /\ tab[t].due \in BOOLEAN
  BY <1>1, BoundsAssumption DEF TabSet, Contents, Blank
<1>3. Fits(draft, tab[t].version, tab[t].seen) /\ Fits(draft, None, None)
  BY <1>1 DEF TabsFit, Fits
<1>4. CASE Open(c, t)
  <2>1. call' = [call EXCEPT ![c] = Call(t, "load", Blank, None, None)]
    BY <1>4 DEF Open, Send
  <2>2. tab' \in [Tabs -> TabSet]
    BY <1>1, <1>4 DEF Open, TabSet
  <2>3. \A u \in Tabs : tab'[u].version = tab[u].version /\ tab'[u].seen = tab[u].seen
    BY <1>1, <1>4 DEF Open, TabSet
  <2>4. Call(t, "load", Blank, None, None) \in CallSet
        /\ CallFits(draft, Call(t, "load", Blank, None, None))
    BY <1>2, <1>3, NewCall
  <2>5. UNCHANGED <<draft, leads, edits>>
    BY <1>4 DEF Open
  <2> QED
    BY <2>1, <2>2, <2>3, <2>4, <2>5, SendInv
<1>5. CASE Autosave(c, t)
  <2> DEFINE k == Call(t, "save", tab[t].form, tab[t].version, tab[t].seen)
  <2>1. call' = [call EXCEPT ![c] = k]
    BY <1>5 DEF Autosave, Send
  <2>2. tab' \in [Tabs -> TabSet]
    BY <1>1, <1>5 DEF Autosave, TabSet
  <2>3. \A u \in Tabs : tab'[u].version = tab[u].version /\ tab'[u].seen = tab[u].seen
    BY <1>1, <1>5 DEF Autosave, TabSet
  <2>4. k \in CallSet /\ CallFits(draft, k)
    BY <1>2, <1>3, NewCall
  <2>5. UNCHANGED <<draft, leads, edits>>
    BY <1>5 DEF Autosave
  <2> HIDE DEF k
  <2> QED
    BY <2>1, <2>2, <2>3, <2>4, <2>5, SendInv
<1>6. CASE SubmitForm(c, t)
  <2> DEFINE k == Call(t, "submit", tab[t].form, None, None)
  <2>1. call' = [call EXCEPT ![c] = k]
    BY <1>6 DEF SubmitForm, Send
  <2>2. k \in CallSet /\ CallFits(draft, k)
    BY <1>2, <1>3, NewCall
  <2>3. UNCHANGED <<draft, leads, edits, tab>>
    BY <1>6 DEF SubmitForm
  <2> HIDE DEF k
  <2> QED
    BY <1>1, <2>1, <2>2, <2>3, SendInv
<1>7. CASE Reset(c, t)
  <2> DEFINE k == Call(None, "delete", Blank, None, None)
  <2>1. call' = [call EXCEPT ![c] = k]
    BY <1>7 DEF Reset
  <2>2. k \in CallSet /\ CallFits(draft, k)
    BY <1>2, <1>3, NewCall
  <2>3. tab' \in [Tabs -> TabSet]
    BY <1>1, <1>2, <1>7 DEF Reset, Closed, TabSet
  <2>4. \A u \in Tabs : \/ tab'[u].version = tab[u].version /\ tab'[u].seen = tab[u].seen
                        \/ tab'[u].seen = None
    BY <1>1, <1>7 DEF Reset, Closed
  <2>5. UNCHANGED <<draft, leads, edits>>
    BY <1>7 DEF Reset
  <2> HIDE DEF k
  <2> QED
    BY <2>1, <2>2, <2>3, <2>4, <2>5, SendInv
<1> QED
  BY <1>4, <1>5, <1>6, <1>7

(* An edit of the form; the tab is closed.                                  *)
LEMMA UserInv ==
  ASSUME Inv, NEW t \in Tabs, Edit(t) \/ Close(t)
  PROVE  Inv'
<1>1. TypeOK /\ CallsFit /\ tab \in [Tabs -> TabSet] /\ tab[t] \in TabSet
  BY DEF Inv, TypeOK
<1>2. Later(draft, draft') /\ draft' \in Rows \cup {None} /\ leads' \subseteq Contents
  BY <1>1 DEF Later, TypeOK, Edit, Close
<1>3. CASE Edit(t)
  <2>1. edits' \in Contents
    BY <1>1, <1>3, BoundsAssumption DEF Edit, TypeOK, Contents, Blank
  <2>2. tab' \in [Tabs -> TabSet]
    BY <1>1, <1>3, <2>1 DEF Edit, TabSet
  <2>3. \A u \in Tabs : tab'[u].version = tab[u].version /\ tab'[u].seen = tab[u].seen
    BY <1>1, <1>3 DEF Edit, TabSet
  <2>4. call' = call /\ call = [c \in Calls |-> call[c]]
    BY <1>3 DEF Edit, Inv
  <2> QED
    BY <1>2, <2>1, <2>2, <2>3, <2>4, StepInv
<1>4. CASE Close(t)
  <2>1. tab' \in [Tabs -> TabSet]
    BY <1>1, <1>4, BoundsAssumption DEF Close, Closed, TabSet, Contents, Blank
  <2>2. \A u \in Tabs : \/ tab'[u].version = tab[u].version /\ tab'[u].seen = tab[u].seen
                        \/ Fits(draft', tab'[u].version, tab'[u].seen)
    BY <1>1, <1>4 DEF Close, Closed, Fits
  <2>3. \A c \in Calls :
          \/ call'[c] = call[c]
          \/ call'[c] = Idle
          \/ call'[c] = [call[c] EXCEPT !.tab = None] /\ call[c] # Idle
    BY <1>4 DEF Close
  <2>4. ASSUME NEW c \in Calls, call[c] # Idle
        PROVE  /\ [call[c] EXCEPT !.tab = None] \in CallSet
               /\ CallFits(draft, [call[c] EXCEPT !.tab = None])
    <3>1. call[c] \in CallSet /\ CallFits(draft, call[c])
      BY <1>1, <2>4 DEF TypeOK, CallsFit
    <3> QED
      BY <2>4, <3>1 DEF CallSet, CallFits, Idle
  <2>5. draft' = draft /\ edits' \in Contents
    BY <1>1, <1>4 DEF Close, TypeOK
  <2>6. CallFits(draft, Idle)
    BY DEF CallFits
  <2>7. \A c \in Calls : \/ call'[c] = call[c]
                         \/ call'[c] \in CallSet \cup {Idle} /\ CallFits(draft', call'[c])
    BY <2>3, <2>4, <2>5, <2>6
  <2>8. call' = [c \in Calls |-> call'[c]]
    BY <1>4 DEF Close
  <2> QED
    BY <1>2, <2>1, <2>2, <2>5, <2>7, <2>8, StepInv
<1> QED
  BY <1>3, <1>4

(* An answer that says what has just been read or stored.                   *)
LEMMA AnswerFits ==
  ASSUME NEW d \in Rows \cup {None}, NEW k \in CallSet,
         NEW at \in {"done", "refused"}, NEW got \in Rows \cup {None}, NEW s \in Contents \cup {None},
         got # None => Fits(d, got.version, s),
         k.kind = "save" /\ at = "done" => got # None
  PROVE  LET a == [[Call(k.tab, k.kind, Blank, None, s) EXCEPT !.at = at] EXCEPT !.got = got]
         IN  a \in CallSet /\ CallFits(d, a)
<1>1. Blank \in Contents
  BY BoundsAssumption DEF Contents, Blank
<1> QED
  BY <1>1 DEF Call, CallSet, CallFits, Fits, Idle

(* A step of the server that answers call c.                                *)
LEMMA AnswerInv ==
  ASSUME Inv, NEW c \in Calls, call[c] \in CallSet,
         NEW at \in {"done", "refused"}, NEW got \in Rows \cup {None}, NEW s \in Contents \cup {None},
         call' = Answer(c, at, got, s),
         draft' \in Rows \cup {None}, Later(draft, draft'), leads' \subseteq Contents,
         got # None => Fits(draft', got.version, s),
         call[c].kind = "save" /\ at = "done" => got # None,
         UNCHANGED <<tab, edits>>
  PROVE  Inv'
<1> DEFINE a == [[Call(call[c].tab, call[c].kind, Blank, None, s) EXCEPT !.at = at] EXCEPT !.got = got]
<1>1. a \in CallSet /\ CallFits(draft', a)
  BY AnswerFits
<1>2. [Call(call[c].tab, call[c].kind, Blank, None, s) EXCEPT !.at = at, !.got = got] = a
  BY DEF Call
<1>3. call' = [d \in Calls |-> IF d = c THEN (IF call[c].tab = None THEN Idle ELSE a) ELSE call[d]]
  BY <1>2 DEF Answer, Inv
<1>4. CallFits(draft', Idle)
  BY DEF CallFits
<1> HIDE DEF a
<1>5. \A d \in Calls : \/ call'[d] = call[d]
                       \/ call'[d] \in CallSet \cup {Idle} /\ CallFits(draft', call'[d])
  BY <1>1, <1>3, <1>4
<1>6. call' = [d \in Calls |-> call'[d]]
  BY <1>3
<1>7. edits' \in Contents /\ tab' \in [Tabs -> TabSet]
  BY DEF Inv, TypeOK
<1> QED
  BY <1>5, <1>6, <1>7, StepInv

(* A save that stores: whatever the row was, its version is higher now.     *)
LEMMA StoredInv ==
  ASSUME Inv, NEW c \in Calls, call[c] \in CallSet, NEW version \in Nat,
         Stored(c, version), draft # None => draft.version < version
  PROVE  Inv'
<1>1. /\ version \in Versions
      /\ draft' = NewRow(call[c].data, version) /\ call' = Answered(c, draft', call[c].data)
      /\ UNCHANGED <<leads, tab, edits>>
  BY DEF Stored
<1>2. call[c].data \in Contents
  BY DEF CallSet
<1>3. /\ draft' \in Rows /\ draft' # None
      /\ draft'.version = version /\ draft'.data = call[c].data
  BY <1>1, <1>2, NoneIsNoRow DEF NewRow, Rows
<1>4. Later(draft, draft')
  BY <1>3 DEF Later
<1>5. Fits(draft', draft'.version, call[c].data)
  BY <1>3, VersionsAreNumbers DEF Fits
<1>6. leads' \subseteq Contents
  BY <1>1 DEF Inv, TypeOK
<1>7. call' = Answer(c, "done", draft', call[c].data)
  BY <1>1 DEF Answered
<1> QED
  BY <1>1, <1>2, <1>3, <1>4, <1>5, <1>6, <1>7, AnswerInv

(* A request that is refused.                                               *)
LEMMA RefusedInv ==
  ASSUME Inv, NEW c \in Calls, call[c] \in CallSet, call' = Refused(c),
         UNCHANGED <<draft, leads, tab, edits>>
  PROVE  Inv'
<1>1. draft' \in Rows \cup {None} /\ Later(draft, draft') /\ leads' \subseteq Contents
  BY DEF Inv, TypeOK, Later
<1>2. call' = Answer(c, "refused", None, None)
  BY DEF Refused
<1> QED
  BY <1>1, <1>2, AnswerInv

(* The steps of the server.                                                 *)
LEMMA ServerInv ==
  ASSUME Inv, NEW c \in Calls,
         \/ Load(c) \/ FindDraft(c) \/ UpdateDraft(c) \/ InsertDraft(c)
         \/ RefuseIntake(c) \/ CreateIntake(c) \/ DeleteDraft(c)
  PROVE  Inv'
<1>1. TypeOK /\ TabsFit /\ CallsFit /\ draft \in Rows \cup {None}
  BY DEF Inv, TypeOK
<1>2. call[c] \in CallSet
  BY <1>1 DEF TypeOK, Idle, Load, FindDraft, UpdateDraft, InsertDraft, RefuseIntake,
              CreateIntake, DeleteDraft, At
<1>3. OpenDraft \in {draft, None}
  BY DEF OpenDraft
<1>4. leads \subseteq Contents /\ edits \in Contents /\ tab \in [Tabs -> TabSet]
  BY <1>1 DEF TypeOK
<1>5. CASE Load(c)
  <2> DEFINE s == IF OpenDraft = None THEN None ELSE draft.data
  <2>1. call' = Answer(c, "done", OpenDraft, s)
    BY <1>5 DEF Load, Answered
  <2>2. OpenDraft # None => draft # None /\ OpenDraft = draft
    BY <1>3
  <2>3. s \in Contents \cup {None} /\ OpenDraft \in Rows \cup {None}
    BY <1>1, <2>2 DEF Rows
  <2>4. OpenDraft # None => Fits(draft, OpenDraft.version, s)
    <3> SUFFICES ASSUME OpenDraft # None PROVE Fits(draft, draft.version, draft.data)
      BY <2>2
    <3>1. draft # None /\ draft.version \in Nat
      BY <1>1, <2>2, VersionsAreNumbers DEF Rows
    <3> QED
      BY <3>1 DEF Fits
  <2>5. UNCHANGED <<draft, leads, tab, edits>> /\ call[c].kind # "save"
    BY <1>5 DEF Load, At
  <2>6. Later(draft, draft')
    BY <2>5 DEF Later
  <2> HIDE DEF s
  <2> QED
    BY <1>1, <1>2, <1>4, <2>1, <2>3, <2>4, <2>5, <2>6, AnswerInv
<1>6. CASE FindDraft(c)
  <2>1. CASE ~VersionFits(c)
    BY <1>2, <1>6, <2>1, RefusedInv DEF FindDraft
  <2>2. CASE VersionFits(c)
    <3> DEFINE k == [[call[c] EXCEPT !.at = "found"] EXCEPT !.found = OpenDraft]
    <3>1. call' = [call EXCEPT ![c] = k]
      BY <1>2, <1>6, <2>2 DEF FindDraft, Inv
    <3>2. k \in CallSet
      BY <1>1, <1>2, <1>3 DEF CallSet
    <3>3. OpenDraft # None /\ call[c].version # None => OpenDraft.version = call[c].version
      BY <1>3, <2>2 DEF VersionFits
    <3>4. CallFits(draft, call[c]) /\ call[c] # Idle
      BY <1>1, <1>2 DEF CallsFit, CallSet, Idle
    <3>5. CallFits(draft, k)
      BY <1>2, <3>3, <3>4 DEF CallFits, CallSet
    <3>6. UNCHANGED <<draft, leads, tab, edits>>
      BY <1>6 DEF FindDraft
    <3> HIDE DEF k
    <3> QED
      BY <1>4, <3>1, <3>2, <3>5, <3>6, SendInv
  <2> QED
    BY <2>1, <2>2
<1>7. CASE UpdateDraft(c)
  <2>1. CASE draft # None /\ Stored(c, draft.version + 1)
    <3>1. draft.version \in Nat
      BY <1>1, <2>1, VersionsAreNumbers DEF Rows
    <3>2. draft.version + 1 \in Nat /\ draft.version < draft.version + 1
      BY <3>1
    <3> QED
      BY <1>2, <2>1, <3>2, StoredInv
  <2>2. CASE call' = Refused(c) /\ UNCHANGED <<draft, leads, tab, edits>>
    BY <1>2, <2>2, RefusedInv
  <2> QED
    BY <1>7, <2>1, <2>2 DEF UpdateDraft
<1>8. CASE InsertDraft(c)
  <2>1. CASE draft = None
    <3>1. Stored(c, 1)
      BY <1>8, <2>1 DEF InsertDraft
    <3> QED
      BY <1>2, <2>1, <3>1, StoredInv
  <2>2. CASE draft # None
    <3>1. draft.version \in Nat
      BY <1>1, <2>2, VersionsAreNumbers DEF Rows
    <3>2. draft.version + 1 \in Nat /\ draft.version < draft.version + 1
      BY <3>1
    <3>3. Stored(c, draft.version + 1)
      BY <1>8, <2>2 DEF InsertDraft
    <3> QED
      BY <1>2, <3>2, <3>3, StoredInv
  <2> QED
    BY <2>1, <2>2
<1>9. CASE RefuseIntake(c)
  BY <1>2, <1>9, RefusedInv DEF RefuseIntake
<1>10. CASE CreateIntake(c)
  <2>1. leads' \subseteq Contents
    BY <1>2, <1>4, <1>10 DEF CreateIntake, CallSet
  <2>2. draft' \in Rows \cup {None} /\ Later(draft, draft')
    <3>1. CASE draft = None
      BY <1>10, <3>1 DEF CreateIntake, Later
    <3>2. CASE draft # None
      <4>1. draft \in Rows /\ draft' = [draft EXCEPT !.status = "submitted"]
        BY <1>1, <1>10, <3>2 DEF CreateIntake
      <4>2. draft' \in Rows /\ draft'.version = draft.version /\ draft'.data = draft.data
        BY <4>1 DEF Rows
      <4> QED
        BY <3>2, <4>2, NoneIsNoRow DEF Later
    <3> QED
      BY <3>1, <3>2
  <2>3. call' = Answer(c, "done", None, None) /\ UNCHANGED <<tab, edits>>
        /\ call[c].kind # "save"
    BY <1>10 DEF CreateIntake, Answered, At
  <2> QED
    BY <1>2, <2>1, <2>2, <2>3, AnswerInv
<1>11. CASE DeleteDraft(c)
  <2>1. /\ draft' = None /\ UNCHANGED <<leads, edits>>
        /\ tab' = [t \in Tabs |-> [tab[t] EXCEPT !.seen = None]]
        /\ call' = [d \in Calls |-> IF d = c \/ call[d] = Idle THEN Idle
                                    ELSE [call[d] EXCEPT !.seen = None]]
    BY <1>11 DEF DeleteDraft
  <2>2. tab' \in [Tabs -> TabSet] /\ \A t \in Tabs : tab'[t].seen = None
    BY <1>4, <2>1 DEF TabSet
  <2>3. TabsFit'
    BY <2>2 DEF TabsFit, Fits
  <2>4. ASSUME NEW d \in Calls
        PROVE  call'[d] \in CallSet \cup {Idle} /\ CallFits(None, call'[d])
    <3>1. CASE call'[d] = Idle
      BY <3>1 DEF CallFits
    <3>2. CASE call'[d] = [call[d] EXCEPT !.seen = None] /\ call[d] # Idle
      <4>1. call[d] \in CallSet /\ CallFits(draft, call[d])
        BY <1>1, <3>2 DEF TypeOK, CallsFit
      <4>2. call'[d] \in CallSet
        BY <3>2, <4>1 DEF CallSet
      <4>3. CallFits(None, call'[d])
        BY <3>2, <4>1 DEF CallFits, CallSet, Fits
      <4> QED
        BY <4>2, <4>3
    <3> QED
      BY <2>1, <3>1, <3>2
  <2>5. CallsFit'
    BY <2>1, <2>4 DEF CallsFit
  <2>6. TypeOK'
    BY <1>4, <2>1, <2>2, <2>4 DEF TypeOK
  <2>7. call' = [d \in Calls |-> call'[d]]
    BY <2>1
  <2> QED
    BY <2>3, <2>5, <2>6, <2>7 DEF Inv
<1> QED
  BY <1>5, <1>6, <1>7, <1>8, <1>9, <1>10, <1>11

(* The row expires; a request or its answer is lost.                        *)
LEMMA LossInv ==
  ASSUME Inv, Expire \/ \E c \in Calls : Fail(c)
  PROVE  Inv'
<1>1. TypeOK /\ draft \in Rows \cup {None} /\ leads \subseteq Contents /\ edits \in Contents
      /\ tab \in [Tabs -> TabSet] /\ call = [c \in Calls |-> call[c]]
  BY DEF Inv, TypeOK
<1>2. CASE Expire
  <2>1. draft # None /\ draft' = [draft EXCEPT !.status = "expired"]
    BY <1>2 DEF Expire, OpenDraft
  <2>2. draft' \in Rows /\ draft'.version = draft.version /\ draft'.data = draft.data
    BY <1>1, <2>1 DEF Rows
  <2>3. Later(draft, draft')
    BY <2>1, <2>2, NoneIsNoRow DEF Later
  <2>4. UNCHANGED <<leads, tab, call, edits>>
    BY <1>2 DEF Expire
  <2> QED
    BY <1>1, <2>2, <2>3, <2>4, StepInv
<1>3. ASSUME NEW c \in Calls, Fail(c) PROVE Inv'
  <2> DEFINE r(u) == [[tab[u] EXCEPT !.phase = "ready"] EXCEPT !.due = TRUE]
  <2>0. ASSUME NEW u \in Tabs
        PROVE  /\ tab[u] \in TabSet /\ r(u) \in TabSet
               /\ r(u).version = tab[u].version /\ r(u).seen = tab[u].seen
    BY <1>1 DEF TabSet
  <2>a. tab' = tab \/ tab' = [u \in Tabs |-> IF u = call[c].tab THEN r(u) ELSE tab[u]]
    BY <1>1, <1>3 DEF Fail
  <2> HIDE DEF r
  <2>1. tab' \in [Tabs -> TabSet]
    BY <1>1, <2>0, <2>a
  <2>2. \A t \in Tabs : tab'[t].version = tab[t].version /\ tab'[t].seen = tab[t].seen
    BY <2>0, <2>a
  <2>3. Later(draft, draft') /\ UNCHANGED <<draft, leads, edits>>
    BY <1>3 DEF Fail, Later
  <2>4. CallFits(draft', Idle)
    BY DEF CallFits
  <2>5. call' = [d \in Calls |-> IF d = c THEN Idle ELSE call[d]]
    BY <1>1, <1>3 DEF Fail
  <2>6. /\ call' = [d \in Calls |-> call'[d]]
        /\ \A d \in Calls : \/ call'[d] = call[d]
                            \/ call'[d] \in CallSet \cup {Idle} /\ CallFits(draft', call'[d])
    BY <2>4, <2>5
  <2> QED
    BY <1>1, <2>1, <2>2, <2>3, <2>6, StepInv
<1> QED
  BY <1>2, <1>3

(* An answer arrives: its tab learns what the answer knows.                 *)
LEMMA ReceiveInv ==
  ASSUME Inv, NEW c \in Calls, Receive(c)
  PROVE  Inv'
<1>1. TypeOK /\ draft \in Rows \cup {None} /\ leads \subseteq Contents /\ edits \in Contents
      /\ tab \in [Tabs -> TabSet] /\ call = [d \in Calls |-> call[d]]
  BY DEF Inv, TypeOK
<1>2. UNCHANGED <<draft, leads, edits>> /\ call[c].kind # "idle"
  BY <1>1 DEF Receive
<1>3. call[c] \in CallSet /\ call[c] # Idle /\ CallFits(draft, call[c])
  BY <1>1, <1>2 DEF TypeOK, Idle, Inv, CallsFit
<1>4. call[c].got \in Rows \cup {None} /\ call[c].seen \in Contents \cup {None}
      /\ call[c].tab \in Tabs \cup {None}
  BY <1>3 DEF CallSet
<1> DEFINE t == call[c].tab
<1>5. ASSUME t \in Tabs
      PROVE  /\ tab'[t] \in TabSet
             /\ \/ tab'[t].version = tab[t].version /\ tab'[t].seen = tab[t].seen
                \/ Fits(draft, tab'[t].version, tab'[t].seen)
  <2>1. tab[t] \in TabSet
    BY <1>1, <1>5
  <2>2. \/ tab'[t] = Loaded(c, t)
        \/ tab'[t] = Shown(c, t)
        \/ tab'[t] = Submitted(c, t)
        \/ tab'[t] = tab[t]
        \/ tab'[t] = Saved(c, t) /\ call[c].kind = "save" /\ call[c].at = "done"
    BY <1>1, <1>5 DEF Receive
  <2>3. call[c].got # None =>
          /\ call[c].got.version \in Versions /\ call[c].got.data \in Contents
          /\ Fits(draft, call[c].got.version, call[c].seen)
    BY <1>3, <1>4 DEF Rows, CallFits
  <2>4. /\ Shown(c, t) \in TabSet
        /\ \/ Shown(c, t).version = tab[t].version /\ Shown(c, t).seen = tab[t].seen
           \/ Fits(draft, Shown(c, t).version, Shown(c, t).seen)
    <3>1. CASE call[c].got = None
      BY <2>1, <3>1 DEF Shown
    <3>2. CASE call[c].got # None
      BY <1>4, <2>1, <2>3, <3>2 DEF Shown, TabSet
    <3> QED
      BY <3>1, <3>2
  <2>5. CASE tab'[t] = Shown(c, t)
    BY <2>4, <2>5
  <2>6. CASE tab'[t] = Loaded(c, t)
    <3>1. /\ Loaded(c, t) \in TabSet
          /\ Loaded(c, t).version = Shown(c, t).version /\ Loaded(c, t).seen = Shown(c, t).seen
      BY <2>4 DEF Loaded, TabSet
    <3> QED
      BY <2>4, <2>6, <3>1
  <2>7. CASE tab'[t] = Submitted(c, t)
    BY <2>1, <2>7 DEF Submitted, TabSet
  <2>8. CASE tab'[t] = Saved(c, t) /\ call[c].kind = "save" /\ call[c].at = "done"
    <3>1. call[c].got # None
      BY <1>3, <2>8 DEF CallFits
    <3> QED
      BY <1>4, <2>1, <2>3, <2>8, <3>1 DEF Saved, TabSet
  <2>9. CASE tab'[t] = tab[t]
    BY <2>1, <2>9
  <2> QED
    BY <2>2, <2>5, <2>6, <2>7, <2>8, <2>9
<1>6. \A u \in Tabs : u # t => tab'[u] = tab[u]
  BY <1>1 DEF Receive
<1>7. tab' \in [Tabs -> TabSet]
  <2>1. tab' = [u \in Tabs |-> tab'[u]]
    BY <1>1 DEF Receive
  <2>2. \A u \in Tabs : tab'[u] \in TabSet
    BY <1>1, <1>5, <1>6
  <2> QED
    BY <2>1, <2>2
<1>8. \A u \in Tabs : \/ tab'[u].version = tab[u].version /\ tab'[u].seen = tab[u].seen
                      \/ Fits(draft', tab'[u].version, tab'[u].seen)
  BY <1>2, <1>5, <1>6
<1>9. call'[c] \in CallSet \cup {Idle} /\ CallFits(draft, call'[c])
  <2>1. call'[c] = Idle \/ call'[c] = Call(t, "reload", Blank, None, None)
    BY <1>1 DEF Receive
  <2>2. Blank \in Contents /\ Fits(draft, None, None)
    BY BoundsAssumption DEF Contents, Blank, Fits
  <2>3. /\ Call(t, "reload", Blank, None, None) \in CallSet
        /\ CallFits(draft, Call(t, "reload", Blank, None, None))
    BY <1>4, <2>2, NewCall
  <2>4. CallFits(draft, Idle)
    BY DEF CallFits
  <2> QED
    BY <2>1, <2>3, <2>4
<1>10. /\ call' = [d \in Calls |-> call'[d]]
       /\ \A d \in Calls : d # c => call'[d] = call[d]
  BY <1>1 DEF Receive
<1>11. Later(draft, draft')
  BY <1>2 DEF Later
<1> HIDE DEF t
<1> QED
  BY <1>1, <1>2, <1>7, <1>8, <1>9, <1>10, <1>11, StepInv

(* At first nobody knows anything.                                          *)
LEMMA InitInv == Init => Inv
<1> SUFFICES ASSUME Init PROVE Inv
  OBVIOUS
<1>1. Blank \in Contents
  BY BoundsAssumption DEF Contents, Blank
<1>2. TypeOK
  BY <1>1 DEF Init, TypeOK, Closed, TabSet
<1>3. TabsFit /\ CallsFit
  BY DEF Init, TabsFit, CallsFit, CallFits, Closed, Fits
<1> QED
  BY <1>2, <1>3 DEF Inv, Init

(* Every step keeps the invariant.                                          *)
LEMMA NextInv == Inv /\ [Next]_vars => Inv'
<1> SUFFICES ASSUME Inv, [Next]_vars PROVE Inv'
  OBVIOUS
<1>1. CASE UNCHANGED vars
  BY <1>1 DEF vars, Inv, TypeOK, TabsFit, CallsFit
<1>2. ASSUME NEW c \in Calls, NEW t \in Tabs,
             Open(c, t) \/ Autosave(c, t) \/ SubmitForm(c, t) \/ Reset(c, t)
      PROVE  Inv'
  BY <1>2, TabInv
<1>3. ASSUME NEW t \in Tabs, Edit(t) \/ Close(t) PROVE Inv'
  BY <1>3, UserInv
<1>4. ASSUME NEW c \in Calls,
             \/ Load(c) \/ FindDraft(c) \/ UpdateDraft(c) \/ InsertDraft(c)
             \/ RefuseIntake(c) \/ CreateIntake(c) \/ DeleteDraft(c)
      PROVE  Inv'
  BY <1>4, ServerInv
<1>5. CASE Expire \/ \E c \in Calls : Fail(c)
  BY <1>5, LossInv
<1>6. ASSUME NEW c \in Calls, Receive(c) PROVE Inv'
  BY <1>6, ReceiveInv
<1> QED
  BY <1>1, <1>2, <1>3, <1>4, <1>5, <1>6 DEF Next

(* Every tab, save and answer knows a content by the version it belongs to. *)
THEOREM Invariance == Spec => []Inv
  BY InitInv, NextInv, PTL DEF Spec

(* The draft, the tabs and the calls stay of their types.                   *)
THEOREM TypeCorrect == Spec => []TypeOK
<1>1. Inv => TypeOK
  BY DEF Inv
<1> QED
  BY <1>1, Invariance, PTL

(* The comparison of versions in upsertIntakeDraft keeps a tab from writing *)
(* over what it has not seen, however many tabs save at a time.             *)
THEOREM SavesReplaceSeen == Spec => []SavesReplaceWhatWasSeen
<1>1. Inv => SavesReplaceWhatWasSeen
  <2> SUFFICES ASSUME Inv, NEW c \in Calls,
                      call[c].kind = "save", call[c].found # None, call[c].version # None,
                      call[c].seen # None, draft # None, draft.version = call[c].found.version
               PROVE  draft.data = call[c].seen
    BY DEF SavesReplaceWhatWasSeen
  <2>1. call[c] # Idle
    BY DEF Idle
  <2>2. CallFits(draft, call[c])
    BY DEF Inv, CallsFit
  <2> QED
    BY <2>1, <2>2 DEF CallFits, Fits
<1> QED
  BY <1>1, Invariance, PTL

-----------------------------------------------------------------------------
(* Drafts and accounts side by side.                                        *)

mcVars == <<part, draftVars, accountVars>>

(* The part that moves.                                                     *)
On(p) == part = p

(* What each step of MCClients is of its part.                              *)
LEMMA PartsMove ==
  [MCNext]_mcVars =>
    /\ part' = part
    /\ On("draft") => [Next]_vars
    /\ On("one") => [One!Next]_One!vars
    /\ On("lost") => [Lost!Next]_Lost!vars
    /\ On("twice") => [Twice!Next]_Twice!vars
    /\ On("race") => [Race!Next]_Race!vars
BY DEF On, MCNext, mcVars, draftVars, accountVars, vars, One!vars, Lost!vars, Twice!vars,
       Race!vars, One!observers, Lost!observers, Twice!observers, Race!observers

(* What each part begins with.                                              *)
LEMMA PartsBegin ==
  MCInit =>
    /\ On("draft") => Init
    /\ On("one") => One!Init
    /\ On("lost") => Lost!Init
    /\ On("twice") => Twice!Init
    /\ On("race") => Race!Init
BY DEF MCInit, On

(* A behaviour is of one part throughout, and it is a behaviour of what the *)
(* part is an instance of.                                                  *)
LEMMA PartsImplemented ==
  MCSpec =>
    /\ [](On("draft")) \/ [](~On("draft"))
    /\ [](On("one")) \/ [](~On("one"))
    /\ [](On("lost")) \/ [](~On("lost"))
    /\ [](On("twice")) \/ [](~On("twice"))
    /\ [](On("race")) \/ [](~On("race"))
    /\ On("draft") => Spec
    /\ On("one") => One!Spec
    /\ On("lost") => Lost!Spec
    /\ On("twice") => Twice!Spec
    /\ On("race") => Race!Spec
<1>1. [MCNext]_mcVars =>
        /\ On("draft") <=> On("draft")'
        /\ On("one") <=> On("one")'
        /\ On("lost") <=> On("lost")'
        /\ On("twice") <=> On("twice")'
        /\ On("race") <=> On("race")'
  BY PartsMove DEF On
<1> QED
  BY <1>1, PartsMove, PartsBegin, PTL
  DEF MCSpec, mcVars, Spec, One!Spec, Lost!Spec, Twice!Spec, Race!Spec

(* Drafts and accounts keep their types.                                    *)
THEOREM ClientTypesCorrect == MCSpec => []TypesOK
<1>1. One!Spec => []One!TypeOK
  BY AccountParameters, One!TypesFit
<1>2. Lost!Spec => []Lost!TypeOK
  BY AccountParameters, Lost!TypesFit
<1>3. Twice!Spec => []Twice!TypeOK
  BY AccountParameters, Twice!TypesFit
<1>4. Race!Spec => []Race!TypeOK
  BY AccountParameters, Race!TypesFit
<1>5. Spec => []TypeOK
  BY TypeCorrect
<1>6. /\ On("draft") => TypeOK
      /\ On("one") => One!TypeOK
      /\ On("lost") => Lost!TypeOK
      /\ On("twice") => Twice!TypeOK
      /\ On("race") => Race!TypeOK
      => TypesOK
  BY DEF TypesOK, On
<1> QED
  BY <1>1, <1>2, <1>3, <1>4, <1>5, <1>6, PartsImplemented, PTL

(* One-time tokens take effect once, and live ones and resends of them stay *)
(* as few as the requests at a time, beside drafts and other accounts.      *)
THEOREM TokensStayFewAndSpentOnce == MCSpec => []TokensAreFewAndSpentOnce
<1>1. One!Spec => []One!SpentOnce
  BY AccountParameters, One!TokensWorkOnce
<1>2. One!Spec => []One!ResendsAreLimited
  BY AccountParameters, One!ResendsLimited
<1>3. One!Spec => []One!FewLiveTokens
  BY AccountParameters, One!FewAreLive
<1>4. Lost!Spec => []Lost!SpentOnce
  BY AccountParameters, Lost!TokensWorkOnce
<1>5. /\ On("one") => One!SpentOnce /\ One!ResendsAreLimited /\ One!FewLiveTokens
      /\ On("lost") => Lost!SpentOnce
      => TokensAreFewAndSpentOnce
  BY DEF TokensAreFewAndSpentOnce, On
<1> QED
  BY <1>1, <1>2, <1>3, <1>4, <1>5, PartsImplemented, PTL

(* However requests overlap, an account that is verified has proved its     *)
(* address, unless some of its own have crossed: a public resend with an    *)
(* address that was pending, a change with another or with a confirmation,  *)
(* or a change that has ended half way.                                     *)
THEOREM VerifiedIsProvedAlways == MCSpec => []VerifiedIsProved
<1>1. One!Spec => []One!VerifiedIsProved
  BY AccountParameters, One!VerifiedAreProved
<1>2. Twice!Spec => []Twice!VerifiedIsProved
  BY AccountParameters, Twice!VerifiedAreProved
<1>3. /\ On("one") => One!VerifiedIsProved
      /\ On("twice") => Twice!VerifiedIsProved
      => VerifiedIsProved
  BY DEF VerifiedIsProved, On
<1> QED
  BY <1>1, <1>2, <1>3, PartsImplemented, PTL

(* Accounts that register with or change to one address at a time do not    *)
(* both get it.                                                             *)
THEOREM OneAccountAlways == MCSpec => []OneAccountEach
<1>1. Race!Spec => []Race!OneAccountPerAddress
  BY AccountParameters, Race!OneAccount
<1>2. (On("race") => Race!OneAccountPerAddress) => OneAccountEach
  BY DEF OneAccountEach, On
<1> QED
  BY <1>1, <1>2, PartsImplemented, PTL
=============================================================================

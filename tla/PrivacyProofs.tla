---------------------------- MODULE PrivacyProofs ----------------------------
(***************************************************************************)
(* Theorems about DsarRequests, for any number of requests and overlapping *)
(* handlers; about MarketingMail, for any number of overlapping requests   *)
(* and sends; and about MCPrivacy, which puts them beside the retention.   *)
(***************************************************************************)
EXTENDS MCPrivacy, Sequences, TLAPS

(* What handler h has found out stays true, because the observers only     *)
(* grow: it is past a check only for a request that has been identified,   *)
(* past the erasure only for one that has been erased, and the update it   *)
(* is about to write is earned.                                            *)
HandlerOk(h) ==
  LET q == want[h].q
      u == local[h].update
  IN
  /\ pc[h] \notin Ended => want[h] \in Wants
  /\ pc[h] \in {"build", "render"} => q \in identified \cap Exports
  /\ pc[h] = "act" => q \in identified
  /\ pc[h] \in {"start", "collect", "erase", "unlink", "inspect"} =>
       q \in identified \cap Deletions
  /\ pc[h] \in {"unlink", "inspect"} => q \in erasers
  /\ pc[h] = "write" =>
       /\ u.payload \/ u.path => q \in identified \cap Exports
       /\ u.status = "completed" /\ q \in Deletions => q \in erasers \cup served

HandlersOk == \A h \in Handlers : HandlerOk(h)

(* A row that says so has been verified.                                   *)
VerifiedRows == \A q \in Requests : row[q].identity = "verified" => q \in identified

IInv ==
  TypeOK /\ EffectsAreIdentified /\ CompletionIsWorked /\ VerifiedRows /\ HandlersOk

-----------------------------------------------------------------------------
(* What the steps have in common.                                          *)

(* The other handlers stand still, and the observers only grow.            *)
Alone(h) ==
  /\ \A g \in Handlers \ {h} :
       pc'[g] = pc[g] /\ want'[g] = want[g] /\ local'[g] = local[g]
  /\ identified \subseteq identified'
  /\ served \subseteq served'
  /\ erasers \subseteq erasers'

(* A step of one handler keeps what the others have found out.             *)
LEMMA OthersOk ==
  ASSUME HandlersOk, NEW h \in Handlers, Alone(h), HandlerOk(h)'
  PROVE  HandlersOk'
<1> SUFFICES ASSUME NEW g \in Handlers \ {h} PROVE HandlerOk(g)'
  BY DEF HandlersOk
<1>1. HandlerOk(g) /\ pc'[g] = pc[g] /\ want'[g] = want[g] /\ local'[g] = local[g]
  BY DEF HandlersOk, Alone
<1> QED BY <1>1 DEF HandlerOk, Alone

(* An update without changes, one of the status, and one of nothing are    *)
(* updates.                                                                *)
LEMMA UpdateTypes ==
  /\ NoUpdate \in Updates /\ NoLocal \in Locals
  /\ \A s \in Statuses : SetStatus(s) \in Updates
  /\ \A u \in Updates : [NoLocal EXCEPT !.update = u] \in Locals
BY DEF NoUpdate, Updates, NoLocal, Locals, SetStatus

(* A handler that goes on with a typed local keeps the types.              *)
LEMMA GotoTypes ==
  ASSUME TypeOK, NEW h \in Handlers, NEW step \in Steps, NEW l \in Locals,
         Goto(h, step, l)
  PROVE  /\ pc' \in [Handlers -> Steps]
         /\ want' \in [Handlers -> Wants \cup {NoWant}]
         /\ local' \in [Handlers -> Locals]
         /\ pc'[h] = step /\ local'[h] = l /\ want'[h] = want[h]
         /\ \A g \in Handlers \ {h} :
              pc'[g] = pc[g] /\ want'[g] = want[g] /\ local'[g] = local[g]
BY DEF TypeOK, Goto

(* So does one that ends; and it has nothing left to keep.                 *)
LEMMA EndTypes ==
  ASSUME TypeOK, NEW h \in Handlers, NEW how \in Ended, End(h, how)
  PROVE  /\ pc' \in [Handlers -> Steps]
         /\ want' \in [Handlers -> Wants \cup {NoWant}]
         /\ local' \in [Handlers -> Locals]
         /\ HandlerOk(h)'
         /\ \A g \in Handlers \ {h} :
              pc'[g] = pc[g] /\ want'[g] = want[g] /\ local'[g] = local[g]
<1>1. /\ pc' \in [Handlers -> Steps] /\ pc'[h] \in Ended
      /\ want' \in [Handlers -> Wants \cup {NoWant}]
      /\ local' \in [Handlers -> Locals]
      /\ \A g \in Handlers \ {h} :
              pc'[g] = pc[g] /\ want'[g] = want[g] /\ local'[g] = local[g]
  BY UpdateTypes DEF TypeOK, End, Ended, Steps
<1>2. HandlerOk(h)'
  BY <1>1 DEF HandlerOk, Ended
<1> QED BY <1>1, <1>2

(* An update writes what it sets and keeps the rest.                       *)
LEMMA UpdatedIs ==
  ASSUME NEW r \in Rows, NEW u \in Updates
  PROVE  /\ Updated(r, u) \in Rows
         /\ Updated(r, u).status = IF u.status = "keep" THEN r.status ELSE u.status
         /\ Updated(r, u).identity = IF u.identity = "keep" THEN r.identity ELSE u.identity
         /\ Updated(r, u).payload = (r.payload \/ u.payload)
         /\ Updated(r, u).path = (r.path \/ u.path)
<1> USE DEF Rows, Updates
<1>1. Updated(r, u).status = IF u.status = "keep" THEN r.status ELSE u.status
  BY DEF Updated
<1>2. Updated(r, u).identity = IF u.identity = "keep" THEN r.identity ELSE u.identity
  BY DEF Updated
<1>3. Updated(r, u).payload = (r.payload \/ u.payload)
  BY DEF Updated
<1>4. Updated(r, u).path = (r.path \/ u.path)
  BY DEF Updated
<1>5. Updated(r, u) \in Rows
  BY DEF Updated
<1> QED BY <1>1, <1>2, <1>3, <1>4, <1>5

(* The invariant speaks of rows and files only through these facts, so a   *)
(* step that keeps both keeps its part of it.                              *)
LEMMA RowsKept ==
  ASSUME EffectsAreIdentified, CompletionIsWorked, VerifiedRows,
         UNCHANGED <<row, files>>,
         identified \subseteq identified',
         served \subseteq served', erasers \subseteq erasers',
         served' \cup erasers' \subseteq identified', erasers' \subseteq Deletions
  PROVE  EffectsAreIdentified' /\ CompletionIsWorked' /\ VerifiedRows'
BY DEF EffectsAreIdentified, CompletionIsWorked, VerifiedRows

-----------------------------------------------------------------------------
(* Nobody has been identified or served, and no handler is under way.      *)
LEMMA InitIInv == Init => IInv
<1> SUFFICES ASSUME Init PROVE IInv
  OBVIOUS
<1>1. TypeOK
  BY UpdateTypes DEF Init, Submitted, TypeOK, Rows, Persons, Statuses, Identities, Steps
<1>2. /\ \A q \in Requests :
           /\ row[q].status = "identity_verification_required"
           /\ row[q].identity = "pending" /\ ~row[q].payload /\ ~row[q].path
      /\ files = {} /\ identified = {} /\ served = {} /\ erasers = {}
  BY DEF Init, Submitted
<1>3. EffectsAreIdentified /\ CompletionIsWorked /\ VerifiedRows
  BY <1>1, <1>2, TypesAssumption
     DEF TypeOK, EffectsAreIdentified, CompletionIsWorked, VerifiedRows
<1>4. \A h \in Handlers : pc[h] = "idle"
  BY DEF Init, Submitted
<1>5. HandlersOk
  BY <1>4 DEF HandlersOk, HandlerOk, Ended
<1> QED BY <1>1, <1>3, <1>5 DEF IInv

(* A handler takes on a request.                                           *)
LEMMA BeginStep ==
  ASSUME IInv, NEW h \in Handlers, Begin(h)
  PROVE  IInv'
<1> USE DEF IInv
<1>1. TypeOK' /\ want'[h] \in Wants /\ pc'[h] = "load"
  BY UpdateTypes, InputsAssumption DEF TypeOK, Begin, observers, Steps
<1>2. Alone(h) /\ HandlerOk(h)'
  BY <1>1 DEF TypeOK, Begin, Alone, HandlerOk, observers, Ended
<1>3. EffectsAreIdentified' /\ CompletionIsWorked' /\ VerifiedRows'
  BY RowsKept DEF Begin, observers, EffectsAreIdentified
<1> QED BY <1>1, <1>2, <1>3, OthersOk

(* A handler reads the request: what passes the checks has been            *)
(* identified, whatever happens to the row from now on.                    *)
LEMMA LoadStep ==
  ASSUME IInv, NEW h \in Handlers, Load(h)
  PROVE  IInv'
<1> USE DEF IInv
<1>1. UNCHANGED <<row, files, person, identified, served, erasers>>
  BY DEF Load, observers
<1>2. EffectsAreIdentified' /\ CompletionIsWorked' /\ VerifiedRows'
  BY <1>1, RowsKept DEF EffectsAreIdentified
<1>3. SUFFICES /\ pc' \in [Handlers -> Steps]
               /\ want' \in [Handlers -> Wants \cup {NoWant}]
               /\ local' \in [Handlers -> Locals]
               /\ HandlerOk(h)'
               /\ \A g \in Handlers \ {h} :
                    pc'[g] = pc[g] /\ want'[g] = want[g] /\ local'[g] = local[g]
  <2>1. TypeOK'
    BY <1>1, <1>3 DEF TypeOK
  <2>2. Alone(h)
    BY <1>1, <1>3 DEF Alone
  <2> QED BY <1>2, <1>3, <2>1, <2>2, OthersOk
<1>4. CASE \E how \in Ended : End(h, how)
  BY <1>4, EndTypes
<1>5. ASSUME ~ \E how \in Ended : End(h, how)
      PROVE  /\ pc' \in [Handlers -> Steps]
             /\ want' \in [Handlers -> Wants \cup {NoWant}]
             /\ local' \in [Handlers -> Locals]
             /\ HandlerOk(h)'
             /\ \A g \in Handlers \ {h} :
                  pc'[g] = pc[g] /\ want'[g] = want[g] /\ local'[g] = local[g]
  <2>1. PICK w : w = want[h]
    OBVIOUS
  <2>2. w \in Wants /\ pc[h] = "load"
    BY <2>1 DEF Load, HandlersOk, HandlerOk, Ended
  <2>3. PICK r : r = row[w.q]
    OBVIOUS
  <2>4. w.q \in Requests /\ r \in Rows
    BY <2>2, <2>3 DEF Wants, TypeOK
  <2>5. Allowed(w, r) /\ AfterLoad(h, w, r)
    BY <1>5, <2>1, <2>3 DEF Load, Ended
  <2>6. w.kind \in NeedsIdentity => w.q \in identified
    BY <2>3, <2>4, <2>5 DEF Allowed, IdentityChecked, VerifiedRows
  <2>7. CASE w.kind \notin {"identity", "status", "hold", "object", "export", "pdf", "anonymize"}
    <3>1. Goto(h, "act", NoLocal)
      BY <2>5, <2>7 DEF AfterLoad
    <3>2. w.kind \in NeedsIdentity
      BY <2>2, <2>7 DEF Wants, NeedsIdentity
    <3> QED BY <1>1, <2>1, <2>2, <2>6, <3>1, <3>2, GotoTypes, UpdateTypes DEF HandlerOk, Steps
  <2>8. CASE w.kind = "anonymize"
    <3>1. Goto(h, "start", NoLocal)
      BY <1>5, <2>5, <2>8 DEF AfterLoad, Anonymize, Ended
    <3>2. w.q \in identified \cap Deletions
      BY <2>5, <2>6, <2>8 DEF Allowed, TypeFits, NeedsIdentity
    <3> QED BY <1>1, <2>1, <2>2, <3>1, <3>2, GotoTypes, UpdateTypes DEF HandlerOk, Steps
  <2>9. CASE w.kind = "pdf"
    <3>1. PICK step \in {"build", "render"} : Goto(h, step, NoLocal)
      BY <2>5, <2>9 DEF AfterLoad, GeneratePdf
    <3>2. w.q \in identified \cap Exports
      BY <2>5, <2>6, <2>9 DEF Allowed, TypeFits, NeedsIdentity
    <3>3. step \in Steps
      BY DEF Steps
    <3> QED BY <1>1, <2>1, <2>2, <3>1, <3>2, <3>3, GotoTypes, UpdateTypes DEF HandlerOk
  <2>10. ASSUME NEW u \in Updates, GoWrite(h, u),
                u.payload \/ u.path => w.q \in identified \cap Exports,
                u.status = "completed" => w.q \notin Deletions
         PROVE  /\ pc' \in [Handlers -> Steps]
                /\ want' \in [Handlers -> Wants \cup {NoWant}]
                /\ local' \in [Handlers -> Locals]
                /\ HandlerOk(h)'
                /\ \A g \in Handlers \ {h} :
                     pc'[g] = pc[g] /\ want'[g] = want[g] /\ local'[g] = local[g]
    <3>1. PICK l : l = [NoLocal EXCEPT !.update = u]
      OBVIOUS
    <3>2. l \in Locals /\ l.update = u /\ Goto(h, "write", l)
      BY <2>10, <3>1, UpdateTypes DEF GoWrite, NoLocal
    <3> HIDE <3>1
    <3> QED BY <1>1, <2>1, <2>2, <2>10, <3>2, GotoTypes DEF HandlerOk, Steps
  <2>11. CASE w.kind = "export"
    <3>1. PICK u : u = [SetStatus("action_required") EXCEPT !.payload = TRUE]
      OBVIOUS
    <3>2. u \in Updates /\ u.status = "action_required" /\ GoWrite(h, u)
      BY <2>5, <2>11, <3>1 DEF AfterLoad, GenerateExport, SetStatus, NoUpdate, Updates, Statuses
    <3>3. w.q \in identified \cap Exports
      BY <2>5, <2>6, <2>11 DEF Allowed, TypeFits, NeedsIdentity
    <3> QED BY <2>10, <3>2, <3>3
  <2>12. CASE w.kind = "identity"
    <3>1. PICK u : u = [NoUpdate EXCEPT !.identity = w.arg,
                      !.status = CASE w.arg = "verified" -> "identity_verified"
                                   [] w.arg = "failed"   -> "denied"
                                   [] OTHER              -> "keep"]
      OBVIOUS
    <3>2. u \in Updates /\ u.status # "completed" /\ ~u.payload /\ ~u.path
      BY <2>2, <2>12, <3>1 DEF Wants, NoUpdate, Updates, Statuses, Identities
    <3>3. GoWrite(h, u)
      BY <2>5, <2>12, <3>1 DEF AfterLoad, VerifyIdentity
    <3> QED BY <2>10, <3>2, <3>3
  <2>13. CASE w.kind = "status"
    <3>1. w.arg \in Statuses
      BY <2>2, <2>13 DEF Wants
    <3>2. GoWrite(h, SetStatus(w.arg))
      BY <2>5, <2>13 DEF AfterLoad
    <3>3. w.arg = "completed" => w.q \notin Deletions
      BY <2>5, <2>13 DEF Allowed, MoveAllowed
    <3>4. /\ ~SetStatus(w.arg).payload /\ ~SetStatus(w.arg).path
          /\ SetStatus(w.arg).status = w.arg
      BY DEF SetStatus, NoUpdate
    <3> QED BY <2>10, <3>1, <3>2, <3>3, <3>4, UpdateTypes
  <2>14. CASE w.kind = "hold"
    <3>1. PICK u : u = [NoUpdate EXCEPT !.hold = w.arg]
      OBVIOUS
    <3>2. u \in Updates /\ u.status = "keep" /\ ~u.payload /\ ~u.path
      BY <2>2, <2>14, <3>1 DEF Wants, NoUpdate, Updates
    <3>3. GoWrite(h, u)
      BY <2>5, <2>14, <3>1 DEF AfterLoad, UpdateLegalHold
    <3> QED BY <2>10, <3>2, <3>3
  <2>15. CASE w.kind = "object" /\ w.arg = "denied"
    <3>1. GoWrite(h, SetStatus("denied"))
      BY <2>5, <2>15 DEF AfterLoad
    <3>2. /\ SetStatus("denied") \in Updates
          /\ ~SetStatus("denied").payload /\ ~SetStatus("denied").path
          /\ SetStatus("denied").status = "denied"
      BY UpdateTypes DEF SetStatus, NoUpdate, Statuses
    <3> QED BY <2>10, <3>1, <3>2
  <2>16. CASE w.kind = "object" /\ w.arg # "denied"
    <3>1. Goto(h, "act", NoLocal)
      BY <2>5, <2>16 DEF AfterLoad
    <3>2. w.q \in identified
      BY <2>6, <2>16 DEF NeedsIdentity
    <3> QED BY <1>1, <2>1, <2>2, <3>1, <3>2, GotoTypes, UpdateTypes DEF HandlerOk, Steps
  <2> QED BY <2>7, <2>8, <2>9, <2>11, <2>12, <2>13, <2>14, <2>15, <2>16
<1> QED BY <1>4, <1>5

(* The UPDATE that ends a handler is one it has earned.                    *)
LEMMA WriteStep ==
  ASSUME IInv, NEW h \in Handlers, Write(h)
  PROVE  IInv'
<1> USE DEF IInv
<1>1. PICK q : q = want[h].q
  OBVIOUS
<1>2. PICK u : u = local[h].update
  OBVIOUS
<1>3. /\ q \in Requests /\ u \in Updates
      /\ u.payload \/ u.path => q \in identified \cap Exports
      /\ u.status = "completed" /\ q \in Deletions => q \in erasers \cup served
  BY <1>1, <1>2 DEF Write, HandlersOk, HandlerOk, Ended, Wants, TypeOK, Locals
<1>4. /\ row' = [row EXCEPT ![q] = Updated(@, u)]
      /\ identified' = identified \cup (IF u.identity = "verified" THEN {q} ELSE {})
      /\ End(h, "idle")
      /\ UNCHANGED <<files, person, served, erasers>>
  BY <1>1, <1>2 DEF Write
<1>5. row[q] \in Rows /\ row' = [row EXCEPT ![q] = Updated(row[q], u)]
  BY <1>3, <1>4 DEF TypeOK
<1>6. /\ row' \in [Requests -> Rows]
      /\ \A p \in Requests : p # q => row'[p] = row[p]
      /\ row'[q] = Updated(row[q], u)
  BY <1>3, <1>5, UpdatedIs DEF TypeOK
<1>7. /\ row'[q].status = IF u.status = "keep" THEN row[q].status ELSE u.status
      /\ row'[q].identity = IF u.identity = "keep" THEN row[q].identity ELSE u.identity
      /\ row'[q].payload = (row[q].payload \/ u.payload)
      /\ row'[q].path = (row[q].path \/ u.path)
  BY <1>3, <1>5, <1>6, UpdatedIs
<1>8. EffectsAreIdentified'
  BY <1>3, <1>4, <1>6, <1>7 DEF EffectsAreIdentified
<1>9. CompletionIsWorked'
  BY <1>3, <1>4, <1>6, <1>7 DEF CompletionIsWorked
<1>10. VerifiedRows'
  BY <1>3, <1>4, <1>6, <1>7 DEF VerifiedRows
<1>11. TypeOK'
  BY <1>3, <1>4, <1>6, EndTypes DEF TypeOK, Ended
<1>12. Alone(h) /\ HandlerOk(h)'
  BY <1>4, EndTypes DEF Alone, Ended
<1> QED BY <1>8, <1>9, <1>10, <1>11, <1>12, OthersOk

(* A PDF export stores the payload it has built, of a request that may     *)
(* have one.                                                               *)
LEMMA BuildStep ==
  ASSUME IInv, NEW h \in Handlers, Build(h)
  PROVE  IInv'
<1> USE DEF IInv
<1>1. PICK q : q = want[h].q
  OBVIOUS
<1>2. q \in Requests /\ q \in identified \cap Exports
  BY <1>1 DEF Build, HandlersOk, HandlerOk, Ended, Wants
<1>3. /\ row' = [row EXCEPT ![q].payload = TRUE]
      /\ Goto(h, "render", NoLocal)
      /\ UNCHANGED <<files, person, identified, served, erasers>>
  BY <1>1 DEF Build, observers
<1>4. row[q] \in Rows /\ row' = [row EXCEPT ![q] = [row[q] EXCEPT !.payload = TRUE]]
  BY <1>2, <1>3 DEF TypeOK
<1>5. PICK r : r = [row[q] EXCEPT !.payload = TRUE]
  OBVIOUS
<1>6. /\ r \in Rows /\ r.status = row[q].status /\ r.identity = row[q].identity
      /\ r.path = row[q].path
  BY <1>4, <1>5 DEF Rows
<1>7. /\ row' \in [Requests -> Rows] /\ row'[q] = r
      /\ \A p \in Requests : p # q => row'[p] = row[p]
  BY <1>2, <1>4, <1>5, <1>6 DEF TypeOK
<1> HIDE <1>5
<1>8. EffectsAreIdentified' /\ CompletionIsWorked' /\ VerifiedRows'
  BY <1>2, <1>3, <1>6, <1>7 DEF EffectsAreIdentified, CompletionIsWorked, VerifiedRows
<1>9. TypeOK'
  BY <1>3, <1>7, GotoTypes, UpdateTypes DEF TypeOK, Steps
<1>10. Alone(h) /\ HandlerOk(h)'
  BY <1>1, <1>2, <1>3, GotoTypes, UpdateTypes
     DEF Alone, HandlerOk, HandlersOk, Build, Steps, Ended
<1> QED BY <1>8, <1>9, <1>10, OthersOk

(* ... writes the file, and goes on to write its path.                     *)
LEMMA RenderStep ==
  ASSUME IInv, NEW h \in Handlers, Render(h)
  PROVE  IInv'
<1> USE DEF IInv
<1>1. PICK q : q = want[h].q
  OBVIOUS
<1>2. q \in Requests /\ q \in identified \cap Exports /\ want[h] \in Wants
  BY <1>1 DEF Render, HandlersOk, HandlerOk, Ended, Wants
<1>3. /\ files' = files \cup {q}
      /\ UNCHANGED <<row, person, identified, served, erasers>>
  BY <1>1 DEF Render, observers
<1>4. PICK l : l = [NoLocal EXCEPT !.update = [NoUpdate EXCEPT !.path = TRUE]]
  OBVIOUS
<1>5. l \in Locals /\ l.update.status = "keep" /\ Goto(h, "write", l)
  BY <1>4 DEF Render, GoWrite, NoLocal, NoUpdate, Locals, Updates
<1> HIDE <1>4
<1>6. EffectsAreIdentified' /\ CompletionIsWorked' /\ VerifiedRows'
  BY <1>2, <1>3 DEF EffectsAreIdentified, CompletionIsWorked, VerifiedRows
<1>7. TypeOK'
  BY <1>2, <1>3, <1>5, GotoTypes DEF TypeOK, Steps
<1>8. Alone(h) /\ HandlerOk(h)'
  BY <1>1, <1>2, <1>3, <1>5, GotoTypes DEF Alone, HandlerOk, Steps
<1> QED BY <1>6, <1>7, <1>8, OthersOk

(* The person's data is changed for a request that has been identified.    *)
LEMMA ActStep ==
  ASSUME IInv, NEW h \in Handlers, Act(h)
  PROVE  IInv'
<1> USE DEF IInv
<1>1. PICK q : q = want[h].q
  OBVIOUS
<1>2. q \in Requests /\ q \in identified /\ want[h] \in Wants
  BY <1>1 DEF Act, HandlersOk, HandlerOk, Ended, Wants
<1>3. /\ served' = served \cup {q}
      /\ UNCHANGED <<row, files, identified, erasers>>
      /\ person' \in {person, Corrected(person)}
  BY <1>1 DEF Act, Correct, Mark
<1>4. person' \in Persons
  BY <1>3 DEF TypeOK, Persons, Corrected
<1>5. PICK l : l = [NoLocal EXCEPT !.update = SetStatus("completed")]
  OBVIOUS
<1>6. /\ l \in Locals /\ ~l.update.payload /\ ~l.update.path
      /\ Goto(h, "write", l)
  BY <1>5 DEF Act, GoWrite, SetStatus, NoLocal, NoUpdate, Locals, Updates, Statuses
<1> HIDE <1>5
<1>7. EffectsAreIdentified' /\ CompletionIsWorked' /\ VerifiedRows'
  BY <1>2, <1>3, RowsKept DEF EffectsAreIdentified
<1>8. TypeOK'
  BY <1>2, <1>3, <1>4, <1>6, GotoTypes DEF TypeOK, Steps
<1>9. Alone(h) /\ HandlerOk(h)'
  BY <1>1, <1>2, <1>3, <1>6, GotoTypes DEF Alone, HandlerOk, Steps
<1> QED BY <1>7, <1>8, <1>9, OthersOk

(* The statements and the row of an erasure that starts.                   *)
LEMMA StartStep ==
  ASSUME IInv, NEW h \in Handlers, Start(h)
  PROVE  IInv'
<1> USE DEF IInv
<1>1. PICK q : q = want[h].q
  OBVIOUS
<1>2. q \in Requests /\ q \in identified \cap Deletions /\ want[h] \in Wants
  BY <1>1 DEF Start, HandlersOk, HandlerOk, Ended, Wants
<1>3. /\ row' = [row EXCEPT ![q].status = "processing"]
      /\ Goto(h, "collect", NoLocal)
      /\ UNCHANGED <<files, person, identified, served, erasers>>
  BY <1>1 DEF Start, observers
<1>4. row[q] \in Rows /\ row' = [row EXCEPT ![q] = [row[q] EXCEPT !.status = "processing"]]
  BY <1>2, <1>3 DEF TypeOK
<1>5. PICK r : r = [row[q] EXCEPT !.status = "processing"]
  OBVIOUS
<1>6. /\ r \in Rows /\ r.status = "processing" /\ r.identity = row[q].identity
      /\ r.path = row[q].path /\ r.payload = row[q].payload
  BY <1>4, <1>5 DEF Rows, Statuses
<1>7. /\ row' \in [Requests -> Rows] /\ row'[q] = r
      /\ \A p \in Requests : p # q => row'[p] = row[p]
  BY <1>2, <1>4, <1>5, <1>6 DEF TypeOK
<1> HIDE <1>5
<1>8. EffectsAreIdentified' /\ CompletionIsWorked' /\ VerifiedRows'
  BY <1>2, <1>3, <1>6, <1>7 DEF EffectsAreIdentified, CompletionIsWorked, VerifiedRows
<1>9. TypeOK'
  BY <1>3, <1>7, GotoTypes, UpdateTypes DEF TypeOK, Steps
<1>10. Alone(h) /\ HandlerOk(h)'
  BY <1>1, <1>2, <1>3, GotoTypes, UpdateTypes DEF Alone, HandlerOk, Steps
<1> QED BY <1>8, <1>9, <1>10, OthersOk

(* The paths are collected.                                                *)
LEMMA CollectStep ==
  ASSUME IInv, NEW h \in Handlers, Collect(h)
  PROVE  IInv'
<1> USE DEF IInv
<1>1. UNCHANGED <<row, files, person, identified, served, erasers>>
  BY DEF Collect, observers
<1>2. PICK l : l = [NoLocal EXCEPT !.paths = {q \in Requests : row[q].path}]
  OBVIOUS
<1>3. l \in Locals /\ Goto(h, "erase", l)
  BY <1>2, UpdateTypes DEF Collect, NoLocal, Locals
<1> HIDE <1>2
<1>4. EffectsAreIdentified' /\ CompletionIsWorked' /\ VerifiedRows'
  BY <1>1, RowsKept DEF EffectsAreIdentified
<1>5. TypeOK'
  BY <1>1, <1>3, GotoTypes DEF TypeOK, Steps
<1>6. Alone(h) /\ HandlerOk(h)'
  BY <1>1, <1>3, GotoTypes DEF Alone, HandlerOk, HandlersOk, Collect, Steps, Ended
<1> QED BY <1>4, <1>5, <1>6, OthersOk

(* The erasing transaction: no row keeps an export, none changes status.   *)
LEMMA EraseStep ==
  ASSUME IInv, NEW h \in Handlers, Erase(h)
  PROVE  IInv'
<1> USE DEF IInv
<1>1. PICK q : q = want[h].q
  OBVIOUS
<1>2. /\ q \in Requests /\ q \in identified \cap Deletions /\ want[h] \in Wants
      /\ local[h] \in Locals
  BY <1>1 DEF Erase, HandlersOk, HandlerOk, Ended, Wants, TypeOK
<1>3. /\ row' = [p \in Requests |-> [row[p] EXCEPT !.payload = FALSE, !.path = FALSE,
                                                  !.personal = FALSE]]
      /\ erasers' = erasers \cup {q}
      /\ Goto(h, "unlink", local[h])
      /\ UNCHANGED <<files, identified, served>>
      /\ person' \in Persons
  BY <1>1 DEF Erase, Cleared, Erased, TypeOK, Persons
<1>4. \A p \in Requests :
        /\ row'[p] \in Rows
        /\ row'[p].status = row[p].status /\ row'[p].identity = row[p].identity
        /\ ~row'[p].payload /\ ~row'[p].path
  BY <1>3 DEF TypeOK, Rows
<1>5. EffectsAreIdentified' /\ CompletionIsWorked' /\ VerifiedRows'
  BY <1>2, <1>3, <1>4, TypesAssumption
     DEF EffectsAreIdentified, CompletionIsWorked, VerifiedRows
<1>6. row' \in [Requests -> Rows]
  <2> DEFINE blank(p) == [row[p] EXCEPT !.payload = FALSE, !.path = FALSE,
                                       !.personal = FALSE]
  <2>1. \A p \in Requests : blank(p) \in Rows
    BY DEF TypeOK, Rows
  <2> QED BY <1>3, <2>1
<1>7. TypeOK'
  BY <1>2, <1>3, <1>6, GotoTypes DEF TypeOK, Steps
<1>8. Alone(h) /\ HandlerOk(h)'
  BY <1>1, <1>2, <1>3, GotoTypes DEF Alone, HandlerOk, Steps
<1> QED BY <1>5, <1>7, <1>8, OthersOk

(* The files go, or some of them.                                          *)
LEMMA UnlinkStep ==
  ASSUME IInv, NEW h \in Handlers, Unlink(h)
  PROVE  IInv'
<1> USE DEF IInv
<1>1. UNCHANGED <<row, person, identified, served, erasers>> /\ files' \subseteq files
  BY DEF Unlink, observers
<1>2. PICK stuck : Goto(h, "inspect", [local[h] EXCEPT !.failed = stuck # {}])
  BY DEF Unlink
<1>3. PICK l : l = [local[h] EXCEPT !.failed = stuck # {}]
  OBVIOUS
<1>4. l \in Locals /\ Goto(h, "inspect", l)
  BY <1>2, <1>3 DEF TypeOK, Locals
<1> HIDE <1>3
<1>5. EffectsAreIdentified' /\ CompletionIsWorked' /\ VerifiedRows'
  BY <1>1 DEF EffectsAreIdentified, CompletionIsWorked, VerifiedRows
<1>6. TypeOK'
  BY <1>1, <1>4, GotoTypes DEF TypeOK, Steps
<1>7. Alone(h) /\ HandlerOk(h)'
  BY <1>1, <1>4, GotoTypes DEF Alone, HandlerOk, HandlersOk, Unlink, Steps, Ended
<1> QED BY <1>5, <1>6, <1>7, OthersOk

(* The verification decides on a status; only a deletion that has been     *)
(* carried out is inspected.                                               *)
LEMMA InspectStep ==
  ASSUME IInv, NEW h \in Handlers, Inspect(h)
  PROVE  IInv'
<1> USE DEF IInv
<1>1. UNCHANGED <<row, files, person, identified, served, erasers>>
  BY DEF Inspect, observers
<1>2. PICK s : s = FinalStatus(NothingRemains, local[h].failed)
  OBVIOUS
<1>3. s \in Statuses
  BY <1>2 DEF FinalStatus, Statuses
<1>4. PICK l : l = [NoLocal EXCEPT !.update = SetStatus(s)]
  OBVIOUS
<1>5. /\ l \in Locals /\ ~l.update.payload /\ ~l.update.path
      /\ Goto(h, "write", l)
  BY <1>2, <1>3, <1>4, UpdateTypes DEF Inspect, SetStatus, NoLocal, NoUpdate
<1> HIDE <1>2, <1>4
<1>6. want[h].q \in erasers /\ want[h] \in Wants
  BY DEF HandlersOk, HandlerOk, Inspect, Ended
<1>7. EffectsAreIdentified' /\ CompletionIsWorked' /\ VerifiedRows'
  BY <1>1, RowsKept DEF EffectsAreIdentified
<1>8. TypeOK'
  BY <1>1, <1>5, GotoTypes DEF TypeOK, Steps
<1>9. Alone(h) /\ HandlerOk(h)'
  BY <1>1, <1>5, <1>6, GotoTypes DEF Alone, HandlerOk, Steps
<1> QED BY <1>7, <1>8, <1>9, OthersOk

(* A handler that dies leaves what it has written.                         *)
LEMMA DieStep ==
  ASSUME IInv, NEW h \in Handlers, Die(h)
  PROVE  IInv'
<1> USE DEF IInv
<1>1. UNCHANGED <<row, files, person, identified, served, erasers>> /\ End(h, "idle")
  BY DEF Die, observers
<1>2. EffectsAreIdentified' /\ CompletionIsWorked' /\ VerifiedRows'
  BY <1>1, RowsKept DEF EffectsAreIdentified
<1>3. TypeOK' /\ Alone(h) /\ HandlerOk(h)'
  BY <1>1, EndTypes DEF TypeOK, Alone, Ended
<1> QED BY <1>2, <1>3, OthersOk

(* What other parts of the program write is not in the invariant.          *)
LEMMA OtherStep ==
  ASSUME IInv, Record \/ RemoveLead \/ UNCHANGED vars
  PROVE  IInv'
<1> USE DEF IInv
<1>1. UNCHANGED <<row, files, pc, want, local, identified, served, erasers>>
  BY DEF Record, RemoveLead, vars, observers
<1>2. person' \in Persons
  BY DEF Record, RemoveLead, vars, TypeOK, Persons
<1>3. EffectsAreIdentified' /\ CompletionIsWorked' /\ VerifiedRows'
  BY <1>1, RowsKept DEF EffectsAreIdentified
<1>4. TypeOK' /\ HandlersOk'
  BY <1>1, <1>2 DEF TypeOK, HandlersOk, HandlerOk
<1> QED BY <1>3, <1>4

-----------------------------------------------------------------------------
(* The invariant of handlers, rows and observers holds in every reachable  *)
(* state.                                                                  *)
THEOREM Invariance == Spec => []IInv
<1>1. IInv /\ [Next]_vars => IInv'
  <2> SUFFICES ASSUME IInv, [Next]_vars PROVE IInv'
    OBVIOUS
  <2>1. CASE Record \/ RemoveLead \/ UNCHANGED vars
    BY <2>1, OtherStep
  <2>2. ASSUME NEW h \in Handlers,
               \/ Begin(h) \/ Load(h) \/ Write(h)
               \/ Build(h) \/ Render(h) \/ Act(h)
               \/ Start(h) \/ Collect(h) \/ Erase(h) \/ Unlink(h) \/ Inspect(h)
               \/ Die(h)
        PROVE  IInv'
    BY <2>2, BeginStep, LoadStep, WriteStep, BuildStep, RenderStep, ActStep,
       StartStep, CollectStep, EraseStep, UnlinkStep, InspectStep, DieStep
  <2> QED BY <2>1, <2>2 DEF Next
<1> QED BY <1>1, InitIInv, PTL DEF Spec

(* Every variable keeps its type.                                          *)
THEOREM TypeCorrect == Spec => []TypeOK
<1>1. IInv => TypeOK
  BY DEF IInv
<1> QED BY <1>1, Invariance, PTL

(* However handlers overlap, nothing is done to or with a person's data    *)
(* for a request whose sender has not been identified.                     *)
THEOREM EffectsIdentified == Spec => []EffectsAreIdentified
<1>1. IInv => EffectsAreIdentified
  BY DEF IInv
<1> QED BY <1>1, Invariance, PTL

(* However handlers overlap and fail, a deletion is not reported as        *)
(* completed unless something was done for it.                             *)
THEOREM CompletionWorked == Spec => []CompletionIsWorked
<1>1. IInv => CompletionIsWorked
  BY DEF IInv
<1> QED BY <1>1, Invariance, PTL

-----------------------------------------------------------------------------
(* Marketing mail.                                                         *)

MailRequests == [kind: {"request"}, todo: Seq(Mail!Statements),
                 leaves: SUBSET Mail!Categories, joins: SUBSET Mail!Categories]

MailFits ==
  /\ user \in Mail!UserSet
  /\ suppressed \subseteq Mail!Scopes
  /\ sender \in [Handlers -> {Mail!Idle} \cup Mail!Sends \cup MailRequests]
  /\ out \subseteq Mail!Categories

(* Mail of category c is kept back, and nobody is about to let it through. *)
Kept(c) == Mail!Blocks(c) \cap suppressed # {}
Unasked(c) == \A h \in Handlers : ~Mail!Joins(h, c)

(* A request only releases what it opts into, and what it opts out of it   *)
(* has suppressed or will.                                                 *)
Promised(todo, leaves, joins) ==
  /\ \A i \in 1..Len(todo), c \in Mail!Categories : todo[i] = Mail!Release(c) => c \in joins
  /\ \A c \in leaves : \E i \in 1..Len(todo), s \in Mail!Blocks(c) : todo[i] = Mail!Suppress(s)

(* An opt-out stands on the suppressions alone: a consent may be written   *)
(* back by a request that had read it, a suppression is only released by   *)
(* one that opts in.                                                       *)
MailHolds ==
  /\ \A c \in out : Kept(c) /\ Unasked(c)
  /\ \A h \in Handlers :
       LET l == sender[h] IN
       /\ l.kind = "request" =>
            /\ \A c \in l.leaves : Unasked(c)
            /\ Promised(l.todo, {c \in l.leaves : ~Kept(c)}, l.joins)
       /\ \A c \in Mail!Categories :
            l.kind = "send" /\ l.unwanted /\ l.category = c =>
              Kept(c) /\ Unasked(c) /\ l.passed = "none"

MailInv == MailFits /\ MailHolds

(* What comes of one list of statements after the other.                   *)
LEMMA PromisedTogether ==
  ASSUME NEW s \in Seq(Mail!Statements), NEW t \in Seq(Mail!Statements),
         NEW l, NEW k, NEW i, NEW j,
         Promised(s, l, i), Promised(t, k, j)
  PROVE  s \o t \in Seq(Mail!Statements) /\ Promised(s \o t, l \cup k, i \cup j)
<1>1. /\ s \o t \in Seq(Mail!Statements) /\ Len(s \o t) = Len(s) + Len(t)
      /\ Len(s) \in Nat /\ Len(t) \in Nat
  OBVIOUS
<1>2. \A n \in 1..Len(s) : (s \o t)[n] = s[n] /\ n \in 1..Len(s \o t)
  BY <1>1
<1>3. \A n \in 1..Len(t) : (s \o t)[Len(s) + n] = t[n] /\ Len(s) + n \in 1..Len(s \o t)
  BY <1>1
<1>4. ASSUME NEW n \in 1..Len(s \o t), NEW c \in Mail!Categories, (s \o t)[n] = Mail!Release(c)
      PROVE  c \in i \cup j
  <2>1. CASE n \in 1..Len(s)
    BY <1>2, <1>4, <2>1 DEF Promised
  <2>2. CASE n \notin 1..Len(s)
    <3>1. n - Len(s) \in 1..Len(t) /\ n = Len(s) + (n - Len(s))
      BY <1>1, <2>2
    <3> QED
      BY <1>3, <1>4, <3>1 DEF Promised
  <2> QED
    BY <2>1, <2>2
<1>5. ASSUME NEW c \in l \cup k
      PROVE  \E n \in 1..Len(s \o t), b \in Mail!Blocks(c) : (s \o t)[n] = Mail!Suppress(b)
  <2>1. CASE c \in l
    BY <1>2, <2>1 DEF Promised
  <2>2. CASE c \in k
    BY <1>3, <2>2 DEF Promised
  <2> QED
    BY <1>5, <2>1, <2>2
<1> QED
  BY <1>1, <1>4, <1>5 DEF Promised

(* The lists that the requests are made of.                                *)
LEMMA ListsPromised ==
  /\ Promised(<<>>, {}, {}) /\ <<>> \in Seq(Mail!Statements)
  /\ \A c \in Mail!Categories, b \in BOOLEAN :
       Promised(Mail!Granting(c, b), {}, {c}) /\ Mail!Granting(c, b) \in Seq(Mail!Statements)
  /\ \A s \in Mail!Scopes :
       /\ Promised(Mail!Leaving(s), Mail!CategoriesOf(s), {})
       /\ Mail!Leaving(s) \in Seq(Mail!Statements)
       /\ Promised(Mail!Unsubscribing(s), Mail!CategoriesOf(s), {})
       /\ Mail!Unsubscribing(s) \in Seq(Mail!Statements)
  /\ Promised(Mail!SuppressingAll, Mail!Categories, {})
  /\ Mail!SuppressingAll \in Seq(Mail!Statements)
  /\ Promised(Mail!OptingOutOfSale, Mail!Categories, {})
  /\ Mail!OptingOutOfSale \in Seq(Mail!Statements)
<1> USE DEF Promised, Mail!Categories, Mail!Scopes, Mail!All, Mail!Statements, Mail!Blocks,
            Mail!CategoriesOf, Mail!Suppress, Mail!Release, Mail!Withdraw, Mail!Grant,
            Mail!OptOutOfSale
<1>1. Promised(<<>>, {}, {}) /\ <<>> \in Seq(Mail!Statements)
  OBVIOUS
<1>2. ASSUME NEW c \in Mail!Categories, NEW b \in BOOLEAN
      PROVE  Promised(Mail!Granting(c, b), {}, {c}) /\ Mail!Granting(c, b) \in Seq(Mail!Statements)
  <2>1. ASSUME NEW g \in Mail!Statements, g.op = "grant"
        PROVE  /\ Promised(<<g, Mail!Release(c)>>, {}, {c})
               /\ <<g, Mail!Release(c)>> \in Seq(Mail!Statements)
    <3>1. Mail!Release(c) \in Mail!Statements
      OBVIOUS
    <3>2. \A d \in Mail!Categories :
            g # Mail!Release(d) /\ (Mail!Release(c) = Mail!Release(d) => c = d)
      BY <2>1
    <3> HIDE DEF Mail!Release, Mail!Statements, Mail!Categories
    <3> QED
      BY <3>1, <3>2
  <2> DEFINE first == Mail!Grant(TRUE, b)
             second == Mail!Grant(b, TRUE)
             Grants == [op: {"grant"}, marketing: BOOLEAN, newsletter: BOOLEAN]
  <2>2. first \in Grants /\ second \in Grants
    BY ONLY b \in BOOLEAN DEF Mail!Grant
  <2>3. Mail!Granting(c, b) \in {<<first, Mail!Release(c)>>, <<second, Mail!Release(c)>>}
    BY ONLY DEF Mail!Granting
  <2>4. ASSUME NEW g \in Grants
        PROVE  g \in Mail!Statements /\ g.op = "grant"
    <3>1. ASSUME NEW m \in BOOLEAN, NEW n \in BOOLEAN
          PROVE  Mail!Grant(m, n) \in Mail!Statements
      OBVIOUS
    <3>2. g.marketing \in BOOLEAN /\ g.newsletter \in BOOLEAN
      BY ONLY g \in Grants
    <3>3. g = Mail!Grant(g.marketing, g.newsletter) /\ g.op = "grant"
      BY ONLY g \in Grants DEF Mail!Grant
    <3> QED
      BY ONLY <3>1, <3>2, <3>3
  <2>5. ASSUME NEW g \in Grants
        PROVE  /\ Promised(<<g, Mail!Release(c)>>, {}, {c})
               /\ <<g, Mail!Release(c)>> \in Seq(Mail!Statements)
    BY <2>1, <2>4
  <2> HIDE DEF first, second, Grants, Promised, Mail!Statements, Mail!Release, Mail!Categories
  <2>6. CASE Mail!Granting(c, b) = <<first, Mail!Release(c)>>
    BY <2>2, <2>5, <2>6
  <2>7. CASE Mail!Granting(c, b) = <<second, Mail!Release(c)>>
    BY <2>2, <2>5, <2>7
  <2> QED
    BY ONLY <2>3, <2>6, <2>7
<1>3. ASSUME NEW s \in Mail!Scopes
      PROVE  /\ Promised(Mail!Leaving(s), Mail!CategoriesOf(s), {})
             /\ Mail!Leaving(s) \in Seq(Mail!Statements)
  BY DEF Mail!Leaving
<1>4. ASSUME NEW s \in Mail!Scopes
      PROVE  /\ Promised(Mail!Unsubscribing(s), Mail!CategoriesOf(s), {})
             /\ Mail!Unsubscribing(s) \in Seq(Mail!Statements)
  <2>1. CASE s = Mail!All
    BY <2>1 DEF Mail!Unsubscribing
  <2>2. CASE s # Mail!All
    BY <1>3, <2>2 DEF Mail!Unsubscribing
  <2> QED
    BY <2>1, <2>2
<1>5. Promised(Mail!SuppressingAll, Mail!Categories, {})
      /\ Mail!SuppressingAll \in Seq(Mail!Statements)
  BY DEF Mail!SuppressingAll
<1>6. Promised(<<Mail!OptOutOfSale>>, {}, {}) /\ <<Mail!OptOutOfSale>> \in Seq(Mail!Statements)
  OBVIOUS
<1>7. Promised(Mail!OptingOutOfSale, Mail!Categories, {})
      /\ Mail!OptingOutOfSale \in Seq(Mail!Statements)
  <2> HIDE DEF Promised, Mail!Categories, Mail!Statements, Mail!OptOutOfSale
  <2>1. Promised(<<Mail!OptOutOfSale>> \o Mail!SuppressingAll,
                 {} \cup Mail!Categories, {} \cup {})
    BY ONLY <1>5, <1>6, PromisedTogether
  <2>2. Mail!Categories = {} \cup Mail!Categories /\ {} = {} \cup {}
    OBVIOUS
  <2>3. <<Mail!OptOutOfSale>> \o Mail!SuppressingAll \in Seq(Mail!Statements)
    BY <1>5, <1>6
  <2>4. Promised(<<Mail!OptOutOfSale>> \o Mail!SuppressingAll, Mail!Categories, {})
    BY ONLY <2>1, <2>2
  <2> QED
    BY <2>3, <2>4 DEF Mail!OptingOutOfSale
<1> HIDE DEF Promised, Mail!Categories, Mail!Statements, Mail!Scopes
<1> QED
  BY <1>1, <1>2, <1>3, <1>4, <1>5, <1>7

(* The choices of an account's preferences.                                *)
LEMMA PreferringPromised ==
  ASSUME user \in Mail!UserSet, NEW m \in {TRUE, FALSE, None}, NEW n \in {TRUE, FALSE, None},
         NEW leaves, NEW joins,
         leaves = {c \in Mail!Categories : (c = "marketing" /\ m = FALSE) \/ (c = "newsletter" /\ n = FALSE)},
         joins = {c \in Mail!Categories : (c = "marketing" /\ m = TRUE) \/ (c = "newsletter" /\ n = TRUE)}
  PROVE  /\ Mail!Preferring(m, n) \in Seq(Mail!Statements)
         /\ Promised(Mail!Preferring(m, n), leaves, joins)
<1> DEFINE first == CASE m = TRUE  -> Mail!Granting("marketing", Mail!Chosen(n, user.newsletter))
                      [] m = FALSE -> Mail!Leaving("marketing")
                      [] OTHER     -> <<>>
           second == CASE n = TRUE  -> Mail!Granting("newsletter", Mail!Chosen(m, user.marketing))
                       [] n = FALSE -> Mail!Leaving("newsletter")
                       [] OTHER     -> <<>>
           Of(c, choice, b) == IF choice = b THEN {c} ELSE {}
<1>1. /\ user.newsletter \in BOOLEAN /\ user.marketing \in BOOLEAN
      /\ "marketing" \in Mail!Categories /\ "newsletter" \in Mail!Categories
      /\ Mail!Categories \subseteq Mail!Scopes
      /\ \A c \in Mail!Categories : Mail!CategoriesOf(c) = {c}
  BY DEF Mail!UserSet, Mail!Categories, Mail!Scopes, Mail!CategoriesOf, Mail!All
<1>2. /\ m = TRUE => Mail!Chosen(m, user.marketing) \in BOOLEAN
      /\ n = TRUE => Mail!Chosen(n, user.newsletter) \in BOOLEAN
      /\ Mail!Chosen(m, user.marketing) \in BOOLEAN
      /\ Mail!Chosen(n, user.newsletter) \in BOOLEAN
  BY <1>1 DEF Mail!Chosen
<1>3. /\ first \in Seq(Mail!Statements)
      /\ Promised(first, Of("marketing", m, FALSE), Of("marketing", m, TRUE))
  <2>1. CASE m = TRUE
    <3>1. /\ first = Mail!Granting("marketing", Mail!Chosen(n, user.newsletter))
          /\ Of("marketing", m, FALSE) = {} /\ Of("marketing", m, TRUE) = {"marketing"}
      BY <2>1
    <3> QED
      BY <3>1, <1>1, <1>2, ListsPromised
  <2>2. CASE m = FALSE
    <3>1. /\ first = Mail!Leaving("marketing")
          /\ Of("marketing", m, TRUE) = {} /\ Of("marketing", m, FALSE) = {"marketing"}
      BY <2>2
    <3> QED
      BY <3>1, <1>1, ListsPromised
  <2>3. CASE m # TRUE /\ m # FALSE
    <3>1. /\ first = <<>>
          /\ Of("marketing", m, TRUE) = {} /\ Of("marketing", m, FALSE) = {}
      BY <2>3
    <3> QED
      BY <3>1, ListsPromised
  <2> QED
    BY <2>1, <2>2, <2>3
<1>4. /\ second \in Seq(Mail!Statements)
      /\ Promised(second, Of("newsletter", n, FALSE), Of("newsletter", n, TRUE))
  <2>1. CASE n = TRUE
    <3>1. /\ second = Mail!Granting("newsletter", Mail!Chosen(m, user.marketing))
          /\ Of("newsletter", n, FALSE) = {} /\ Of("newsletter", n, TRUE) = {"newsletter"}
      BY <2>1
    <3> QED
      BY <3>1, <1>1, <1>2, ListsPromised
  <2>2. CASE n = FALSE
    <3>1. /\ second = Mail!Leaving("newsletter")
          /\ Of("newsletter", n, TRUE) = {} /\ Of("newsletter", n, FALSE) = {"newsletter"}
      BY <2>2
    <3> QED
      BY <3>1, <1>1, ListsPromised
  <2>3. CASE n # TRUE /\ n # FALSE
    <3>1. /\ second = <<>>
          /\ Of("newsletter", n, TRUE) = {} /\ Of("newsletter", n, FALSE) = {}
      BY <2>3
    <3> QED
      BY <3>1, ListsPromised
  <2> QED
    BY <2>1, <2>2, <2>3
<1>5. Mail!Preferring(m, n) = first \o second
  BY DEF Mail!Preferring
<1>6. /\ leaves = Of("marketing", m, FALSE) \cup Of("newsletter", n, FALSE)
      /\ joins = Of("marketing", m, TRUE) \cup Of("newsletter", n, TRUE)
  BY <1>1 DEF Mail!Categories
<1> HIDE DEF first, second, Of
<1>7. /\ first \o second \in Seq(Mail!Statements)
      /\ Promised(first \o second,
                  Of("marketing", m, FALSE) \cup Of("newsletter", n, FALSE),
                  Of("marketing", m, TRUE) \cup Of("newsletter", n, TRUE))
  BY ONLY <1>3, <1>4, PromisedTogether
<1> QED
  BY ONLY <1>5, <1>6, <1>7

(* A request that begins.                                                  *)
LEMMA StartMail ==
  ASSUME MailInv, NEW h \in Handlers, NEW todo \in Seq(Mail!Statements),
         NEW leaves \in SUBSET Mail!Categories, NEW joins \in SUBSET Mail!Categories,
         leaves \cap joins = {}, Promised(todo, leaves, joins),
         Mail!Start(h, todo, leaves, joins)
  PROVE  MailInv'
<1> DEFINE left == {c \in leaves : \A j \in Handlers : ~Mail!Joins(j, c)}
           new == [kind |-> "request", todo |-> todo, joins |-> joins, leaves |-> left]
<1>1. /\ sender[h] = Mail!Idle /\ user' = user /\ suppressed' = suppressed /\ out' = out \ joins
      /\ sender' = [g \in Handlers |->
                 IF g = h THEN new
                 ELSE IF Mail!IsRequest(sender[g]) THEN [sender[g] EXCEPT !.leaves = @ \ joins]
                 ELSE IF sender[g].kind = "send"
                 THEN [sender[g] EXCEPT !.unwanted = @ /\ sender[g].category \notin joins]
                 ELSE sender[g]]
  BY DEF Mail!Start
<1>2. new \in MailRequests /\ new.kind = "request" /\ new.todo = todo /\ new.joins = joins
      /\ new.leaves = left
  BY DEF MailRequests
<1>3. ASSUME NEW g \in Handlers, g # h, sender[g].kind = "request"
      PROVE  /\ sender[g] \in MailRequests /\ sender'[g] \in MailRequests
             /\ sender'[g].kind = "request" /\ sender'[g].todo = sender[g].todo
             /\ sender'[g].joins = sender[g].joins
             /\ sender'[g].leaves = sender[g].leaves \ joins
  <2>1. sender[g] \in MailRequests
    BY <1>3 DEF MailInv, MailFits, Mail!Idle, Mail!Sends
  <2>2. sender'[g] = [sender[g] EXCEPT !.leaves = sender[g].leaves \ joins]
    BY <1>1, <1>3 DEF Mail!IsRequest
  <2> QED
    BY <2>1, <2>2 DEF MailRequests
<1>4. ASSUME NEW g \in Handlers, g # h, sender[g].kind = "send"
      PROVE  /\ sender[g] \in Mail!Sends /\ sender'[g] \in Mail!Sends
             /\ sender'[g].kind = "send" /\ sender'[g].category = sender[g].category
             /\ sender'[g].passed = sender[g].passed
             /\ sender'[g].unwanted <=> sender[g].unwanted /\ sender[g].category \notin joins
  <2>1. sender[g] \in Mail!Sends
    BY <1>4 DEF MailInv, MailFits, Mail!Idle, MailRequests
  <2>2. sender'[g] = [sender[g] EXCEPT
          !.unwanted = sender[g].unwanted /\ sender[g].category \notin joins]
    BY <1>1, <1>4 DEF Mail!IsRequest
  <2> QED
    BY <2>1, <2>2 DEF Mail!Sends
<1>5. ASSUME NEW g \in Handlers, g # h, sender[g].kind \notin {"request", "send"}
      PROVE  sender'[g] = sender[g]
  BY <1>1, <1>5 DEF Mail!IsRequest
<1>6. sender'[h] = new
  BY <1>1
<1> HIDE DEF new
<1>7. \A g \in Handlers, c \in Mail!Categories :
        Mail!Joins(g, c)' => Mail!Joins(g, c) \/ c \in joins
  <2> SUFFICES ASSUME NEW g \in Handlers, NEW c \in Mail!Categories, Mail!Joins(g, c)'
               PROVE  Mail!Joins(g, c) \/ c \in joins
    OBVIOUS
  <2>1. CASE g = h
    BY <1>2, <1>6, <2>1 DEF Mail!Joins, Mail!IsRequest
  <2>2. CASE g # h
    BY <1>3, <1>4, <1>5, <2>2 DEF Mail!Joins, Mail!IsRequest
  <2> QED
    BY <2>1, <2>2
<1>8. \A c \in Mail!Categories \ joins : Unasked(c) => Unasked(c)'
  BY <1>7 DEF Unasked
<1>9. \A c \in Mail!Categories : Kept(c)' = Kept(c)
  BY <1>1 DEF Kept, Mail!Blocks
<1>10. MailFits'
  <2>1. \A g \in Handlers : sender'[g] \in {Mail!Idle} \cup Mail!Sends \cup MailRequests
    BY <1>2, <1>3, <1>4, <1>5, <1>6 DEF MailInv, MailFits
  <2>2. sender' \in [Handlers -> {Mail!Idle} \cup Mail!Sends \cup MailRequests]
    BY <1>1, <2>1
  <2> QED
    BY <1>1, <2>2 DEF MailInv, MailFits
<1>11. \A c \in out' : Kept(c)' /\ Unasked(c)'
  BY <1>1, <1>8, <1>9 DEF MailInv, MailFits, MailHolds
<1>12. ASSUME NEW g \in Handlers, sender'[g].kind = "request"
       PROVE  /\ \A c \in sender'[g].leaves : Unasked(c)'
              /\ Promised(sender'[g].todo, {c \in sender'[g].leaves : ~Kept(c)'}, sender'[g].joins)
  <2>1. CASE g = h
    BY <1>2, <1>6, <1>8, <2>1 DEF Promised, Unasked
  <2>2. CASE g # h
    <3>1. /\ sender[g] \in MailRequests /\ sender[g].kind = "request"
          /\ sender'[g].todo = sender[g].todo /\ sender'[g].joins = sender[g].joins
          /\ sender'[g].leaves = sender[g].leaves \ joins
      BY <1>2, <1>3, <1>4, <1>5, <1>12, <2>2
    <3>2. /\ \A c \in sender[g].leaves : Unasked(c)
          /\ Promised(sender[g].todo, {c \in sender[g].leaves : ~Kept(c)}, sender[g].joins)
          /\ sender[g].leaves \subseteq Mail!Categories
      BY <3>1 DEF MailInv, MailHolds, MailRequests
    <3> QED
      BY <1>8, <1>9, <3>1, <3>2 DEF Promised
  <2> QED
    BY <2>1, <2>2
<1>13. ASSUME NEW g \in Handlers, NEW c \in Mail!Categories,
              sender'[g].kind = "send", sender'[g].unwanted, sender'[g].category = c
       PROVE  Kept(c)' /\ Unasked(c)' /\ sender'[g].passed = "none"
  <2>1. g # h
    BY <1>2, <1>6, <1>13
  <2>2. sender[g].kind = "send"
    BY <1>3, <1>5, <1>13, <2>1
  <2>3. /\ sender[g].unwanted /\ sender[g].category \notin joins
        /\ sender[g] \in Mail!Sends
        /\ sender'[g].category = sender[g].category /\ sender'[g].passed = sender[g].passed
    BY <1>4, <1>13, <2>1, <2>2
  <2> QED
    BY <1>8, <1>9, <1>13, <2>2, <2>3 DEF MailInv, MailHolds
<1> QED
  BY <1>10, <1>11, <1>12, <1>13 DEF MailInv, MailHolds

(* Of what a step does to its own request or send, only what it opts into  *)
(* is of any matter to the others.                                         *)
LEMMA MailOfOne ==
  ASSUME MailInv, NEW h \in Handlers,
         NEW l \in {Mail!Idle} \cup Mail!Sends \cup MailRequests,
         sender' = [sender EXCEPT ![h] = l], user' \in Mail!UserSet,
         suppressed' \subseteq Mail!Scopes, out' \subseteq Mail!Categories,
         l.kind = "request" => sender[h].kind = "request" /\ l.joins = sender[h].joins,
         \A c \in Mail!Categories : Kept(c) /\ Unasked(c) => Kept(c)',
         \A c \in out' : Kept(c)' /\ Unasked(c),
         l.kind = "request" =>
           /\ \A c \in l.leaves : Unasked(c)
           /\ Promised(l.todo, {c \in l.leaves : ~Kept(c)'}, l.joins),
         \A c \in Mail!Categories :
           l.kind = "send" /\ l.unwanted /\ l.category = c =>
             Kept(c) /\ Unasked(c) /\ l.passed = "none"
  PROVE  MailInv'
<1>1. /\ sender \in [Handlers -> {Mail!Idle} \cup Mail!Sends \cup MailRequests]
      /\ sender'[h] = l /\ \A g \in Handlers \ {h} : sender'[g] = sender[g]
  BY DEF MailInv, MailFits
<1>2. MailFits'
  BY <1>1 DEF MailInv, MailFits
<1>3. \A g \in Handlers, c \in Mail!Categories : Mail!Joins(g, c)' => Mail!Joins(g, c)
  BY <1>1 DEF Mail!Joins, Mail!IsRequest
<1>4. \A c \in Mail!Categories : Unasked(c) => Unasked(c)'
  BY <1>3 DEF Unasked
<1>5. \A c \in out' : Kept(c)' /\ Unasked(c)'
  BY <1>4
<1>6. ASSUME NEW g \in Handlers, sender'[g].kind = "request"
      PROVE  /\ \A c \in sender'[g].leaves : Unasked(c)'
             /\ Promised(sender'[g].todo, {c \in sender'[g].leaves : ~Kept(c)'}, sender'[g].joins)
  <2>1. sender'[g].leaves \subseteq Mail!Categories
    BY <1>1, <1>6 DEF MailRequests, Mail!Sends, Mail!Idle
  <2>2. CASE g = h
    BY <1>1, <1>4, <1>6, <2>1, <2>2
  <2>3. CASE g # h
    <3>1. /\ \A c \in sender[g].leaves : Unasked(c)
          /\ Promised(sender[g].todo, {c \in sender[g].leaves : ~Kept(c)}, sender[g].joins)
      BY <1>1, <1>6, <2>3 DEF MailInv, MailHolds
    <3> QED
      BY <1>1, <1>4, <2>1, <2>3, <3>1 DEF Promised
  <2> QED
    BY <2>2, <2>3
<1>7. ASSUME NEW g \in Handlers, NEW c \in Mail!Categories,
             sender'[g].kind = "send", sender'[g].unwanted, sender'[g].category = c
      PROVE  Kept(c)' /\ Unasked(c)' /\ sender'[g].passed = "none"
  <2>1. CASE g = h
    BY <1>1, <1>4, <1>7, <2>1
  <2>2. CASE g # h
    BY <1>1, <1>4, <1>7, <2>2 DEF MailInv, MailHolds
  <2> QED
    BY <2>1, <2>2
<1> QED
  BY <1>2, <1>5, <1>6, <1>7 DEF MailInv, MailHolds

(* The statements of a request that are executed.                          *)
LEMMA ExecuteMail ==
  ASSUME MailInv, NEW h \in Handlers, Mail!Execute(h)
  PROVE  MailInv'
<1> DEFINE s == Head(sender[h].todo)
           l == [sender[h] EXCEPT !.todo = Tail(sender[h].todo)]
<1>1. /\ sender[h] \in MailRequests /\ sender[h].kind = "request" /\ sender[h].todo # <<>>
      /\ sender' = [sender EXCEPT ![h] = l]
      /\ suppressed' = Mail!Suppressions(s) /\ user' = Mail!Consents(s) /\ out' = out
  BY DEF Mail!Execute, Mail!IsRequest, MailInv, MailFits, Mail!Idle, Mail!Sends
<1>2. /\ sender[h].todo \in Seq(Mail!Statements) /\ s \in Mail!Statements
      /\ s = sender[h].todo[1] /\ 1 \in 1..Len(sender[h].todo)
      /\ Tail(sender[h].todo) \in Seq(Mail!Statements)
      /\ \A i \in 1..Len(Tail(sender[h].todo)) :
           /\ Tail(sender[h].todo)[i] = sender[h].todo[i + 1]
           /\ i + 1 \in 1..Len(sender[h].todo)
      /\ \A i \in 1..Len(sender[h].todo) :
           i = 1 \/ (i - 1 \in 1..Len(Tail(sender[h].todo)) /\ i = (i - 1) + 1)
  BY <1>1 DEF MailRequests
<1>3. /\ l \in MailRequests /\ l.kind = "request" /\ l.todo = Tail(sender[h].todo)
      /\ l.leaves = sender[h].leaves /\ l.joins = sender[h].joins
      /\ l.leaves \subseteq Mail!Categories
  BY <1>1, <1>2 DEF MailRequests
<1> HIDE DEF l, s
<1>4. user' \in Mail!UserSet
  <2>1. /\ user \in Mail!UserSet
        /\ user' = Mail!Consents(s)
        /\ s.op = "grant" => s.marketing \in BOOLEAN /\ s.newsletter \in BOOLEAN
    BY <1>1, <1>2 DEF MailInv, MailFits, Mail!Statements,
       Mail!Suppress, Mail!Release, Mail!Withdraw, Mail!Grant, Mail!OptOutOfSale
  <2>2. CASE s.op = "grant"
    BY ONLY <2>1, <2>2 DEF Mail!Consents, Mail!UserSet
  <2>3. CASE s.op = "withdraw"
    <3>1. user' = [user EXCEPT !.marketing = user'.marketing, !.newsletter = user'.newsletter]
          /\ user'.marketing \in BOOLEAN /\ user'.newsletter \in BOOLEAN
      BY ONLY <2>1, <2>3 DEF Mail!Consents, Mail!UserSet
    <3> QED
      BY ONLY <2>1, <3>1 DEF Mail!UserSet
  <2>4. CASE s.op \notin {"grant", "withdraw"}
    BY ONLY <2>1, <2>4 DEF Mail!Consents, Mail!UserSet
  <2> QED
    BY <2>2, <2>3, <2>4
<1>5. /\ suppressed' \subseteq Mail!Scopes
      /\ \/ suppressed \subseteq suppressed'
         \/ \E c \in Mail!Categories : s = Mail!Release(c) /\ suppressed' = suppressed \ {c}
      /\ \A b \in Mail!Scopes : s = Mail!Suppress(b) => b \in suppressed'
  BY <1>1, <1>2 DEF MailInv, MailFits, Mail!Suppressions, Mail!Scopes, Mail!Statements,
     Mail!Suppress, Mail!Release, Mail!Withdraw, Mail!Grant, Mail!OptOutOfSale
<1>6. Promised(sender[h].todo, {c \in sender[h].leaves : ~Kept(c)}, sender[h].joins)
      /\ \A c \in sender[h].leaves : Unasked(c)
  BY <1>1 DEF MailInv, MailHolds
<1>7. \A c \in Mail!Categories : s = Mail!Release(c) => ~Unasked(c)
  BY <1>1, <1>2, <1>6 DEF Promised, Unasked, Mail!Joins, Mail!IsRequest
<1>8. ASSUME NEW c \in Mail!Categories, Kept(c), Unasked(c)
      PROVE  Kept(c)'
  <2>1. CASE suppressed \subseteq suppressed'
    BY <1>8, <2>1 DEF Kept
  <2>2. ASSUME NEW d \in Mail!Categories, s = Mail!Release(d), suppressed' = suppressed \ {d}
        PROVE  Kept(c)'
    <3>1. d # c /\ d \notin Mail!Blocks(c)
      BY <1>7, <1>8, <2>2 DEF Mail!Blocks, Mail!Categories, Mail!All
    <3> QED
      BY <1>8, <2>2, <3>1 DEF Kept
  <2> QED
    BY <1>5, <2>1, <2>2
<1>9. ASSUME NEW c \in l.leaves, ~Kept(c)'
      PROVE  \E i \in 1..Len(l.todo), b \in Mail!Blocks(c) : l.todo[i] = Mail!Suppress(b)
  <2>1. ~Kept(c) /\ c \in Mail!Categories
    BY <1>3, <1>6, <1>8, <1>9
  <2>2. PICK i \in 1..Len(sender[h].todo), b \in Mail!Blocks(c) :
          sender[h].todo[i] = Mail!Suppress(b)
    BY <1>3, <1>6, <1>9, <2>1 DEF Promised
  <2>3. b \in Mail!Scopes
    BY <2>1 DEF Mail!Blocks, Mail!Scopes
  <2>4. i # 1
    BY <1>2, <1>5, <1>9, <2>2, <2>3 DEF Kept
  <2> QED
    BY <1>2, <1>3, <2>2, <2>4
<1>10. Promised(l.todo, {c \in l.leaves : ~Kept(c)'}, l.joins)
  <2>1. \A i \in 1..Len(l.todo), c \in Mail!Categories : l.todo[i] = Mail!Release(c) => c \in l.joins
    BY <1>2, <1>3, <1>6 DEF Promised
  <2> QED
    BY <1>9, <2>1 DEF Promised
<1>11. \A c \in out' : Kept(c)' /\ Unasked(c)
  BY <1>1, <1>8 DEF MailInv, MailHolds, MailFits
<1>12. out' \subseteq Mail!Categories
  BY <1>1 DEF MailInv, MailFits
<1> QED
  BY <1>1, <1>3, <1>4, <1>5, <1>6, <1>8, <1>10, <1>11, <1>12, MailOfOne

(* A request that ends or dies, and the steps of a send.                   *)
LEMMA OtherMail ==
  ASSUME MailInv, NEW h \in Handlers,
         \/ Mail!Answer(h) \/ Mail!Die(h) \/ \E c \in Mail!Categories : Mail!Send(h, c)
         \/ Mail!CheckSuppressions(h) \/ Mail!CheckConsent(h) \/ Mail!Deliver(h)
  PROVE  MailInv'
<1>1. sender[h] \in {Mail!Idle} \cup Mail!Sends \cup MailRequests /\ Mail!Idle.kind = "idle"
  BY DEF MailInv, MailFits, Mail!Idle
<1>2. \A c \in out : Kept(c) /\ Unasked(c) /\ c \in Mail!Categories
  BY DEF MailInv, MailHolds, MailFits
<1>3. UNCHANGED <<user, suppressed>>
  BY DEF Mail!Answer, Mail!Die, Mail!Send, Mail!CheckSuppressions, Mail!CheckConsent,
         Mail!Deliver, Mail!Pass
<1>4. user' \in Mail!UserSet /\ suppressed' \subseteq Mail!Scopes /\ out \subseteq Mail!Categories
  BY <1>3 DEF MailInv, MailFits
<1>5. \A c \in Mail!Categories : Kept(c)' = Kept(c)
  BY <1>3 DEF Kept, Mail!Blocks
<1>6. CASE Mail!Answer(h)
  <2>1. /\ sender[h] \in MailRequests /\ sender[h].kind = "request" /\ sender[h].todo = <<>>
        /\ out' = out \cup sender[h].leaves /\ sender' = [sender EXCEPT ![h] = Mail!Idle]
    BY <1>1, <1>6 DEF Mail!Answer, Mail!IsRequest, Mail!Sends
  <2>2. \A c \in sender[h].leaves : Kept(c) /\ Unasked(c) /\ c \in Mail!Categories
    BY <2>1 DEF MailInv, MailHolds, Promised, MailRequests
  <2> QED
    BY <1>1, <1>2, <1>4, <1>5, <2>1, <2>2, MailOfOne
<1>7. CASE Mail!Die(h) \/ Mail!Deliver(h)
  <2>1. out' = out /\ sender' = [sender EXCEPT ![h] = Mail!Idle]
    BY <1>7 DEF Mail!Die, Mail!Deliver
  <2> QED
    BY <1>1, <1>2, <1>4, <1>5, <2>1, MailOfOne
<1>8. ASSUME NEW c \in Mail!Categories, Mail!Send(h, c)
      PROVE  MailInv'
  <2>0. PICK b \in BOOLEAN : b <=> c \in out
    OBVIOUS
  <2> DEFINE l == [kind |-> "send", category |-> c, passed |-> "none", unwanted |-> b]
  <2>1. out' = out /\ sender' = [sender EXCEPT ![h] = l]
    BY <1>8, <2>0 DEF Mail!Send
  <2>2. /\ l \in Mail!Sends /\ l.kind = "send" /\ l.category = c /\ l.passed = "none"
        /\ l.unwanted = b
    BY DEF Mail!Sends
  <2> HIDE DEF l
  <2> QED
    BY <1>2, <1>4, <1>5, <2>0, <2>1, <2>2, MailOfOne
<1>9. CASE Mail!CheckSuppressions(h) \/ Mail!CheckConsent(h)
  <2>1. /\ sender[h] \in Mail!Sends /\ sender[h].kind = "send" /\ out' = out
    BY <1>1, <1>9 DEF Mail!CheckSuppressions, Mail!CheckConsent, Mail!Pass, MailRequests
  <2>2. CASE sender' = [sender EXCEPT ![h] = Mail!Idle]
    BY <1>1, <1>2, <1>4, <1>5, <2>1, <2>2, MailOfOne
  <2>3. ASSUME sender' # [sender EXCEPT ![h] = Mail!Idle]
        PROVE  MailInv'
    <3>1. PICK to \in {"suppressions", "consent"} :
            /\ sender' = [sender EXCEPT ![h] = [@ EXCEPT !.passed = to]]
            /\ sender[h].passed # "none" \/ Mail!Blocks(sender[h].category) \cap suppressed = {}
      BY <1>9, <2>3 DEF Mail!CheckSuppressions, Mail!CheckConsent, Mail!Pass
    <3> DEFINE l == [sender[h] EXCEPT !.passed = to]
    <3>2. /\ l \in Mail!Sends /\ l.kind = "send" /\ l.category = sender[h].category
          /\ l.unwanted = sender[h].unwanted /\ sender' = [sender EXCEPT ![h] = l]
      BY <2>1, <3>1 DEF Mail!Sends
    <3>3. ~sender[h].unwanted
      <4>1. sender[h].category \in Mail!Categories
        BY <2>1 DEF Mail!Sends
      <4> QED
        BY <2>1, <3>1, <4>1 DEF MailInv, MailHolds, Kept
    <3> HIDE DEF l
    <3> QED
      BY <1>2, <1>4, <1>5, <2>1, <3>2, <3>3, MailOfOne
  <2> QED
    BY <2>2, <2>3
<1> QED
  BY <1>6, <1>7, <1>8, <1>9

(* A request that begins, whatever it is about.                            *)
LEMMA StartsMail ==
  ASSUME MailInv, NEW h \in Handlers,
         \/ Mail!UpdatePreferences(h) \/ Mail!Unsubscribe(h)
         \/ Mail!SignalOptOut(h) \/ Mail!RequestOptOut(h)
  PROVE  MailInv'
<1>1. CASE Mail!UpdatePreferences(h)
  <2>1. PICK m \in {TRUE, FALSE, None}, n \in {TRUE, FALSE, None} :
          LET choice == [marketing |-> m, newsletter |-> n] IN
          Mail!Start(h, Mail!Preferring(m, n), {c \in Mail!Categories : choice[c] = FALSE},
                     {c \in Mail!Categories : choice[c] = TRUE})
    BY <1>1 DEF Mail!UpdatePreferences
  <2> DEFINE leaves == {c \in Mail!Categories : (c = "marketing" /\ m = FALSE) \/ (c = "newsletter" /\ n = FALSE)}
             joins == {c \in Mail!Categories : (c = "marketing" /\ m = TRUE) \/ (c = "newsletter" /\ n = TRUE)}
             choice == [marketing |-> m, newsletter |-> n]
  <2>2. /\ leaves = {c \in Mail!Categories : choice[c] = FALSE}
        /\ joins = {c \in Mail!Categories : choice[c] = TRUE}
    BY DEF Mail!Categories
  <2>3. Mail!Start(h, Mail!Preferring(m, n), leaves, joins)
    BY <2>1, <2>2
  <2>4. user \in Mail!UserSet
    BY DEF MailInv, MailFits
  <2>5. /\ Mail!Preferring(m, n) \in Seq(Mail!Statements)
        /\ Promised(Mail!Preferring(m, n), leaves, joins)
    BY <2>4, PreferringPromised
  <2>6. leaves \subseteq Mail!Categories /\ joins \subseteq Mail!Categories /\ leaves \cap joins = {}
    OBVIOUS
  <2> HIDE DEF leaves, joins
  <2> QED
    BY <2>3, <2>5, <2>6, StartMail
<1>2. CASE Mail!Unsubscribe(h)
  <2>1. PICK s \in Mail!Scopes : Mail!Start(h, Mail!Unsubscribing(s), Mail!CategoriesOf(s), {})
    BY <1>2 DEF Mail!Unsubscribe
  <2>2. Mail!CategoriesOf(s) \subseteq Mail!Categories
    BY DEF Mail!CategoriesOf, Mail!Scopes
  <2> QED
    BY <2>1, <2>2, ListsPromised, StartMail
<1>3. CASE Mail!SignalOptOut(h)
  BY <1>3, ListsPromised, StartMail DEF Mail!SignalOptOut
<1>4. CASE Mail!RequestOptOut(h)
  BY <1>4, ListsPromised, StartMail DEF Mail!RequestOptOut
<1> QED
  BY <1>1, <1>2, <1>3, <1>4

(* Every step keeps the promises of the mail.                              *)
LEMMA NextMail == MailInv /\ [Mail!Next]_mailVars => MailInv'
<1> SUFFICES ASSUME MailInv, [Mail!Next]_mailVars PROVE MailInv'
  OBVIOUS
<1>1. CASE UNCHANGED mailVars
  BY <1>1 DEF mailVars, MailInv, MailFits, MailHolds, Kept, Unasked, Mail!Joins, Mail!IsRequest
<1>2. CASE Mail!Next
  BY <1>2, StartsMail, ExecuteMail, OtherMail DEF Mail!Next
<1> QED
  BY <1>1, <1>2

(* The promises hold when nothing has been asked for.                      *)
LEMMA InitMail == Mail!Init => MailInv
BY DEF Mail!Init, MailInv, MailFits, MailHolds, Mail!Idle, Mail!Scopes, Mail!Categories

(* The invariant says that the values are of their types, and that no mail *)
(* is sent after an opt-out.                                               *)
LEMMA MailTyped == MailInv => Mail!TypeOK /\ Mail!NoMailAfterOptOut
<1> SUFFICES ASSUME MailInv PROVE Mail!TypeOK /\ Mail!NoMailAfterOptOut
  OBVIOUS
<1>1. Mail!TypeOK
  BY DEF MailInv, MailFits, Mail!TypeOK, MailRequests
<1>2. ASSUME NEW h \in Handlers, sender[h].kind = "send", sender[h].passed = "consent"
      PROVE  ~sender[h].unwanted
  <2>1. sender[h].category \in Mail!Categories
    BY <1>2 DEF MailInv, MailFits, MailRequests, Mail!Sends, Mail!Idle
  <2> QED
    BY <1>2, <2>1 DEF MailInv, MailHolds
<1> QED
  BY <1>1, <1>2 DEF Mail!NoMailAfterOptOut

-----------------------------------------------------------------------------
(* The parts of MCPrivacy: a behaviour is one of its part.                 *)

mcVars == <<part, dsarVars, retentionVars, mailVars>>

(* The part that moves.                                                    *)
On(p) == part = p

(* What each step of MCPrivacy is of its part.                             *)
LEMMA PartsMove ==
  [MCNext]_mcVars =>
    /\ part' = part
    /\ \A p \in {"dsar", "matter", "logbooks", "mail"} : On(p) <=> On(p)'
    /\ On("dsar") => [Next]_vars
    /\ On("matter") => [Matter!Next]_Matter!vars
    /\ On("logbooks") => [Logbooks!Next]_Logbooks!vars
    /\ On("mail") => [Mail!Next]_mailVars
BY DEF On, MCNext, mcVars, dsarVars, retentionVars, mailVars, vars, Matter!vars, Logbooks!vars,
       Matter!observers, Logbooks!observers

(* What each part begins with.                                             *)
LEMMA PartsBegin ==
  MCInit =>
    /\ On("dsar") => Init
    /\ On("matter") => Matter!Init
    /\ On("logbooks") => Logbooks!Init
    /\ On("mail") => Mail!Init
BY DEF MCInit, On

(* A behaviour is of one part throughout, and it is a behaviour of what    *)
(* the part is an instance of.                                             *)
LEMMA PartsImplemented ==
  MCSpec =>
    /\ [](On("dsar")) \/ [](~On("dsar"))
    /\ [](On("matter")) \/ [](~On("matter"))
    /\ [](On("logbooks")) \/ [](~On("logbooks"))
    /\ [](On("mail")) \/ [](~On("mail"))
    /\ On("dsar") => Spec
    /\ On("matter") => Matter!Spec
    /\ On("logbooks") => Logbooks!Spec
    /\ On("mail") => Mail!Init /\ [][Mail!Next]_mailVars
<1>1. [MCNext]_mcVars =>
        /\ On("dsar") <=> On("dsar")'
        /\ On("matter") <=> On("matter")'
        /\ On("logbooks") <=> On("logbooks")'
        /\ On("mail") <=> On("mail")'
  BY PartsMove
<1> QED
  BY <1>1, PartsMove, PartsBegin, PTL DEF MCSpec, mcVars, Spec, Matter!Spec, Logbooks!Spec

(* Privacy requests, the retention and the mail keep their types.          *)
THEOREM PrivacyTypesCorrect == MCSpec => []TypesOK
<1>1. Mail!Init /\ [][Mail!Next]_mailVars => []Mail!TypeOK
  BY InitMail, NextMail, MailTyped, PTL
<1>2. Matter!Spec => []Matter!TypeOK
  BY RetentionParameters, Matter!TypesFit
<1>3. Logbooks!Spec => []Logbooks!TypeOK
  BY RetentionParameters, Logbooks!TypesFit
<1>4. Spec => []TypeOK
  BY TypeCorrect
<1>5. /\ On("dsar") => TypeOK
      /\ On("matter") => Matter!TypeOK
      /\ On("logbooks") => Logbooks!TypeOK
      /\ On("mail") => Mail!TypeOK
      => TypesOK
  BY DEF TypesOK, On
<1> QED
  BY <1>1, <1>2, <1>3, <1>4, <1>5, PartsImplemented, PTL

(* Runs of the retention miss nothing, count once and anonymize wholly,    *)
(* but for what a conflict check writes later (retention.service.js,       *)
(* conflict-check.service.js).                                             *)
THEOREM RunsKeepTheirWordAlways == MCSpec => []RunsKeepTheirWord
<1>1. Matter!Spec => []Matter!RunsAreRight
  BY RetentionParameters, Matter!RunsRight
<1>2. Logbooks!Spec => []Logbooks!RunsAreRight
  BY RetentionParameters, Logbooks!RunsRight
<1>3. (On("matter") => Matter!RunsAreRight) /\ (On("logbooks") => Logbooks!RunsAreRight)
      => RunsKeepTheirWord
  BY DEF RunsKeepTheirWord, On
<1> QED
  BY <1>1, <1>2, <1>3, PartsImplemented, PTL

(* They take rows only when they are due and not on hold, unless somebody  *)
(* has changed a row since it was read.                                    *)
THEOREM TakenForCauseAlways == MCSpec => TakenForCause
<1>1. Matter!Spec => [][Matter!TakesForCause]_Matter!vars
  BY RetentionParameters, Matter!TakenWithCause DEF Matter!TakenForCause
<1>2. Logbooks!Spec => [][Logbooks!TakesForCause]_Logbooks!vars
  BY RetentionParameters, Logbooks!TakenWithCause DEF Logbooks!TakenForCause
<1> DEFINE M == part = "matter" => Matter!TakesForCause
           L == part = "logbooks" => Logbooks!TakesForCause
<1>3. /\ ~On("matter") \/ [Matter!TakesForCause]_Matter!vars
      /\ ~On("logbooks") \/ [Logbooks!TakesForCause]_Logbooks!vars
      /\ [MCNext]_mcVars
      => [M /\ L]_<<part, retentionVars>>
  <2>1. [MCNext]_mcVars => part' = part
    BY PartsMove
  <2>2. Matter!vars' = Matter!vars => UNCHANGED retentionVars
    BY DEF Matter!vars, Matter!observers, retentionVars
  <2>3. Logbooks!vars' = Logbooks!vars => UNCHANGED retentionVars
    BY DEF Logbooks!vars, Logbooks!observers, retentionVars
  <2> QED
    BY <2>1, <2>2, <2>3 DEF On
<1> QED
  BY <1>1, <1>2, <1>3, PartsImplemented, PTL DEF TakenForCause, MCSpec, mcVars

(* However preferences, links, signals and privacy requests overlap, no    *)
(* mail of a category is sent that was begun after the opt-out from it     *)
(* (sendMarketingEmail): the suppression stays, whatever becomes of the    *)
(* consent.                                                                *)
THEOREM NoMailAfterOptOutAlways == MCSpec => []NoMailAfterOptOut
<1>1. Mail!Init /\ [][Mail!Next]_mailVars => []Mail!NoMailAfterOptOut
  BY InitMail, NextMail, MailTyped, PTL
<1>2. (On("mail") => Mail!NoMailAfterOptOut) => NoMailAfterOptOut
  BY DEF NoMailAfterOptOut, On
<1> QED
  BY <1>1, <1>2, PartsImplemented, PTL
=============================================================================

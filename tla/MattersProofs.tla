---------------------------- MODULE MattersProofs ----------------------------
(***************************************************************************)
(* Theorems about LeadWorkflow for any number of handlers, any degree of   *)
(* overlap and any set of requests; about Administrators for any number of *)
(* users, requests and runs of the script; about Browser for any number of *)
(* tabs and requests; about CookieConsent for any number of tabs and       *)
(* categories; and about MCMatters, which puts them beside one another.    *)
(***************************************************************************)
EXTENDS MCMatters, FiniteSetTheorems, TLAPS

-----------------------------------------------------------------------------
(* The lead.  IInv is the inductive invariant: what the lead shows and     *)
(* what a handler has read of it was earned at some time, and what has     *)
(* once been earned is not lost.                                           *)

USE InputsAssumption

(* At each step a handler has in hand what the step needs.                 *)
HasWant(h) ==
  /\ pc[h] = "existing" => want[h].kind \in {"update", "review"}
  /\ pc[h] = "upsert" =>
       \/ want[h].kind = "submit"
       \/ want[h].kind = "update" /\ read[h].conflict \in Results
  /\ pc[h] = "record" => want[h].kind = "review"
  /\ pc[h] \in {"find", "check", "update"} => read[h].to \in States

(* What a handler has read stays earned until it writes, although the lead *)
(* may have changed since.                                                 *)
ReadEarned(h) ==
  LET r == read[h] IN
  /\ pc[h] \in {"existing", "upsert", "record", "gate"} =>
       /\ r.status = "engaged" => "engaged" \in passed
       /\ r.review = "accepted" => "accepted" \in passed
  /\ pc[h] = "check" =>
       /\ r.review = "accepted" => "accepted" \in passed
       /\ r.confirmed => lead.confirmed
  /\ pc[h] \in {"check", "update"} /\ r.to = "filed" =>
       {"clear", "accepted", "engaged"} \subseteq passed /\ lead.confirmed
  /\ pc[h] = "update" =>
       /\ r.to \in {"attorney_review", "accepted", "engaged"} => "clear" \in passed
       /\ r.to \in {"accepted", "engaged"} => "accepted" \in passed
       /\ r.to = "engaged" => lead.confirmed
  /\ pc[h] = "insert" => {"clear", "accepted", "engaged"} \subseteq passed

(* What the lead and its conflict check show has been seen.                *)
SeenInv ==
  /\ conflict = "clear" => "clear" \in passed
  /\ lead.review = "accepted" => "accepted" \in passed

IInv ==
  /\ TypeOK
  /\ \A h \in Handlers : HasWant(h)
  /\ \A h \in Handlers : ReadEarned(h)
  /\ SeenInv
  /\ MattersAreEarned
  /\ PacketsAreEarned

(* A step of handler h leaves the other handlers alone and every handler   *)
(* well typed.                                                             *)
Others(h) ==
  /\ pc' \in [Handlers -> Steps]
  /\ read' \in [Handlers -> Reads]
  /\ want' \in [Handlers -> LeadRequests \cup {NoWant}]
  /\ \A g \in Handlers \ {h} :
       pc'[g] = pc[g] /\ read'[g] = read[g] /\ want'[g] = want[g]

(* What has been earned stays earned.                                      *)
Kept == passed \subseteq passed' /\ (lead.confirmed => lead'.confirmed)

-----------------------------------------------------------------------------
(* Steps in general.                                                       *)

(* A handler that goes on.                                                 *)
LEMMA Going ==
  ASSUME TypeOK, NEW h \in Handlers, NEW s \in Steps, NEW r \in Reads,
         Goto(h, s, r)
  PROVE  /\ Others(h)
         /\ pc'[h] = s /\ read'[h] = r /\ want'[h] = want[h]
BY DEF Goto, TypeOK, Others

(* A handler that returns.                                                 *)
LEMMA Returning ==
  ASSUME TypeOK, NEW h \in Handlers, Return(h)
  PROVE  Others(h) /\ pc'[h] = "idle"
BY DEF Return, TypeOK, Others, Steps, Ended, NoRead, Reads

(* A handler that is refused.                                              *)
LEMMA Refused ==
  ASSUME TypeOK, NEW h \in Handlers, Refuse(h)
  PROVE  Others(h) /\ pc'[h] = "refused"
<1>1. read[h] \in Reads /\ "refused" \in Steps
  BY DEF TypeOK, Steps, Ended
<1> QED BY <1>1, Going DEF Refuse

(* What a handler has in hand is a request.                                *)
LEMMA WantTyped ==
  ASSUME TypeOK, NEW h \in Handlers
  PROVE  want[h] \in LeadRequests \cup {NoWant}
<1>1. want \in [Handlers -> LeadRequests \cup {NoWant}]
  BY DEF TypeOK
<1> QED BY <1>1

(* An update brings a result or none, a review a decision.                 *)
LEMMA WantFields ==
  ASSUME NEW w \in LeadRequests \cup {NoWant}
  PROVE  /\ w.kind = "update" => w.arg \in Results \cup {"absent"}
         /\ w.kind = "review" => w.arg \in Decisions /\ w.confirm \in BOOLEAN
<1>1. CASE w = NoWant
  BY <1>1 DEF NoWant
<1>2. CASE w \in [kind: {"update"}, arg: Results \cup {"absent"},
                  confirm: {FALSE}, admin: BOOLEAN]
  BY <1>2
<1>3. CASE w \in [kind: {"review"}, arg: Decisions, confirm: BOOLEAN, admin: BOOLEAN]
  BY <1>3
<1>4. CASE /\ w # NoWant
           /\ w \notin [kind: {"update"}, arg: Results \cup {"absent"},
                        confirm: {FALSE}, admin: BOOLEAN]
           /\ w \notin [kind: {"review"}, arg: Decisions, confirm: BOOLEAN,
                        admin: BOOLEAN]
  BY <1>4 DEF LeadRequests
<1> QED BY <1>1, <1>2, <1>3, <1>4

(* What MoveTo hands to updateLeadState.                                   *)
LEMMA MoveToReads ==
  ASSUME NEW s \in States
  PROVE  /\ [NoRead EXCEPT !.to = s] \in Reads
         /\ [NoRead EXCEPT !.to = s].to = s
BY DEF NoRead, Reads

(* A handler that hands a state to updateLeadState.                        *)
LEMMA Moving ==
  ASSUME TypeOK, NEW h \in Handlers, NEW s \in States, MoveTo(h, s)
  PROVE  Others(h) /\ pc'[h] = "find" /\ read'[h].to \in States
<1>1. PICK r \in Reads : r = [NoRead EXCEPT !.to = s] /\ r.to = s
  BY MoveToReads
<1>2. "find" \in Steps
  BY DEF Steps
<1> QED BY <1>1, <1>2, Going DEF MoveTo

(* A handler that is done, or about to look the lead up, claims nothing.   *)
LEMMA NoClaim ==
  ASSUME NEW h \in Handlers,
         \/ pc'[h] \in Ended \cup {"load", "approve", "delete"}
         \/ pc'[h] = "find" /\ read'[h].to \in States
  PROVE  HasWant(h)' /\ ReadEarned(h)'
BY DEF HasWant, ReadEarned, Ended

(* The claims of the other handlers survive.                               *)
LEMMA OthersHold ==
  ASSUME IInv, NEW h \in Handlers, Others(h), Kept, HasWant(h)', ReadEarned(h)'
  PROVE  /\ \A g \in Handlers : HasWant(g)'
         /\ \A g \in Handlers : ReadEarned(g)'
<1> SUFFICES ASSUME NEW g \in Handlers, g # h
             PROVE  HasWant(g)' /\ ReadEarned(g)'
  OBVIOUS
<1>1. pc'[g] = pc[g] /\ read'[g] = read[g] /\ want'[g] = want[g]
  BY DEF Others
<1>2. HasWant(g)'
  BY <1>1 DEF IInv, HasWant
<1>3. ReadEarned(g)'
  BY <1>1 DEF IInv, ReadEarned, Kept
<1> QED BY <1>2, <1>3

(* A step that changes neither the lead, its conflict check nor its packet. *)
LEMMA LocalStep ==
  ASSUME IInv, NEW h \in Handlers, Others(h),
         UNCHANGED <<lead, conflict, packet, passed>>,
         HasWant(h)', ReadEarned(h)'
  PROVE  IInv'
<1>1. TypeOK'
  BY DEF IInv, TypeOK, Others
<1>2. Kept
  BY DEF Kept
<1>3. SeenInv' /\ MattersAreEarned' /\ PacketsAreEarned'
  BY DEF IInv, SeenInv, MattersAreEarned, PacketsAreEarned
<1> QED BY <1>1, <1>2, <1>3, OthersHold DEF IInv

-----------------------------------------------------------------------------
(* One lemma per action.                                                   *)

(* A request that arrives has read nothing.                                *)
LEMMA BeginPreserves ==
  ASSUME IInv, NEW h \in Handlers, Begin(h)
  PROVE  IInv'
<1>1. PICK w \in Inputs :
        /\ want' = [want EXCEPT ![h] = w]
        /\ pc' = [pc EXCEPT ![h] =
             CASE w.kind = "state"                 -> "find"
               [] w.kind \in {"delete", "approve"} -> w.kind
               [] OTHER                            -> "load"]
        /\ read' = [read EXCEPT ![h] =
             IF w.kind = "state" THEN [NoRead EXCEPT !.to = w.arg] ELSE NoRead]
  BY DEF Begin
<1>2. w \in LeadRequests /\ (w.kind = "state" => w.arg \in States)
  BY DEF LeadRequests
<1>3. \/ w.kind = "state" /\ pc'[h] = "find" /\ read'[h] = [NoRead EXCEPT !.to = w.arg]
      \/ pc'[h] \in {"load", "approve", "delete"} /\ read'[h] = NoRead
  BY <1>1, <1>2 DEF IInv, TypeOK
<1>4. NoRead \in Reads
  BY DEF NoRead, Reads
<1>5. Others(h)
  <2>1. pc'[h] \in Steps /\ read'[h] \in Reads
    BY <1>2, <1>3, <1>4, MoveToReads DEF Steps
  <2> QED BY <1>1, <1>2, <2>1 DEF IInv, TypeOK, Others
<1>6. HasWant(h)' /\ ReadEarned(h)'
  BY <1>2, <1>3, MoveToReads, NoClaim
<1> QED BY <1>5, <1>6, LocalStep DEF Begin

(* What a handler loads of the lead is what the lead has earned.           *)
LEMMA LoadPreserves ==
  ASSUME IInv, NEW h \in Handlers, Load(h)
  PROVE  IInv'
<1>1. CASE Refuse(h)
  BY <1>1, Refused, NoClaim, LocalStep DEF IInv, Load, Ended
<1>2. CASE ~Refuse(h)
  <2> DEFINE r == [NoRead EXCEPT !.status = lead.status, !.review = lead.review,
                                 !.confirmed = lead.confirmed]
  <2>1. PICK s \in {"upsert", "existing", "gate"} :
          /\ Goto(h, s, r)
          /\ s = "upsert" => want[h].kind = "submit"
          /\ s = "existing" => want[h].kind \in {"update", "review"}
    BY <1>2 DEF Load
  <2>2. r \in Reads /\ r.status = lead.status /\ r.review = lead.review
    BY DEF IInv, TypeOK, Leads, NoRead, Reads
  <2> HIDE DEF r
  <2>3. Others(h) /\ pc'[h] = s /\ read'[h] = r /\ want'[h] = want[h]
    BY <2>1, <2>2, Going DEF IInv, Steps
  <2>4. HasWant(h)'
    BY <2>1, <2>3 DEF HasWant
  <2>5. UNCHANGED <<lead, conflict, packet, passed>>
    BY DEF Load
  <2>6. ReadEarned(h)'
    BY <2>1, <2>2, <2>3, <2>5 DEF IInv, ReadEarned, SeenInv, MattersAreEarned
  <2> QED BY <2>3, <2>4, <2>5, <2>6, LocalStep
<1> QED BY <1>1, <1>2

(* An update goes on with a stored result, a review with a clear one.      *)
LEMMA ExistingPreserves ==
  ASSUME IInv, NEW h \in Handlers, Existing(h)
  PROVE  IInv'
<1>0. UNCHANGED <<lead, conflict, packet, passed>>
  BY DEF Existing
<1>1. CASE Refuse(h)
  BY <1>0, <1>1, Refused, NoClaim, LocalStep DEF IInv, Ended
<1>2. CASE ~Refuse(h)
  <2> DEFINE r == [read[h] EXCEPT !.conflict = conflict]
  <2>1. PICK s \in {"upsert", "record"} :
          /\ Goto(h, s, r) /\ pc[h] = "existing"
          /\ s = "upsert" => want[h].kind = "update" /\ conflict # "none"
          /\ s = "record" => want[h].kind # "update"
    BY <1>2 DEF Existing
  <2>2. /\ r \in Reads /\ r.conflict = conflict
        /\ r.status = read[h].status /\ r.review = read[h].review
    BY DEF IInv, TypeOK, Reads
  <2> HIDE DEF r
  <2>3. Others(h) /\ pc'[h] = s /\ read'[h] = r /\ want'[h] = want[h]
    BY <2>1, <2>2, Going DEF IInv, Steps
  <2>4. HasWant(h)'
    BY <2>1, <2>2, <2>3 DEF IInv, TypeOK, HasWant
  <2>5. ReadEarned(h)'
    BY <1>0, <2>1, <2>2, <2>3 DEF IInv, ReadEarned
  <2> QED BY <1>0, <2>3, <2>4, <2>5, LocalStep
<1> QED BY <1>1, <1>2

(* A result that is stored counts as seen, be it fresh or a stale one      *)
(* written back; the way on leads through the checks or to declined.       *)
LEMMA UpsertPreserves ==
  ASSUME IInv, NEW h \in Handlers, Upsert(h)
  PROVE  IInv'
<1>1. PICK result \in Results :
        /\ conflict' = result /\ AfterUpsert(h, result)
        /\ passed' = passed \cup (IF result = "clear" THEN {"clear"} ELSE {})
  <2>1. NextResult(h) \in Results
    <3>1. HasWant(h) /\ pc[h] = "upsert"
      BY DEF IInv, Upsert
    <3>2. want[h] \in LeadRequests \cup {NoWant}
      BY WantTyped DEF IInv
    <3> QED BY <3>1, <3>2, WantFields DEF HasWant, NextResult, Results
  <2> QED BY <2>1 DEF Upsert
<1>2. UNCHANGED <<lead, packet>>
  BY DEF Upsert
<1>3. Others(h) /\ HasWant(h)' /\ ReadEarned(h)'
  <2>1. \/ MoveTo(h, "conflict_check") \/ MoveTo(h, "attorney_review")
        \/ Goto(h, "update", [NoRead EXCEPT !.to = "declined"])
        \/ Refuse(h) \/ Return(h)
    BY <1>1 DEF AfterUpsert
  <2>2. ASSUME NEW s \in {"conflict_check", "attorney_review"}, MoveTo(h, s)
        PROVE  Others(h) /\ HasWant(h)' /\ ReadEarned(h)'
    <3>1. s \in States
      BY DEF States
    <3> QED BY <2>2, <3>1, Moving, NoClaim DEF IInv
  <2>3. CASE Goto(h, "update", [NoRead EXCEPT !.to = "declined"])
    <3>1. "declined" \in States /\ "update" \in Steps
      BY DEF States, Steps
    <3>2. PICK r \in Reads : r = [NoRead EXCEPT !.to = "declined"]
                              /\ r.to = "declined"
      BY <3>1, MoveToReads
    <3>3. Others(h) /\ pc'[h] = "update" /\ read'[h].to = "declined"
      BY <2>3, <3>1, <3>2, Going DEF IInv
    <3> QED BY <3>1, <3>3 DEF HasWant, ReadEarned
  <2>4. CASE Refuse(h)
    BY <2>4, Refused, NoClaim DEF IInv, Ended
  <2>5. CASE Return(h)
    BY <2>5, Returning, NoClaim DEF IInv, Ended
  <2> QED BY <2>1, <2>2, <2>3, <2>4, <2>5
<1>4. TypeOK'
  BY <1>1, <1>2, <1>3 DEF IInv, TypeOK, Others
<1>5. Kept
  BY <1>1, <1>2 DEF Kept
<1>6. SeenInv' /\ MattersAreEarned' /\ PacketsAreEarned'
  BY <1>1, <1>2 DEF IInv, SeenInv, MattersAreEarned, PacketsAreEarned
<1> QED BY <1>3, <1>4, <1>5, <1>6, OthersHold DEF IInv

(* A stored decision counts as seen; a rejection goes to the checks.       *)
LEMMA RecordReviewPreserves ==
  ASSUME IInv, NEW h \in Handlers, RecordReview(h)
  PROVE  IInv'
<1>1. want[h].arg \in Decisions /\ want[h].confirm \in BOOLEAN
  <2>1. want[h].kind = "review"
    BY DEF IInv, RecordReview, HasWant
  <2>2. want[h] \in LeadRequests \cup {NoWant}
    BY WantTyped DEF IInv
  <2> QED BY <2>1, <2>2, WantFields
<1>2. UNCHANGED <<conflict, packet>>
  BY DEF RecordReview
<1>3. /\ lead'.status = lead.status /\ lead' \in Leads
      /\ lead.confirmed => lead'.confirmed
      /\ passed \subseteq passed' /\ passed' \subseteq passed \cup {"accepted"}
      /\ lead'.review = "accepted" => "accepted" \in passed'
  <2>1. CASE lead.deleted
    BY <2>1 DEF RecordReview, IInv, TypeOK, SeenInv
  <2>2. CASE ~lead.deleted
    <3>1. /\ lead' = [lead EXCEPT !.review = want[h].arg,
                                  !.confirmed = @ \/ want[h].confirm]
          /\ passed' = passed \cup ({want[h].arg} \cap {"accepted"})
      BY <2>2 DEF RecordReview, Reviewed
    <3>2. lead \in Leads
      BY DEF IInv, TypeOK
    <3> QED BY <1>1, <3>1, <3>2 DEF Leads
  <2> QED BY <2>1, <2>2
<1>4. Others(h) /\ HasWant(h)' /\ ReadEarned(h)'
  <2>1. CASE Refuse(h)
    BY <2>1, Refused, NoClaim DEF IInv, Ended
  <2>2. CASE MoveTo(h, "declined")
    <3>1. "declined" \in States
      BY DEF States
    <3> QED BY <2>2, <3>1, Moving, NoClaim DEF IInv
  <2> QED BY <2>1, <2>2 DEF RecordReview
<1>5. TypeOK'
  BY <1>2, <1>3, <1>4 DEF IInv, TypeOK, Others
<1>6. Kept
  BY <1>3 DEF Kept
<1>7. SeenInv' /\ MattersAreEarned' /\ PacketsAreEarned'
  BY <1>2, <1>3 DEF IInv, SeenInv, MattersAreEarned, PacketsAreEarned
<1> QED BY <1>4, <1>5, <1>6, <1>7, OthersHold DEF IInv

(* Only a matter that is engaged can be on its way to filed.               *)
LEMMA FindPreserves ==
  ASSUME IInv, NEW h \in Handlers, Find(h)
  PROVE  IInv'
<1>0. UNCHANGED <<lead, conflict, packet, passed>>
  BY DEF Find
<1>1. CASE Refuse(h)
  BY <1>0, <1>1, Refused, NoClaim, LocalStep DEF IInv, Ended
<1>2. CASE ~Refuse(h)
  <2>1. PICK to \in States : to = read[h].to
    BY DEF IInv, HasWant, Find
  <2> DEFINE r == [NoRead EXCEPT !.to = to, !.review = lead.review,
                                 !.confirmed = lead.confirmed]
  <2>2. Goto(h, "check", r) /\ to \in Transitions[lead.status]
    BY <1>2, <2>1 DEF Find, CanTransition
  <2>3. to = "filed" => lead.status = "engaged"
    BY <2>2 DEF IInv, TypeOK, Leads, Transitions, States
  <2>4. /\ r \in Reads /\ r.to = to /\ r.review = lead.review
        /\ r.confirmed = lead.confirmed
    BY DEF IInv, TypeOK, Leads, NoRead, Reads
  <2> HIDE DEF r
  <2>5. Others(h) /\ pc'[h] = "check" /\ read'[h] = r
    BY <2>2, <2>4, Going DEF IInv, Steps
  <2>6. HasWant(h)'
    BY <2>4, <2>5 DEF HasWant
  <2>7. ReadEarned(h)'
    BY <1>0, <2>3, <2>4, <2>5 DEF IInv, ReadEarned, SeenInv, MattersAreEarned
  <2> QED BY <1>0, <2>5, <2>6, <2>7, LocalStep
<1> QED BY <1>1, <1>2

(* The gates earn the target state.                                        *)
LEMMA CheckPreserves ==
  ASSUME IInv, NEW h \in Handlers, Check(h)
  PROVE  IInv'
<1>0. UNCHANGED <<lead, conflict, packet, passed>> /\ pc[h] = "check"
  BY DEF Check
<1>1. CASE Refuse(h)
  BY <1>0, <1>1, Refused, NoClaim, LocalStep DEF IInv, Ended
<1>2. CASE ~Refuse(h)
  <2>1. PICK to \in States : to = read[h].to
    BY <1>0 DEF IInv, HasWant
  <2>2. /\ Goto(h, "update", [NoRead EXCEPT !.to = to])
        /\ Preconditions(to, conflict, read[h].review, read[h].confirmed)
    BY <1>2, <2>1 DEF Check
  <2>3. Others(h) /\ pc'[h] = "update" /\ read'[h].to = to
    <3>1. PICK r \in Reads : r = [NoRead EXCEPT !.to = to] /\ r.to = to
      BY MoveToReads
    <3> QED BY <2>2, <3>1, Going DEF IInv, Steps
  <2>4. HasWant(h)'
    BY <2>3 DEF HasWant
  <2>5. ReadEarned(h) /\ SeenInv
    BY DEF IInv
  <2>6. ReadEarned(h)'
    BY <1>0, <2>1, <2>2, <2>3, <2>5 DEF ReadEarned, SeenInv, Preconditions
  <2> QED BY <1>0, <2>3, <2>4, <2>6, LocalStep
<1> QED BY <1>1, <1>2

(* The target was earned when it was checked, and nothing earned is lost.  *)
LEMMA UpdatePreserves ==
  ASSUME IInv, NEW h \in Handlers, Update(h)
  PROVE  IInv'
<1>0. UNCHANGED <<conflict, packet>> /\ pc[h] = "update"
  BY DEF Update
<1>1. CASE lead.deleted
  BY <1>0, <1>1, Refused, NoClaim, LocalStep DEF IInv, Ended, Update
<1>2. CASE ~lead.deleted
  <2>1. PICK to \in States : to = read[h].to
    BY <1>0 DEF IInv, HasWant
  <2>2. /\ lead' = [lead EXCEPT !.status = to] /\ Return(h)
        /\ passed' = passed \cup ({to} \cap {"engaged"})
    BY <1>2, <2>1 DEF Update
  <2>3. /\ lead' \in Leads /\ lead'.status = to
        /\ lead'.review = lead.review /\ lead'.confirmed = lead.confirmed
    BY <2>2 DEF IInv, TypeOK, Leads
  <2>4. Others(h) /\ HasWant(h)' /\ ReadEarned(h)'
    BY <2>2, Returning, NoClaim DEF IInv, Ended
  <2>5. TypeOK'
    BY <1>0, <2>2, <2>3, <2>4 DEF IInv, TypeOK, Others
  <2>6. Kept
    BY <2>2, <2>3 DEF Kept
  <2>7. MattersAreEarned'
    <3>1. ReadEarned(h)
      BY DEF IInv
    <3> QED BY <1>0, <2>1, <2>2, <2>3, <3>1 DEF ReadEarned, MattersAreEarned
  <2>8. SeenInv' /\ PacketsAreEarned'
    BY <1>0, <2>2, <2>3 DEF IInv, SeenInv, PacketsAreEarned
  <2> QED BY <2>4, <2>5, <2>6, <2>7, <2>8, OthersHold DEF IInv
<1> QED BY <1>1, <1>2

(* A deleted lead is declined, which takes no earning.                     *)
LEMMA DeletePreserves ==
  ASSUME IInv, NEW h \in Handlers, Delete(h)
  PROVE  IInv'
<1>0. UNCHANGED <<conflict, packet, passed>>
  BY DEF Delete
<1>1. CASE lead.deleted
  BY <1>0, <1>1, Refused, NoClaim, LocalStep DEF IInv, Ended, Delete
<1>2. CASE ~lead.deleted
  <2>1. lead' = [lead EXCEPT !.status = "declined", !.deleted = TRUE] /\ Return(h)
    BY <1>2 DEF Delete
  <2>2. /\ lead' \in Leads /\ lead'.status = "declined"
        /\ lead'.review = lead.review /\ lead'.confirmed = lead.confirmed
    BY <2>1 DEF IInv, TypeOK, Leads, States
  <2>3. Others(h) /\ HasWant(h)' /\ ReadEarned(h)'
    BY <2>1, Returning, NoClaim DEF IInv, Ended
  <2>4. TypeOK'
    BY <1>0, <2>2, <2>3 DEF IInv, TypeOK, Others
  <2>5. Kept
    BY <1>0, <2>2 DEF Kept
  <2>6. SeenInv' /\ MattersAreEarned' /\ PacketsAreEarned'
    BY <1>0, <2>2 DEF IInv, SeenInv, MattersAreEarned, PacketsAreEarned
  <2> QED BY <2>3, <2>4, <2>5, <2>6, OthersHold DEF IInv
<1> QED BY <1>1, <1>2

(* The packet's gate earns the packet.                                     *)
LEMMA GatePreserves ==
  ASSUME IInv, NEW h \in Handlers, Gate(h)
  PROVE  IInv'
<1>0. UNCHANGED <<lead, conflict, packet, passed>> /\ pc[h] = "gate"
  BY DEF Gate
<1>1. CASE Refuse(h)
  BY <1>0, <1>1, Refused, NoClaim, LocalStep DEF IInv, Ended
<1>2. CASE ~Refuse(h)
  <2>1. PICK s \in {"failed", "insert"} :
          /\ Goto(h, s, NoRead)
          /\ s = "insert" => want[h].kind # "agreement"
          /\ DocumentGate(want[h].kind, read[h])
    BY <1>2 DEF Gate
  <2>2. Others(h) /\ pc'[h] = s
    <3>1. NoRead \in Reads /\ s \in Steps
      BY DEF NoRead, Reads, Steps, Ended
    <3> QED BY <2>1, <3>1, Going DEF IInv
  <2>3. CASE s = "failed"
    BY <1>0, <2>2, <2>3, NoClaim, LocalStep DEF Ended
  <2>4. CASE s = "insert"
    <3>1. ReadEarned(h) /\ SeenInv
      BY DEF IInv
    <3>2. {"clear", "accepted", "engaged"} \subseteq passed
      BY <1>0, <2>1, <2>4, <3>1 DEF DocumentGate, ReadEarned, SeenInv
    <3>3. HasWant(h)' /\ ReadEarned(h)'
      BY <1>0, <2>2, <2>4, <3>2 DEF HasWant, ReadEarned
    <3> QED BY <1>0, <2>2, <3>3, LocalStep
  <2> QED BY <2>3, <2>4
<1> QED BY <1>1, <1>2

(* A packet that is made was earned at the gate, and an approval changes   *)
(* the state of a packet that exists.                                      *)
LEMMA PacketPreserves ==
  ASSUME IInv, NEW h \in Handlers, Insert(h) \/ Approve(h)
  PROVE  IInv'
<1>1. UNCHANGED <<lead, conflict, passed>>
  BY DEF Insert, Approve
<1>2. /\ packet' \in {"none", "draft", "approved"}
      /\ packet' # "none" =>
           packet # "none" \/ {"clear", "accepted", "engaged"} \subseteq passed
  <2>1. ReadEarned(h)
    BY DEF IInv
  <2> QED BY <2>1 DEF Insert, Approve, IInv, TypeOK, ReadEarned
<1>3. Others(h) /\ HasWant(h)' /\ ReadEarned(h)'
  BY Refused, Returning, NoClaim DEF Insert, Approve, IInv, Ended
<1>4. TypeOK'
  BY <1>1, <1>2, <1>3 DEF IInv, TypeOK, Others
<1>5. Kept
  BY <1>1 DEF Kept
<1>6. SeenInv' /\ MattersAreEarned' /\ PacketsAreEarned'
  BY <1>1, <1>2 DEF IInv, SeenInv, MattersAreEarned, PacketsAreEarned
<1> QED BY <1>3, <1>4, <1>5, <1>6, OthersHold DEF IInv

(* A handler that fails leaves the lead alone.                             *)
LEMMA DiePreserves ==
  ASSUME IInv, NEW h \in Handlers, Die(h)
  PROVE  IInv'
BY Returning, NoClaim, LocalStep DEF Die, IInv, Ended

-----------------------------------------------------------------------------
(* The invariant.                                                          *)

(* A new lead has earned nothing and claims nothing.                       *)
LEMMA InitIInv == Init => IInv
BY DEF Init, NewLead, IInv, TypeOK, HasWant, ReadEarned, SeenInv, MattersAreEarned,
       PacketsAreEarned, Leads, States, Decisions, Steps, Ended, Reads, NoRead

(* Every step preserves the invariant.                                     *)
LEMMA StepIInv ==
  ASSUME IInv, [Next]_vars
  PROVE  IInv'
<1>1. CASE UNCHANGED vars
  BY <1>1 DEF vars, IInv, TypeOK, HasWant, ReadEarned, SeenInv,
       MattersAreEarned, PacketsAreEarned
<1>2. CASE Next
  BY <1>2, BeginPreserves, LoadPreserves, ExistingPreserves, UpsertPreserves,
     RecordReviewPreserves, FindPreserves, CheckPreserves, UpdatePreserves,
     DeletePreserves, GatePreserves, PacketPreserves, DiePreserves
     DEF Next
<1> QED BY <1>1, <1>2

(* The strengthened invariant holds throughout every execution.            *)
THEOREM Invariance == Spec => []IInv
<1>1. IInv /\ [Next]_vars => IInv'
  BY StepIInv
<1> QED BY InitIInv, <1>1, PTL DEF Spec

-----------------------------------------------------------------------------
(* What it gives.                                                          *)

(* Every variable keeps its type.                                          *)
THEOREM TypeCorrect == Spec => []TypeOK
<1>1. IInv => TypeOK
  BY DEF IInv
<1> QED BY Invariance, <1>1, PTL

(* However many handlers overlap, no matter is accepted, engaged or filed  *)
(* past its conflict check, its attorney's acceptance or the confirmation. *)
THEOREM MattersEarned == Spec => []MattersAreEarned
<1>1. IInv => MattersAreEarned
  BY DEF IInv
<1> QED BY Invariance, <1>1, PTL

(* A filing packet exists only for a matter that has been engaged.         *)
THEOREM PacketsEarned == Spec => []PacketsAreEarned
<1>1. IInv => PacketsAreEarned
  BY DEF IInv
<1> QED BY Invariance, <1>1, PTL

(* Nothing replaces an approved packet or sends it back to draft.          *)
THEOREM ApprovalFinal == Spec => ApprovalIsFinal
<1> DEFINE Final == packet = "approved" => packet' = "approved"
<1>1. [Next]_vars => [Final]_vars
  <2> SUFFICES ASSUME NEW h \in Handlers, packet = "approved",
                      \/ Insert(h) \/ Approve(h)
                      \/ UNCHANGED packet
               PROVE  packet' = "approved"
    BY DEF Next, vars, Begin, Load, Existing, Upsert, RecordReview, Find,
         Check, Update, Delete, Gate, Die
  <2> QED BY DEF Insert, Approve
<1> QED BY <1>1, PTL DEF Spec, ApprovalIsFinal

-----------------------------------------------------------------------------
(* Cookies.  The tabs hold choices that others have withdrawn, so nothing  *)
(* can be said of what a tab shows.  What is stored is another matter: it  *)
(* is current only if a save of this version has stored it, it agrees to   *)
(* no more than the choice saved last, and scripts are loaded by what is   *)
(* stored, or is just being stored.                                        *)

(* A stored choice of this version of the notice is that of the last save.  *)
StoredIsAgreed == stored # None /\ stored.current => stored.on \subseteq agreed

CookieInv == Cookies!TypeOK /\ StoredIsAgreed /\ Cookies!ScriptsAreAgreed

(* What a stored choice consents to is among its categories, and nothing    *)
(* under the signal (hasConsent).                                           *)
LEMMA ConsentedIsStored ==
  ASSUME NEW s
  PROVE  /\ Cookies!Consented(s) # {} => s # None /\ s.current /\ Cookies!Consented(s) = s.on /\ ~gpc
         /\ gpc => Cookies!Consented(s) = {}
  BY DEF Cookies!Consented, Cookies!Consent

(* A save and an enforcement store a choice that is of the type of choices. *)
LEMMA SavedIsChoice ==
  ASSUME Cookies!TypeOK, NEW t \in Tabs, site[t] # None, NEW on \in SUBSET OneMore
  PROVE  /\ Cookies!Saved(t, on) \in Cookies!Choices /\ Cookies!Saved(t, on).current
         /\ Cookies!Saved(t, on).on \subseteq on
         /\ Cookies!Enforced \in Cookies!Choices /\ Cookies!Enforced.on = {}
<1>1. site[t] \in Cookies!TabStates
  BY DEF Cookies!TypeOK
<1>2. site[t].gpc \in BOOLEAN /\ gpc \in BOOLEAN
  BY <1>1 DEF Cookies!TabStates, Cookies!TypeOK
<1>3. (site[t].gpc \/ gpc) \in BOOLEAN
  OBVIOUS
<1>4. Cookies!Constrained(on) \in SUBSET OneMore /\ Cookies!Constrained(on) \subseteq on
  BY DEF Cookies!Constrained
<1> QED
  BY <1>3, <1>4 DEF Cookies!Saved, Cookies!Enforced, Cookies!Choices

(* The types hold at first.                                                 *)
LEMMA CookieInit == Cookies!Init => CookieInv
<1> SUFFICES ASSUME Cookies!Init PROVE CookieInv
  OBVIOUS
<1>1. stored \in Cookies!Choices \cup {None}
  BY DEF Cookies!Init, Cookies!Choices
<1>2. stored # None => ~stored.current
  BY DEF Cookies!Init
<1> QED
  BY <1>1, <1>2 DEF Cookies!Init, CookieInv, Cookies!TypeOK, StoredIsAgreed, Cookies!ScriptsAreAgreed, Cookies!CurrentVersion

(* A step that stores s in tab t and leaves the tab as r keeps the          *)
(* invariant: what s says is agreed, and what r loads is what s consents to.*)
LEMMA CookieRendered ==
  ASSUME CookieInv, NEW t \in Tabs, NEW s \in Cookies!Choices \cup {None}, NEW r \in Cookies!TabStates,
         stored' = s, site' = [site EXCEPT ![t] = r], Cookies!Observe(t, r),
         post' \in Cookies!Choices \cup {None},
         gpc' = gpc, agreed' \subseteq OneMore,
         storage' \in [version: {0, Cookies!CurrentVersion}, keys: SUBSET Cookies!LegacyKeys],
         logged' = logged,
         s # None /\ s.current => s.on \subseteq agreed',
         \/ site[t] = None /\ r.loaded \subseteq Cookies!Consented(s)
         \/ site[t] # None /\ r.loaded \subseteq site[t].loaded \cup Cookies!Consented(s)
  PROVE  CookieInv'
<1> USE DEF CookieInv
<1>1. Cookies!Consented(s) \subseteq agreed'
  BY ConsentedIsStored
<1>2. site' = [site EXCEPT ![t] = r] /\ site'[t] = r
  BY DEF Cookies!TypeOK
<1>3. Cookies!TypeOK'
  <2>2. r.loaded \subseteq OneMore
    BY DEF Cookies!TabStates
  <2>3. unheeded' \subseteq OneMore
    BY <2>2 DEF Cookies!Observe, Cookies!TypeOK
  <2> QED
    BY <1>2, <2>3 DEF Cookies!TypeOK
<1>4. StoredIsAgreed'
  BY DEF StoredIsAgreed
<1>6. unheeded' = {}
  <2>1. CASE ~gpc
    <3>1. (r.loaded \ (IF site[t] = None THEN {} ELSE site[t].loaded)) \ agreed' = {}
      BY <1>1
    <3> QED
      BY <2>1, <3>1 DEF Cookies!Observe, Cookies!ScriptsAreAgreed
  <2>2. CASE gpc
    <3>1. Cookies!Consented(s) = {}
      BY <2>2, ConsentedIsStored
    <3>2. r.loaded \ (IF site[t] = None THEN {} ELSE site[t].loaded) = {}
      BY <3>1
    <3> QED
      BY <2>2, <3>2 DEF Cookies!Observe, Cookies!ScriptsAreAgreed
  <2> QED
    BY <2>1, <2>2
<1> QED
  BY <1>3, <1>4, <1>6 DEF Cookies!ScriptsAreAgreed

(* A tab that is informed of a choice is still a tab, and loads what that   *)
(* choice consents to.                                                      *)
LEMMA InformedIsTab ==
  ASSUME Cookies!TypeOK, NEW t \in Tabs, site[t] # None, NEW s \in Cookies!Choices
  PROVE  /\ Cookies!Informed(t, s) \in Cookies!TabStates
         /\ Cookies!Informed(t, s).loaded = site[t].loaded \cup Cookies!Consented(s)
<1>1. site[t] \in Cookies!TabStates
  BY DEF Cookies!TypeOK
<1>2. Cookies!Consented(s) \subseteq OneMore
  BY ConsentedIsStored DEF Cookies!Choices
<1>3. s.on \subseteq OneMore /\ gpc \in BOOLEAN
  BY DEF Cookies!Choices, Cookies!TypeOK
<1> QED
  BY <1>1, <1>2, <1>3 DEF Cookies!Informed, Cookies!TabStates

(* Opening a tab: savePreferences is not called, but the effect may store.  *)
LEMMA CookieOpen == ASSUME CookieInv, NEW t \in Tabs, Cookies!Open(t) PROVE CookieInv'
<1> DEFINE s == IF Cookies!Enforces(stored) THEN Cookies!Enforced ELSE stored
           r == [consent |-> Cookies!Consent(s), banner |-> Cookies!NeedsPrompt(s), gpc |-> gpc,
                 place |-> "site", ticks |-> Cookies!PreviousChoices(stored), loaded |-> Cookies!Consented(s)]
<1> USE DEF CookieInv
<1>1. Cookies!Enforced \in Cookies!Choices /\ Cookies!Enforced.on = {} /\ stored \in Cookies!Choices \cup {None}
  BY DEF Cookies!Enforced, Cookies!Choices, Cookies!TypeOK
<1>2. s \in Cookies!Choices \cup {None}
  BY <1>1
<1>3. s # None /\ s.current => s.on \subseteq agreed
  BY <1>1 DEF StoredIsAgreed
<1>4. r \in Cookies!TabStates
  <2>1. Cookies!Consent(s) \in Cookies!Choices \cup {None}
    BY <1>2 DEF Cookies!Consent
  <2>2. Cookies!PreviousChoices(stored) \subseteq OneMore
    BY <1>1 DEF Cookies!PreviousChoices, Cookies!Choices
  <2>3. Cookies!Consented(s) \subseteq OneMore
    BY <1>2, ConsentedIsStored DEF Cookies!Choices
  <2>4. Cookies!NeedsPrompt(s) \in BOOLEAN /\ gpc \in BOOLEAN
    BY DEF Cookies!NeedsPrompt, Cookies!TypeOK
  <2> QED
    BY <2>1, <2>2, <2>3, <2>4 DEF Cookies!TabStates
<1>5. /\ stored' = s /\ site' = [site EXCEPT ![t] = r] /\ Cookies!Observe(t, r)
      /\ post' = (IF Cookies!Enforces(stored) THEN s ELSE post) /\ site[t] = None
  BY DEF Cookies!Open, Cookies!Rendered
<1>6. post' \in Cookies!Choices \cup {None}
  BY <1>2, <1>5 DEF Cookies!TypeOK
<1>7. gpc' = gpc /\ logged' = logged /\ agreed' = agreed /\ storage' = Cookies!CleanedUp
  BY DEF Cookies!Open
<1>8. Cookies!CleanedUp \in [version: {0, Cookies!CurrentVersion}, keys: SUBSET Cookies!LegacyKeys]
  BY DEF Cookies!CleanedUp, Cookies!TypeOK
<1>9. r.loaded = Cookies!Consented(s)
  OBVIOUS
<1> HIDE DEF s, r
<1> QED
  BY <1>2, <1>3, <1>4, <1>5, <1>6, <1>7, <1>8, <1>9, CookieRendered DEF Cookies!TypeOK

(* Saving a choice.                                                         *)
LEMMA CookieSave ==
  ASSUME CookieInv, NEW t \in Tabs, NEW on \in SUBSET OneMore, site[t] # None, Cookies!Save(t, on)
  PROVE  CookieInv'
<1> DEFINE s == Cookies!Saved(t, on)
<1>1. Cookies!TypeOK
  BY DEF CookieInv
<1>2. s \in Cookies!Choices /\ s.on \subseteq on
  BY <1>1, SavedIsChoice
<1>3. Cookies!Informed(t, s) \in Cookies!TabStates /\ Cookies!Informed(t, s).loaded = site[t].loaded \cup Cookies!Consented(s)
  BY <1>1, <1>2, InformedIsTab
<1>4. /\ stored' = s /\ site' = [site EXCEPT ![t] = Cookies!Informed(t, s)]
      /\ Cookies!Observe(t, Cookies!Informed(t, s)) /\ post' = s /\ agreed' = on
  BY DEF Cookies!Save, Cookies!Rendered
<1>5. gpc' = gpc /\ logged' = logged /\ storage' = storage
  BY DEF Cookies!Save
<1>6. /\ agreed' \subseteq OneMore
      /\ storage' \in [version: {0, Cookies!CurrentVersion}, keys: SUBSET Cookies!LegacyKeys]
  BY <1>1, <1>2, <1>4, <1>5 DEF Cookies!TypeOK
<1> HIDE DEF s
<1> QED
  BY <1>2, <1>3, <1>4, <1>5, <1>6, CookieRendered

(* Opening the banner again.                                                *)
LEMMA CookieReopen == ASSUME CookieInv, NEW t \in Tabs, Cookies!ReopenBanner(t) PROVE CookieInv'
<1>1. Cookies!TypeOK /\ site[t] # None /\ site[t] \in Cookies!TabStates
  BY DEF CookieInv, Cookies!TypeOK, Cookies!ReopenBanner
<1>2. CASE Cookies!Enforces(stored)
  <2>1. Cookies!Enforced \in Cookies!Choices /\ Cookies!Enforced.on = {}
    BY DEF Cookies!Enforced, Cookies!Choices
  <2>2. /\ Cookies!Informed(t, Cookies!Enforced) \in Cookies!TabStates
        /\ Cookies!Informed(t, Cookies!Enforced).loaded = site[t].loaded \cup Cookies!Consented(Cookies!Enforced)
    BY <1>1, <2>1, InformedIsTab
  <2>3. /\ stored' = Cookies!Enforced /\ site' = [site EXCEPT ![t] = Cookies!Informed(t, Cookies!Enforced)]
        /\ Cookies!Observe(t, Cookies!Informed(t, Cookies!Enforced)) /\ post' = Cookies!Enforced
    BY <1>2 DEF Cookies!ReopenBanner, Cookies!Rendered
  <2>4. UNCHANGED <<storage, gpc, logged, agreed>>
    BY DEF Cookies!ReopenBanner
  <2> QED
    BY <1>1, <2>1, <2>2, <2>3, <2>4, CookieRendered DEF Cookies!TypeOK
<1>3. CASE ~Cookies!Enforces(stored)
  <2> DEFINE r == [site[t] EXCEPT !.banner = TRUE, !.gpc = gpc]
  <2>1. r \in Cookies!TabStates /\ r.loaded = site[t].loaded
    BY <1>1 DEF Cookies!TabStates, Cookies!TypeOK
  <2>2. /\ stored' = stored /\ site' = [site EXCEPT ![t] = r] /\ Cookies!Observe(t, r)
        /\ post' = post
    BY <1>3 DEF Cookies!ReopenBanner, Cookies!Rendered
  <2>3. UNCHANGED <<storage, gpc, logged, agreed>>
    BY DEF Cookies!ReopenBanner
  <2>4. stored # None /\ stored.current => stored.on \subseteq agreed
    BY DEF CookieInv, StoredIsAgreed
  <2> HIDE DEF r
  <2> QED
    BY <1>1, <2>1, <2>2, <2>3, <2>4, CookieRendered DEF Cookies!TypeOK
<1> QED
  BY <1>2, <1>3

(* Every step keeps the invariant.                                          *)
LEMMA CookieNext == CookieInv /\ [Cookies!Next]_cookieVars => CookieInv'
<1> SUFFICES ASSUME CookieInv, [Cookies!Next]_cookieVars PROVE CookieInv'
  OBVIOUS
<1>1. Cookies!TypeOK /\ StoredIsAgreed /\ Cookies!ScriptsAreAgreed
  BY DEF CookieInv
<1>2. ASSUME NEW t \in Tabs, site[t] # None PROVE site[t] \in Cookies!TabStates
  BY <1>1, <1>2 DEF Cookies!TypeOK
<1>3. CASE UNCHANGED cookieVars
  BY <1>1, <1>3 DEF cookieVars, CookieInv, Cookies!TypeOK, StoredIsAgreed, Cookies!ScriptsAreAgreed
<1>4. CASE Cookies!TurnSignal
  BY <1>1, <1>4 DEF Cookies!TurnSignal, CookieInv, Cookies!TypeOK, StoredIsAgreed, Cookies!ScriptsAreAgreed
<1>5. CASE Cookies!Log
  <2>1. Cookies!Row(post) \in Cookies!Choices
    BY <1>1, <1>5 DEF Cookies!Log, Cookies!Row, Cookies!Enforced, Cookies!Choices, Cookies!TypeOK
  <2> QED
    BY <1>1, <1>5, <2>1 DEF Cookies!Log, CookieInv, Cookies!TypeOK, StoredIsAgreed, Cookies!ScriptsAreAgreed
<1>6. CASE Cookies!LoseLog
  BY <1>1, <1>6 DEF Cookies!LoseLog, CookieInv, Cookies!TypeOK, StoredIsAgreed, Cookies!ScriptsAreAgreed
<1>7. ASSUME NEW t \in Tabs, Cookies!Open(t) PROVE CookieInv'
  BY <1>7, CookieOpen
<1>8. ASSUME NEW t \in Tabs, Cookies!Close(t) PROVE CookieInv'
  BY <1>1, <1>8 DEF Cookies!Close, CookieInv, Cookies!TypeOK, StoredIsAgreed, Cookies!ScriptsAreAgreed
<1>9. ASSUME NEW t \in Tabs, Cookies!AcceptAll(t) PROVE CookieInv'
  <2>1. (IF site[t].gpc THEN {} ELSE OneMore) \in SUBSET OneMore
    OBVIOUS
  <2> QED
    BY <1>9, <2>1, CookieSave DEF Cookies!AcceptAll
<1>10. ASSUME NEW t \in Tabs, Cookies!RejectOptional(t) PROVE CookieInv'
  BY <1>10, CookieSave DEF Cookies!RejectOptional
<1>11. ASSUME NEW t \in Tabs, Cookies!SavePreferences(t) PROVE CookieInv'
  <2>1. site[t] # None /\ Cookies!Save(t, site[t].ticks)
    BY <1>11 DEF Cookies!SavePreferences, Cookies!Shows
  <2>2. site[t].ticks \in SUBSET OneMore
    BY <1>2, <2>1 DEF Cookies!TabStates
  <2> QED
    BY <2>1, <2>2, CookieSave
<1>12. ASSUME NEW t \in Tabs, Cookies!WithdrawOptional(t) PROVE CookieInv'
  BY <1>12, CookieSave DEF Cookies!WithdrawOptional
<1>13. ASSUME NEW t \in Tabs, NEW r \in Cookies!TabStates, site[t] # None,
              site' = [site EXCEPT ![t] = r], r.loaded = site[t].loaded,
              UNCHANGED <<stored, storage, gpc, post, logged, agreed, unheeded>>
       PROVE  CookieInv'
  BY <1>1, <1>13 DEF CookieInv, Cookies!TypeOK, StoredIsAgreed, Cookies!ScriptsAreAgreed
<1>14. ASSUME NEW t \in Tabs, NEW c \in OneMore, Cookies!Toggle(t, c) PROVE CookieInv'
  <2>1. site[t] \in Cookies!TabStates /\ site[t] # None
    BY <1>2, <1>14 DEF Cookies!Toggle, Cookies!Shows
  <2> DEFINE ticks == IF c \in site[t].ticks THEN site[t].ticks \ {c} ELSE site[t].ticks \cup {c}
             r == [site[t] EXCEPT !.ticks = ticks]
  <2>2. r \in Cookies!TabStates /\ r.loaded = site[t].loaded
    BY <2>1 DEF Cookies!TabStates
  <2>3. site' = [site EXCEPT ![t] = r]
    BY <1>14 DEF Cookies!Toggle
  <2> QED
    BY <1>13, <1>14, <2>1, <2>2, <2>3 DEF Cookies!Toggle
<1>15. ASSUME NEW t \in Tabs, Cookies!VisitPreferences(t) PROVE CookieInv'
  <2>1. site[t] \in Cookies!TabStates /\ site[t] # None
    BY <1>2, <1>15 DEF Cookies!VisitPreferences
  <2> DEFINE current == IF site[t].consent # None THEN site[t].consent ELSE Cookies!Consent(stored)
             r == [site[t] EXCEPT !.place = "preferences", !.ticks = Cookies!PreviousChoices(current)]
  <2>2. current \in Cookies!Choices \cup {None}
    BY <1>1, <2>1 DEF Cookies!TabStates, Cookies!TypeOK, Cookies!Consent
  <2>3. Cookies!PreviousChoices(current) \in SUBSET OneMore
    BY <2>2 DEF Cookies!PreviousChoices, Cookies!Choices
  <2>4. r \in Cookies!TabStates /\ r.loaded = site[t].loaded
    BY <2>1, <2>3 DEF Cookies!TabStates
  <2>5. site' = [site EXCEPT ![t] = r]
    BY <1>15 DEF Cookies!VisitPreferences
  <2> QED
    BY <1>13, <1>15, <2>1, <2>4, <2>5 DEF Cookies!VisitPreferences
<1>16. ASSUME NEW t \in Tabs, Cookies!ReopenBanner(t) PROVE CookieInv'
  BY <1>16, CookieReopen
<1>17. ASSUME NEW t \in Tabs,
              \/ Cookies!Open(t) \/ Cookies!Close(t)
              \/ Cookies!AcceptAll(t) \/ Cookies!RejectOptional(t) \/ Cookies!SavePreferences(t) \/ Cookies!WithdrawOptional(t)
              \/ \E c \in OneMore : Cookies!Toggle(t, c)
              \/ Cookies!VisitPreferences(t) \/ Cookies!ReopenBanner(t)
       PROVE  CookieInv'
  BY <1>7, <1>8, <1>9, <1>10, <1>11, <1>12, <1>14, <1>15, <1>16, <1>17
<1> QED
  BY <1>3, <1>4, <1>5, <1>6, <1>17 DEF Cookies!Next

-----------------------------------------------------------------------------
(* The administration.                                                     *)

AdminFits ==
  /\ row \in [Everybody -> Administration!Rows]
  /\ access \in [Everybody -> SUBSET (1..2)]
  /\ work \in [Handlers -> Administration!Steps]
  /\ local \in [Handlers -> Administration!Locals]
  /\ script \in [Scripts -> {"idle", "locked", "counted"}]
  /\ raced \in BOOLEAN /\ erased \in BOOLEAN
  /\ \A h \in Handlers :
       work[h] # "idle" => local[h].actor \in Everybody /\ local[h].user \in Everybody

(* A token was issued for a version there has been; what the gate has read *)
(* of a row is what it says as long as its version is that of the token.   *)
GateFits ==
  /\ \A u \in Everybody : \A v \in access[u] : v <= row[u].version
  /\ \A h \in Handlers :
       work[h] = "version" =>
         LET l == local[h] IN
         /\ row[l.actor].state # "none" /\ l.claim <= row[l.actor].version
         /\ l.claim = row[l.actor].version => l.role = row[l.actor].role

(* Who is about to remove an administrator leaves another one, and is      *)
(* alone with that.                                                        *)
RemovalsFit ==
  ~raced =>
    /\ \A h \in Handlers :
         Administration!Removing(h) /\ ~erased =>
           \E u \in Administration!Admins : u # local[h].user
    /\ \A g, h \in Handlers : Administration!Removing(g) /\ Administration!Removing(h) => g = h

(* One run of the script has the lock, and has counted none.               *)
ScriptsFit ==
  /\ \A r, s \in Scripts : script[r] # "idle" /\ script[s] # "idle" => r = s
  /\ \A s \in Scripts : script[s] = "counted" => Administration!Admins = {} \/ raced

AdminInv == AdminFits /\ GateFits /\ RemovalsFit /\ ScriptsFit

(* The types of what a handler keeps.                                      *)
LEMMA LocalTypes ==
  /\ Administration!NoLocal \in Administration!Locals
  /\ \A l \in Administration!Locals, b \in BOOLEAN :
       /\ [l EXCEPT !.removes = b] \in Administration!Locals
       /\ [l EXCEPT !.removes = b].removes = b
       /\ [l EXCEPT !.removes = b].user = l.user
       /\ [l EXCEPT !.removes = b].actor = l.actor
  /\ \A a, u \in Everybody, v \in 1..2, r \in Administration!Roles, c \in Orders :
       [Administration!NoLocal EXCEPT !.actor = a, !.claim = v, !.role = r,
                                      !.command = c, !.user = u] \in Administration!Locals
<1>1. Administration!NoLocal \in Administration!Locals
  BY DEF Administration!NoLocal, Administration!Locals, Administration!Roles
<1>2. ASSUME NEW l \in Administration!Locals, NEW b \in BOOLEAN
      PROVE  /\ [l EXCEPT !.removes = b] \in Administration!Locals
             /\ [l EXCEPT !.removes = b].removes = b
             /\ [l EXCEPT !.removes = b].user = l.user
             /\ [l EXCEPT !.removes = b].actor = l.actor
  BY DEF Administration!Locals
<1>3. ASSUME NEW a \in Everybody, NEW u \in Everybody, NEW v \in 1..2,
             NEW r \in Administration!Roles, NEW c \in Orders
      PROVE  [Administration!NoLocal EXCEPT !.actor = a, !.claim = v, !.role = r,
                                            !.command = c, !.user = u] \in Administration!Locals
  <2>1. c \in Administration!Commands \cup {"none"} /\ v \in 0..2
    BY DEF Orders, Administration!Commands
  <2> DEFINE l1 == [Administration!NoLocal EXCEPT !.actor = a]
             l2 == [l1 EXCEPT !.claim = v]
             l3 == [l2 EXCEPT !.role = r]
             l4 == [l3 EXCEPT !.command = c]
             l5 == [l4 EXCEPT !.user = u]
  <2>2. l1 \in Administration!Locals
    BY <1>1 DEF Administration!Locals
  <2> HIDE DEF l1
  <2>3. l2 \in Administration!Locals
    BY <2>1, <2>2 DEF Administration!Locals
  <2> HIDE DEF l2
  <2>4. l3 \in Administration!Locals
    BY <2>3 DEF Administration!Locals
  <2> HIDE DEF l3
  <2>5. l4 \in Administration!Locals
    BY <2>1, <2>4 DEF Administration!Locals
  <2> HIDE DEF l4
  <2>6. l5 \in Administration!Locals
    BY <2>5 DEF Administration!Locals
  <2> QED
    BY <2>6 DEF l1, l2, l3, l4, l5
<1> QED
  BY <1>1, <1>2, <1>3

(* Nobody is in the administration at first but who was there before.      *)
LEMMA AdminInit == Administration!Init => AdminInv
<1> SUFFICES ASSUME Administration!Init PROVE AdminInv
  OBVIOUS
<1>1. /\ row \in [Everybody -> Administration!Rows] /\ access = [u \in Everybody |-> {}]
      /\ work = [h \in Handlers |-> "idle"] /\ local = [h \in Handlers |-> Administration!NoLocal]
      /\ script = [s \in Scripts |-> "idle"] /\ raced = FALSE /\ erased = FALSE
  BY DEF Administration!Init
<1>2. Administration!NoLocal \in Administration!Locals
  BY LocalTypes
<1>3. AdminFits
  BY <1>1, <1>2 DEF AdminFits, Administration!Steps
<1> QED
  BY <1>1, <1>3 DEF AdminInv, GateFits, RemovalsFit, ScriptsFit, Administration!Removing

(* The number of administrators is that of the set.                        *)
LEMMA SameCount == \A S : Administration!Cardinality(S) = Cardinality(S)
BY DEF Administration!Cardinality, Cardinality

(* More than one administrator is another one than u.                      *)
LEMMA AnotherAdmin ==
  ASSUME AdminFits, Administration!EnoughAdmins, NEW u
  PROVE  \E v \in Administration!Admins : v # u
<1> DEFINE admins == Administration!Admins
<1>1. IsFiniteSet(admins)
  BY MatterParameters, FS_Subset DEF Administration!Admins
<1>2. Cardinality(admins) > 1
  BY SameCount DEF Administration!EnoughAdmins
<1> HIDE DEF admins
<1>3. ASSUME admins \subseteq {u} PROVE FALSE
  <2>1. admins = {} \/ admins = {u}
    BY <1>3
  <2>2. Cardinality({}) = 0 /\ Cardinality({u}) = 1
    BY FS_EmptySet, FS_Singleton
  <2> QED
    BY <1>2, <2>1, <2>2
<1> QED
  BY <1>3 DEF admins

(* A step of one handler that leaves the rows alone.                       *)
LEMMA HandlerAlone ==
  ASSUME AdminInv, NEW h \in Handlers, NEW step \in Administration!Steps,
         NEW l \in Administration!Locals, Administration!Goto(h, step, l),
         UNCHANGED <<row, access, script, erased>>, raced' \in BOOLEAN, raced => raced',
         step # "idle" => l.actor \in Everybody /\ l.user \in Everybody,
         step = "version" =>
           /\ row[l.actor].state # "none" /\ l.claim <= row[l.actor].version
           /\ l.claim = row[l.actor].version => l.role = row[l.actor].role,
         step = "write" /\ l.removes /\ ~raced' =>
           /\ \E u \in Administration!Admins : u # l.user
           /\ \A g \in Handlers \ {h} : ~Administration!Removing(g)
  PROVE  AdminInv'
<1>1. /\ work' = [work EXCEPT ![h] = step] /\ local' = [local EXCEPT ![h] = l]
      /\ work \in [Handlers -> Administration!Steps]
      /\ local \in [Handlers -> Administration!Locals]
  BY DEF Administration!Goto, AdminInv, AdminFits
<1>2. /\ work'[h] = step /\ local'[h] = l
      /\ \A g \in Handlers \ {h} : work'[g] = work[g] /\ local'[g] = local[g]
  BY <1>1
<1>3. AdminFits'
  BY <1>1, <1>2 DEF AdminInv, AdminFits
<1>4. GateFits'
  BY <1>2 DEF AdminInv, GateFits
<1>5. Administration!Admins' = Administration!Admins
  BY DEF Administration!Admins, Administration!Active
<1>6. \A g \in Handlers :
        Administration!Removing(g)' =>
          IF g = h THEN step = "write" /\ l.removes ELSE Administration!Removing(g)
  BY <1>2 DEF Administration!Removing
<1>7. RemovalsFit'
  BY <1>2, <1>5, <1>6 DEF AdminInv, RemovalsFit
<1>8. ScriptsFit'
  BY <1>5 DEF AdminInv, ScriptsFit
<1> QED
  BY <1>3, <1>4, <1>7, <1>8 DEF AdminInv

(* The gate, the look at the target, the count, and the end.               *)
LEMMA HandlerReads ==
  ASSUME AdminInv, NEW h \in Handlers,
         \/ \E actor, u \in Everybody, claim \in 1..2, command \in Orders :
              Administration!Request(h, actor, claim, command, u)
         \/ Administration!Pass(h) \/ Administration!FindTarget(h)
         \/ Administration!CountAdmins(h) \/ Administration!Die(h)
  PROVE  AdminInv'
<1> USE DEF Administration!Steps
<1>1. /\ work \in [Handlers -> Administration!Steps]
      /\ local[h] \in Administration!Locals /\ raced \in BOOLEAN
      /\ work[h] # "idle" => local[h].actor \in Everybody /\ local[h].user \in Everybody
  BY DEF AdminInv, AdminFits
<1>2. ASSUME Administration!End(h), UNCHANGED <<row, access, script, erased, raced>>
      PROVE  AdminInv'
  BY <1>1, <1>2, LocalTypes, HandlerAlone DEF Administration!End
<1>3. ASSUME NEW actor \in Everybody, NEW u \in Everybody, NEW claim \in 1..2,
             NEW command \in Orders, Administration!Request(h, actor, claim, command, u)
      PROVE  AdminInv'
  <2> DEFINE l == [Administration!NoLocal EXCEPT
                     !.actor = actor, !.claim = claim, !.role = row[actor].role,
                     !.command = command, !.user = u]
  <2>1. /\ Administration!Goto(h, "version", l) /\ claim \in access[actor]
        /\ row[actor].state = "active" /\ UNCHANGED <<row, access, script, raced, erased>>
    BY <1>3 DEF Administration!Request, Administration!Active
  <2>2. row[actor].role \in Administration!Roles
    BY DEF AdminInv, AdminFits, Administration!Rows
  <2>3. l \in Administration!Locals
    BY <2>2, LocalTypes
  <2>4. l.actor = actor /\ l.user = u /\ l.claim = claim /\ l.role = row[actor].role
    BY DEF Administration!NoLocal
  <2>5. claim <= row[actor].version
    BY <2>1 DEF AdminInv, GateFits
  <2> HIDE DEF l
  <2> QED
    BY <1>1, <2>1, <2>3, <2>4, <2>5, HandlerAlone
<1>4. CASE Administration!Pass(h)
  <2>1. CASE Administration!Admitted(h)
    <3>1. /\ Administration!Goto(h, "target", local[h]) /\ work[h] = "version"
          /\ UNCHANGED <<row, access, script, raced, erased>>
      BY <1>4, <2>1 DEF Administration!Pass
    <3> QED
      BY <1>1, <3>1, HandlerAlone
  <2>2. CASE ~Administration!Admitted(h)
    BY <1>2, <1>4, <2>2 DEF Administration!Pass
  <2> QED
    BY <2>1, <2>2
<1>5. CASE Administration!FindTarget(h)
  <2>1. CASE Administration!Active(local[h].user)
    <3>1. PICK removes \in BOOLEAN :
            removes <=> row[local[h].user].role = "admin" /\ local[h].command # "promote"
      OBVIOUS
    <3> DEFINE l == [local[h] EXCEPT !.removes = removes]
    <3>2. /\ Administration!Goto(h, IF removes THEN "count" ELSE "write", l)
          /\ work[h] = "target" /\ UNCHANGED <<row, access, script, raced, erased>>
      BY <1>5, <2>1, <3>1 DEF Administration!FindTarget
    <3>3. /\ l \in Administration!Locals /\ l.removes = removes
          /\ l.actor = local[h].actor /\ l.user = local[h].user
      BY <1>1, LocalTypes
    <3>4. (IF removes THEN "count" ELSE "write") \in Administration!Steps
      OBVIOUS
    <3> HIDE DEF l
    <3> QED
      BY <1>1, <3>2, <3>3, <3>4, HandlerAlone
  <2>2. CASE ~Administration!Active(local[h].user)
    BY <1>2, <1>5, <2>2 DEF Administration!FindTarget
  <2> QED
    BY <2>1, <2>2
<1>6. CASE Administration!CountAdmins(h)
  <2>1. CASE Administration!EnoughAdmins
    <3>1. /\ Administration!Goto(h, "write", local[h]) /\ work[h] = "count"
          /\ raced' = (raced \/ \E g \in Handlers \ {h} : Administration!Removing(g))
          /\ UNCHANGED <<row, access, script, erased>>
      BY <1>6, <2>1 DEF Administration!CountAdmins
    <3>2. \E u \in Administration!Admins : u # local[h].user
      BY <2>1, AnotherAdmin DEF AdminInv
    <3>3. raced' \in BOOLEAN /\ (raced => raced')
      BY <1>1, <3>1
    <3> QED
      BY <1>1, <3>1, <3>2, <3>3, HandlerAlone
  <2>2. CASE ~Administration!EnoughAdmins
    BY <1>2, <1>6, <2>2 DEF Administration!CountAdmins
  <2> QED
    BY <2>1, <2>2
<1>7. CASE Administration!Die(h)
  BY <1>2, <1>7 DEF Administration!Die
<1> QED
  BY <1>3, <1>4, <1>5, <1>6, <1>7

(* What an order makes of the row x.                                       *)
Written(x, r, command) ==
  /\ r \in Administration!Rows
  /\ x.version <= r.version /\ (x.state # "none" => r.state # "none")
  /\ x.role = r.role \/ x.version < r.version
  /\ command # "promote" /\ r.state = "active" => r.role = "user" \/ r = x
  /\ command = "promote" /\ x.state = "active" /\ x.role = "admin" =>
       r.state = "active" /\ r.role = "admin"

(* Nothing, a row that is gone, or one with another role and version.      *)
LEMMA RowWritten ==
  ASSUME NEW x \in Administration!Rows, NEW command \in Administration!Commands \cup {"none"}
  PROVE  /\ Written(x, x, command)
         /\ command = "delete" => Written(x, [x EXCEPT !.state = "gone"], command)
         /\ \A role \in Administration!Roles :
              x.version < 2 /\ role = (IF command = "promote" THEN "admin" ELSE "user")
                => Written(x, Administration!WithRole(x, role), command)
<1>1. x.version \in 1..2
  BY DEF Administration!Rows
<1>2. Written(x, x, command)
  BY <1>1 DEF Written
<1>3. ASSUME command = "delete"
      PROVE  Written(x, [x EXCEPT !.state = "gone"], command)
  <2> DEFINE r == [x EXCEPT !.state = "gone"]
  <2>1. r \in Administration!Rows /\ r.version = x.version /\ r.state = "gone" /\ r.role = x.role
    BY DEF Administration!Rows
  <2> HIDE DEF r
  <2>2. Written(x, r, command)
    BY <1>1, <1>3, <2>1 DEF Written
  <2> QED
    BY <2>2 DEF r
<1>4. ASSUME NEW role \in Administration!Roles, x.version < 2,
             role = (IF command = "promote" THEN "admin" ELSE "user")
      PROVE  Written(x, Administration!WithRole(x, role), command)
  <2> DEFINE v == x.version + 1
             r == [x EXCEPT !.role = role, !.version = v]
  <2>1. v \in 1..2 /\ x.version < v /\ x.version <= v
    BY <1>1, <1>4
  <2>2. Administration!WithRole(x, role) = r
    BY DEF Administration!WithRole
  <2> HIDE DEF v
  <2>3. r \in Administration!Rows /\ r.version = v /\ r.state = x.state /\ r.role = role
    BY <2>1 DEF Administration!Rows
  <2> HIDE DEF r
  <2>4. Written(x, r, command)
    BY <1>4, <2>1, <2>3 DEF Written
  <2> QED
    BY <2>2, <2>4
<1> QED
  BY <1>2, <1>3, <1>4

(* The row of the target is written.                                       *)
LEMMA HandlerWrites ==
  ASSUME AdminInv, NEW h \in Handlers, Administration!Write(h)
  PROVE  AdminInv'
<1> DEFINE l == local[h]
           x == row[l.user]
<1>1. /\ work \in [Handlers -> Administration!Steps] /\ local \in [Handlers -> Administration!Locals]
      /\ row \in [Everybody -> Administration!Rows] /\ access \in [Everybody -> SUBSET (1..2)]
      /\ raced \in BOOLEAN /\ l.user \in Everybody /\ x \in Administration!Rows
      /\ l.removes \in BOOLEAN /\ work[h] = "write"
  BY DEF AdminInv, AdminFits, Administration!Write, Administration!Locals
<1>2. /\ work' = [work EXCEPT ![h] = "idle"]
      /\ local' = [local EXCEPT ![h] = Administration!NoLocal]
      /\ UNCHANGED <<access, script, erased>>
  BY DEF Administration!Write, Administration!End, Administration!Goto
<1>3. /\ raced => raced'
      /\ raced' \in BOOLEAN
      /\ l.command = "promote" /\ Administration!Admins = {} => raced'
      /\ l.command # "promote" /\ l.user \in Administration!Admins /\ ~l.removes => raced'
  BY <1>1 DEF Administration!Write
<1>4. l.command \in Administration!Commands \cup {"none"}
  BY DEF AdminInv, AdminFits, Administration!Locals
<1>5. PICK r : row' = [row EXCEPT ![l.user] = r] /\ Written(x, r, l.command)
  <2>1. CASE row' = row
    BY <1>1, <1>4, <2>1, RowWritten
  <2>2. CASE /\ l.command = "delete"
             /\ row' = [row EXCEPT ![l.user] = [x EXCEPT !.state = "gone"]]
    BY <1>1, <1>4, <2>2, RowWritten
  <2>3. ASSUME NEW role \in Administration!Roles, x.version < 2,
               role = (IF l.command = "promote" THEN "admin" ELSE "user"),
               row' = [row EXCEPT ![l.user] = Administration!WithRole(x, role)]
        PROVE  \E r : row' = [row EXCEPT ![l.user] = r] /\ Written(x, r, l.command)
    BY <1>1, <1>4, <2>3, RowWritten
  <2>4. CASE row' # row /\ l.command = "delete"
    BY <1>1, <2>2, <2>4 DEF Administration!Write, Administration!Active
  <2>5. CASE row' # row /\ l.command # "delete"
    <3> DEFINE role == IF l.command = "promote" THEN "admin" ELSE "user"
    <3>1. /\ role \in Administration!Roles /\ x.version < 2
          /\ row' = [row EXCEPT ![l.user] = Administration!WithRole(x, role)]
      BY <1>1, <2>5 DEF Administration!Write, Administration!Roles
    <3> QED
      BY <2>3, <3>1
  <2> QED
    BY <2>1, <2>4, <2>5
<1> USE DEF Written
<1>6. \A u \in Everybody : row'[u] = IF u = l.user THEN r ELSE row[u]
  BY <1>1, <1>5
<1> HIDE DEF x
<1>7. /\ l.command # "promote" => Administration!Admins' \subseteq Administration!Admins
      /\ l.command = "promote" => Administration!Admins \subseteq Administration!Admins'
      /\ \A u \in Administration!Admins : u # l.user => u \in Administration!Admins'
  BY <1>5, <1>6 DEF Administration!Admins, Administration!Active, x
<1>8. \A g \in Handlers : Administration!Removing(g)' =>
        g # h /\ Administration!Removing(g) /\ local'[g] = local[g]
  BY <1>1, <1>2 DEF Administration!Removing
<1>9. AdminFits'
  <2>1. Administration!NoLocal \in Administration!Locals /\ "idle" \in Administration!Steps
    BY LocalTypes DEF Administration!Steps
  <2>2. /\ row' \in [Everybody -> Administration!Rows]
        /\ work' \in [Handlers -> Administration!Steps]
        /\ local' \in [Handlers -> Administration!Locals]
    BY <1>1, <1>2, <1>5, <2>1
  <2>3. \A g \in Handlers : work'[g] # "idle" => g # h /\ work[g] # "idle" /\ local'[g] = local[g]
    BY <1>1, <1>2
  <2> QED
    BY <1>2, <1>3, <2>2, <2>3 DEF AdminInv, AdminFits
<1>10. GateFits'
  <2>1. \A u \in Everybody :
          /\ row[u].version \in 1..2 /\ row'[u].version \in 1..2
          /\ row[u].version <= row'[u].version
          /\ row[u].state # "none" => row'[u].state # "none"
          /\ row[u].role = row'[u].role \/ row[u].version < row'[u].version
    BY <1>1, <1>5, <1>6 DEF Administration!Rows, x
  <2>2. ASSUME NEW u \in Everybody, NEW v \in access'[u] PROVE v <= row'[u].version
    <3>1. v \in 1..2 /\ v <= row[u].version
      BY <1>1, <1>2, <2>2 DEF AdminInv, GateFits
    <3> QED
      BY <2>1, <3>1
  <2>3. ASSUME NEW g \in Handlers, work'[g] = "version"
        PROVE  /\ row'[local'[g].actor].state # "none"
               /\ local'[g].claim <= row'[local'[g].actor].version
               /\ local'[g].claim = row'[local'[g].actor].version =>
                    local'[g].role = row'[local'[g].actor].role
    <3>1. work[g] = "version" /\ local'[g] = local[g]
      BY <1>1, <1>2, <2>3
    <3>2. /\ local[g].actor \in Everybody /\ local[g].claim \in 0..2
          /\ row[local[g].actor].state # "none"
          /\ local[g].claim <= row[local[g].actor].version
          /\ local[g].claim = row[local[g].actor].version =>
               local[g].role = row[local[g].actor].role
      BY <1>1, <3>1 DEF AdminInv, AdminFits, GateFits, Administration!Locals
    <3> QED
      BY <2>1, <3>1, <3>2
  <2> QED
    BY <2>2, <2>3 DEF GateFits
<1>11. RemovalsFit'
  <2> SUFFICES ASSUME ~raced'
               PROVE  /\ \A g \in Handlers :
                           Administration!Removing(g)' /\ ~erased' =>
                             \E u \in Administration!Admins' : u # local'[g].user
                      /\ \A f, g \in Handlers :
                           Administration!Removing(f)' /\ Administration!Removing(g)' => f = g
    BY DEF RemovalsFit
  <2>1. ~raced
    BY <1>3
  <2>2. ASSUME NEW g \in Handlers, Administration!Removing(g)', ~erased'
        PROVE  \E u \in Administration!Admins' : u # local'[g].user
    <3>1. /\ g # h /\ Administration!Removing(g) /\ local'[g] = local[g] /\ ~erased
      BY <1>2, <1>8, <2>2
    <3>2. PICK u \in Administration!Admins : u # local[g].user
      BY <2>1, <3>1 DEF AdminInv, RemovalsFit
    <3>3. ~Administration!Removing(h)
      BY <2>1, <3>1 DEF AdminInv, RemovalsFit
    <3>4. ~l.removes
      BY <1>1, <3>3 DEF Administration!Removing
    <3>5. u \in Administration!Admins'
      BY <1>3, <1>7, <3>4
    <3> QED
      BY <3>1, <3>2, <3>5
  <2>3. \A f, g \in Handlers :
          Administration!Removing(f)' /\ Administration!Removing(g)' => f = g
    BY <1>8, <2>1 DEF AdminInv, RemovalsFit
  <2> QED
    BY <2>2, <2>3
<1>12. ScriptsFit'
  BY <1>2, <1>3, <1>7 DEF AdminInv, ScriptsFit
<1> QED
  BY <1>9, <1>10, <1>11, <1>12 DEF AdminInv

(* Sessions, erasures, and the script.                                     *)
LEMMA RowsMove ==
  ASSUME AdminInv,
         \/ \E u \in Everybody : Administration!Erase(u) \/ Administration!SignIn(u)
         \/ \E s \in Scripts :
              \/ Administration!TakeLock(s) \/ Administration!CountNone(s)
              \/ Administration!Abort(s) \/ \E u \in Everybody : Administration!CreateAdmin(s, u)
  PROVE  AdminInv'
<1>1. /\ row \in [Everybody -> Administration!Rows] /\ access \in [Everybody -> SUBSET (1..2)]
      /\ script \in [Scripts -> {"idle", "locked", "counted"}]
      /\ raced \in BOOLEAN /\ erased \in BOOLEAN
  BY DEF AdminInv, AdminFits
<1>2. ASSUME NEW u \in Everybody, Administration!SignIn(u)
      PROVE  AdminInv'
  <2>1. /\ access' = [access EXCEPT ![u] = access[u] \cup {row[u].version}]
        /\ UNCHANGED <<row, work, local, script, raced, erased>>
    BY <1>2 DEF Administration!SignIn, Administration!observers
  <2>2. row[u].version \in 1..2
    BY <1>1 DEF Administration!Rows
  <2>3. access' \in [Everybody -> SUBSET (1..2)]
    BY <1>1, <2>1, <2>2
  <2>4. \A v \in Everybody : \A w \in access'[v] : w <= row[v].version
    BY <1>1, <2>1, <2>2 DEF AdminInv, GateFits
  <2>5. AdminFits' /\ GateFits'
    BY <2>1, <2>3, <2>4 DEF AdminInv, AdminFits, GateFits
  <2>6. RemovalsFit' /\ ScriptsFit'
    BY <2>1 DEF AdminInv, RemovalsFit, ScriptsFit, Administration!Removing,
       Administration!Admins, Administration!Active
  <2> QED
    BY <2>5, <2>6 DEF AdminInv
<1>3. ASSUME NEW u \in Everybody, Administration!Erase(u)
      PROVE  AdminInv'
  <2> DEFINE r == [row[u] EXCEPT !.state = "gone"]
  <2>1. /\ row' = [row EXCEPT ![u] = r] /\ erased' = (erased \/ u \in Administration!Admins)
        /\ UNCHANGED <<access, work, local, script, raced>>
    BY <1>1, <1>3 DEF Administration!Erase
  <2>2. /\ r \in Administration!Rows /\ r.version = row[u].version /\ r.role = row[u].role
        /\ r.state = "gone"
    BY <1>1 DEF Administration!Rows
  <2> HIDE DEF r
  <2>3. \A v \in Everybody : row'[v] = IF v = u THEN r ELSE row[v]
    BY <1>1, <2>1
  <2>4. Administration!Admins' = Administration!Admins \ {u}
    BY <2>2, <2>3 DEF Administration!Admins, Administration!Active
  <2>5. AdminFits'
    BY <1>1, <2>1, <2>2 DEF AdminInv, AdminFits
  <2>6. GateFits'
    <3>1. \A v \in Everybody :
            /\ row'[v].version = row[v].version /\ row'[v].role = row[v].role
            /\ row[v].state # "none" => row'[v].state # "none"
      BY <2>2, <2>3
    <3> QED
      BY <2>1, <3>1 DEF AdminInv, AdminFits, GateFits
  <2>7. RemovalsFit'
    BY <2>1, <2>4 DEF AdminInv, RemovalsFit, Administration!Removing
  <2>8. ScriptsFit'
    BY <2>1, <2>4 DEF AdminInv, ScriptsFit
  <2> QED
    BY <2>5, <2>6, <2>7, <2>8 DEF AdminInv
<1>4. ASSUME NEW s \in Scripts, NEW state \in {"idle", "locked", "counted"},
             script' = [script EXCEPT ![s] = state],
             UNCHANGED <<row, access, work, local, raced, erased>>,
             state # "idle" => \A r \in Scripts \ {s} : script[r] = "idle",
             state = "counted" => Administration!Admins = {}
      PROVE  AdminInv'
  <2>1. AdminFits' /\ GateFits' /\ RemovalsFit'
    BY <1>1, <1>4 DEF AdminInv, AdminFits, GateFits, RemovalsFit, Administration!Removing,
       Administration!Admins, Administration!Active
  <2>2. Administration!Admins' = Administration!Admins
    BY <1>4 DEF Administration!Admins, Administration!Active
  <2>3. ScriptsFit'
    BY <1>1, <1>4, <2>2 DEF AdminInv, ScriptsFit
  <2> QED
    BY <2>1, <2>3 DEF AdminInv
<1>5. ASSUME NEW s \in Scripts,
             Administration!TakeLock(s) \/ Administration!CountNone(s) \/ Administration!Abort(s)
      PROVE  AdminInv'
  <2>1. CASE Administration!TakeLock(s)
    <3>1. \A r \in Scripts \ {s} : script[r] = "idle"
      BY <1>1, <2>1 DEF Administration!TakeLock, Administration!LockFree
    <3> QED
      BY <1>4, <2>1, <3>1 DEF Administration!TakeLock, Administration!observers
  <2>2. CASE Administration!CountNone(s)
    <3>1. \A r \in Scripts \ {s} : script[r] = "idle"
      BY <2>2 DEF Administration!CountNone, AdminInv, ScriptsFit
    <3>2. UNCHANGED <<row, access, work, local, raced, erased>>
      BY <2>2 DEF Administration!CountNone, Administration!observers
    <3>3. CASE Administration!Admins = {}
      BY <1>4, <2>2, <3>1, <3>2, <3>3 DEF Administration!CountNone
    <3>4. CASE Administration!Admins # {}
      BY <1>4, <2>2, <3>1, <3>2, <3>4 DEF Administration!CountNone
    <3> QED
      BY <3>3, <3>4
  <2>3. CASE Administration!Abort(s)
    BY <1>4, <2>3 DEF Administration!Abort, Administration!observers
  <2> QED
    BY <1>5, <2>1, <2>2, <2>3
<1>6. ASSUME NEW s \in Scripts, NEW u \in Everybody, Administration!CreateAdmin(s, u)
      PROVE  AdminInv'
  <2> DEFINE r == [row[u] EXCEPT !.role = "admin", !.state = "active"]
  <2>1. /\ row' = [row EXCEPT ![u] = r] /\ script' = [script EXCEPT ![s] = "idle"]
        /\ row[u].state = "none" /\ script[s] = "counted"
        /\ UNCHANGED <<access, work, local, raced, erased>>
    BY <1>1, <1>6 DEF Administration!CreateAdmin, Administration!observers
  <2>2. r \in Administration!Rows /\ r.version = row[u].version
    BY <1>1 DEF Administration!Rows, Administration!Roles
  <2> HIDE DEF r
  <2>3. \A v \in Everybody : row'[v] = IF v = u THEN r ELSE row[v]
    BY <1>1, <2>1
  <2>4. Administration!Admins \subseteq Administration!Admins'
    BY <2>1, <2>3 DEF Administration!Admins, Administration!Active
  <2>5. AdminFits'
    BY <1>1, <2>1, <2>2 DEF AdminInv, AdminFits
  <2>6. GateFits'
    <3>1. \A v \in Everybody :
            /\ row'[v].version = row[v].version
            /\ row[v].state # "none" => row'[v] = row[v]
      BY <2>1, <2>2, <2>3
    <3> QED
      BY <2>1, <3>1 DEF AdminInv, AdminFits, GateFits
  <2>7. RemovalsFit'
    BY <2>1, <2>4 DEF AdminInv, RemovalsFit, Administration!Removing
  <2>8. ScriptsFit'
    <3>1. \A t \in Scripts : script'[t] = "idle"
      BY <1>1, <2>1 DEF AdminInv, ScriptsFit
    <3> QED
      BY <3>1 DEF ScriptsFit
  <2> QED
    BY <2>5, <2>6, <2>7, <2>8 DEF AdminInv
<1> QED
  BY <1>2, <1>3, <1>5, <1>6

(* Every step keeps the invariant of the administration.                   *)
LEMMA AdminNext == AdminInv /\ [Administration!Next]_adminVars => AdminInv'
<1> SUFFICES ASSUME AdminInv, [Administration!Next]_adminVars PROVE AdminInv'
  OBVIOUS
<1>1. CASE UNCHANGED adminVars
  BY <1>1 DEF adminVars, AdminInv, AdminFits, GateFits, RemovalsFit, ScriptsFit,
     Administration!Removing, Administration!Admins, Administration!Active
<1>2. CASE Administration!Next
  BY <1>2, HandlerReads, HandlerWrites, RowsMove DEF Administration!Next
<1> QED
  BY <1>1, <1>2

(* No step takes the last administrator away, passes a gate that is not    *)
(* current, or provisions twice.                                           *)
LEMMA AdminGuarded == AdminInv /\ [Administration!Next]_adminVars => Administration!GuardedStep
<1> SUFFICES ASSUME AdminInv, [Administration!Next]_adminVars PROVE Administration!GuardedStep
  OBVIOUS
<1> USE DEF Administration!AnAdminRemains, Administration!GateIsCurrent,
            Administration!ProvisionedOnce, Administration!GuardedStep
<1>1. /\ row \in [Everybody -> Administration!Rows]
      /\ work \in [Handlers -> Administration!Steps]
  BY DEF AdminInv, AdminFits
<1>2. ASSUME UNCHANGED <<row, work>>
      PROVE  Administration!GuardedStep
  BY <1>2 DEF Administration!Admins, Administration!Active
<1>3. ASSUME UNCHANGED row, \A h \in Handlers : work[h] = "version" => work'[h] # "target"
      PROVE  Administration!GuardedStep
  BY <1>3 DEF Administration!Admins, Administration!Active
<1>4. ASSUME NEW h \in Handlers, NEW step, NEW l, Administration!Goto(h, step, l),
             UNCHANGED row, work[h] # "version" \/ step # "target"
      PROVE  Administration!GuardedStep
  BY <1>1, <1>3, <1>4 DEF Administration!Goto
<1>5. ASSUME NEW h \in Handlers, Administration!Pass(h)
      PROVE  Administration!GuardedStep
  <2>1. CASE Administration!Admitted(h)
    <3>1. /\ work[h] = "version" /\ UNCHANGED row
          /\ \A g \in Handlers \ {h} : work'[g] = work[g]
      BY <1>1, <1>5, <2>1 DEF Administration!Pass, Administration!Goto
    <3>2. Administration!Active(local[h].actor) => row[local[h].actor].role = "admin"
      BY <2>1, <3>1 DEF Administration!Admitted, Administration!SecurityVersion, AdminInv, GateFits
    <3> QED
      BY <3>1, <3>2 DEF Administration!Admins, Administration!Active
  <2>2. CASE ~Administration!Admitted(h)
    BY <1>4, <1>5, <2>2 DEF Administration!Pass, Administration!End
  <2> QED
    BY <2>1, <2>2
<1>6. ASSUME NEW h \in Handlers, Administration!Write(h)
      PROVE  Administration!GuardedStep
  <2> DEFINE l == local[h]
  <2>1. /\ work[h] = "write" /\ l.user \in Everybody /\ l.removes \in BOOLEAN
        /\ work' = [work EXCEPT ![h] = "idle"] /\ UNCHANGED <<script, erased>>
    BY <1>6 DEF Administration!Write, Administration!End, Administration!Goto,
       AdminInv, AdminFits, Administration!Locals
  <2>2. /\ l.command = "promote" /\ Administration!Admins = {} => raced'
        /\ l.command # "promote" /\ l.user \in Administration!Admins /\ ~l.removes => raced'
        /\ raced => raced'
    BY <1>6 DEF Administration!Write
  <2>3. \A u \in Everybody :
          row'[u] # row[u] =>
            /\ u = l.user /\ row[u].state = "active"
            /\ l.command = "promote" => row'[u].state = "active" /\ row'[u].role = "admin"
    <3>1. CASE ~Administration!Active(l.user)
      BY <1>6, <3>1 DEF Administration!Write
    <3>2. CASE Administration!Active(l.user) /\ l.command = "delete"
      BY <1>1, <1>6, <3>2 DEF Administration!Write, Administration!Active
    <3>3. CASE Administration!Active(l.user) /\ l.command # "delete"
      <4>1. row' = [row EXCEPT ![l.user] = Administration!WithRole(row[l.user],
                      IF l.command = "promote" THEN "admin" ELSE "user")]
        BY <1>1, <1>6, <3>3 DEF Administration!Write
      <4>2. \A u \in Everybody :
              row'[u] = IF u = l.user THEN Administration!WithRole(row[l.user],
                          IF l.command = "promote" THEN "admin" ELSE "user") ELSE row[u]
        BY <1>1, <4>1
      <4>3. row[l.user] \in Administration!Rows /\ row[l.user].state = "active"
        BY <1>1, <2>1, <3>3 DEF Administration!Active
      <4>4. \A role : /\ Administration!WithRole(row[l.user], role).role = role
                      /\ Administration!WithRole(row[l.user], role).state = "active"
        BY <4>3 DEF Administration!WithRole, Administration!Rows
      <4> QED
        BY <4>2, <4>3, <4>4
    <3> QED
      BY <3>1, <3>2, <3>3
  <2>4. Administration!Admins # {} /\ Administration!Admins' = {} => raced' \/ erased'
    <3> SUFFICES ASSUME Administration!Admins # {}, Administration!Admins' = {}, ~raced', ~erased'
                 PROVE  FALSE
      OBVIOUS
    <3>1. PICK u \in Administration!Admins : TRUE
      OBVIOUS
    <3>2. \A v \in Administration!Admins : v = l.user /\ l.command # "promote"
      BY <2>3 DEF Administration!Admins, Administration!Active
    <3>3. l.user \in Administration!Admins /\ l.removes
      BY <2>1, <2>2, <3>1, <3>2
    <3>4. \E v \in Administration!Admins : v # l.user
      BY <2>1, <2>2, <3>3 DEF AdminInv, RemovalsFit, Administration!Removing
    <3> QED
      BY <3>2, <3>4
  <2>5. \A g \in Handlers : work[g] = "version" => work'[g] # "target"
    BY <1>1, <2>1
  <2>6. \A u \in Everybody : row[u].state = "none" => u \notin Administration!Admins'
    BY <2>3 DEF Administration!Admins, Administration!Active
  <2> QED
    BY <2>4, <2>5, <2>6
<1>7. ASSUME NEW u \in Everybody, Administration!Erase(u)
      PROVE  Administration!GuardedStep
  <2>1. /\ row' = [row EXCEPT ![u].state = "gone"]
        /\ erased' = (erased \/ u \in Administration!Admins) /\ UNCHANGED work
    BY <1>7 DEF Administration!Erase
  <2>2. \A v \in Everybody : row'[v] # row[v] => v = u /\ row'[v].state = "gone"
    BY <1>1, <2>1 DEF Administration!Rows
  <2> QED
    BY <2>1, <2>2 DEF Administration!Admins, Administration!Active
<1>8. ASSUME NEW s \in Scripts, NEW u \in Everybody, Administration!CreateAdmin(s, u)
      PROVE  Administration!GuardedStep
  <2>1. /\ row' = [row EXCEPT ![u] = [@ EXCEPT !.role = "admin", !.state = "active"]]
        /\ script[s] = "counted" /\ row[u].state = "none" /\ UNCHANGED work
        /\ UNCHANGED raced
    BY <1>8 DEF Administration!CreateAdmin, Administration!observers
  <2>2. \A v \in Everybody : row'[v] # row[v] => v = u
    BY <1>1, <2>1
  <2>3. Administration!Admins \subseteq Administration!Admins'
    BY <2>1, <2>2 DEF Administration!Admins, Administration!Active
  <2>4. Administration!Admins = {} \/ raced
    BY <2>1 DEF AdminInv, ScriptsFit
  <2> QED
    BY <2>1, <2>3, <2>4
<1>9. CASE Administration!Next
  <2>1. ASSUME NEW h \in Handlers,
               \/ \E actor, u \in Everybody, claim \in 1..2, command \in Orders :
                    Administration!Request(h, actor, claim, command, u)
               \/ Administration!FindTarget(h) \/ Administration!CountAdmins(h)
               \/ Administration!Die(h)
        PROVE  Administration!GuardedStep
    BY <1>4, <2>1 DEF Administration!Request, Administration!FindTarget,
       Administration!CountAdmins, Administration!Die, Administration!End
  <2>2. ASSUME \/ \E u \in Everybody : Administration!SignIn(u)
               \/ \E s \in Scripts :
                    \/ Administration!TakeLock(s) \/ Administration!CountNone(s)
                    \/ Administration!Abort(s)
        PROVE  Administration!GuardedStep
    BY <1>2, <2>2 DEF Administration!SignIn, Administration!TakeLock,
       Administration!CountNone, Administration!Abort
  <2> QED
    BY <1>5, <1>6, <1>7, <1>8, <1>9, <2>1, <2>2 DEF Administration!Next
<1>10. CASE UNCHANGED adminVars
  BY <1>2, <1>10 DEF adminVars
<1> QED
  BY <1>9, <1>10

-----------------------------------------------------------------------------
(* The browser.  A closed tab shows and keeps nothing, and nothing is      *)
(* under way for it; what is under way with a key has one there has been.  *)

ClientFits ==
  /\ tab \in [Tabs -> Client!TabSet]
  /\ jar \in [token: Client!Tokens \cup {Client!Nothing}, late: BOOLEAN]
  /\ issued \in Nat /\ live \subseteq 1..issued
  /\ keys \in Nat /\ keys <= MaxKeys /\ done \subseteq [key: 1..keys, payload: Payloads]
  /\ call \in [Calls -> Client!CallSet \cup {Client!Idle}]
  /\ \A t \in Tabs : ~tab[t].open => ~tab[t].user /\ tab[t].token = "none"

Keyed(c) == call[c].kind = "command"

CallsFit ==
  \A c \in Calls : Client!Busy(c) =>
    /\ call[c].tab # None => tab[call[c].tab].open
    /\ IF Keyed(c) THEN call[c].key \in 1..keys ELSE call[c].key = Client!Nothing
    /\ Client!Ordered(c) => call[c].payload \in Payloads

(* While the client is signed out: what is under way and may still bring a *)
(* token is late, or has nothing to show for one.                          *)
LateFits ==
  signedOut =>
    /\ \A t \in Tabs : tab[t].token # "none" => tab[t].late \/ tab[t].notice
    /\ ~Client!LogoutUnderWay => jar.token = Client!Nothing \/ jar.late
    /\ \A c \in Calls :
         /\ call[c].kind = "login" => call[c].late
         /\ call[c].kind \in {"restore", "renew"} /\ ~call[c].late =>
              /\ call[c].at = "sent" => call[c].cookie = Client!Nothing
              /\ call[c].at # "ok"

(* The key a tab keeps is its own.  Unless it is mixed, what is executed   *)
(* under it and not reported yet is counted, and what is under way with it *)
(* is the tab's one command, which it has not given up.                    *)
Executed(k) == \E e \in done : e.key = k

KeysFit ==
  /\ \A t \in Tabs :
       /\ tab[t].key <= keys /\ tab[t].ahead \in 0..1
       /\ tab[t].key = Client!Nothing \/ tab[t].mixed => tab[t].ahead = 0
       /\ tab[t].key # Client!Nothing /\ ~tab[t].mixed => (tab[t].ahead = 1 <=> Executed(tab[t].key))
  /\ \A s, t \in Tabs : tab[s].key = tab[t].key /\ s # t => tab[s].key = Client!Nothing

CommandsFit ==
  /\ \A c \in Calls : Keyed(c) =>
       /\ \A t \in Tabs : call[c].key = tab[t].key /\ ~tab[t].mixed => call[c].tab = t /\ call[c].own
       /\ call[c].own /\ call[c].tab # None /\ ~tab[call[c].tab].mixed =>
            /\ call[c].key = tab[call[c].tab].key
            /\ call[c].at = "ok" => tab[call[c].tab].ahead = 1
  /\ \A c, d \in Calls :
       Client!Ordered(c) /\ Client!Ordered(d) /\ call[c].own /\ call[d].own
         /\ call[c].tab # None /\ call[c].tab = call[d].tab => c = d

ClientInv == ClientFits /\ CallsFit /\ LateFits /\ KeysFit /\ CommandsFit

(* A browser in which no page has been opened.                             *)
LEMMA ClientInit == Client!Init => ClientInv
<1> SUFFICES ASSUME Client!Init PROVE ClientInv
  OBVIOUS
<1>1. /\ tab = [t \in Tabs |-> Client!Gone] /\ jar = [token |-> Client!Nothing, late |-> FALSE]
      /\ live = {} /\ issued = 0 /\ done = {} /\ keys = 0
      /\ call = [c \in Calls |-> Client!Idle] /\ signedOut = FALSE
  BY DEF Client!Init
<1>2. Client!Gone \in Client!TabSet /\ ~Client!Gone.user /\ Client!Gone.token = "none" /\ Client!Gone.key = 0 /\ Client!Gone.ahead = 0
  BY DEF Client!Gone, Client!TabSet, Client!Nothing
<1>3. Client!Idle.kind = "idle"
  BY DEF Client!Idle
<1>4. ClientFits
  BY <1>1, <1>2, MatterParameters DEF ClientFits, Client!Nothing
<1>5. CallsFit /\ LateFits /\ CommandsFit
  <2>1. \A c \in Calls : call[c].kind = "idle"
    BY <1>1, <1>3
  <2> QED
    BY <1>1, <2>1 DEF CallsFit, LateFits, CommandsFit, Client!Busy, Keyed, Client!Ordered
<1>6. KeysFit
  BY <1>1, <1>2 DEF KeysFit, Client!Nothing
<1> QED
  BY <1>4, <1>5, <1>6 DEF ClientInv

(* A new request.                                                          *)
LEMMA RequestFits ==
  ASSUME ClientFits, NEW t \in Tabs,
         NEW kind \in {"restore", "me", "login", "logout", "command", "renew"}
  PROVE  /\ Client!Request(kind, t) \in Client!CallSet
         /\ Client!Request(kind, t).kind = kind /\ Client!Request(kind, t).tab = t
         /\ Client!Request(kind, t).at = "sent" /\ Client!Request(kind, t).cookie = jar.token
         /\ Client!Request(kind, t).key = Client!Nothing /\ Client!Request(kind, t).own
         /\ Client!Request(kind, t).late <=> jar.late \/ Client!LogoutUnderWay
<1>1. PICK late \in BOOLEAN : late <=> jar.late \/ Client!LogoutUnderWay
  OBVIOUS
<1>2. Client!Request(kind, t) =
        [kind |-> kind, tab |-> t, at |-> "sent", cookie |-> jar.token, bearer |-> tab[t].token,
         key |-> Client!Nothing, payload |-> None, retry |-> FALSE, late |-> late, own |-> TRUE]
  BY <1>1 DEF Client!Request
<1>3. jar.token \in Client!Tokens \cup {Client!Nothing} /\ tab[t].token \in {"none", "fresh", "stale"}
  BY DEF ClientFits, Client!TabSet
<1> QED
  BY <1>1, <1>2, <1>3 DEF Client!CallSet

(* An answer, or a grant, is that call with another state and cookie.      *)
Answered(c, at, cookie) == call' = [call EXCEPT ![c].at = at, ![c].cookie = cookie]

(* It keeps everything else.                                               *)
LEMMA CallChanges ==
  ASSUME ClientFits, NEW c \in Calls, Client!Busy(c),
         NEW at \in {"sent", "ok", "refused", "conflict"}, NEW cookie \in Client!Tokens \cup {Client!Nothing},
         Answered(c, at, cookie)
  PROVE  \E x \in Client!CallSet :
           /\ call' = [call EXCEPT ![c] = x]
           /\ x.kind = call[c].kind /\ x.tab = call[c].tab /\ x.key = call[c].key
           /\ x.payload = call[c].payload /\ x.late = call[c].late /\ x.own = call[c].own
           /\ x.at = at /\ x.cookie = cookie
<1> DEFINE x == [call[c] EXCEPT !.at = at, !.cookie = cookie]
<1>0. call \in [Calls -> Client!CallSet \cup {Client!Idle}] /\ call[c] \in Client!CallSet
  BY DEF ClientFits, Client!Busy, Client!Idle
<1>1. call' = [call EXCEPT ![c] = x]
  BY <1>0 DEF Answered
<1>2. /\ x \in Client!CallSet
      /\ x.kind = call[c].kind /\ x.tab = call[c].tab /\ x.key = call[c].key
      /\ x.payload = call[c].payload /\ x.late = call[c].late /\ x.own = call[c].own
      /\ x.at = at /\ x.cookie = cookie
  BY <1>0 DEF Client!CallSet
<1> QED
  BY <1>1, <1>2

(* Keys are forgotten, and commands with them; none is added.              *)
LEMMA CommandsLost ==
  ASSUME ClientInv, UNCHANGED <<done, keys>>,
         \A t \in Tabs :
           \/ tab'[t].key = tab[t].key /\ tab'[t].ahead = tab[t].ahead /\ tab'[t].mixed = tab[t].mixed
           \/ tab'[t].key = Client!Nothing /\ tab'[t].ahead = 0,
         \A c \in Calls : Client!Ordered(c)' =>
           /\ Client!Ordered(c)
           /\ call'[c].own => call[c].own
           /\ call'[c].tab \in {call[c].tab, None},
         \A c \in Calls : Keyed(c)' =>
           /\ Keyed(c) /\ call'[c].key = call[c].key
           /\ call'[c].at = "ok" => call[c].at = "ok"
           /\ call[c].tab # None /\ call[c].own /\ ~tab'[call[c].tab].mixed =>
                IF tab'[call[c].tab].key = Client!Nothing THEN call'[c].tab = None \/ ~call'[c].own
                ELSE call'[c].tab = call[c].tab /\ call'[c].own
  PROVE  KeysFit' /\ CommandsFit'
<1>2. KeysFit'
  <2>1. ASSUME NEW t \in Tabs
        PROVE  /\ tab'[t].key <= keys' /\ tab'[t].ahead \in 0..1
               /\ tab'[t].key = Client!Nothing \/ tab'[t].mixed => tab'[t].ahead = 0
               /\ tab'[t].key # Client!Nothing /\ ~tab'[t].mixed =>
                    (tab'[t].ahead = 1 <=> \E e \in done' : e.key = tab'[t].key)
    BY DEF ClientInv, ClientFits, KeysFit, Executed, Client!Nothing
  <2>2. \A s, t \in Tabs : tab'[s].key = tab'[t].key /\ s # t => tab'[s].key = Client!Nothing
    BY DEF ClientInv, KeysFit
  <2> QED
    BY <2>1, <2>2 DEF KeysFit, Executed, Client!Nothing
<1>3. ASSUME NEW c \in Calls, Keyed(c)'
      PROVE  /\ call[c].key \in 1..keys /\ Keyed(c) /\ Client!Ordered(c)'
             /\ call[c].tab \in Tabs \cup {None}
             /\ \A t \in Tabs : call[c].key = tab[t].key /\ ~tab[t].mixed => call[c].tab = t /\ call[c].own
             /\ call[c].own /\ call[c].tab # None /\ ~tab[call[c].tab].mixed =>
                  /\ call[c].key = tab[call[c].tab].key
                  /\ call[c].at = "ok" => tab[call[c].tab].ahead = 1
  <2>1. Keyed(c) /\ Client!Busy(c) /\ call[c] \in Client!CallSet /\ Client!Ordered(c)'
    BY <1>3 DEF ClientInv, ClientFits, Keyed, Client!Busy, Client!Idle, Client!Ordered
  <2> QED
    BY <2>1 DEF ClientInv, CallsFit, CommandsFit, Client!CallSet
<1>4. ASSUME NEW c \in Calls, Keyed(c)', NEW t \in Tabs, call'[c].key = tab'[t].key, ~tab'[t].mixed
      PROVE  call'[c].tab = t /\ call'[c].own
  <2>1. tab'[t].key # Client!Nothing
    BY <1>3, <1>4 DEF Client!Nothing
  <2>2. tab'[t].key = tab[t].key /\ ~tab[t].mixed /\ call[c].tab = t /\ call[c].own
    BY <1>3, <1>4, <2>1
  <2> QED
    BY <1>4, <2>1, <2>2, MatterParameters
<1>5. ASSUME NEW c \in Calls, Keyed(c)', call'[c].own, call'[c].tab # None, ~tab'[call'[c].tab].mixed
      PROVE  /\ call'[c].key = tab'[call'[c].tab].key
             /\ call'[c].at = "ok" => tab'[call'[c].tab].ahead = 1
  <2>1. call[c].own /\ call[c].tab = call'[c].tab /\ call[c].tab \in Tabs
    BY <1>3, <1>5
  <2>2. tab'[call[c].tab].key # Client!Nothing
    BY <1>5, <2>1
  <2> QED
    BY <1>3, <1>5, <2>1, <2>2
<1>6. \A c, d \in Calls :
        Client!Ordered(c)' /\ Client!Ordered(d)' /\ call'[c].own /\ call'[d].own
          /\ call'[c].tab # None /\ call'[c].tab = call'[d].tab => c = d
  <2> SUFFICES ASSUME NEW c \in Calls, NEW d \in Calls, Client!Ordered(c)', Client!Ordered(d)',
                      call'[c].own, call'[d].own,
                      call'[c].tab # None, call'[c].tab = call'[d].tab
               PROVE  c = d
    OBVIOUS
  <2>1. /\ call[c].own /\ call[c].tab = call'[c].tab /\ Client!Ordered(c)
        /\ call[d].own /\ call[d].tab = call'[d].tab /\ Client!Ordered(d)
    OBVIOUS
  <2> QED
    BY <2>1 DEF ClientInv, CommandsFit
<1>7. CommandsFit'
  BY <1>4, <1>5, <1>6 DEF CommandsFit
<1> QED
  BY <1>2, <1>7

(* The key that is kept, or a new one.                                     *)
LEMMA KeyNew ==
  ASSUME ClientInv, NEW t \in Tabs, Client!KeyTaken(t)
  PROVE  /\ Client!KeyFor(t) \in Client!Keys /\ Client!KeyFor(t) \in 1..keys' /\ keys' \in Nat
         /\ keys <= keys' /\ keys' <= MaxKeys
         /\ \/ /\ Client!KeyFor(t) = tab[t].key /\ tab[t].key # Client!Nothing
               /\ Client!KeyFor(t) <= keys
            \/ Client!KeyFor(t) = keys + 1 /\ tab[t].key = Client!Nothing
<1> DEFINE k == Client!KeyFor(t)
<1>1. /\ keys \in Nat /\ keys <= MaxKeys /\ k <= MaxKeys /\ keys' = IF k > keys THEN k ELSE keys
      /\ tab[t].key \in Client!Keys \cup {Client!Nothing} /\ tab[t].key <= keys
  BY DEF ClientInv, ClientFits, KeysFit, Client!TabSet, Client!KeyTaken
<1>2. k = IF tab[t].key # Client!Nothing THEN tab[t].key ELSE keys + 1
  BY DEF Client!KeyFor
<1> HIDE DEF k
<1>3. k \in Nat /\ 1 <= k
  BY <1>1, <1>2, MatterParameters DEF Client!Keys, Client!Nothing
<1>4. k \in Client!Keys /\ k \in 1..keys' /\ keys' \in Nat /\ keys <= keys' /\ keys' <= MaxKeys
  BY <1>1, <1>3, MatterParameters DEF Client!Keys
<1> QED
  BY <1>1, <1>2, <1>4 DEF k

(* A command is sent with that key: the tab's one command, or the tab is   *)
(* mixed.                                                                  *)
LEMMA CommandsSent ==
  ASSUME ClientInv, NEW t \in Tabs, NEW c \in Calls, Client!KeyTaken(t), done' = done,
         \A u \in Tabs \ {t} :
           tab'[u].key = tab[u].key /\ tab'[u].ahead = tab[u].ahead /\ tab'[u].mixed = tab[u].mixed,
         tab'[t].key = Client!KeyFor(t),
         \/ tab'[t].ahead = tab[t].ahead /\ tab'[t].mixed = tab[t].mixed
         \/ tab'[t].ahead = 0 /\ tab'[t].mixed,
         \A d \in Calls \ {c} :
           /\ call'[d].kind = call[d].kind
           /\ call[d].kind # "idle" =>
                /\ call'[d].key = call[d].key /\ call'[d].own = call[d].own
                /\ call'[d].tab = call[d].tab /\ call'[d].at = call[d].at,
         Keyed(c)', call'[c].tab = t, call'[c].at = "sent", call'[c].key = Client!KeyFor(t),
         call'[c].own \/ tab'[t].mixed,
         call'[c].own => \A d \in Calls \ {c} : ~(Client!Ordered(d) /\ call[d].tab = t /\ call[d].own)
  PROVE  KeysFit' /\ CommandsFit'
<1> USE DEF ClientInv
<1> DEFINE k == Client!KeyFor(t)
<1>1. /\ k \in Client!Keys /\ k \in 1..keys' /\ keys' \in Nat /\ keys \in Nat /\ keys <= keys'
      /\ \/ k = tab[t].key /\ tab[t].key # Client!Nothing /\ k <= keys
         \/ k = keys + 1 /\ tab[t].key = Client!Nothing
  BY KeyNew DEF ClientFits
<1>2. tab'[t].key = k /\ call'[c].key = k
  OBVIOUS
<1> HIDE DEF k
<1>3. \A u \in Tabs : tab[u] \in Client!TabSet /\ tab[u].key \in Nat /\ tab[u].key <= keys
  BY DEF ClientFits, KeysFit, Client!TabSet, Client!Keys, Client!Nothing
<1>4. \A u \in Tabs \ {t} : tab[u].key # k
  BY <1>1, <1>3 DEF KeysFit, Client!Nothing
<1>5. ~Executed(keys + 1)
  BY <1>1 DEF Executed, ClientFits
<1>6. KeysFit'
  <2>1. ASSUME NEW u \in Tabs
        PROVE  /\ tab'[u].key <= keys' /\ tab'[u].ahead \in 0..1
               /\ tab'[u].key = Client!Nothing \/ tab'[u].mixed => tab'[u].ahead = 0
               /\ tab'[u].key # Client!Nothing /\ ~tab'[u].mixed =>
                    (tab'[u].ahead = 1 <=> \E e \in done' : e.key = tab'[u].key)
    <3>1. /\ tab[u].ahead \in 0..1
          /\ tab[u].key = Client!Nothing \/ tab[u].mixed => tab[u].ahead = 0
          /\ tab[u].key # Client!Nothing /\ ~tab[u].mixed =>
               (tab[u].ahead = 1 <=> \E e \in done' : e.key = tab[u].key)
      BY DEF KeysFit, Executed
    <3>2. CASE u # t
      <4>1. tab'[u].key = tab[u].key /\ tab'[u].ahead = tab[u].ahead /\ tab'[u].mixed = tab[u].mixed
        BY <3>2
      <4> QED
        BY <1>1, <1>3, <3>1, <4>1
    <3>3. CASE u = t /\ tab'[t].mixed
      <4>1. tab'[t].ahead = 0
        BY <3>1, <3>3
      <4>2. tab'[t].key <= keys' /\ tab'[t].key \in Nat
        BY <1>1, <1>2
      <4> QED
        BY <3>3, <4>1, <4>2
    <3>4. CASE u = t /\ ~tab'[t].mixed
      <4>1. tab'[u].ahead = tab[u].ahead /\ ~tab[u].mixed /\ tab'[u].key = k /\ k # Client!Nothing
        BY <1>1, <1>2, <3>4 DEF Client!Keys, Client!Nothing
      <4>2. CASE k = tab[t].key /\ tab[t].key # Client!Nothing
        BY <1>1, <3>1, <3>4, <4>1, <4>2
      <4>3. CASE k = keys + 1 /\ tab[t].key = Client!Nothing
        <5>1. ~\E e \in done' : e.key = k
          BY <1>5, <4>3 DEF Executed
        <5> QED
          BY <1>1, <3>1, <3>4, <4>1, <4>3, <5>1
      <4> QED
        BY <1>1, <4>2, <4>3
    <3> QED
      BY <3>2, <3>3, <3>4
  <2>2. ASSUME NEW u \in Tabs, NEW v \in Tabs, tab'[u].key = tab'[v].key, u # v
        PROVE  tab'[u].key = Client!Nothing
    BY <1>2, <1>4, <2>2 DEF KeysFit
  <2> QED
    BY <2>1, <2>2 DEF KeysFit, Executed, Client!Nothing
<1>7. ASSUME NEW d \in Calls \ {c}, Keyed(d)'
      PROVE  /\ Keyed(d) /\ call'[d].key = call[d].key /\ call'[d].own = call[d].own
             /\ call'[d].tab = call[d].tab /\ call'[d].at = call[d].at
             /\ call[d].key \in 1..keys /\ call[d].tab \in Tabs \cup {None}
             /\ Client!Ordered(d)
  <2>1. Keyed(d) /\ call[d].kind # "idle"
    BY <1>7 DEF Keyed
  <2>2. Client!Busy(d) /\ call[d] \in Client!CallSet
    BY <2>1 DEF Client!Busy, ClientFits, Client!Idle
  <2> QED
    BY <2>1, <2>2 DEF CallsFit, Client!CallSet, Client!Ordered, Keyed
<1>8. ASSUME NEW d \in Calls, Keyed(d)'
      PROVE  /\ \A u \in Tabs : call'[d].key = tab'[u].key /\ ~tab'[u].mixed =>
                               call'[d].tab = u /\ call'[d].own
             /\ call'[d].own /\ call'[d].tab # None /\ ~tab'[call'[d].tab].mixed =>
                  /\ call'[d].key = tab'[call'[d].tab].key
                  /\ call'[d].at = "ok" => tab'[call'[d].tab].ahead = 1
  <2>1. CASE d = c
    BY <1>2, <1>4, <2>1
  <2>2. CASE d # c
    <3>1. ASSUME NEW u \in Tabs, call'[d].key = tab'[u].key, ~tab'[u].mixed
          PROVE  call'[d].tab = u /\ call'[d].own
      <4>1. CASE u # t
        BY <1>7, <1>8, <2>2, <3>1, <4>1 DEF CommandsFit
      <4>2. CASE u = t
        <5>1. ~tab[t].mixed /\ call[d].key = k /\ call'[c].own
          BY <1>2, <1>7, <1>8, <2>2, <3>1, <4>2
        <5>2. k = tab[t].key
          BY <1>1, <1>7, <1>8, <2>2, <5>1
        <5>3. call[d].tab = t /\ call[d].own
          BY <1>7, <1>8, <2>2, <5>1, <5>2 DEF CommandsFit
        <5> QED
          BY <1>7, <1>8, <2>2, <5>1, <5>3
      <4> QED
        BY <4>1, <4>2
    <3>2. ASSUME call'[d].own, call'[d].tab # None, ~tab'[call'[d].tab].mixed
          PROVE  /\ call'[d].key = tab'[call'[d].tab].key
                 /\ call'[d].at = "ok" => tab'[call'[d].tab].ahead = 1
      <4>1. call[d].own /\ call[d].tab = call'[d].tab /\ call[d].tab \in Tabs /\ Client!Ordered(d)
        BY <1>7, <1>8, <2>2, <3>2
      <4>2. call[d].tab # t
        BY <2>2, <3>2, <4>1
      <4> QED
        BY <1>7, <1>8, <2>2, <3>2, <4>1, <4>2 DEF CommandsFit
    <3> QED
      BY <3>1, <3>2
  <2> QED
    BY <2>1, <2>2
<1>9. ASSUME NEW d \in Calls, NEW e \in Calls, Client!Ordered(d)', Client!Ordered(e)',
             call'[d].own, call'[e].own, call'[d].tab # None, call'[d].tab = call'[e].tab
      PROVE  d = e
  <2>1. \A x \in {d, e} \ {c} : /\ Client!Ordered(x) /\ call'[x].own = call[x].own
                                /\ call'[x].tab = call[x].tab
    BY <1>9 DEF Client!Ordered
  <2> QED
    BY <1>9, <2>1 DEF CommandsFit
<1> QED
  BY <1>6, <1>8, <1>9 DEF CommandsFit

(* What is under way is of its type.                                       *)
LEMMA CallKnown ==
  ASSUME ClientInv, NEW c \in Calls
  PROVE  /\ Client!Busy(c) => call[c] \in Client!CallSet
         /\ ~Client!Busy(c) => call[c] = Client!Idle
         /\ call[c].kind # "idle" => Client!Busy(c)
         /\ call[c] \in Client!CallSet => call[c].kind # "idle"
         /\ Client!Idle.kind = "idle"
BY DEF ClientInv, ClientFits, Client!Busy, Client!Idle, Client!CallSet

(* A step leaves a call as it is, but for its tab or its claim to it.      *)
SameCall(c) ==
  /\ call'[c].kind = call[c].kind
  /\ call[c].kind # "idle" =>
       /\ call'[c].at = call[c].at /\ call'[c].cookie = call[c].cookie
       /\ call'[c].key = call[c].key /\ call'[c].payload = call[c].payload
       /\ call'[c].late = call[c].late
       /\ call'[c].tab \in {call[c].tab, None}

(* What keeps the types.                                                   *)
LEMMA FitsKept ==
  ASSUME ClientInv,
         tab' \in [Tabs -> Client!TabSet], jar' \in [token: Client!Tokens \cup {Client!Nothing}, late: BOOLEAN],
         issued' \in Nat, live' \subseteq 1..issued',
         keys' \in Nat, keys <= keys', keys' <= MaxKeys,
         done' \subseteq [key: 1..keys', payload: Payloads],
         call' \in [Calls -> Client!CallSet \cup {Client!Idle}],
         \A t \in Tabs : ~tab'[t].open => ~tab'[t].user /\ tab'[t].token = "none",
         \A t \in Tabs : tab[t].open /\ ~tab'[t].open => \A c \in Calls : Client!Busy(c)' => call'[c].tab # t,
         \A c \in Calls :
           \/ SameCall(c)
           \/ call'[c].kind # "idle" =>
                /\ call'[c].tab # None => tab'[call'[c].tab].open
                /\ IF call'[c].kind = "command" THEN call'[c].key \in 1..keys' ELSE call'[c].key = Client!Nothing
                /\ call'[c].kind \in {"command", "renew"} => call'[c].payload \in Payloads
  PROVE  ClientFits' /\ CallsFit'
<1>1. ClientFits'
  BY DEF ClientFits, Client!TabSet, Client!Tokens, Client!Keys, Client!Nothing, Client!CallSet, Client!Idle
<1>2. ASSUME NEW c \in Calls, Client!Busy(c)'
      PROVE  /\ call'[c].tab # None => tab'[call'[c].tab].open
             /\ IF call'[c].kind = "command" THEN call'[c].key \in 1..keys' ELSE call'[c].key = Client!Nothing
             /\ call'[c].kind \in {"command", "renew"} => call'[c].payload \in Payloads
  <2>1. call'[c].kind # "idle" /\ call'[c] \in Client!CallSet
    BY <1>2 DEF Client!Busy, Client!Idle
  <2>2. CASE SameCall(c)
    <3>1. /\ Client!Busy(c) /\ call[c].key = call'[c].key /\ call[c].payload = call'[c].payload
          /\ call[c].kind = call'[c].kind /\ call'[c].tab \in {call[c].tab, None}
      BY <2>1, <2>2 DEF SameCall, Client!Busy
    <3>2. /\ call[c].tab # None => tab[call[c].tab].open
          /\ IF Keyed(c) THEN call[c].key \in 1..keys ELSE call[c].key = Client!Nothing
          /\ call[c].kind \in {"command", "renew"} => call[c].payload \in Payloads
      BY <3>1 DEF ClientInv, CallsFit, Client!Ordered
    <3>3. call'[c].tab \in Tabs \cup {None} /\ keys \in Nat
      BY <2>1 DEF Client!CallSet, ClientInv, ClientFits
    <3> QED
      BY <1>2, <3>1, <3>2, <3>3 DEF Keyed
  <2> QED
    BY <2>1, <2>2
<1>3. CallsFit'
  BY <1>2 DEF CallsFit, Keyed, Client!Nothing, Client!Ordered
<1> QED
  BY <1>1, <1>3

(* What keeps the tokens late.                                             *)
LEMMA LateKept ==
  ASSUME ClientInv, signedOut' => signedOut,
         signedOut' => \A t \in Tabs : tab'[t].token # "none" => tab'[t].late \/ tab'[t].notice,
         signedOut' /\ (\A c \in Calls : call'[c].kind # "logout") =>
           jar'.token = Client!Nothing \/ jar'.late,
         signedOut' => \A c \in Calls :
           \/ SameCall(c)
           \/ /\ call'[c].kind = "login" => call'[c].late
              /\ call'[c].kind \in {"restore", "renew"} /\ ~call'[c].late =>
                   /\ call'[c].at = "sent" => call'[c].cookie = Client!Nothing
                   /\ call'[c].at # "ok"
  PROVE  LateFits'
<1> SUFFICES ASSUME signedOut' PROVE LateFits'
  BY DEF LateFits
<1>1. ASSUME NEW c \in Calls
      PROVE  /\ call'[c].kind = "login" => call'[c].late
             /\ call'[c].kind \in {"restore", "renew"} /\ ~call'[c].late =>
                  /\ call'[c].at = "sent" => call'[c].cookie = Client!Nothing
                  /\ call'[c].at # "ok"
  <2>1. /\ call[c].kind = "login" => call[c].late
        /\ call[c].kind \in {"restore", "renew"} /\ ~call[c].late =>
             /\ call[c].at = "sent" => call[c].cookie = Client!Nothing
             /\ call[c].at # "ok"
    BY DEF ClientInv, LateFits
  <2> QED
    BY <2>1 DEF SameCall
<1> QED
  BY <1>1 DEF LateFits, Client!LogoutUnderWay, Client!Nothing

(* A step that leaves keys and commands alone.                             *)
LEMMA CommandsKept ==
  ASSUME ClientInv, UNCHANGED <<done, keys>>,
         \A t \in Tabs :
           tab'[t].key = tab[t].key /\ tab'[t].ahead = tab[t].ahead /\ tab'[t].mixed = tab[t].mixed,
         \A c \in Calls : Client!Ordered(c)' =>
           /\ call'[c].kind = call[c].kind
           /\ call'[c].key = call[c].key /\ call'[c].own = call[c].own /\ call'[c].tab = call[c].tab
           /\ call'[c].kind = "command" /\ call'[c].at = "ok" => call[c].at = "ok"
  PROVE  KeysFit' /\ CommandsFit'
<1>1. ASSUME NEW c \in Calls, Keyed(c), call[c].own, call[c].tab # None, ~tab[call[c].tab].mixed
      PROVE  tab[call[c].tab].key # Client!Nothing /\ call[c].tab \in Tabs
  BY <1>1, CallKnown DEF ClientInv, CommandsFit, CallsFit, Keyed, Client!Busy, Client!CallSet, Client!Nothing
<1>2. \A c \in Calls : Client!Ordered(c)' =>
        /\ Client!Ordered(c)
        /\ call'[c].own => call[c].own
        /\ call'[c].tab \in {call[c].tab, None}
  BY DEF Client!Ordered
<1>3. ASSUME NEW c \in Calls, Keyed(c)'
      PROVE  /\ Keyed(c) /\ call'[c].key = call[c].key
             /\ call'[c].at = "ok" => call[c].at = "ok"
             /\ call[c].tab # None /\ call[c].own /\ ~tab'[call[c].tab].mixed =>
                  IF tab'[call[c].tab].key = Client!Nothing THEN call'[c].tab = None \/ ~call'[c].own
                  ELSE call'[c].tab = call[c].tab /\ call'[c].own
  <2>1. /\ Keyed(c) /\ call'[c].key = call[c].key /\ call'[c].own = call[c].own
        /\ call'[c].tab = call[c].tab /\ (call'[c].at = "ok" => call[c].at = "ok")
    BY <1>3 DEF Keyed, Client!Ordered
  <2>2. call[c].tab \in Tabs \cup {None}
    BY <2>1, CallKnown DEF Keyed, Client!CallSet
  <2> QED
    BY <1>1, <2>1, <2>2
<1> QED
  BY <1>2, <1>3, CommandsLost

(* Pages are opened, and sessions begun.                                   *)
LEMMA OpenClient ==
  ASSUME ClientInv, NEW t \in Tabs, NEW c \in Calls, Client!Open(t, c) \/ Client!Login(t, c)
  PROVE  ClientInv'
<1> USE DEF ClientInv
<1>1. /\ tab \in [Tabs -> Client!TabSet] /\ call \in [Calls -> Client!CallSet \cup {Client!Idle}]
      /\ call[c] = Client!Idle /\ Client!Idle.kind = "idle" /\ keys \in Nat
      /\ UNCHANGED <<jar, live, issued, done, keys>>
  BY DEF ClientFits, Client!Open, Client!Login, Client!Idle, Client!serverVars
<1>2. PICK x \in Client!CallSet :
        /\ call' = [call EXCEPT ![c] = x]
        /\ x.kind \in {"restore", "login"} /\ x.tab = t /\ x.key = Client!Nothing /\ x.at = "sent"
        /\ x.kind = "login" => signedOut' = FALSE
        /\ x.cookie = jar.token
        /\ x.kind = "restore" => (x.late <=> jar.late \/ Client!LogoutUnderWay)
  <2>1. CASE Client!Open(t, c)
    <3> DEFINE r == Client!Request("restore", t)
    <3>1. /\ r \in Client!CallSet /\ r.kind = "restore" /\ r.tab = t /\ r.key = Client!Nothing
          /\ r.at = "sent" /\ r.cookie = jar.token /\ (r.late <=> jar.late \/ Client!LogoutUnderWay)
      BY RequestFits
    <3>2. call' = [call EXCEPT ![c] = r]
      BY <2>1 DEF Client!Open
    <3> HIDE DEF r
    <3> QED
      BY <3>1, <3>2
  <2>2. CASE Client!Login(t, c)
    <3> DEFINE r == Client!Request("login", t)
               x == [r EXCEPT !.late = FALSE]
    <3>1. r \in Client!CallSet /\ r.kind = "login" /\ r.tab = t /\ r.key = Client!Nothing /\ r.at = "sent"
          /\ r.cookie = jar.token
      BY RequestFits
    <3>2. call' = [call EXCEPT ![c] = x] /\ signedOut' = FALSE
      BY <2>2 DEF Client!Login
    <3> HIDE DEF r
    <3>3. x \in Client!CallSet /\ x.kind = "login" /\ x.tab = t /\ x.key = Client!Nothing /\ x.at = "sent"
          /\ x.cookie = jar.token
      BY <3>1 DEF Client!CallSet
    <3> QED
      BY <3>2, <3>3
  <2> QED
    BY <2>1, <2>2
<1>3. PICK s \in Client!TabSet :
        /\ tab' = [tab EXCEPT ![t] = s]
        /\ s.open /\ s.key = tab[t].key /\ s.ahead = tab[t].ahead /\ s.mixed = tab[t].mixed
        /\ s.token = tab[t].token /\ s.late = tab[t].late /\ s.notice = tab[t].notice
  <2>1. CASE Client!Open(t, c)
    <3> DEFINE s == [tab[t] EXCEPT !.open = TRUE]
    <3>1. tab' = [tab EXCEPT ![t] = s] /\ tab[t] \in Client!TabSet
      BY <1>1, <2>1 DEF Client!Open
    <3>2. /\ s \in Client!TabSet /\ s.open /\ s.key = tab[t].key /\ s.ahead = tab[t].ahead
          /\ s.mixed = tab[t].mixed
          /\ s.token = tab[t].token /\ s.late = tab[t].late /\ s.notice = tab[t].notice
      BY <3>1 DEF Client!TabSet
    <3> QED
      BY <3>1, <3>2
  <2>2. CASE Client!Login(t, c)
    BY <1>1, <2>2 DEF Client!Login
  <2> QED
    BY <2>1, <2>2
<1>4. /\ \A d \in Calls : call'[d] = IF d = c THEN x ELSE call[d]
      /\ \A u \in Tabs : tab'[u] = IF u = t THEN s ELSE tab[u]
  BY <1>1, <1>2, <1>3
<1>5. \A d \in Calls \ {c} : SameCall(d)
  BY <1>4 DEF SameCall
<1>6. ClientFits' /\ CallsFit'
  <2>1. /\ tab' \in [Tabs -> Client!TabSet] /\ call' \in [Calls -> Client!CallSet \cup {Client!Idle}]
        /\ \A u \in Tabs : tab[u].open => tab'[u].open
        /\ \A u \in Tabs : ~tab'[u].open => ~tab'[u].user /\ tab'[u].token = "none"
    BY <1>1, <1>2, <1>3, <1>4 DEF ClientFits
  <2>2. tab'[x.tab].open
    BY <1>2, <1>3, <1>4
  <2> QED
    BY <1>1, <1>2, <1>4, <1>5, <2>1, <2>2, FitsKept DEF ClientFits
<1>7. LateFits'
  <2>1. signedOut' => signedOut
    BY DEF Client!Open, Client!Login
  <2>2. (\A d \in Calls : call'[d].kind # "logout") => ~Client!LogoutUnderWay
    BY <1>1, <1>4 DEF Client!LogoutUnderWay
  <2> QED
    BY <1>1, <1>2, <1>3, <1>4, <1>5, <2>1, <2>2, LateKept DEF LateFits
<1>8. KeysFit' /\ CommandsFit'
  BY <1>1, <1>2, <1>3, <1>4, CommandsKept DEF Client!Ordered
<1> QED
  BY <1>6, <1>7, <1>8

(* A tab is closed; hears of a logout; or its token gets old.              *)
LEMMA TabAlone ==
  ASSUME ClientInv, NEW t \in Tabs, Client!Close(t) \/ Client!Hear(t) \/ Client!Age(t)
  PROVE  ClientInv'
<1> USE DEF ClientInv
<1>1. /\ tab \in [Tabs -> Client!TabSet] /\ call \in [Calls -> Client!CallSet \cup {Client!Idle}]
      /\ UNCHANGED <<jar, live, issued, done, keys, signedOut>>
  BY DEF ClientFits, Client!Close, Client!Hear, Client!Age, Client!serverVars
<1>2. PICK s \in Client!TabSet :
        /\ tab' = [tab EXCEPT ![t] = s]
        /\ IF Client!Close(t) THEN ~s.open /\ s.key = Client!Nothing /\ s.ahead = 0
           ELSE /\ s.open = tab[t].open /\ s.key = tab[t].key /\ s.ahead = tab[t].ahead
                /\ s.mixed = tab[t].mixed
        /\ ~s.open => ~s.user /\ s.token = "none"
        /\ s.token # "none" => tab[t].token # "none" /\ s.late = tab[t].late /\ s.notice = tab[t].notice
  <2>0. tab[t] \in Client!TabSet /\ (~tab[t].open => ~tab[t].user /\ tab[t].token = "none")
    BY DEF ClientFits
  <2>1. CASE Client!Close(t)
    <3>1. tab' = [tab EXCEPT ![t] = Client!Gone]
      BY <2>1 DEF Client!Close
    <3>2. /\ Client!Gone \in Client!TabSet /\ ~Client!Gone.open /\ Client!Gone.key = Client!Nothing /\ Client!Gone.ahead = 0
          /\ ~Client!Gone.user /\ Client!Gone.token = "none"
      BY DEF Client!Gone, Client!TabSet
    <3> QED
      BY <2>1, <3>1, <3>2
  <2>2. CASE ~Client!Close(t) /\ Client!Hear(t)
    <3> DEFINE s == Client!Heard(tab[t])
    <3>1. tab' = [tab EXCEPT ![t] = s]
      BY <2>2 DEF Client!Hear
    <3>2. /\ s \in Client!TabSet /\ s.open = tab[t].open /\ s.key = tab[t].key
          /\ s.ahead = tab[t].ahead /\ s.mixed = tab[t].mixed /\ ~s.user /\ s.token = "none"
      BY <2>0 DEF Client!Heard, Client!Forgotten, Client!TabSet
    <3> HIDE DEF s
    <3> QED
      BY <2>2, <3>1, <3>2
  <2>3. CASE ~Client!Close(t) /\ Client!Age(t)
    <3> DEFINE s == [tab[t] EXCEPT !.token = "stale"]
    <3>1. tab' = [tab EXCEPT ![t] = s] /\ tab[t].token = "fresh"
      BY <2>3 DEF Client!Age
    <3>2. /\ s \in Client!TabSet /\ s.open = tab[t].open /\ s.key = tab[t].key
          /\ s.ahead = tab[t].ahead /\ s.late = tab[t].late /\ s.notice = tab[t].notice
          /\ s.mixed = tab[t].mixed /\ s.user = tab[t].user /\ s.token = "stale"
      BY <2>0 DEF Client!TabSet
    <3> HIDE DEF s
    <3> QED
      BY <2>0, <2>3, <3>1, <3>2
  <2> QED
    BY <2>1, <2>2, <2>3
<1>3. \A u \in Tabs : tab'[u] = IF u = t THEN s ELSE tab[u]
  BY <1>1, <1>2
<1>4. call' \in [Calls -> Client!CallSet \cup {Client!Idle}] /\
      \A d \in Calls :
        /\ SameCall(d)
        /\ call[d].kind # "idle" =>
             /\ call'[d].own = call[d].own
             /\ IF Client!Close(t) /\ call[d].tab = t THEN call'[d].tab = None
                ELSE call'[d].tab = call[d].tab
  <2>1. CASE Client!Close(t)
    <3>1. ASSUME NEW d \in Calls
          PROVE  /\ call'[d] \in Client!CallSet \cup {Client!Idle} /\ SameCall(d)
                 /\ call[d].kind # "idle" =>
                      /\ call'[d].own = call[d].own
                      /\ IF call[d].tab = t THEN call'[d].tab = None
                         ELSE call'[d].tab = call[d].tab
      <4>1. call'[d] = IF Client!Busy(d) /\ call[d].tab = t THEN [call[d] EXCEPT !.tab = None]
                       ELSE call[d]
        BY <2>1 DEF Client!Close
      <4>2. CASE Client!Busy(d) /\ call[d].tab = t
        <5> DEFINE x == [call[d] EXCEPT !.tab = None]
        <5>1. /\ x \in Client!CallSet /\ x.kind = call[d].kind /\ x.at = call[d].at
              /\ x.cookie = call[d].cookie /\ x.key = call[d].key /\ x.tab = None
              /\ x.payload = call[d].payload /\ x.late = call[d].late /\ x.own = call[d].own
          BY <4>2, CallKnown DEF Client!CallSet
        <5>2. call'[d] = x
          BY <4>1, <4>2
        <5> HIDE DEF x
        <5> QED
          BY <4>2, <5>1, <5>2 DEF SameCall
      <4>3. CASE ~(Client!Busy(d) /\ call[d].tab = t)
        BY <1>1, <4>1, <4>3 DEF SameCall, Client!Busy
      <4> QED
        BY <4>2, <4>3
    <3>2. call' = [d \in Calls |-> call'[d]]
      BY <2>1 DEF Client!Close
    <3> QED
      BY <2>1, <3>1, <3>2
  <2>2. CASE ~Client!Close(t)
    BY <1>1, <2>2 DEF Client!Hear, Client!Age, SameCall
  <2> QED
    BY <2>1, <2>2
<1>5. ClientFits' /\ CallsFit'
  <2>1. /\ tab' \in [Tabs -> Client!TabSet]
        /\ \A u \in Tabs : ~tab'[u].open => ~tab'[u].user /\ tab'[u].token = "none"
    BY <1>1, <1>2, <1>3 DEF ClientFits
  <2>2. ASSUME NEW u \in Tabs, tab[u].open, ~tab'[u].open, NEW d \in Calls, Client!Busy(d)'
        PROVE  call'[d].tab # u
    <3>1. u = t /\ Client!Close(t)
      BY <1>2, <1>3, <2>2
    <3>2. call[d].kind # "idle"
      BY <1>4, <2>2 DEF SameCall, Client!Busy
    <3> QED
      BY <1>4, <3>1, <3>2, MatterParameters
  <2> QED
    BY <1>1, <1>4, <2>1, <2>2, FitsKept DEF ClientFits
<1>6. LateFits'
  <2>1. signedOut' =>
          \A u \in Tabs : tab'[u].token # "none" => tab'[u].late \/ tab'[u].notice
    BY <1>1, <1>2, <1>3 DEF LateFits
  <2>2. signedOut' /\ (\A d \in Calls : call'[d].kind # "logout") =>
          jar'.token = Client!Nothing \/ jar'.late
    BY <1>1, <1>4 DEF LateFits, Client!LogoutUnderWay, SameCall
  <2> QED
    BY <1>1, <1>4, <2>1, <2>2, LateKept
<1>7. KeysFit' /\ CommandsFit'
  <2>1. \A d \in Calls : Client!Ordered(d)' =>
          /\ Client!Ordered(d) /\ call[d].kind # "idle"
          /\ call'[d].own => call[d].own
          /\ call'[d].tab \in {call[d].tab, None}
    BY <1>4 DEF Client!Ordered, SameCall
  <2>2. ASSUME NEW d \in Calls, Keyed(d), call[d].own, call[d].tab # None, ~tab[call[d].tab].mixed
        PROVE  tab[call[d].tab].key # Client!Nothing
    BY <2>2, CallKnown DEF CommandsFit, CallsFit, Keyed, Client!Busy, Client!CallSet, Client!Nothing
  <2>3. \A u \in Tabs :
          \/ tab'[u].key = tab[u].key /\ tab'[u].ahead = tab[u].ahead /\ tab'[u].mixed = tab[u].mixed
          \/ tab'[u].key = Client!Nothing /\ tab'[u].ahead = 0
    BY <1>2, <1>3
  <2>4. ASSUME NEW d \in Calls, Keyed(d)'
        PROVE  /\ Keyed(d) /\ call'[d].key = call[d].key
               /\ call'[d].at = "ok" => call[d].at = "ok"
               /\ call[d].tab # None /\ call[d].own /\ ~tab'[call[d].tab].mixed =>
                    IF tab'[call[d].tab].key = Client!Nothing THEN call'[d].tab = None \/ ~call'[d].own
                    ELSE call'[d].tab = call[d].tab /\ call'[d].own
    <3>1. Keyed(d) /\ SameCall(d) /\ call[d].kind # "idle" /\ call[d].tab \in Tabs \cup {None}
      BY <1>4, <2>4, CallKnown DEF Keyed, SameCall, Client!CallSet
    <3>2. /\ call'[d].own = call[d].own
          /\ IF Client!Close(t) /\ call[d].tab = t THEN call'[d].tab = None ELSE call'[d].tab = call[d].tab
      BY <1>4, <3>1
    <3>3. call[d].tab \in Tabs =>
            \/ Client!Close(t) /\ call[d].tab = t /\ tab'[call[d].tab].key = Client!Nothing
            \/ /\ ~(Client!Close(t) /\ call[d].tab = t)
               /\ tab'[call[d].tab].key = tab[call[d].tab].key /\ tab'[call[d].tab].mixed = tab[call[d].tab].mixed
      BY <1>2, <1>3
    <3> QED
      BY <2>2, <3>1, <3>2, <3>3 DEF SameCall
  <2> QED
    BY <1>1, <2>1, <2>3, <2>4, CommandsLost
<1> QED
  BY <1>5, <1>6, <1>7

(* A logout.                                                               *)
LEMMA LogoutClient ==
  ASSUME ClientInv, NEW t \in Tabs, NEW c \in Calls, Client!Logout(t, c)
  PROVE  ClientInv'
<1> USE DEF ClientInv
<1>1. /\ tab \in [Tabs -> Client!TabSet] /\ call \in [Calls -> Client!CallSet \cup {Client!Idle}]
      /\ UNCHANGED <<jar, live, issued, done, keys>>
      /\ call[c].kind = "idle" /\ tab[t].user /\ tab[t].open
  <2>1. /\ tab \in [Tabs -> Client!TabSet] /\ call \in [Calls -> Client!CallSet \cup {Client!Idle}]
        /\ ~tab[t].open => ~tab[t].user
    BY DEF ClientFits
  <2>2. call[c] = Client!Idle /\ tab[t].user /\ UNCHANGED <<jar, live, issued, done, keys>>
    BY DEF Client!Logout, Client!serverVars
  <2>3. Client!Idle.kind = "idle"
    BY DEF Client!Idle
  <2> QED
    BY <2>1, <2>2, <2>3
<1>2. ASSUME NEW u \in Tabs
      PROVE  /\ tab'[u] \in Client!TabSet /\ tab'[u].open = tab[u].open
             /\ u = t => tab'[u].token = "none" /\ tab'[u].key = Client!Nothing /\ tab'[u].ahead = 0
             /\ u # t => /\ tab'[u].user = tab[u].user /\ tab'[u].token = tab[u].token
                         /\ tab'[u].key = tab[u].key /\ tab'[u].ahead = tab[u].ahead
                         /\ tab'[u].mixed = tab[u].mixed /\ tab'[u].notice = tab[u].open
  <2>1. tab[u] \in Client!TabSet
    BY <1>1
  <2>2. CASE u = t
    <3> DEFINE s == Client!Forgotten(tab[t])
               r == [s EXCEPT !.key = Client!Nothing, !.ahead = 0, !.mixed = FALSE]
    <3>1. tab'[u] = r
      BY <2>2 DEF Client!Logout
    <3>2. s \in Client!TabSet /\ s.open = tab[u].open /\ s.token = "none"
      BY <2>1, <2>2 DEF Client!Forgotten, Client!TabSet
    <3> HIDE DEF s
    <3>3. r \in Client!TabSet /\ r.open = tab[u].open /\ r.token = "none" /\ r.key = Client!Nothing /\ r.ahead = 0
      BY <3>2 DEF Client!TabSet, Client!Nothing
    <3> QED
      BY <2>2, <3>1, <3>3
  <2>3. CASE u # t
    <3>1. tab'[u] = [tab[u] EXCEPT !.notice = tab[u].open]
      BY <2>3 DEF Client!Logout
    <3> QED
      BY <2>1, <2>3, <3>1 DEF Client!TabSet
  <2> QED
    BY <2>2, <2>3
<1>3. ASSUME NEW d \in Calls \ {c}
      PROVE  /\ call'[d] \in Client!CallSet \cup {Client!Idle} /\ call'[d].kind = call[d].kind
             /\ call[d].kind # "idle" =>
                  /\ call'[d].at = call[d].at /\ call'[d].cookie = call[d].cookie
                  /\ call'[d].key = call[d].key /\ call'[d].payload = call[d].payload
                  /\ call'[d].tab = call[d].tab /\ call'[d].late
                  /\ call'[d].own <=> call[d].own /\ call[d].tab # t
  <2>1. CASE Client!Busy(d)
    <3>1. PICK own \in BOOLEAN : own <=> call[d].own /\ call[d].tab # t
      OBVIOUS
    <3> DEFINE x == [call[d] EXCEPT !.late = TRUE, !.own = own]
    <3>2. call'[d] = x
      BY <2>1, <3>1 DEF Client!Logout
    <3>3. /\ x \in Client!CallSet /\ x.kind = call[d].kind /\ x.at = call[d].at
          /\ x.cookie = call[d].cookie /\ x.key = call[d].key /\ x.tab = call[d].tab
          /\ x.payload = call[d].payload /\ x.late /\ x.own = own
      BY <2>1, CallKnown DEF Client!CallSet
    <3> HIDE DEF x
    <3> QED
      BY <3>1, <3>2, <3>3
  <2>2. CASE ~Client!Busy(d)
    BY <2>2, CallKnown DEF Client!Logout
  <2> QED
    BY <2>1, <2>2
<1>4. /\ call'[c] \in Client!CallSet /\ call'[c].kind = "logout" /\ call'[c].key = Client!Nothing
      /\ call'[c].tab = t
  BY RequestFits DEF Client!Logout
<1>5. ClientFits' /\ CallsFit'
  <2>1. tab' \in [Tabs -> Client!TabSet] /\ call' \in [Calls -> Client!CallSet \cup {Client!Idle}]
    BY <1>2, <1>3, <1>4 DEF Client!Logout
  <2>2. ASSUME NEW u \in Tabs, ~tab'[u].open PROVE ~tab'[u].user /\ tab'[u].token = "none"
    BY <1>1, <1>2, <2>2 DEF ClientFits
  <2>3. ClientFits'
    BY <1>1, <2>1, <2>2 DEF ClientFits, Client!TabSet, Client!Tokens, Client!Keys, Client!Nothing, Client!CallSet, Client!Idle
  <2>4. ASSUME NEW d \in Calls, Client!Busy(d)'
        PROVE  /\ call'[d].tab # None => tab'[call'[d].tab].open
               /\ IF Keyed(d)' THEN call'[d].key \in 1..keys ELSE call'[d].key = Client!Nothing
               /\ Client!Ordered(d)' => call'[d].payload \in Payloads
    <3>1. CASE d = c
      BY <1>1, <1>2, <1>4, <3>1 DEF Keyed, Client!Ordered
    <3>2. CASE d # c
      <4>1. /\ Client!Busy(d) /\ call[d].key = call'[d].key /\ call[d].payload = call'[d].payload
            /\ call[d].kind = call'[d].kind /\ call'[d].tab = call[d].tab
        BY <1>3, <2>4, <3>2 DEF Client!Busy
      <4>2. /\ call[d].tab # None => tab[call[d].tab].open
            /\ IF Keyed(d) THEN call[d].key \in 1..keys ELSE call[d].key = Client!Nothing
            /\ Client!Ordered(d) => call[d].payload \in Payloads
        BY <4>1 DEF CallsFit
      <4>3. call[d].tab \in Tabs \cup {None}
        BY <4>1, CallKnown DEF Client!CallSet
      <4> QED
        BY <1>2, <4>1, <4>2, <4>3 DEF Keyed, Client!Ordered
    <3> QED
      BY <3>1, <3>2
  <2>5. CallsFit'
    BY <1>1, <2>4 DEF CallsFit, Client!Nothing
  <2> QED
    BY <2>3, <2>5
<1>6. LateFits'
  <2>1. \A u \in Tabs : tab'[u].token # "none" => tab'[u].notice
    BY <1>1, <1>2 DEF ClientFits
  <2>2. Client!LogoutUnderWay'
    BY <1>4 DEF Client!LogoutUnderWay
  <2>3. \A d \in Calls : call'[d].kind \in {"login", "restore", "renew"} => call'[d].late
    BY <1>3, <1>4
  <2> QED
    BY <2>1, <2>2, <2>3 DEF LateFits
<1>7. KeysFit' /\ CommandsFit'
  <2>1. ASSUME NEW d \in Calls, Client!Ordered(d)'
        PROVE  /\ d # c /\ Client!Ordered(d) /\ call[d].kind # "idle" /\ call'[d].kind = call[d].kind
               /\ call'[d].own => call[d].own
               /\ call'[d].tab \in {call[d].tab, None}
    BY <1>3, <1>4, <2>1 DEF Client!Ordered
  <2>2. ASSUME NEW d \in Calls, Keyed(d), call[d].own, call[d].tab # None, ~tab[call[d].tab].mixed
        PROVE  tab[call[d].tab].key # Client!Nothing
    BY <2>2, CallKnown DEF CommandsFit, CallsFit, Keyed, Client!Busy, Client!CallSet, Client!Nothing
  <2>3. \A u \in Tabs :
          \/ tab'[u].key = tab[u].key /\ tab'[u].ahead = tab[u].ahead /\ tab'[u].mixed = tab[u].mixed
          \/ tab'[u].key = Client!Nothing /\ tab'[u].ahead = 0
    BY <1>2
  <2>4. ASSUME NEW d \in Calls, Keyed(d)'
        PROVE  /\ Keyed(d) /\ call'[d].key = call[d].key
               /\ call'[d].at = "ok" => call[d].at = "ok"
               /\ call[d].tab # None /\ call[d].own /\ ~tab'[call[d].tab].mixed =>
                    IF tab'[call[d].tab].key = Client!Nothing THEN call'[d].tab = None \/ ~call'[d].own
                    ELSE call'[d].tab = call[d].tab /\ call'[d].own
    <3>1. d # c /\ Keyed(d) /\ call[d].kind # "idle" /\ call[d].tab \in Tabs \cup {None}
      BY <2>1, <2>4, CallKnown DEF Keyed, Client!Ordered, Client!CallSet
    <3> QED
      BY <1>2, <1>3, <2>2, <3>1
  <2> QED
    BY <1>1, <2>1, <2>3, <2>4, CommandsLost
<1> QED
  BY <1>5, <1>6, <1>7

(* A command is given: with the key that is kept, or a new one.            *)
LEMMA CommandClient ==
  ASSUME ClientInv, NEW t \in Tabs, NEW c \in Calls, NEW p \in Payloads, Client!Command(t, c, p)
  PROVE  ClientInv'
<1> USE DEF ClientInv
<1> DEFINE k == Client!KeyFor(t)
<1>1. /\ tab \in [Tabs -> Client!TabSet] /\ call \in [Calls -> Client!CallSet \cup {Client!Idle}]
      /\ UNCHANGED <<jar, live, issued, done, signedOut>>
      /\ Client!KeyTaken(t)
      /\ \A d \in Calls : ~(Client!Ordered(d) /\ call[d].tab = t /\ call[d].own)
  BY DEF ClientFits, Client!Command, Client!serverVars
<1>2. call[c].kind = "idle" /\ tab[t].open
  <2>1. call[c] = Client!Idle /\ tab[t].user
    BY DEF Client!Command
  <2> QED
    BY <2>1 DEF ClientFits, Client!Idle
<1>3. k \in Client!Keys /\ k \in 1..keys' /\ keys' \in Nat /\ keys <= keys' /\ keys' <= MaxKeys
  BY <1>1, KeyNew
<1>5. PICK x \in Client!CallSet :
        /\ call' = [call EXCEPT ![c] = x]
        /\ x.kind = "command" /\ x.tab = t /\ x.at = "sent" /\ x.own
        /\ x.key = k /\ x.payload = p
  <2> DEFINE r == Client!Request("command", t)
             x == [r EXCEPT !.key = k, !.payload = p]
  <2>1. r \in Client!CallSet /\ r.kind = "command" /\ r.tab = t /\ r.at = "sent" /\ r.own
    BY RequestFits
  <2>2. call' = [call EXCEPT ![c] = x]
    BY DEF Client!Command
  <2> HIDE DEF r, k
  <2>3. /\ x \in Client!CallSet /\ x.kind = "command" /\ x.tab = t /\ x.at = "sent" /\ x.own
        /\ x.key = k /\ x.payload = p
    BY <1>3, <2>1 DEF Client!CallSet
  <2> QED
    BY <2>2, <2>3
<1>6. PICK s \in Client!TabSet :
        /\ tab' = [tab EXCEPT ![t] = s]
        /\ s.open = tab[t].open /\ s.user = tab[t].user /\ s.key = k /\ s.ahead = tab[t].ahead
        /\ s.token = tab[t].token /\ s.late = tab[t].late /\ s.notice = tab[t].notice
        /\ s.mixed = tab[t].mixed
  <2> DEFINE s == [tab[t] EXCEPT !.key = k]
  <2>1. tab' = [tab EXCEPT ![t] = s] /\ tab[t] \in Client!TabSet
    BY <1>1 DEF Client!Command
  <2> HIDE DEF k
  <2>2. /\ s \in Client!TabSet
        /\ s.open = tab[t].open /\ s.user = tab[t].user /\ s.key = k /\ s.ahead = tab[t].ahead
        /\ s.token = tab[t].token /\ s.late = tab[t].late /\ s.notice = tab[t].notice
        /\ s.mixed = tab[t].mixed
    BY <1>3, <2>1 DEF Client!TabSet
  <2> QED
    BY <2>1, <2>2
<1>7. /\ \A d \in Calls : call'[d] = IF d = c THEN x ELSE call[d]
      /\ \A u \in Tabs : tab'[u] = IF u = t THEN s ELSE tab[u]
  BY <1>1, <1>5, <1>6
<1>8. \A d \in Calls \ {c} : SameCall(d)
  BY <1>7 DEF SameCall
<1>11. KeysFit' /\ CommandsFit'
  <2>1. Keyed(c)' /\ call'[c].tab = t /\ call'[c].at = "sent" /\ call'[c].key = k
    BY <1>5, <1>7 DEF Keyed
  <2>2. /\ tab'[t].key = k /\ tab'[t].ahead = tab[t].ahead /\ tab'[t].mixed = tab[t].mixed
        /\ \A u \in Tabs \ {t} : tab'[u] = tab[u]
        /\ \A d \in Calls \ {c} : call'[d] = call[d]
    BY <1>6, <1>7
  <2>3. call'[c].own
    BY <1>5, <1>7
  <2> QED
    BY <1>1, <2>1, <2>2, <2>3, CommandsSent
<1> HIDE DEF k
<1>9. ClientFits' /\ CallsFit'
  <2>1. /\ tab' \in [Tabs -> Client!TabSet] /\ call' \in [Calls -> Client!CallSet \cup {Client!Idle}]
        /\ \A u \in Tabs : tab[u].open <=> tab'[u].open
        /\ \A u \in Tabs : ~tab'[u].open => ~tab'[u].user /\ tab'[u].token = "none"
    BY <1>1, <1>5, <1>6, <1>7 DEF ClientFits
  <2>2. x.key \in 1..keys'
    BY <1>3, <1>5
  <2>3. done' \subseteq [key: 1..keys', payload: Payloads]
    BY <1>1, <1>3 DEF ClientFits
  <2>4. tab'[t].open
    BY <1>2, <2>1
  <2> QED
    BY <1>1, <1>3, <1>5, <1>7, <1>8, <2>1, <2>2, <2>3, <2>4, FitsKept DEF ClientFits
<1>10. LateFits'
  <2>1. (\A d \in Calls : call'[d].kind # "logout") => ~Client!LogoutUnderWay
    BY <1>2, <1>7 DEF Client!LogoutUnderWay
  <2> QED
    BY <1>1, <1>5, <1>6, <1>7, <1>8, <2>1, LateKept DEF LateFits
<1> QED
  BY <1>9, <1>10, <1>11

(* The server answers what is not a command.                               *)
LEMMA ServerClient ==
  ASSUME ClientInv, NEW c \in Calls,
         Client!Refresh(c) \/ Client!LoginAtServer(c) \/ Client!LogoutAtServer(c) \/ Client!Me(c)
  PROVE  ClientInv'
<1> USE DEF ClientInv
<1>1. /\ tab \in [Tabs -> Client!TabSet] /\ call \in [Calls -> Client!CallSet \cup {Client!Idle}]
      /\ UNCHANGED <<tab, jar, done, keys, signedOut>>
      /\ issued \in Nat /\ live \subseteq 1..issued
  BY DEF ClientFits, Client!Refresh, Client!LoginAtServer, Client!LogoutAtServer, Client!Me, Client!serverVars
<1>2. /\ Client!Busy(c) /\ call[c] \in Client!CallSet /\ call[c].at = "sent" /\ call[c].kind # "command"
      /\ Client!Sent(c, {"restore", "renew"}) <=> call[c].kind \in {"restore", "renew"}
  BY CallKnown DEF Client!Refresh, Client!LoginAtServer, Client!LogoutAtServer, Client!Me, Client!Sent
<1>3. ASSUME NEW at \in {"ok", "refused"}, NEW cookie \in Client!Tokens \cup {Client!Nothing},
             call' = [call EXCEPT ![c].at = at, ![c].cookie = cookie],
             issued' \in Nat, live' \subseteq 1..issued',
             call[c].kind \in {"restore", "renew"} /\ call[c].cookie = Client!Nothing => at # "ok"
      PROVE  ClientInv'
  <2>1. PICK x \in Client!CallSet :
          /\ call' = [call EXCEPT ![c] = x]
          /\ x.kind = call[c].kind /\ x.tab = call[c].tab /\ x.key = call[c].key
          /\ x.payload = call[c].payload /\ x.late = call[c].late /\ x.own = call[c].own
          /\ x.at = at /\ x.cookie = cookie
    <3>1. /\ at \in {"sent", "ok", "refused", "conflict"} /\ cookie \in Client!Tokens \cup {Client!Nothing}
          /\ Answered(c, at, cookie) /\ ClientFits /\ Client!Busy(c)
      BY <1>2, <1>3 DEF Answered
    <3> QED
      BY ONLY <3>1, c \in Calls, CallChanges
  <2>2. \A d \in Calls : call'[d] = IF d = c THEN x ELSE call[d]
    BY <1>1, <2>1
  <2>3. \A d \in Calls \ {c} : SameCall(d)
    BY <2>2 DEF SameCall
  <2>4. ClientFits' /\ CallsFit'
    <3>1. /\ x.tab # None => tab[x.tab].open
          /\ IF x.kind = "command" THEN x.key \in 1..keys ELSE x.key = Client!Nothing
          /\ x.kind \in {"command", "renew"} => x.payload \in Payloads
      BY <1>2, <2>1 DEF CallsFit, Keyed, Client!Ordered
    <3> QED
      BY <1>1, <1>3, <2>1, <2>2, <2>3, <3>1, FitsKept DEF ClientFits
  <2>5. LateFits'
    <3>1. (\A d \in Calls : call'[d].kind # "logout") => ~Client!LogoutUnderWay
      BY <2>1, <2>2 DEF Client!LogoutUnderWay
    <3>2. signedOut =>
            /\ x.kind = "login" => x.late
            /\ x.kind \in {"restore", "renew"} /\ ~x.late => x.at # "sent" /\ x.at # "ok"
      BY <1>2, <1>3, <2>1 DEF LateFits
    <3> QED
      BY <1>1, <2>2, <2>3, <3>1, <3>2, LateKept DEF LateFits
  <2>6. KeysFit' /\ CommandsFit'
    BY <1>1, <1>2, <2>1, <2>2, CommandsKept DEF Client!Ordered
  <2> QED
    BY <2>4, <2>5, <2>6
<1>4. ASSUME NEW others \in SUBSET (1..issued), Client!Granted(c, others),
             call[c].kind \in {"restore", "renew"} => call[c].cookie # Client!Nothing
      PROVE  ClientInv'
  <2>1. /\ issued + 1 \in Client!Tokens /\ issued' = issued + 1 /\ live' \subseteq 1..issued'
        /\ call' = [call EXCEPT ![c].at = "ok", ![c].cookie = issued + 1]
    BY <1>1, <1>4, MatterParameters DEF Client!Granted, Client!Tokens
  <2> DEFINE cookie == issued + 1
  <2>2. /\ cookie \in Client!Tokens \cup {Client!Nothing} /\ issued' \in Nat /\ live' \subseteq 1..issued'
        /\ call' = [call EXCEPT ![c].at = "ok", ![c].cookie = cookie]
    BY <1>1, <2>1
  <2>3. ~(call[c].kind \in {"restore", "renew"} /\ call[c].cookie = Client!Nothing)
    BY <1>4
  <2> HIDE DEF cookie
  <2> QED
    BY <1>3, <2>2, <2>3
<1>5. ASSUME NEW at \in {"ok", "refused"}, Client!Answer(c, at), live' \subseteq live, issued' = issued,
             call[c].kind \in {"restore", "renew"} => at # "ok"
      PROVE  ClientInv'
  <2>1. /\ issued' \in Nat /\ live' \subseteq 1..issued'
        /\ call' = [call EXCEPT ![c].at = at, ![c].cookie = Client!Nothing]
    BY <1>1, <1>5 DEF Client!Answer
  <2> QED
    BY <1>3, <1>5, <2>1
<1>6. CASE Client!Refresh(c)
  <2>1. CASE call[c].cookie \in live
    BY <1>1, <1>4, <1>6, <2>1 DEF Client!Refresh, Client!Nothing
  <2>2. CASE call[c].cookie \notin live
    BY <1>1, <1>5, <1>6, <2>2 DEF Client!Refresh
  <2> QED
    BY <2>1, <2>2
<1>7. CASE Client!LoginAtServer(c)
  BY <1>1, <1>4, <1>7 DEF Client!LoginAtServer, Client!Sent
<1>8. CASE Client!LogoutAtServer(c)
  BY <1>1, <1>5, <1>8 DEF Client!LogoutAtServer, Client!Sent
<1>9. CASE Client!Me(c)
  BY <1>1, <1>5, <1>9 DEF Client!Me, Client!Sent, Client!serverVars
<1> QED
  BY <1>6, <1>7, <1>8, <1>9

(* The server executes a command, or says what became of it.               *)
LEMMA ExecuteClient ==
  ASSUME ClientInv, NEW c \in Calls, Client!Execute(c)
  PROVE  ClientInv'
<1> USE DEF ClientInv
<1> DEFINE t == call[c].tab
           new == [key |-> call[c].key, payload |-> call[c].payload]
<1>1. /\ tab \in [Tabs -> Client!TabSet] /\ call \in [Calls -> Client!CallSet \cup {Client!Idle}]
      /\ UNCHANGED <<jar, live, issued, keys, signedOut>>
      /\ done \subseteq [key: 1..keys, payload: Payloads]
  BY DEF ClientFits, Client!Execute
<1>2. /\ Client!Busy(c) /\ call[c] \in Client!CallSet /\ call[c].at = "sent" /\ call[c].kind = "command"
      /\ Keyed(c) /\ call[c].key \in 1..keys /\ call[c].payload \in Payloads
      /\ t \in Tabs \cup {None} /\ (t # None => t \in Tabs /\ tab[t].open)
  BY CallKnown DEF Client!Execute, Client!Sent, Keyed, CallsFit, Client!CallSet, Client!Ordered
<1>3. call[c].own /\ t # None /\ ~tab[t].mixed => tab[t].key = call[c].key /\ tab[t].key # Client!Nothing
  BY <1>2 DEF CommandsFit, Client!Nothing
<1>4. PICK at \in {"ok", "refused", "conflict"} :
        /\ Client!Answer(c, at)
        /\ \/ /\ UNCHANGED <<done, tab>>
              /\ at = "ok" => Executed(call[c].key)
           \/ /\ at = "ok" /\ ~Executed(call[c].key) /\ done' = done \cup {new} /\ done' # done
              /\ tab' = IF t # None /\ call[c].own /\ ~tab[t].mixed
                        THEN [tab EXCEPT ![t].ahead = @ + 1] ELSE tab
  <2>1. CASE call[c].bearer # "fresh"
    BY <2>1 DEF Client!Execute
  <2>2. CASE call[c].bearer = "fresh" /\ Executed(call[c].key)
    <3>1. {e \in done : e.key = call[c].key} # {}
      BY <2>2 DEF Executed
    <3>2. UNCHANGED <<done, tab>> /\ (Client!Answer(c, "ok") \/ Client!Answer(c, "conflict"))
      BY <2>2, <3>1 DEF Client!Execute
    <3> QED
      BY <2>2, <3>2
  <2>3. CASE call[c].bearer = "fresh" /\ ~Executed(call[c].key)
    <3>1. {e \in done : e.key = call[c].key} = {}
      BY <2>3 DEF Executed
    <3>2. /\ Client!Answer(c, "ok") /\ done' = done \cup {new}
          /\ tab' = IF t # None /\ call[c].own /\ ~tab[t].mixed
                    THEN [tab EXCEPT ![t].ahead = @ + 1] ELSE tab
      BY <2>3, <3>1 DEF Client!Execute
    <3>3. new.key = call[c].key
      OBVIOUS
    <3> HIDE DEF new
    <3>4. new \notin done
      BY <2>3, <3>3 DEF Executed
    <3> QED
      BY <2>3, <3>2, <3>4
  <2> QED
    BY <2>1, <2>2, <2>3
<1>5. PICK x \in Client!CallSet :
        /\ call' = [call EXCEPT ![c] = x]
        /\ x.kind = "command" /\ x.tab = t /\ x.key = call[c].key
        /\ x.payload = call[c].payload /\ x.late = call[c].late /\ x.own = call[c].own
        /\ x.at = at
  <2>1. Client!Nothing \in Client!Tokens \cup {Client!Nothing} /\ ClientFits
    OBVIOUS
  <2>2. Answered(c, at, Client!Nothing)
    BY <1>4 DEF Client!Answer, Answered
  <2> QED
    BY <1>2, <2>1, <2>2, CallChanges
<1>6. \A d \in Calls : call'[d] = IF d = c THEN x ELSE call[d]
  BY <1>1, <1>5
<1>7. \A d \in Calls \ {c} : SameCall(d)
  BY <1>6 DEF SameCall
<1>8. /\ tab' \in [Tabs -> Client!TabSet]
      /\ \A u \in Tabs :
           /\ tab'[u].open = tab[u].open /\ tab'[u].user = tab[u].user
           /\ tab'[u].token = tab[u].token /\ tab'[u].late = tab[u].late
           /\ tab'[u].notice = tab[u].notice /\ tab'[u].key = tab[u].key
           /\ tab'[u].mixed = tab[u].mixed
           /\ \/ /\ tab'[u].ahead = tab[u].ahead
                 /\ done' = done \/ t # u \/ ~call[c].own \/ tab[u].mixed
              \/ /\ tab'[u].ahead = tab[u].ahead + 1 /\ done' # done
                 /\ ~Executed(call[c].key) /\ t = u /\ call[c].own /\ ~tab[u].mixed
  <2>1. CASE tab' = tab /\ (done' = done \/ t = None \/ ~call[c].own \/ tab[t].mixed)
    BY <1>1, <2>1, MatterParameters
  <2>2. CASE /\ tab' = [tab EXCEPT ![t].ahead = @ + 1] /\ t # None /\ call[c].own /\ ~tab[t].mixed
             /\ ~Executed(call[c].key) /\ done' # done
    <3> DEFINE n == tab[t].ahead + 1
               s == [tab[t] EXCEPT !.ahead = n]
    <3>1. tab' = [tab EXCEPT ![t] = s] /\ tab[t] \in Client!TabSet /\ t \in Tabs
      BY <1>1, <1>2, <2>2
    <3>2. n \in Nat
      BY <3>1 DEF Client!TabSet
    <3> HIDE DEF n
    <3>3. /\ s \in Client!TabSet /\ s.open = tab[t].open /\ s.user = tab[t].user
          /\ s.token = tab[t].token /\ s.late = tab[t].late
          /\ s.notice = tab[t].notice /\ s.key = tab[t].key /\ s.ahead = n /\ s.mixed = tab[t].mixed
      BY <3>1, <3>2 DEF Client!TabSet
    <3> HIDE DEF s
    <3>4. \A u \in Tabs : tab'[u] = IF u = t THEN s ELSE tab[u]
      BY <1>1, <3>1
    <3>5. tab' \in [Tabs -> Client!TabSet]
      BY <1>1, <3>1, <3>3
    <3> QED
      BY <2>2, <3>3, <3>4, <3>5 DEF n
  <2> QED
    BY <1>4, <2>1, <2>2
<1>9. done' = done \/ (done' = done \cup {new} /\ new \in [key: 1..keys, payload: Payloads])
  BY <1>2, <1>4
<1>10. \A j : Executed(j)' <=> Executed(j) \/ (done' # done /\ j = call[c].key)
  <2>1. CASE done' = done
    BY <2>1 DEF Executed
  <2>2. CASE done' = done \cup {new} /\ done' # done
    <3>1. new.key = call[c].key
      OBVIOUS
    <3> HIDE DEF new
    <3> QED
      BY <2>2, <3>1 DEF Executed
  <2> QED
    BY <1>4, <2>1, <2>2
<1>11. ClientFits' /\ CallsFit'
  <2>1. x.tab # None => tab'[x.tab].open
    BY <1>2, <1>5, <1>8
  <2>2. done' \subseteq [key: 1..keys', payload: Payloads]
    BY <1>1, <1>9
  <2>3. call' \in [Calls -> Client!CallSet \cup {Client!Idle}]
    BY <1>1, <1>5
  <2>4. \A u \in Tabs : ~tab'[u].open => ~tab'[u].user /\ tab'[u].token = "none"
    BY <1>8 DEF ClientFits
  <2> QED
    BY <1>1, <1>2, <1>5, <1>6, <1>7, <1>8, <2>1, <2>2, <2>3, <2>4, FitsKept DEF ClientFits
<1>12. LateFits'
  <2>1. (\A d \in Calls : call'[d].kind # "logout") => ~Client!LogoutUnderWay
    BY <1>2, <1>6 DEF Client!LogoutUnderWay
  <2> QED
    BY <1>1, <1>5, <1>6, <1>7, <1>8, <2>1, LateKept DEF LateFits
<1> HIDE DEF new
<1>13. KeysFit'
  <2>1. ASSUME NEW u \in Tabs
        PROVE  /\ tab'[u].key <= keys' /\ tab'[u].ahead \in 0..1
               /\ tab'[u].key = Client!Nothing \/ tab'[u].mixed => tab'[u].ahead = 0
               /\ tab'[u].key # Client!Nothing /\ ~tab'[u].mixed =>
                    (tab'[u].ahead = 1 <=> Executed(tab[u].key)')
    <3>1. /\ tab[u].key <= keys /\ tab[u].ahead \in 0..1
          /\ tab[u].key = Client!Nothing \/ tab[u].mixed => tab[u].ahead = 0
          /\ tab[u].key # Client!Nothing /\ ~tab[u].mixed => (tab[u].ahead = 1 <=> Executed(tab[u].key))
          /\ tab'[u].key = tab[u].key /\ tab'[u].mixed = tab[u].mixed
      BY <1>8 DEF KeysFit
    <3>2. CASE tab[u].key = call[c].key /\ ~tab[u].mixed
      <4>1. t = u /\ call[c].own /\ tab[u].key # Client!Nothing
        BY <1>2, <3>2 DEF CommandsFit, Client!Nothing
      <4>2. CASE done' = done
        BY <1>1, <1>8, <1>10, <3>1, <4>2
      <4>3. CASE done' # done
        <5>1. tab'[u].ahead = tab[u].ahead + 1 /\ ~Executed(tab[u].key)
          BY <1>8, <3>2, <4>1, <4>3
        <5>2. Executed(tab[u].key)'
          BY <1>8, <1>10, <3>2, <4>3 DEF Executed
        <5> QED
          BY <1>1, <3>1, <3>2, <4>1, <5>1, <5>2
      <4> QED
        BY <4>2, <4>3
    <3>3. CASE tab[u].key # call[c].key \/ tab[u].mixed
      <4>1. t # u \/ ~call[c].own \/ tab[u].mixed
        BY <1>3, <1>2, <3>3, MatterParameters
      <4>2. tab'[u].ahead = tab[u].ahead
        BY <1>8, <4>1
      <4> QED
        BY <1>1, <1>8, <1>10, <3>1, <3>3, <4>2
    <3> QED
      BY <3>2, <3>3
  <2> QED
    BY <1>8, <2>1 DEF KeysFit, Executed, Client!Nothing
<1>14. CommandsFit'
  <2>1. \A d \in Calls :
          /\ Keyed(d)' <=> Keyed(d)
          /\ Client!Ordered(d)' <=> Client!Ordered(d)
          /\ Client!Ordered(d) => /\ call'[d].key = call[d].key /\ call'[d].own = call[d].own
                                  /\ call'[d].tab = call[d].tab
          /\ Keyed(d) => Client!Ordered(d)
    BY <1>2, <1>5, <1>6 DEF Keyed, Client!Ordered
  <2>2. ASSUME NEW d \in Calls, Keyed(d), call[d].own, call[d].tab # None, ~tab[call[d].tab].mixed,
               call'[d].at = "ok"
        PROVE  tab'[call[d].tab].ahead = 1
    <3>1. CASE d = c
      <4>1. at = "ok" /\ t \in Tabs
        BY <1>2, <1>5, <1>6, <2>2, <3>1
      <4>2. \E e \in done' : e.key = call[c].key
        BY <1>4, <1>10, <4>1 DEF Executed
      <4>3. tab'[t].key = call[c].key /\ tab'[t].key # Client!Nothing /\ ~tab'[t].mixed
        BY <1>3, <1>8, <2>2, <3>1, <4>1
      <4>4. tab'[t].key # Client!Nothing /\ ~tab'[t].mixed =>
              (tab'[t].ahead = 1 <=> \E e \in done' : e.key = tab'[t].key)
        BY <1>13, <4>1 DEF KeysFit, Executed, Client!Nothing
      <4> QED
        BY <3>1, <4>2, <4>3, <4>4
    <3>2. CASE d # c
      <4>1. call'[d] = call[d] /\ (call[d].tab # t \/ ~call[c].own)
        BY <1>2, <1>6, <2>1, <2>2, <3>2 DEF CommandsFit
      <4>2. tab[call[d].tab].ahead = 1
        BY <1>6, <2>2, <3>2 DEF CommandsFit
      <4>3. call[d].tab \in Tabs
        BY <2>2, CallKnown DEF Keyed, Client!CallSet
      <4> QED
        BY <1>8, <2>2, <3>2, <4>1, <4>2, <4>3, <1>2 DEF CommandsFit
    <3> QED
      BY <3>1, <3>2
  <2>3. \A d \in Calls : Keyed(d) => call[d].tab \in Tabs \cup {None}
    BY CallKnown DEF Keyed, Client!CallSet
  <2>4. \A u \in Tabs : tab'[u].key = tab[u].key /\ tab'[u].mixed = tab[u].mixed
    BY <1>8
  <2>5. ASSUME NEW d \in Calls, Keyed(d)'
        PROVE  /\ \A u \in Tabs : call'[d].key = tab'[u].key /\ ~tab'[u].mixed =>
                                 call'[d].tab = u /\ call'[d].own
               /\ call'[d].own /\ call'[d].tab # None /\ ~tab'[call'[d].tab].mixed =>
                    /\ call'[d].key = tab'[call'[d].tab].key
                    /\ call'[d].at = "ok" => tab'[call'[d].tab].ahead = 1
    BY <2>1, <2>2, <2>3, <2>4, <2>5 DEF CommandsFit
  <2>6. \A d, e \in Calls :
          Client!Ordered(d)' /\ Client!Ordered(e)' /\ call'[d].own /\ call'[e].own
            /\ call'[d].tab # None /\ call'[d].tab = call'[e].tab => d = e
    BY <2>1 DEF CommandsFit
  <2> QED
    BY <2>5, <2>6 DEF CommandsFit
<1> QED
  BY <1>11, <1>12, <1>13, <1>14

(* A request or its answer is lost.                                        *)
LEMMA LoseClient ==
  ASSUME ClientInv, NEW c \in Calls, Client!Lose(c)
  PROVE  ClientInv'
<1> USE DEF ClientInv
<1>1. /\ tab \in [Tabs -> Client!TabSet] /\ call \in [Calls -> Client!CallSet \cup {Client!Idle}]
      /\ UNCHANGED <<jar, live, issued, done, keys>>
      /\ call' = [call EXCEPT ![c] = Client!Idle] /\ Client!Idle.kind = "idle"
      /\ signedOut' => signedOut /\ call[c].kind # "logout"
  BY DEF ClientFits, Client!Lose, Client!serverVars, Client!Idle
<1>2. /\ call[c] \in Client!CallSet /\ call[c].tab \in Tabs \cup {None}
      /\ \A d \in Calls : call'[d] = IF d = c THEN Client!Idle ELSE call[d]
  BY <1>1, CallKnown DEF Client!Lose, Client!CallSet
<1>3. \A d \in Calls \ {c} : SameCall(d)
  BY <1>2 DEF SameCall
<1>4. /\ tab' \in [Tabs -> Client!TabSet]
      /\ \A u \in Tabs :
           /\ tab'[u].open = tab[u].open /\ tab'[u].key = tab[u].key
           /\ tab'[u].ahead = tab[u].ahead /\ tab'[u].mixed = tab[u].mixed
           /\ tab'[u] = tab[u] \/ (~tab'[u].user /\ tab'[u].token = "none")
  <2>1. CASE tab' = tab
    BY <1>1, <2>1
  <2>2. ASSUME NEW t \in Tabs, tab' = [tab EXCEPT ![t] = Client!Forgotten(tab[t])]
        PROVE  /\ tab' \in [Tabs -> Client!TabSet]
               /\ \A u \in Tabs :
                    /\ tab'[u].open = tab[u].open /\ tab'[u].key = tab[u].key
                    /\ tab'[u].ahead = tab[u].ahead /\ tab'[u].mixed = tab[u].mixed
                    /\ tab'[u] = tab[u] \/ (~tab'[u].user /\ tab'[u].token = "none")
    <3> DEFINE s == Client!Forgotten(tab[t])
    <3>1. /\ s \in Client!TabSet /\ s.open = tab[t].open /\ s.key = tab[t].key
          /\ s.ahead = tab[t].ahead /\ s.mixed = tab[t].mixed /\ ~s.user /\ s.token = "none"
      BY <1>1 DEF Client!Forgotten, Client!TabSet
    <3> HIDE DEF s
    <3>2. tab' = [tab EXCEPT ![t] = s]
      BY <2>2 DEF s
    <3> QED
      BY <1>1, <3>1, <3>2
  <2>3. tab' = tab \/ \E t \in Tabs : tab' = [tab EXCEPT ![t] = Client!Forgotten(tab[t])]
    BY <1>1, <1>2 DEF Client!Lose
  <2> QED
    BY <2>1, <2>2, <2>3
<1>5. ClientFits' /\ CallsFit'
  <2>1. /\ call' \in [Calls -> Client!CallSet \cup {Client!Idle}]
        /\ \A u \in Tabs : ~tab'[u].open => ~tab'[u].user /\ tab'[u].token = "none"
    BY <1>1, <1>4 DEF ClientFits
  <2> QED
    BY <1>1, <1>2, <1>3, <1>4, <2>1, FitsKept DEF ClientFits
<1>6. LateFits'
  <2>1. signedOut' /\ (\A d \in Calls : call'[d].kind # "logout") => ~Client!LogoutUnderWay
    BY <1>1, <1>2 DEF Client!LogoutUnderWay
  <2> QED
    BY <1>1, <1>2, <1>3, <1>4, <2>1, LateKept DEF LateFits
<1>7. KeysFit' /\ CommandsFit'
  BY <1>1, <1>2, <1>4, CommandsKept DEF Client!Ordered
<1> QED
  BY <1>5, <1>6, <1>7

(* What an answer makes of its tab.                                        *)
LEMMA AnswerTab ==
  ASSUME NEW c \in Calls, call[c] \in Client!CallSet, NEW s \in Client!TabSet,
         call[c].kind = "command" /\ call[c].at = "ok" /\ call[c].own /\ ~s.mixed => s.ahead = 1,
         call[c].kind = "renew" /\ call[c].at = "ok" => Client!KeyFor(call[c].tab) \in Client!Keys
  PROVE  /\ Client!TabAfter(s, c) \in Client!TabSet
         /\ Client!TabAfter(s, c).open = s.open /\ Client!TabAfter(s, c).notice = s.notice
         /\ Client!TabAfter(s, c).token # "none" =>
              \/ Client!TabAfter(s, c).token = s.token /\ Client!TabAfter(s, c).late = s.late
              \/ /\ call[c].kind = "login" \/ (call[c].kind \in {"restore", "renew"} /\ call[c].at = "ok")
                 /\ Client!TabAfter(s, c).late = call[c].late
         /\ IF call[c].kind = "command" /\ call[c].at = "ok"
            THEN /\ Client!TabAfter(s, c).key = Client!Nothing /\ Client!TabAfter(s, c).ahead = 0
                 /\ call[c].own \/ Client!TabAfter(s, c).mixed
            ELSE IF call[c].kind = "renew" /\ call[c].at = "ok"
            THEN /\ Client!TabAfter(s, c).key = Client!KeyFor(call[c].tab)
                 /\ call[c].own \/ Client!TabAfter(s, c).mixed
                 /\ \/ Client!TabAfter(s, c).ahead = s.ahead /\ Client!TabAfter(s, c).mixed = s.mixed
                    \/ Client!TabAfter(s, c).ahead = 0 /\ Client!TabAfter(s, c).mixed
            ELSE /\ Client!TabAfter(s, c).key = s.key /\ Client!TabAfter(s, c).ahead = s.ahead
                 /\ Client!TabAfter(s, c).mixed = s.mixed
<1> DEFINE y == Client!TabAfter(s, c)
           Goal(r) ==
             /\ r \in Client!TabSet
             /\ r.open = s.open /\ r.notice = s.notice
             /\ r.token # "none" =>
                  \/ r.token = s.token /\ r.late = s.late
                  \/ /\ call[c].kind = "login" \/ (call[c].kind \in {"restore", "renew"} /\ call[c].at = "ok")
                     /\ r.late = call[c].late
             /\ IF call[c].kind = "command" /\ call[c].at = "ok"
                THEN r.key = Client!Nothing /\ r.ahead = 0 /\ (call[c].own \/ r.mixed)
                ELSE IF call[c].kind = "renew" /\ call[c].at = "ok"
                THEN /\ r.key = Client!KeyFor(call[c].tab)
                     /\ call[c].own \/ r.mixed
                     /\ \/ r.ahead = s.ahead /\ r.mixed = s.mixed
                        \/ r.ahead = 0 /\ r.mixed
                ELSE r.key = s.key /\ r.ahead = s.ahead /\ r.mixed = s.mixed
<1>1. call[c].late \in BOOLEAN /\ call[c].kind \in {"restore", "me", "login", "logout", "command", "renew"}
  BY DEF Client!CallSet
<1>2. ASSUME call[c].kind \notin {"command", "renew"} PROVE Goal(s)
  BY <1>2
<1>3. ASSUME call[c].kind \notin {"command", "renew"} PROVE Goal(Client!Forgotten(s))
  <2> DEFINE r == Client!Forgotten(s)
  <2>1. /\ r \in Client!TabSet /\ r.open = s.open /\ r.notice = s.notice /\ r.token = "none"
        /\ r.key = s.key /\ r.ahead = s.ahead /\ r.mixed = s.mixed
    BY DEF Client!Forgotten, Client!TabSet
  <2> HIDE DEF r
  <2>2. Goal(r)
    BY <1>3, <2>1
  <2> QED
    BY <2>2 DEF r
<1>4. ASSUME call[c].kind = "login" \/ (call[c].kind = "restore" /\ call[c].at = "ok")
      PROVE  Goal(Client!WithToken(s, c))
  <2> DEFINE r == Client!WithToken(s, c)
  <2>1. /\ r \in Client!TabSet /\ r.open = s.open /\ r.notice = s.notice /\ r.late = call[c].late
        /\ r.key = s.key /\ r.ahead = s.ahead /\ r.mixed = s.mixed
    BY <1>1 DEF Client!WithToken, Client!TabSet
  <2> HIDE DEF r
  <2>2. Goal(r)
    BY <1>4, <2>1
  <2> QED
    BY <2>2 DEF r
<1>5. CASE call[c].kind = "restore"
  <2>1. y = IF call[c].at = "ok" THEN Client!WithToken(s, c) ELSE Client!Forgotten(s)
    BY <1>5 DEF Client!TabAfter
  <2> HIDE DEF y, Goal
  <2>2. Goal(y)
    BY <1>3, <1>4, <1>5, <2>1
  <2> QED
    BY <2>2 DEF y, Goal
<1>6. CASE call[c].kind = "me"
  <2>1. y = IF call[c].at = "ok" THEN [s EXCEPT !.user = TRUE] ELSE Client!Forgotten(s)
    BY <1>6 DEF Client!TabAfter
  <2>2. Goal([s EXCEPT !.user = TRUE])
    <3> DEFINE r == [s EXCEPT !.user = TRUE]
    <3>1. /\ r \in Client!TabSet /\ r.open = s.open /\ r.notice = s.notice /\ r.late = s.late
          /\ r.key = s.key /\ r.ahead = s.ahead /\ r.mixed = s.mixed /\ r.token = s.token
      BY DEF Client!TabSet
    <3> HIDE DEF r
    <3>2. Goal(r)
      BY <1>6, <3>1
    <3> QED
      BY <3>2 DEF r
  <2> HIDE DEF y, Goal
  <2>3. Goal(y)
    BY <1>3, <1>6, <2>1, <2>2
  <2> QED
    BY <2>3 DEF y, Goal
<1>7. CASE call[c].kind = "login"
  <2> DEFINE w == Client!WithToken(s, c)
             r == [w EXCEPT !.user = TRUE]
  <2>1. y = r
    BY <1>7 DEF Client!TabAfter
  <2>2. /\ w \in Client!TabSet /\ w.open = s.open /\ w.notice = s.notice /\ w.late = call[c].late
        /\ w.key = s.key /\ w.ahead = s.ahead /\ w.mixed = s.mixed
    BY <1>1 DEF Client!WithToken, Client!TabSet
  <2> HIDE DEF w
  <2>3. /\ r \in Client!TabSet /\ r.open = s.open /\ r.notice = s.notice /\ r.late = call[c].late
        /\ r.key = s.key /\ r.ahead = s.ahead /\ r.mixed = s.mixed
    BY <2>2 DEF Client!TabSet
  <2> HIDE DEF r
  <2>4. Goal(r)
    BY <1>7, <2>3
  <2> QED
    BY <2>1, <2>4
<1>8. CASE call[c].kind = "renew" /\ call[c].at # "ok"
  <2> DEFINE r == [s EXCEPT !.token = "none"]
  <2>1. y = r
    BY <1>8 DEF Client!TabAfter
  <2>2. /\ r \in Client!TabSet /\ r.open = s.open /\ r.notice = s.notice
        /\ r.key = s.key /\ r.ahead = s.ahead /\ r.mixed = s.mixed /\ r.token = "none"
    BY DEF Client!TabSet
  <2> HIDE DEF r
  <2>3. Goal(r)
    BY <1>8, <2>2
  <2> QED
    BY <2>1, <2>3
<1>11. ASSUME NEW q \in Client!TabSet
       PROVE  LET m == Client!Mixed(q, c) IN
              /\ m \in Client!TabSet /\ m.open = q.open /\ m.notice = q.notice /\ m.key = q.key
              /\ m.token = q.token /\ m.late = q.late
              /\ call[c].own \/ m.mixed
              /\ \/ m.ahead = q.ahead /\ m.mixed = q.mixed
                 \/ m.ahead = 0 /\ m.mixed
              /\ call[c].own => m.ahead = q.ahead
  BY DEF Client!Mixed, Client!TabSet
<1>12. CASE call[c].kind = "renew" /\ call[c].at = "ok"
  <2> DEFINE w == Client!WithToken(s, c)
             m == Client!Mixed(w, c)
             k == Client!KeyFor(call[c].tab)
             r == [m EXCEPT !.key = k]
  <2>1. y = r
    BY <1>12 DEF Client!TabAfter, Client!Renewed
  <2>2. /\ w \in Client!TabSet /\ w.open = s.open /\ w.notice = s.notice /\ w.late = call[c].late
        /\ w.key = s.key /\ w.ahead = s.ahead /\ w.mixed = s.mixed
    BY <1>1 DEF Client!WithToken, Client!TabSet
  <2> HIDE DEF w
  <2>3. /\ m \in Client!TabSet /\ m.open = s.open /\ m.notice = s.notice /\ m.late = call[c].late
        /\ call[c].own \/ m.mixed
        /\ \/ m.ahead = s.ahead /\ m.mixed = s.mixed
           \/ m.ahead = 0 /\ m.mixed
    BY <1>11, <2>2
  <2>4. k \in Client!Keys
    BY <1>12
  <2> HIDE DEF m
  <2>5. /\ r \in Client!TabSet /\ r.open = s.open /\ r.notice = s.notice /\ r.late = call[c].late
        /\ r.key = k /\ r.ahead = m.ahead /\ r.mixed = m.mixed
    BY <2>3, <2>4 DEF Client!TabSet
  <2> HIDE DEF r
  <2>6. Goal(r)
    BY <1>12, <2>3, <2>5
  <2> QED
    BY <2>1, <2>6
<1>9. CASE call[c].kind = "command" /\ call[c].at = "ok"
  <2> DEFINE m == Client!Mixed(s, c)
             n == IF call[c].own /\ ~s.mixed THEN m.ahead - 1 ELSE 0
             r == [m EXCEPT !.key = Client!Nothing, !.ahead = n]
  <2>1. /\ m \in Client!TabSet /\ m.open = s.open /\ m.notice = s.notice /\ m.token = s.token
        /\ m.late = s.late /\ (call[c].own \/ m.mixed) /\ (call[c].own => m.ahead = s.ahead)
    BY <1>11
  <2>2. y = r
    BY <1>9 DEF Client!TabAfter, Client!Succeeded
  <2> HIDE DEF m
  <2>3. n = 0
    BY <1>9, <2>1
  <2> HIDE DEF n
  <2>4. /\ r \in Client!TabSet /\ r.open = s.open /\ r.notice = s.notice /\ r.late = s.late
        /\ r.key = Client!Nothing /\ r.ahead = 0 /\ r.token = s.token /\ r.mixed = m.mixed
    BY <2>1, <2>3 DEF Client!TabSet
  <2> HIDE DEF r
  <2>5. Goal(r)
    BY <1>9, <2>1, <2>4
  <2> QED
    BY <2>2, <2>5
<1>10. CASE call[c].kind = "logout" \/ (call[c].kind = "command" /\ call[c].at # "ok")
  <2>1. y = s
    BY <1>10 DEF Client!TabAfter
  <2>2. Goal(s)
    BY <1>10
  <2> HIDE DEF y
  <2>3. Goal(y)
    BY <2>1, <2>2
  <2> QED
    BY <2>3 DEF y
<1> QED
  BY <1>1, <1>5, <1>6, <1>7, <1>8, <1>9, <1>10, <1>12

(* What follows an answer.                                                 *)
LEMMA AnswerFollowed ==
  ASSUME ClientFits, NEW c \in Calls, call[c] \in Client!CallSet,
         call[c].kind = "renew" /\ call[c].at = "ok" /\ call[c].tab # None =>
           Client!KeyFor(call[c].tab) \in Client!Keys
  PROVE  \/ Client!Follow(c) = Client!Idle
         \/ /\ Client!Follow(c) \in Client!CallSet /\ call[c].tab # None /\ Client!Follow(c).tab = call[c].tab
            /\ Client!Follow(c).at = "sent"
            /\ \/ Client!Follow(c).kind = "me" /\ Client!Follow(c).key = Client!Nothing
               \/ /\ Client!Follow(c).kind = "renew" /\ call[c].kind = "command" /\ call[c].at # "ok"
                  /\ Client!Follow(c).key = Client!Nothing
                  /\ Client!Follow(c).payload = call[c].payload /\ Client!Follow(c).own = call[c].own
                  /\ ~Client!Follow(c).late =>
                       ~jar.late /\ ~Client!LogoutUnderWay /\ Client!Follow(c).cookie = jar.token
               \/ /\ Client!Follow(c).kind = "command" /\ call[c].kind = "renew" /\ call[c].at = "ok"
                  /\ Client!Follow(c).key = Client!KeyFor(call[c].tab)
                  /\ Client!Follow(c).payload = call[c].payload /\ Client!Follow(c).own = call[c].own
<1> DEFINE t == call[c].tab
<1>1. /\ t \in Tabs \cup {None} /\ call[c].late \in BOOLEAN /\ call[c].own \in BOOLEAN
      /\ call[c].payload \in Payloads \cup {None}
  BY DEF Client!CallSet
<1>2. CASE t # None /\ call[c].kind = "restore" /\ call[c].at = "ok"
  <2> DEFINE r == Client!Request("me", t)
             x == [r EXCEPT !.bearer = "fresh", !.late = call[c].late]
  <2>1. Client!Follow(c) = x
    BY <1>2 DEF Client!Follow
  <2>2. r \in Client!CallSet /\ r.kind = "me" /\ r.tab = t /\ r.at = "sent" /\ r.key = Client!Nothing
    BY <1>1, <1>2, RequestFits
  <2> HIDE DEF r
  <2>3. x \in Client!CallSet /\ x.kind = "me" /\ x.tab = t /\ x.at = "sent" /\ x.key = Client!Nothing
    BY <1>1, <2>2 DEF Client!CallSet
  <2> HIDE DEF x
  <2> QED
    BY <1>2, <2>1, <2>3
<1>3. CASE t # None /\ call[c].kind = "command" /\ call[c].at = "refused" /\ ~call[c].retry
  <2> DEFINE r == Client!Request("renew", t)
  <2>1. PICK late \in BOOLEAN : late <=> r.late \/ call[c].late
    OBVIOUS
  <2> DEFINE x == [r EXCEPT !.payload = call[c].payload, !.late = late, !.own = call[c].own]
  <2>2. Client!Follow(c) = x
    BY <1>3, <2>1 DEF Client!Follow
  <2>3. /\ r \in Client!CallSet /\ r.kind = "renew" /\ r.tab = t /\ r.at = "sent" /\ r.key = Client!Nothing
        /\ r.cookie = jar.token /\ (r.late <=> jar.late \/ Client!LogoutUnderWay)
    BY <1>1, <1>3, RequestFits
  <2> HIDE DEF r
  <2>4. /\ x \in Client!CallSet /\ x.kind = "renew" /\ x.tab = t /\ x.at = "sent" /\ x.key = Client!Nothing
        /\ x.payload = call[c].payload /\ x.own = call[c].own
        /\ x.cookie = jar.token /\ x.late = late
    BY <1>1, <2>3 DEF Client!CallSet
  <2> HIDE DEF x
  <2> QED
    BY <1>3, <2>1, <2>2, <2>3, <2>4
<1>4. CASE t # None /\ call[c].kind = "renew" /\ call[c].at = "ok"
  <2> DEFINE r == Client!Request("command", t)
             k == Client!KeyFor(t)
             x == [r EXCEPT !.bearer = "fresh", !.key = k, !.payload = call[c].payload,
                     !.retry = TRUE, !.late = call[c].late, !.own = call[c].own]
  <2>1. Client!Follow(c) = x
    BY <1>4 DEF Client!Follow
  <2>2. r \in Client!CallSet /\ r.kind = "command" /\ r.tab = t /\ r.at = "sent"
    BY <1>1, <1>4, RequestFits
  <2>3. k \in Client!Keys
    BY <1>4
  <2> HIDE DEF r, k
  <2>4. /\ x \in Client!CallSet /\ x.kind = "command" /\ x.tab = t /\ x.at = "sent"
        /\ x.key = k /\ x.payload = call[c].payload /\ x.own = call[c].own
    BY <1>1, <2>2, <2>3 DEF Client!CallSet
  <2> HIDE DEF x
  <2> QED
    BY <1>4, <2>1, <2>4 DEF k
<1>5. CASE t = None
  BY <1>5 DEF Client!Follow
<1>6. CASE /\ ~(t # None /\ call[c].kind = "restore" /\ call[c].at = "ok") /\ t # None
           /\ ~(t # None /\ call[c].kind = "command" /\ call[c].at = "refused" /\ ~call[c].retry)
           /\ ~(t # None /\ call[c].kind = "renew" /\ call[c].at = "ok")
  BY <1>6 DEF Client!Follow
<1> QED
  BY <1>2, <1>3, <1>4, <1>5, <1>6

(* What an answer makes of the cookie.                                     *)
LEMMA AnswerCookie ==
  ASSUME ClientFits, NEW c \in Calls, call[c] \in Client!CallSet
  PROVE  /\ Client!JarAfter(c) \in [token: Client!Tokens \cup {Client!Nothing}, late: BOOLEAN]
         /\ \/ /\ call[c].kind = "login" \/ (call[c].kind \in {"restore", "renew"} /\ call[c].at = "ok")
               /\ Client!JarAfter(c).late = call[c].late
            \/ Client!JarAfter(c).token = Client!Nothing
            \/ Client!JarAfter(c) = jar /\ call[c].kind # "logout"
<1>1. call[c].late \in BOOLEAN /\ call[c].cookie \in Client!Tokens \cup {Client!Nothing}
  BY DEF Client!CallSet
<1>2. CASE call[c].kind \in {"restore", "renew", "login"} /\ call[c].at = "ok"
  BY <1>1, <1>2 DEF Client!JarAfter
<1>3. CASE call[c].kind = "logout" \/ (call[c].kind \in {"restore", "renew"} /\ call[c].at = "refused")
  BY <1>3 DEF Client!JarAfter
<1>4. CASE /\ ~(call[c].kind \in {"restore", "renew", "login"} /\ call[c].at = "ok")
           /\ ~(call[c].kind = "logout" \/ (call[c].kind \in {"restore", "renew"} /\ call[c].at = "refused"))
  BY <1>4 DEF Client!JarAfter, ClientFits
<1> QED
  BY <1>2, <1>3, <1>4

(* An answer arrives.                                                      *)
LEMMA ReceiveClient ==
  ASSUME ClientInv, NEW c \in Calls, Client!Receive(c)
  PROVE  ClientInv'
<1> USE DEF ClientInv
<1> DEFINE t == call[c].tab
           f == Client!Follow(c)
           s == Client!TabAfter(tab[t], c)
           again == t # None /\ call[c].kind = "renew" /\ call[c].at = "ok"
           k == Client!KeyFor(t)
<1>1. /\ tab \in [Tabs -> Client!TabSet] /\ call \in [Calls -> Client!CallSet \cup {Client!Idle}]
      /\ UNCHANGED <<live, issued, done, signedOut>>
      /\ Client!Busy(c) /\ call[c] \in Client!CallSet /\ t \in Tabs \cup {None}
      /\ jar' = Client!JarAfter(c) /\ Client!Idle.kind = "idle" /\ call[c].kind # "idle"
      /\ IF again THEN Client!KeyTaken(t) ELSE UNCHANGED keys
      /\ keys \in Nat /\ keys <= MaxKeys /\ done \subseteq [key: 1..keys, payload: Payloads]
  BY CallKnown DEF ClientFits, Client!Receive, Client!serverVars, Client!CallSet
<1>2. /\ t # None => t \in Tabs /\ tab[t].open
      /\ IF Keyed(c) THEN call[c].key \in 1..keys ELSE call[c].key = Client!Nothing
      /\ call[c].kind \in {"command", "renew"} => call[c].payload \in Payloads
  BY <1>1 DEF CallsFit, Client!Ordered
<1>13. /\ keys' \in Nat /\ keys <= keys' /\ keys' <= MaxKeys
       /\ again => k \in Client!Keys /\ k \in 1..keys'
  <2>1. CASE again
    BY <1>1, <1>2, <2>1, KeyNew
  <2>2. CASE ~again
    BY <1>1, <2>2
  <2> QED
    BY <2>1, <2>2
<1>3. Keyed(c) /\ call[c].own /\ t # None /\ ~tab[t].mixed =>
        /\ tab[t].key = call[c].key /\ tab[t].key # Client!Nothing
        /\ call[c].at = "ok" => tab[t].ahead = 1
  BY <1>2 DEF CommandsFit, Client!Nothing
<1>4. t # None =>
        /\ s \in Client!TabSet /\ s.open /\ s.notice = tab[t].notice
        /\ s.token # "none" =>
             \/ s.token = tab[t].token /\ s.late = tab[t].late
             \/ /\ call[c].kind = "login" \/ (call[c].kind \in {"restore", "renew"} /\ call[c].at = "ok")
                /\ s.late = call[c].late
        /\ IF call[c].kind = "command" /\ call[c].at = "ok"
           THEN s.key = Client!Nothing /\ s.ahead = 0 /\ (call[c].own \/ s.mixed)
           ELSE IF again
           THEN /\ s.key = k
                /\ call[c].own \/ s.mixed
                /\ \/ s.ahead = tab[t].ahead /\ s.mixed = tab[t].mixed
                   \/ s.ahead = 0 /\ s.mixed
           ELSE s.key = tab[t].key /\ s.ahead = tab[t].ahead /\ s.mixed = tab[t].mixed
  BY <1>1, <1>2, <1>3, <1>13, AnswerTab DEF Keyed
<1>5. \/ f = Client!Idle /\ ~again
      \/ /\ f \in Client!CallSet /\ t # None /\ f.tab = t /\ f.at = "sent"
         /\ \/ f.kind = "me" /\ f.key = Client!Nothing /\ ~again
            \/ /\ f.kind = "renew" /\ Keyed(c) /\ call[c].at # "ok" /\ ~again
               /\ f.key = Client!Nothing /\ f.payload = call[c].payload /\ f.own = call[c].own
               /\ ~f.late => ~jar.late /\ ~Client!LogoutUnderWay /\ f.cookie = jar.token
            \/ /\ f.kind = "command" /\ again
               /\ f.key = k /\ f.payload = call[c].payload /\ f.own = call[c].own
  <2>1. \/ f = Client!Idle
        \/ /\ f \in Client!CallSet /\ t # None /\ f.tab = t /\ f.at = "sent"
           /\ \/ f.kind = "me" /\ f.key = Client!Nothing
              \/ /\ f.kind = "renew" /\ call[c].kind = "command" /\ call[c].at # "ok"
                 /\ f.key = Client!Nothing /\ f.payload = call[c].payload /\ f.own = call[c].own
                 /\ ~f.late => ~jar.late /\ ~Client!LogoutUnderWay /\ f.cookie = jar.token
              \/ /\ f.kind = "command" /\ call[c].kind = "renew" /\ call[c].at = "ok"
                 /\ f.key = k /\ f.payload = call[c].payload /\ f.own = call[c].own
    BY <1>1, <1>13, AnswerFollowed
  <2>2. again => f.kind = "command"
    <3> SUFFICES ASSUME again PROVE f.kind = "command"
      OBVIOUS
    <3> DEFINE q == Client!Request("command", t)
    <3>1. f = [q EXCEPT !.bearer = "fresh", !.key = Client!KeyFor(t),
                 !.payload = call[c].payload, !.retry = TRUE, !.late = call[c].late, !.own = call[c].own]
      BY DEF Client!Follow
    <3>2. q \in Client!CallSet /\ q.kind = "command"
      BY <1>2, RequestFits
    <3> HIDE DEF q
    <3> QED
      BY <3>1, <3>2 DEF Client!CallSet
  <2> HIDE DEF f, s
  <2>3. Client!Idle.kind # "command"
    BY <1>1
  <2> QED
    BY <2>1, <2>2, <2>3 DEF Keyed
<1>6. /\ \A u \in Tabs : tab'[u] = IF u = t THEN s ELSE tab[u]
      /\ tab' \in [Tabs -> Client!TabSet]
  <2>1. tab' = IF t = None THEN tab ELSE [tab EXCEPT ![t] = s]
    BY DEF Client!Receive
  <2> HIDE DEF s, t
  <2>2. CASE t = None
    BY <1>1, <2>1, <2>2, MatterParameters
  <2>3. CASE t # None
    BY <1>1, <1>4, <2>1, <2>3
  <2> QED
    BY <2>2, <2>3
<1>8. /\ call' = [call EXCEPT ![c] = f] /\ call'[c] = f
      /\ \A d \in Calls \ {c} : call'[d] = call[d] /\ SameCall(d)
  BY <1>1 DEF Client!Receive, SameCall
<1>12. again => KeysFit' /\ CommandsFit'
  <2> SUFFICES ASSUME again PROVE KeysFit' /\ CommandsFit'
    OBVIOUS
  <2>1. t \in Tabs /\ Client!KeyTaken(t) /\ done' = done
    BY <1>1, <1>2
  <2>2. /\ Keyed(c)' /\ call'[c].tab = t /\ call'[c].at = "sent" /\ call'[c].key = k
        /\ call'[c].own = call[c].own
    BY <1>1, <1>5, <1>8 DEF Keyed
  <2>3. /\ tab'[t].key = k /\ (call'[c].own \/ tab'[t].mixed)
        /\ \/ tab'[t].ahead = tab[t].ahead /\ tab'[t].mixed = tab[t].mixed
           \/ tab'[t].ahead = 0 /\ tab'[t].mixed
        /\ \A u \in Tabs \ {t} : tab'[u] = tab[u]
    BY <1>4, <1>6, <2>1, <2>2
  <2>4. call'[c].own => \A d \in Calls \ {c} : ~(Client!Ordered(d) /\ call[d].tab = t /\ call[d].own)
    BY <2>2 DEF CommandsFit, Client!Ordered
  <2> HIDE DEF t, k
  <2>5. \A d \in Calls \ {c} :
          /\ call'[d].kind = call[d].kind /\ call'[d].key = call[d].key /\ call'[d].own = call[d].own
          /\ call'[d].tab = call[d].tab /\ call'[d].at = call[d].at
    BY <1>8
  <2> QED
    BY <2>1, <2>2, <2>3, <2>4, <2>5, CommandsSent DEF k
<1> HIDE DEF f, s, t, k
<1>9. ClientFits' /\ CallsFit'
  <2>1. call' \in [Calls -> Client!CallSet \cup {Client!Idle}]
    BY <1>1, <1>5, <1>8
  <2>2. /\ \A u \in Tabs : tab[u].open => tab'[u].open
        /\ \A u \in Tabs : ~tab'[u].open => ~tab'[u].user /\ tab'[u].token = "none"
    BY <1>2, <1>4, <1>6, MatterParameters DEF ClientFits
  <2>3. jar' \in [token: Client!Tokens \cup {Client!Nothing}, late: BOOLEAN]
    BY <1>1, AnswerCookie
  <2>4. f.kind # "idle" =>
          /\ f.tab # None => tab'[f.tab].open
          /\ IF f.kind = "command" THEN f.key \in 1..keys' ELSE f.key = Client!Nothing
          /\ f.kind \in {"command", "renew"} => f.payload \in Payloads
    BY <1>1, <1>2, <1>4, <1>5, <1>6, <1>13 DEF Keyed
  <2>5. done' \subseteq [key: 1..keys', payload: Payloads]
    BY <1>1, <1>13
  <2> QED
    BY <1>1, <1>6, <1>8, <1>13, <2>1, <2>2, <2>3, <2>4, <2>5, FitsKept DEF ClientFits
<1>10. LateFits'
  <2> SUFFICES ASSUME signedOut PROVE LateFits'
    BY <1>1 DEF LateFits
  <2>1. /\ call[c].kind = "login" => call[c].late
        /\ call[c].kind \in {"restore", "renew"} /\ call[c].at = "ok" => call[c].late
    BY DEF LateFits
  <2>2. \A u \in Tabs : tab'[u].token # "none" => tab'[u].late \/ tab'[u].notice
    BY <1>2, <1>4, <1>6, <2>1, MatterParameters DEF LateFits
  <2>3. (\A d \in Calls : call'[d].kind # "logout") => jar'.token = Client!Nothing \/ jar'.late
    <3>1. (\A d \in Calls : call'[d].kind # "logout") /\ call[c].kind # "logout" => ~Client!LogoutUnderWay
      BY <1>8 DEF Client!LogoutUnderWay
    <3> QED
      BY <1>1, <2>1, <3>1, AnswerCookie DEF LateFits
  <2>4. f.kind # "login" /\ (f.kind \in {"restore", "renew"} /\ ~f.late =>
          (f.at = "sent" => f.cookie = Client!Nothing) /\ f.at # "ok")
    BY <1>1, <1>5 DEF LateFits
  <2> QED
    BY <1>1, <1>8, <2>2, <2>3, <2>4, LateKept
<1>11. ASSUME ~again PROVE KeysFit' /\ CommandsFit'
  <2>1. \A u \in Tabs :
          \/ tab'[u].key = tab[u].key /\ tab'[u].ahead = tab[u].ahead /\ tab'[u].mixed = tab[u].mixed
          \/ tab'[u].key = Client!Nothing /\ tab'[u].ahead = 0
    BY <1>2, <1>4, <1>6, <1>11, MatterParameters
  <2>2. ASSUME NEW d \in Calls, Keyed(d), call[d].own, call[d].tab # None, ~tab[call[d].tab].mixed
        PROVE  tab[call[d].tab].key # Client!Nothing
    BY <2>2, CallKnown DEF CommandsFit, CallsFit, Keyed, Client!Busy, Client!CallSet, Client!Nothing
  <2>3. \A d \in Calls : Client!Ordered(d)' =>
          /\ Client!Ordered(d)
          /\ call'[d].own => call[d].own
          /\ call'[d].tab \in {call[d].tab, None}
    <3>1. call'[c].kind \in {"command", "renew"} =>
            call[c].kind = "command" /\ call'[c].own = call[c].own /\ call'[c].tab = call[c].tab
      BY <1>1, <1>5, <1>8, <1>11 DEF Keyed, t
    <3> QED
      BY <1>8, <3>1 DEF Client!Ordered
  <2>4. ASSUME NEW d \in Calls, Keyed(d)'
        PROVE  /\ Keyed(d) /\ call'[d].key = call[d].key
               /\ call'[d].at = "ok" => call[d].at = "ok"
               /\ call[d].tab # None /\ call[d].own /\ ~tab'[call[d].tab].mixed =>
                    IF tab'[call[d].tab].key = Client!Nothing THEN call'[d].tab = None \/ ~call'[d].own
                    ELSE call'[d].tab = call[d].tab /\ call'[d].own
    <3>1. d # c /\ call'[d] = call[d] /\ Keyed(d)
      BY <1>1, <1>5, <1>8, <1>11, <2>4 DEF Keyed
    <3>2. ASSUME call[d].tab # None, call[d].own, ~tab'[call[d].tab].mixed
          PROVE  tab'[call[d].tab].key # Client!Nothing
      <4>1. call[d].tab \in Tabs
        BY <3>1, <3>2, CallKnown DEF Keyed, Client!CallSet
      <4>2. CASE call[d].tab # t
        BY <1>6, <2>2, <3>1, <3>2, <4>1, <4>2
      <4>3. CASE call[d].tab = t /\ ~(call[c].kind = "command" /\ call[c].at = "ok")
        BY <1>4, <1>6, <1>11, <2>2, <3>1, <3>2, <4>1, <4>3
      <4>4. CASE call[d].tab = t /\ call[c].kind = "command" /\ call[c].at = "ok"
        <5>1. Client!Ordered(c) /\ Client!Ordered(d) /\ call[c].tab = call[d].tab
          BY <3>1, <4>4 DEF Keyed, Client!Ordered, t
        <5>2. ~call[c].own
          BY <3>1, <3>2, <5>1 DEF CommandsFit
        <5> QED
          BY <1>4, <1>6, <3>2, <4>1, <4>4, <5>2
      <4> QED
        BY <4>2, <4>3, <4>4
    <3> QED
      BY <3>1, <3>2
  <2> QED
    BY <1>1, <1>11, <2>1, <2>3, <2>4, CommandsLost
<1> QED
  BY <1>9, <1>10, <1>11, <1>12

(* Every step of the browser keeps the invariant.                          *)
LEMMA ClientNext == ClientInv /\ [Client!Next]_browserVars => ClientInv'
<1> SUFFICES ASSUME ClientInv, [Client!Next]_browserVars PROVE ClientInv'
  OBVIOUS
<1>1. CASE UNCHANGED browserVars
  BY <1>1 DEF browserVars, ClientInv, ClientFits, CallsFit, LateFits, KeysFit, CommandsFit,
     Client!Busy, Keyed, Client!Ordered, Client!LogoutUnderWay, Executed
<1>2. CASE Client!Next
  BY <1>2, OpenClient, TabAlone, LogoutClient, CommandClient, ServerClient, ExecuteClient,
     LoseClient, ReceiveClient DEF Client!Next
<1> QED
  BY <1>1, <1>2

(* The invariant says what the model checker is asked.                     *)
LEMMA ClientPromises == ClientInv => Client!TypeOK /\ Client!SignedOutEverywhere /\ Client!OneExecutionPerSuccess
<1> SUFFICES ASSUME ClientInv PROVE Client!TypeOK /\ Client!SignedOutEverywhere /\ Client!OneExecutionPerSuccess
  OBVIOUS
<1>1. Client!TypeOK
  BY DEF ClientInv, ClientFits, Client!TypeOK
<1>2. Client!SignedOutEverywhere
  BY DEF ClientInv, LateFits, Client!SignedOutEverywhere
<1>3. Client!OneExecutionPerSuccess
  BY DEF ClientInv, KeysFit, Client!OneExecutionPerSuccess
<1> QED
  BY <1>1, <1>2, <1>3

-----------------------------------------------------------------------------
(* The parts of MCMatters: a behaviour is one of its part.                 *)

mcVars == <<part, leadVars, browserVars, adminVars, cookieVars>>

InLead == part = "lead"
InCookies == part = "cookies"

(* What each step of MCMatters is of its part.                             *)
LEMMA PartsMove ==
  [MCNext]_mcVars =>
    /\ part' = part
    /\ InLead <=> InLead'
    /\ InBrowser <=> InBrowser'
    /\ InAdministration <=> InAdministration'
    /\ InCookies <=> InCookies'
    /\ [Next]_vars
    /\ InBrowser => [Client!Next]_browserVars
    /\ InAdministration => [Administration!Next]_adminVars
    /\ InCookies => [Cookies!Next]_cookieVars
BY DEF InLead, InBrowser, InAdministration, InCookies, MCNext, mcVars, leadVars, vars,
       browserVars, adminVars, cookieVars, TabsStep, CommandsStep, RequestsStep, ProvisioningStep

(* What each part begins with.                                             *)
LEMMA PartsBegin ==
  MCInit =>
    /\ Init
    /\ InBrowser => Client!Init
    /\ InAdministration => Administration!Init
    /\ InCookies => Cookies!Init
BY DEF MCInit, InBrowser, InAdministration, InCookies

(* A behaviour is of one part throughout, and it keeps the invariant of    *)
(* what the part is an instance of.                                        *)
LEMMA PartsKeep ==
  MCSpec =>
    /\ [](InBrowser => ClientInv)
    /\ [](InAdministration => AdminInv)
    /\ [](InCookies => CookieInv)
    /\ Spec
<1>1. MCInit => /\ InBrowser => ClientInv
                /\ InAdministration => AdminInv
                /\ InCookies => CookieInv
                /\ Init
  BY PartsBegin, ClientInit, AdminInit, CookieInit
<1>2. [MCNext]_mcVars =>
        /\ (InBrowser => ClientInv) => (InBrowser => ClientInv)'
        /\ (InAdministration => AdminInv) => (InAdministration => AdminInv)'
        /\ (InCookies => CookieInv) => (InCookies => CookieInv)'
        /\ [Next]_vars
  BY PartsMove, ClientNext, AdminNext, CookieNext
<1> QED
  BY <1>1, <1>2, PTL DEF MCSpec, mcVars, Spec

(* The lead, the browser, the administration and the cookies keep their    *)
(* types.                                                                  *)
THEOREM MattersTypesCorrect == MCSpec => []TypesOK
<1>1. AdminInv => Administration!TypeOK
  BY DEF AdminInv, AdminFits, Administration!TypeOK
<1>2. CookieInv => Cookies!TypeOK
  BY DEF CookieInv
<1>3. TypeOK /\ (InBrowser => ClientInv) /\ (InAdministration => AdminInv)
        /\ (InCookies => CookieInv) => TypesOK
  BY <1>1, <1>2, ClientPromises DEF TypesOK, InCookies
<1> QED
  BY <1>3, PartsKeep, TypeCorrect, PTL

(* When the client has signed out and the logout has arrived everywhere, a *)
(* tab has a token only if a request of before, or its cookie, brought it, *)
(* however many tabs and requests there are (api.js, AuthContext.jsx).     *)
THEOREM SignedOutAlways == MCSpec => []SignedOutEverywhere
<1>1. (InBrowser => ClientInv) => SignedOutEverywhere
  BY ClientPromises DEF SignedOutEverywhere
<1> QED
  BY <1>1, PartsKeep, PTL

(* A command that is sent again after lost answers and renewed tokens is   *)
(* executed once for each success the tab is told of (idempotency.js), as  *)
(* long as no command of before a logout has touched the tab's key.        *)
THEOREM OneExecutionAlways == MCSpec => []OneExecutionPerSuccess
<1>1. (InBrowser => ClientInv) => OneExecutionPerSuccess
  BY ClientPromises DEF OneExecutionPerSuccess
<1> QED
  BY <1>1, PartsKeep, PTL

(* A tab that loads a script goes by the choice that was saved last, in    *)
(* any of any number of tabs, and loads none against the signal            *)
(* (cookieConsent.js).                                                     *)
THEOREM ScriptsAgreedAlways == MCSpec => []ScriptsAreAgreed
<1>1. (InCookies => CookieInv) => ScriptsAreAgreed
  BY DEF ScriptsAreAgreed, InCookies, CookieInv
<1> QED
  BY <1>1, PartsKeep, PTL

(* The administration loses its last administrator only to removals that   *)
(* overlap or to an erasure, its gate does not pass a role that is gone,   *)
(* and the script provisions once, for any number of users, requests and   *)
(* runs (user.service.js, auth.js, create-initial-admin.js).               *)
THEOREM GuardedAlways == MCSpec => AdministrationIsGuarded
<1>1. (InAdministration => AdminInv) /\ [MCNext]_mcVars
        => [InAdministration => Administration!GuardedStep]_<<part, adminVars>>
  BY PartsMove, AdminGuarded
<1> QED
  BY <1>1, PartsKeep, PTL DEF AdministrationIsGuarded, MCSpec, mcVars

=============================================================================

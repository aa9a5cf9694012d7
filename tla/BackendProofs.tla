--------------------------- MODULE BackendProofs ---------------------------
(***************************************************************************)
(* Proofs about what waits in the backend: the sessions of RefreshTokens   *)
(* for every number of requests and every bound on the version, the        *)
(* servers of Deployment for every number of servers, releases and files,  *)
(* and the commands of PaymentCommands for every number of commands and    *)
(* every size of the pool; then what MCBackend's runs check of the three.  *)
(***************************************************************************)
EXTENDS MCBackend, FiniteSetTheorems, WellFoundedInduction, TLAPS

-----------------------------------------------------------------------------
(* RefreshTokens.  IInv adds to the properties who holds a row lock, what  *)
(* a request has read by each step, and how the versions of the rows       *)
(* relate to the user's.                                                   *)

USE MaxVersionAssumption, NoAttemptAssumption

(* A row is locked exactly while a rotation of it waits for its COMMIT,    *)
(* and it is live as long as it is locked.                                 *)
LockInv ==
  /\ \A t \in Attempts : lock[t] # NoOne =>
       pc[lock[t]] = "commit" /\ want[lock[t]].token = t
  /\ \A a \in Attempts : pc[a] = "commit" =>
       lock[want[a].token] = a /\ row[want[a].token].live

(* A request that has begun asks for something, and its own name is no    *)
(* row's name before it is done.                                           *)
WantInv == \A a \in Attempts : pc[a] # "idle" => want[a] \in Wants
FreshInv == \A a \in Attempts : pc[a] # "done" => row[a] = NoRow

(* What a login and a refresh have read still holds of the rows: a row's   *)
(* version never changes and a proved login stays proved.                  *)
InsertInv ==
  \A a \in Attempts : pc[a] = "insert" =>
    /\ read[a].version \in Versions
    /\ read[a].version <= version
    /\ read[a].mfa = want[a].mfa

TokenInv ==
  \A a \in Attempts : pc[a] \in {"current", "rotate", "commit", "revoke"} =>
    /\ row[want[a].token] # NoRow
    /\ read[a].version = row[want[a].token].version
    /\ read[a].mfa => row[want[a].token].login \in proved

(* A sweep's snapshot names rows.                                          *)
TargetInv == \A a \in Attempts : \A t \in targets[a] : row[t] # NoRow

(* No row is ahead of the user's version, the rows of an ended login are   *)
(* behind it, and a row's access token carries the row's version.          *)
VersionInv ==
  /\ \A t \in Attempts : row[t] # NoRow =>
       /\ row[t].version <= version
       /\ row[t].login \in ended => row[t].version < version
       /\ access[t] = row[t].version
       /\ row[row[t].login] # NoRow
  /\ \A l \in ended : row[l] # NoRow

IInv ==
  /\ TypeOK
  /\ LockInv
  /\ WantInv
  /\ FreshInv
  /\ InsertInv
  /\ TokenInv
  /\ TargetInv
  /\ VersionInv
  /\ OneLiveTokenPerLogin
  /\ ChainsAreLinear
  /\ MfaMarkIsProved

-----------------------------------------------------------------------------
(* Rows as records.                                                        *)

(* The fields of a stored row have their types, and only a stored row can  *)
(* be live.                                                                *)
LEMMA RowFields ==
  ASSUME TypeOK, NEW t \in Attempts
  PROVE  /\ row[t].live \in BOOLEAN
         /\ row[t].live => row[t] # NoRow
         /\ row[t] # NoRow => /\ row[t] \in Rows
                             /\ row[t].version \in Versions
                             /\ row[t].login \in Attempts
                             /\ row[t].next \in Attempts \cup {NoOne}
                             /\ row[t].mfa \in BOOLEAN
<1>1. row[t] \in Rows \cup {NoRow}
  BY DEF TypeOK
<1>2. CASE row[t] = NoRow
  BY <1>2 DEF NoRow
<1>3. CASE row[t] \in Rows
  BY <1>3 DEF Rows, NoRow
<1> QED BY <1>1, <1>2, <1>3

(* Revoking a row changes nothing else of it.                              *)
LEMMA RowRevoked ==
  ASSUME NEW r \in Rows \cup {NoRow}, NEW q, q = [r EXCEPT !.live = FALSE]
  PROVE  /\ q \in Rows \cup {NoRow}
         /\ q = NoRow <=> r = NoRow
         /\ q.live = FALSE
         /\ q.version = r.version
         /\ q.login = r.login
         /\ q.next = r.next
         /\ q.mfa = r.mfa
<1>1. CASE r = NoRow
  BY <1>1 DEF NoRow
<1>2. CASE r \in Rows
  <2>1. q \in Rows
    BY <1>2 DEF Rows
  <2>2. r # NoRow /\ q # NoRow
    BY <1>2, <2>1 DEF Rows, NoRow
  <2> QED BY <1>2, <2>1, <2>2 DEF Rows
<1> QED BY <1>1, <1>2

(* A row stored by a login or a rotation.                                  *)
LEMMA RowStored ==
  ASSUME NEW v \in Versions, NEW l \in Attempts, NEW m \in BOOLEAN, NEW q,
         q = [live |-> TRUE, version |-> v, login |-> l,
              next |-> NoOne, mfa |-> m]
  PROVE  /\ q \in Rows
         /\ q # NoRow
         /\ q.live /\ q.version = v /\ q.login = l /\ q.next = NoOne /\ q.mfa = m
BY DEF Rows, NoRow

-----------------------------------------------------------------------------
(* Steps that keep the rows and at most revoke or mark some of them.       *)

RowsKept ==
  \A t \in Attempts :
    /\ row'[t] \in Rows \cup {NoRow}
    /\ row'[t] = NoRow <=> row[t] = NoRow
    /\ row'[t].live => row[t].live
    /\ row'[t].version = row[t].version
    /\ row'[t].login = row[t].login
    /\ row'[t].next = row[t].next

(* A login's row begins a chain.                                           *)
Opened(a) ==
  /\ row[a] = NoRow
  /\ \A s \in Attempts : row[s] # NoRow => row[s].login # a
  /\ row'[a] # NoRow /\ row'[a].live /\ row'[a].login = a
  /\ \A s \in Attempts \ {a} : row'[s] = row[s]

(* Row t hands its place in its chain to the row of a.                     *)
HandedOn(t, a) ==
  /\ t \in Attempts /\ row[t] # NoRow /\ row[t].live
  /\ row[a] = NoRow
  /\ row'[t] # NoRow /\ ~row'[t].live
  /\ row'[t].login = row[t].login /\ row'[t].version = row[t].version
  /\ row'[a] # NoRow /\ row'[a].live /\ row'[a].login = row[t].login
  /\ \A s \in Attempts \ {a, t} : row'[s] = row[s]

(* All a step can do to the rows.                                          *)
RowStep ==
  \/ RowsKept
  \/ \E a \in Attempts : Opened(a)
  \/ \E t, a \in Attempts : HandedOn(t, a)

(* Chains and versions do not depend on more than RowsKept keeps.          *)
LEMMA KeptRows ==
  ASSUME IInv, RowsKept, UNCHANGED <<version, ended>>
  PROVE  /\ OneLiveTokenPerLogin'
         /\ ChainsAreLinear'
         /\ access' = access => VersionInv'
         /\ pc' = pc => FreshInv'
         /\ targets' = targets => TargetInv'
<1> USE DEF IInv, RowsKept
<1>1. OneLiveTokenPerLogin'
  BY DEF OneLiveTokenPerLogin, Live
<1>2. ChainsAreLinear'
  <2> SUFFICES ASSUME NEW t \in Attempts, row[t] # NoRow
               PROVE  /\ row'[t].next # NoOne =>
                           /\ ~row'[t].live
                           /\ row'[row'[t].next].login = row'[t].login
                           /\ row'[row'[t].next].version = row'[t].version
                           /\ \A s \in Attempts : row'[s] # NoRow /\ row'[s].next = row'[t].next => s = t
                      /\ row'[t].login # t => \E s \in Attempts : row'[s] # NoRow /\ row'[s].next = t
    BY DEF ChainsAreLinear, Committed
  <2>1. CASE row[t].next # NoOne
    <3>1. row[t].next \in Attempts
      BY <2>1, RowFields
    <3> QED BY <2>1, <3>1 DEF ChainsAreLinear, Committed
  <2>2. CASE row[t].next = NoOne
    BY <2>2 DEF ChainsAreLinear, Committed
  <2> QED BY <2>1, <2>2
<1>3. ASSUME access' = access PROVE VersionInv'
  <2>1. \A t \in Attempts : row[t] # NoRow => row[t].login \in Attempts
    BY RowFields
  <2>2. ended \subseteq Attempts
    BY DEF TypeOK
  <2> QED BY <1>3, <2>1, <2>2 DEF VersionInv
<1>4. pc' = pc => FreshInv'
  BY DEF FreshInv
<1>5. targets' = targets => TargetInv'
  BY DEF TargetInv, TypeOK
<1> QED BY <1>1, <1>2, <1>3, <1>4, <1>5

-----------------------------------------------------------------------------
(* One lemma per action.                                                   *)

(* A request that begins touches nothing but its own progress.             *)
LEMMA BeginPreserves ==
  ASSUME IInv, NEW a \in Attempts, Begin(a)
  PROVE  IInv'
<1> USE DEF IInv, Begin, Goto
<1>0. PICK w \in Wants :
        /\ want' = [want EXCEPT ![a] = w]
        /\ pc' = [pc EXCEPT ![a] = FirstStep(w.kind)]
  OBVIOUS
<1> DEFINE first == FirstStep(w.kind)
<1>00. first \in {"read", "find", "bump", "sweep"}
  BY DEF FirstStep, Wants, Kinds
<1> HIDE DEF first
<1>01. /\ pc \in [Attempts -> Steps] /\ want \in [Attempts -> Wants \cup {NoWant}]
       /\ pc[a] = "idle"
       /\ pc' = [pc EXCEPT ![a] = first]
       /\ want' = [want EXCEPT ![a] = w]
       /\ UNCHANGED <<row, lock, version, read, targets, access, ended, proved>>
  BY <1>0 DEF TypeOK, first
<1>1. TypeOK'
  <2>1. pc' \in [Attempts -> Steps]
    BY <1>00, <1>01 DEF Steps
  <2>2. want' \in [Attempts -> Wants \cup {NoWant}]
    BY <1>01
  <2> QED BY <1>01, <2>1, <2>2 DEF TypeOK
<1> HIDE DEF Begin
<1>2. LockInv'
  BY <1>00, <1>01 DEF LockInv, TypeOK
<1>3. WantInv'
  BY <1>01 DEF WantInv
<1>4. FreshInv'
  BY <1>00, <1>01 DEF FreshInv
<1>5. InsertInv'
  BY <1>00, <1>01 DEF InsertInv
<1>6. TokenInv'
  BY <1>00, <1>01 DEF TokenInv
<1>7. TargetInv'
  BY <1>01 DEF TargetInv
<1>8. VersionInv'
  BY <1>01 DEF VersionInv
<1>9. OneLiveTokenPerLogin'
  BY <1>01 DEF OneLiveTokenPerLogin, Live
<1>10. ChainsAreLinear'
  BY <1>01 DEF ChainsAreLinear, Committed
<1>11. MfaMarkIsProved'
  BY <1>01 DEF MfaMarkIsProved, Committed
<1> QED BY <1>1, <1>2, <1>3, <1>4, <1>5, <1>6, <1>7, <1>8, <1>9, <1>10, <1>11

(* The version a login reads is the user's.                                *)
LEMMA ReadVersionPreserves ==
  ASSUME IInv, NEW a \in Attempts, ReadVersion(a)
  PROVE  IInv'
<1> USE DEF IInv, ReadVersion
<1>1. TypeOK'
  <2>1. want[a].mfa \in BOOLEAN
    BY DEF WantInv, Wants
  <2>2. [version |-> version, mfa |-> want[a].mfa] \in Reads
    BY <2>1 DEF Reads, TypeOK, Versions
  <2> QED BY <2>2 DEF TypeOK, Steps, Goto
<1>2. LockInv'
  BY DEF LockInv, Goto, TypeOK, WantInv, TokenInv
<1>3. WantInv'
  BY DEF WantInv, Goto, TypeOK
<1>4. FreshInv'
  BY DEF FreshInv, Goto, TypeOK
<1>5. InsertInv'
  BY DEF InsertInv, Goto, TypeOK, WantInv, Versions
<1>6. TokenInv'
  BY DEF TokenInv, Goto, TypeOK, WantInv
<1>7. TargetInv'
  BY DEF TargetInv, Goto, TypeOK
<1>8. VersionInv'
  BY DEF VersionInv, Goto, TypeOK, Versions
<1>9. OneLiveTokenPerLogin'
  BY DEF OneLiveTokenPerLogin, Goto, TypeOK, Live
<1>10. ChainsAreLinear'
  BY DEF ChainsAreLinear, Goto, TypeOK, Committed
<1>11. MfaMarkIsProved'
  BY DEF MfaMarkIsProved, Goto, TypeOK, Committed
<1> QED BY <1>1, <1>2, <1>3, <1>4, <1>5, <1>6, <1>7, <1>8, <1>9, <1>10, <1>11

(* A login's row starts a chain of its own: nothing refers to it yet.      *)
LEMMA InsertPreserves ==
  ASSUME IInv, NEW a \in Attempts, Insert(a)
  PROVE  IInv' /\ Opened(a)
<1> DEFINE new == [live |-> TRUE, version |-> read[a].version, login |-> a,
                   next |-> NoOne, mfa |-> read[a].mfa]
<1>0. /\ pc[a] = "insert"
      /\ row' = [row EXCEPT ![a] = new]
      /\ access' = [access EXCEPT ![a] = read[a].version]
      /\ proved' = IF want[a].mfa THEN proved \cup {a} ELSE proved
      /\ pc' = [pc EXCEPT ![a] = "done"]
      /\ UNCHANGED <<lock, version, want, read, targets, ended>>
  BY DEF Insert, Goto
<1>00. /\ row[a] = NoRow
       /\ read[a].version \in Versions /\ read[a].version <= version
       /\ read[a].mfa = want[a].mfa /\ read[a].mfa \in BOOLEAN
       /\ ~row[a].live
  BY <1>0 DEF IInv, FreshInv, InsertInv, TypeOK, Reads, NoRow
<1>02. /\ new \in Rows /\ new # NoRow /\ new.live
       /\ new.version = read[a].version /\ new.login = a
       /\ new.next = NoOne /\ new.mfa = read[a].mfa
  BY <1>00, RowStored
<1> HIDE DEF new
<1>01. /\ row \in [Attempts -> Rows \cup {NoRow}]
       /\ row' \in [Attempts -> Rows \cup {NoRow}]
       /\ row'[a] = new
       /\ \A s \in Attempts \ {a} : row'[s] = row[s]
  BY <1>0, <1>02 DEF IInv, TypeOK
<1>03. \A s \in Attempts : row[s] # NoRow =>
         row[s].login \in Attempts /\ row[s].next \in Attempts \cup {NoOne}
  BY RowFields DEF IInv
<1> USE DEF IInv
<1>1. TypeOK'
  <2>1. proved' \subseteq Attempts
    BY <1>0 DEF TypeOK
  <2>2. access' \in [Attempts -> 0..MaxVersion]
    BY <1>0 DEF TypeOK, Reads
  <2>3. pc' \in [Attempts -> Steps]
    BY <1>0 DEF TypeOK, Steps
  <2> QED BY <1>0, <1>01, <2>1, <2>2, <2>3 DEF TypeOK
<1>2. LockInv'
  <2>1. \A b \in Attempts : pc[b] = "commit" => want[b].token \in Attempts
    BY DEF WantInv, Wants
  <2> QED BY <1>0, <1>00, <1>01, <2>1 DEF LockInv, TypeOK
<1>3. WantInv'
  BY <1>0 DEF WantInv, TypeOK
<1>4. FreshInv'
  BY <1>0, <1>01 DEF FreshInv, TypeOK
<1>5. InsertInv'
  BY <1>0 DEF InsertInv, TypeOK
<1>6. TokenInv'
  <2> SUFFICES ASSUME NEW b \in Attempts,
                      pc[b] \in {"current", "rotate", "commit", "revoke"}
               PROVE  /\ row'[want[b].token] # NoRow
                      /\ read[b].version = row'[want[b].token].version
                      /\ read[b].mfa => row'[want[b].token].login \in proved'
    BY <1>0 DEF TokenInv, TypeOK
  <2>1. want[b].token \in Attempts
    BY DEF WantInv, Wants
  <2> QED BY <1>0, <1>00, <1>01, <2>1 DEF TokenInv
<1>7. TargetInv'
  BY <1>0, <1>01, <1>02 DEF TargetInv, TypeOK
<1>8. VersionInv'
  <2>1. a \notin ended /\ ended \subseteq Attempts
    BY <1>00 DEF VersionInv, TypeOK
  <2> QED BY <1>0, <1>00, <1>01, <1>02, <1>03, <2>1 DEF VersionInv, TypeOK
<1>9. OneLiveTokenPerLogin'
  <2>1. \A s \in Attempts : row[s] # NoRow => row[s].login # a
    BY <1>00 DEF VersionInv
  <2>2. \A s \in Attempts : row[s].live => row[s] # NoRow
    BY RowFields
  <2> QED BY <1>01, <1>02, <2>1, <2>2 DEF OneLiveTokenPerLogin, Live
<1>10. ChainsAreLinear'
  <2>1. \A s \in Attempts : row[s] # NoRow => row[s].next # a
    BY <1>00, <1>03 DEF ChainsAreLinear, Committed, NoRow
  <2> QED BY <1>00, <1>01, <1>02, <1>03, <2>1 DEF ChainsAreLinear, Committed
<1>11. MfaMarkIsProved'
  BY <1>0, <1>00, <1>01, <1>02 DEF MfaMarkIsProved, Committed
<1>12. Opened(a)
  BY <1>00, <1>01, <1>02 DEF Opened, VersionInv
<1> QED BY <1>1, <1>2, <1>3, <1>4, <1>5, <1>6, <1>7, <1>8, <1>9, <1>10, <1>11,
           <1>12

(* A step-up marks a live row of a login whose user has proved a factor.   *)
LEMMA MarkPreserves ==
  ASSUME IInv, NEW a \in Attempts, Mark(a)
  PROVE  IInv' /\ RowsKept
<1> DEFINE t == want[a].token
<1>0. /\ pc[a] = "mark" /\ lock[t] = NoOne /\ row[t].live
      /\ row' = [row EXCEPT ![t].mfa = TRUE]
      /\ access' = [access EXCEPT ![a] = read[a].version]
      /\ proved' = proved \cup {row[t].login}
      /\ pc' = [pc EXCEPT ![a] = "done"]
      /\ UNCHANGED <<lock, version, want, read, targets, ended>>
  BY DEF Mark, Goto
<1>00. t \in Attempts /\ row[t] \in Rows /\ a # t /\ row[a] = NoRow
  <2>1. want[a] \in Wants /\ row[a] = NoRow
    BY <1>0 DEF IInv, WantInv, FreshInv
  <2>2. t \in Attempts
    BY <2>1 DEF Wants
  <2> QED BY <1>0, <2>1, <2>2, RowFields DEF IInv, NoRow
<1> HIDE DEF t
<1>01. RowsKept
  <2>1. row'[t] \in Rows /\ row'[t].live = row[t].live /\ row'[t].version = row[t].version
        /\ row'[t].login = row[t].login /\ row'[t].next = row[t].next
    BY <1>0, <1>00 DEF Rows, IInv, TypeOK
  <2>2. \A r \in Rows : r # NoRow
    BY DEF Rows, NoRow
  <2>3. \A s \in Attempts \ {t} : row'[s] = row[s]
    BY <1>0 DEF IInv, TypeOK
  <2>4. \A s \in Attempts : row[s] \in Rows \cup {NoRow}
    BY DEF IInv, TypeOK
  <2> QED BY <1>00, <2>1, <2>2, <2>3, <2>4 DEF RowsKept
<1> USE DEF IInv
<1>1. TypeOK'
  <2>1. row' \in [Attempts -> Rows \cup {NoRow}]
    BY <1>0, <1>01 DEF RowsKept, TypeOK
  <2>2. proved' \subseteq Attempts
    BY <1>0, <1>00, RowFields DEF TypeOK, Rows
  <2>3. access' \in [Attempts -> 0..MaxVersion]
    BY <1>0 DEF TypeOK, Reads
  <2>4. pc' \in [Attempts -> Steps]
    BY <1>0 DEF TypeOK, Steps
  <2> QED BY <1>0, <2>1, <2>2, <2>3, <2>4 DEF TypeOK
<1>2. LockInv'
  BY <1>0, <1>01 DEF LockInv, TypeOK, RowsKept, WantInv, Wants
<1>3. WantInv'
  BY <1>0 DEF WantInv, TypeOK
<1>4. FreshInv'
  BY <1>0, <1>01 DEF FreshInv, TypeOK, RowsKept
<1>5. InsertInv'
  BY <1>0 DEF InsertInv, TypeOK
<1>6. TokenInv'
  <2> SUFFICES ASSUME NEW b \in Attempts,
                      pc[b] \in {"current", "rotate", "commit", "revoke"}
               PROVE  /\ row'[want[b].token] # NoRow
                      /\ read[b].version = row'[want[b].token].version
                      /\ read[b].mfa => row'[want[b].token].login \in proved'
    BY <1>0 DEF TokenInv, TypeOK
  <2>1. want[b].token \in Attempts
    BY DEF WantInv, Wants
  <2> QED BY <1>0, <1>01, <2>1 DEF TokenInv, RowsKept
<1>7. TargetInv'
  BY <1>0, <1>01, KeptRows
<1>8. VersionInv'
  <2>1. \A s \in Attempts : row[s] # NoRow => row[s].login \in Attempts /\ s # a
    BY <1>00, RowFields
  <2>2. ended \subseteq Attempts
    BY DEF TypeOK
  <2> QED BY <1>0, <1>01, <2>1, <2>2 DEF VersionInv, RowsKept, TypeOK
<1>9. OneLiveTokenPerLogin'
  BY <1>0, <1>01, KeptRows
<1>10. ChainsAreLinear'
  BY <1>0, <1>01, KeptRows
<1>11. MfaMarkIsProved'
  <2>1. \A s \in Attempts \ {t} : row'[s] = row[s]
    BY <1>0 DEF TypeOK
  <2> QED BY <1>0, <1>00, <1>01, <2>1 DEF MfaMarkIsProved, Committed, RowsKept
<1> QED BY <1>1, <1>2, <1>3, <1>4, <1>5, <1>6, <1>7, <1>8, <1>9, <1>10, <1>11,
           <1>01

(* A step-up of a revoked session.                                         *)
LEMMA MarkRefusedPreserves ==
  ASSUME IInv, NEW a \in Attempts, MarkRefused(a)
  PROVE  IInv'
<1> USE DEF IInv, MarkRefused
<1>1. TypeOK'
  BY DEF TypeOK, Goto, Steps
<1>2. LockInv'
  BY DEF LockInv, Goto, TypeOK, WantInv, TokenInv
<1>3. WantInv'
  BY DEF WantInv, Goto, TypeOK
<1>4. FreshInv'
  BY DEF FreshInv, Goto, TypeOK
<1>5. InsertInv'
  BY DEF InsertInv, Goto, TypeOK, WantInv, Versions
<1>6. TokenInv'
  BY DEF TokenInv, Goto, TypeOK, WantInv
<1>7. TargetInv'
  BY DEF TargetInv, Goto, TypeOK
<1>8. VersionInv'
  BY DEF VersionInv, Goto, TypeOK, Versions
<1>9. OneLiveTokenPerLogin'
  BY DEF OneLiveTokenPerLogin, Goto, TypeOK, Live
<1>10. ChainsAreLinear'
  BY DEF ChainsAreLinear, Goto, TypeOK, Committed
<1>11. MfaMarkIsProved'
  BY DEF MfaMarkIsProved, Goto, TypeOK, Committed
<1> QED BY <1>1, <1>2, <1>3, <1>4, <1>5, <1>6, <1>7, <1>8, <1>9, <1>10, <1>11

(* What a refresh reads is what the row it found carries for good.         *)
LEMMA FindPreserves ==
  ASSUME IInv, NEW a \in Attempts, Find(a)
  PROVE  IInv'
<1> USE DEF IInv, Find
<1>1. TypeOK'
  <2>1. want[a].token \in Attempts
    BY DEF WantInv, Wants
  <2>2. [version |-> row[want[a].token].version,
         mfa |-> row[want[a].token].mfa] \in Reads
    <3>1. CASE row[want[a].token] = NoRow
      BY <3>1 DEF NoRow, Reads
    <3>2. CASE row[want[a].token] # NoRow
      BY <2>1, <3>2, RowFields DEF Reads, Versions
    <3> QED BY <3>1, <3>2
  <2>3. pc' \in [Attempts -> Steps]
    BY DEF TypeOK, Steps, Goto
  <2>4. read' \in [Attempts -> Reads]
    BY <2>2 DEF TypeOK
  <2> QED BY <2>3, <2>4 DEF TypeOK
<1>2. LockInv'
  BY DEF LockInv, Goto, TypeOK, WantInv, TokenInv
<1>3. WantInv'
  BY DEF WantInv, Goto, TypeOK
<1>4. FreshInv'
  BY DEF FreshInv, Goto, TypeOK
<1>5. InsertInv'
  BY DEF InsertInv, Goto, TypeOK, WantInv, Versions
<1>6. TokenInv'
  <2>1. want[a].token \in Attempts
    BY DEF WantInv, Wants
  <2>2. ASSUME NEW b \in Attempts, b # a,
               pc'[b] \in {"current", "rotate", "commit", "revoke"}
        PROVE  /\ row[want[b].token] # NoRow
               /\ read'[b].version = row[want[b].token].version
               /\ read'[b].mfa => row[want[b].token].login \in proved
    BY <2>2 DEF TokenInv, TypeOK, Goto
  <2>3. ASSUME pc'[a] \in {"current", "rotate", "commit", "revoke"}
        PROVE  /\ row[want[a].token] # NoRow
               /\ read'[a].version = row[want[a].token].version
               /\ read'[a].mfa => row[want[a].token].login \in proved
    <3>1. row[want[a].token] # NoRow
      BY <2>1, <2>3 DEF TypeOK, Goto, Committed
    <3>2. /\ read'[a].version = row[want[a].token].version
          /\ read'[a].mfa = row[want[a].token].mfa
      BY DEF TypeOK
    <3> QED BY <2>1, <3>1, <3>2 DEF MfaMarkIsProved, Committed
  <2> QED BY <2>2, <2>3 DEF TokenInv
<1>7. TargetInv'
  BY DEF TargetInv, Goto, TypeOK
<1>8. VersionInv'
  BY DEF VersionInv, Goto, TypeOK, Versions
<1>9. OneLiveTokenPerLogin'
  BY DEF OneLiveTokenPerLogin, Goto, TypeOK, Live
<1>10. ChainsAreLinear'
  BY DEF ChainsAreLinear, Goto, TypeOK, Committed
<1>11. MfaMarkIsProved'
  BY DEF MfaMarkIsProved, Goto, TypeOK, Committed
<1> QED BY <1>1, <1>2, <1>3, <1>4, <1>5, <1>6, <1>7, <1>8, <1>9, <1>10, <1>11

(* The version check of a refresh.                                         *)
LEMMA CurrentPreserves ==
  ASSUME IInv, NEW a \in Attempts, Current(a)
  PROVE  IInv'
<1> USE DEF IInv, Current
<1>1. TypeOK'
  BY DEF TypeOK, Goto, Steps
<1>2. LockInv'
  BY DEF LockInv, Goto, TypeOK, WantInv, TokenInv
<1>3. WantInv'
  BY DEF WantInv, Goto, TypeOK
<1>4. FreshInv'
  BY DEF FreshInv, Goto, TypeOK
<1>5. InsertInv'
  BY DEF InsertInv, Goto, TypeOK, WantInv, Versions
<1>6. TokenInv'
  BY DEF TokenInv, Goto, TypeOK, WantInv
<1>7. TargetInv'
  BY DEF TargetInv, Goto, TypeOK
<1>8. VersionInv'
  BY DEF VersionInv, Goto, TypeOK, Versions
<1>9. OneLiveTokenPerLogin'
  BY DEF OneLiveTokenPerLogin, Goto, TypeOK, Live
<1>10. ChainsAreLinear'
  BY DEF ChainsAreLinear, Goto, TypeOK, Committed
<1>11. MfaMarkIsProved'
  BY DEF MfaMarkIsProved, Goto, TypeOK, Committed
<1> QED BY <1>1, <1>2, <1>3, <1>4, <1>5, <1>6, <1>7, <1>8, <1>9, <1>10, <1>11

(* A refused refresh.                                                      *)
LEMMA NotCurrentPreserves ==
  ASSUME IInv, NEW a \in Attempts, NotCurrent(a)
  PROVE  IInv'
<1> USE DEF IInv, NotCurrent
<1>1. TypeOK'
  BY DEF TypeOK, Goto, Steps
<1>2. LockInv'
  BY DEF LockInv, Goto, TypeOK, WantInv, TokenInv
<1>3. WantInv'
  BY DEF WantInv, Goto, TypeOK
<1>4. FreshInv'
  BY DEF FreshInv, Goto, TypeOK
<1>5. InsertInv'
  BY DEF InsertInv, Goto, TypeOK, WantInv, Versions
<1>6. TokenInv'
  BY DEF TokenInv, Goto, TypeOK, WantInv
<1>7. TargetInv'
  BY DEF TargetInv, Goto, TypeOK
<1>8. VersionInv'
  BY DEF VersionInv, Goto, TypeOK, Versions
<1>9. OneLiveTokenPerLogin'
  BY DEF OneLiveTokenPerLogin, Goto, TypeOK, Live
<1>10. ChainsAreLinear'
  BY DEF ChainsAreLinear, Goto, TypeOK, Committed
<1>11. MfaMarkIsProved'
  BY DEF MfaMarkIsProved, Goto, TypeOK, Committed
<1> QED BY <1>1, <1>2, <1>3, <1>4, <1>5, <1>6, <1>7, <1>8, <1>9, <1>10, <1>11

(* A rotation locks the live row it revokes.                               *)
LEMMA RotatePreserves ==
  ASSUME IInv, NEW a \in Attempts, Rotate(a)
  PROVE  IInv'
<1> USE DEF IInv, Rotate
<1>1. TypeOK'
  BY DEF TypeOK, Goto, Steps
<1>2. LockInv'
  <2>1. \A b \in Attempts : pc[b] # "idle" => want[b].token \in Attempts
    BY DEF WantInv, Wants
  <2> QED BY <2>1 DEF LockInv, TypeOK, Goto
<1>3. WantInv'
  BY DEF WantInv, Goto, TypeOK
<1>4. FreshInv'
  BY DEF FreshInv, Goto, TypeOK
<1>5. InsertInv'
  BY DEF InsertInv, Goto, TypeOK, WantInv, Versions
<1>6. TokenInv'
  BY DEF TokenInv, Goto, TypeOK, WantInv
<1>7. TargetInv'
  BY DEF TargetInv, Goto, TypeOK
<1>8. VersionInv'
  BY DEF VersionInv, Goto, TypeOK, Versions
<1>9. OneLiveTokenPerLogin'
  BY DEF OneLiveTokenPerLogin, Goto, TypeOK, Live
<1>10. ChainsAreLinear'
  BY DEF ChainsAreLinear, Goto, TypeOK, Committed
<1>11. MfaMarkIsProved'
  BY DEF MfaMarkIsProved, Goto, TypeOK, Committed
<1> QED BY <1>1, <1>2, <1>3, <1>4, <1>5, <1>6, <1>7, <1>8, <1>9, <1>10, <1>11

(* A rotation that finds its row revoked.                                  *)
LEMMA RotateLosesPreserves ==
  ASSUME IInv, NEW a \in Attempts, RotateLoses(a)
  PROVE  IInv'
<1> USE DEF IInv, RotateLoses
<1>1. TypeOK'
  BY DEF TypeOK, Goto, Steps
<1>2. LockInv'
  BY DEF LockInv, Goto, TypeOK, WantInv, TokenInv
<1>3. WantInv'
  BY DEF WantInv, Goto, TypeOK
<1>4. FreshInv'
  BY DEF FreshInv, Goto, TypeOK
<1>5. InsertInv'
  BY DEF InsertInv, Goto, TypeOK, WantInv, Versions
<1>6. TokenInv'
  BY DEF TokenInv, Goto, TypeOK, WantInv
<1>7. TargetInv'
  BY DEF TargetInv, Goto, TypeOK
<1>8. VersionInv'
  BY DEF VersionInv, Goto, TypeOK, Versions
<1>9. OneLiveTokenPerLogin'
  BY DEF OneLiveTokenPerLogin, Goto, TypeOK, Live
<1>10. ChainsAreLinear'
  BY DEF ChainsAreLinear, Goto, TypeOK, Committed
<1>11. MfaMarkIsProved'
  BY DEF MfaMarkIsProved, Goto, TypeOK, Committed
<1> QED BY <1>1, <1>2, <1>3, <1>4, <1>5, <1>6, <1>7, <1>8, <1>9, <1>10, <1>11

(* A rotation hands the chain on: the row it locked is still live, and     *)
(* the new row is the only one at its place.                               *)
LEMMA CommitPreserves ==
  ASSUME IInv, NEW a \in Attempts, Commit(a)
  PROVE  IInv' /\ HandedOn(want[a].token, a)
<1> DEFINE t == want[a].token
           old == [row[t] EXCEPT !.live = FALSE, !.next = a]
           new == [live |-> TRUE, version |-> read[a].version,
                   login |-> row[t].login, next |-> NoOne, mfa |-> read[a].mfa]
<1>0. /\ pc[a] = "commit"
      /\ row' = [row EXCEPT ![t] = old, ![a] = new]
      /\ lock' = [lock EXCEPT ![t] = NoOne]
      /\ access' = [access EXCEPT ![a] = read[a].version]
      /\ pc' = [pc EXCEPT ![a] = "done"]
      /\ UNCHANGED <<version, want, read, targets, ended, proved>>
  BY DEF Commit, Goto
<1>00. /\ t \in Attempts /\ lock[t] = a /\ row[t].live /\ row[t] # NoRow
       /\ row[a] = NoRow /\ a # t
       /\ read[a].version = row[t].version
       /\ read[a].mfa => row[t].login \in proved
  BY <1>0 DEF IInv, WantInv, Wants, LockInv, FreshInv, TokenInv
<1>02. /\ row[t] \in Rows /\ row[t].version \in Versions
       /\ row[t].login \in Attempts /\ row[t].next = NoOne
       /\ read[a].mfa \in BOOLEAN
  BY <1>00, RowFields DEF IInv, ChainsAreLinear, Committed, TypeOK, Reads
<1>03. /\ old \in Rows /\ old # NoRow /\ ~old.live
       /\ old.version = row[t].version /\ old.login = row[t].login
       /\ old.next = a /\ old.mfa = row[t].mfa
  <2> HIDE DEF t
  <2> QED BY <1>02 DEF Rows, NoRow
<1>04. /\ new \in Rows /\ new # NoRow /\ new.live
       /\ new.version = row[t].version /\ new.login = row[t].login
       /\ new.next = NoOne /\ new.mfa = read[a].mfa
  <2> HIDE DEF t
  <2> QED BY <1>00, <1>02, RowStored
<1> HIDE DEF t, old, new
<1>01. /\ row' \in [Attempts -> Rows \cup {NoRow}]
       /\ row'[a] = new /\ row'[t] = old
       /\ \A s \in Attempts \ {a, t} : row'[s] = row[s]
  BY <1>0, <1>00, <1>03, <1>04 DEF IInv, TypeOK
<1>05. \A s \in Attempts : row[s] # NoRow =>
         /\ row[s].login \in Attempts
         /\ row[s].next \in Attempts \cup {NoOne}
         /\ row[s].next # a
  <2>1. \A s \in Attempts : row[s] # NoRow =>
          row[s].login \in Attempts /\ row[s].next \in Attempts \cup {NoOne}
    BY RowFields DEF IInv
  <2> QED BY <1>00, <2>1 DEF IInv, ChainsAreLinear, Committed, NoRow
<1>06. \A s \in Attempts : row[s].live => row[s] # NoRow
  BY RowFields DEF IInv
<1>07. \A b \in Attempts : pc[b] # "idle" => want[b].token \in Attempts
  BY DEF IInv, WantInv, Wants
<1> USE DEF IInv
<1>1. TypeOK'
  <2>1. lock' \in [Attempts -> Attempts \cup {NoOne}]
    BY <1>0 DEF TypeOK
  <2>2. access' \in [Attempts -> 0..MaxVersion]
    BY <1>0 DEF TypeOK, Reads
  <2>3. pc' \in [Attempts -> Steps]
    BY <1>0 DEF TypeOK, Steps
  <2> QED BY <1>0, <1>01, <2>1, <2>2, <2>3 DEF TypeOK
<1>2. LockInv'
  <2>1. ASSUME NEW s \in Attempts, lock'[s] # NoOne
        PROVE  pc'[lock'[s]] = "commit" /\ want'[lock'[s]].token = s
    BY <1>0, <2>1 DEF LockInv, TypeOK, t
  <2>2. ASSUME NEW b \in Attempts, pc'[b] = "commit"
        PROVE  lock'[want'[b].token] = b /\ row'[want'[b].token].live
    <3>1. b # a /\ pc[b] = "commit" /\ want[b].token # t
      BY <1>0, <1>00, <2>2 DEF LockInv, TypeOK
    <3>2. want[b].token # a
      BY <1>00, <1>06, <3>1 DEF LockInv
    <3> QED BY <1>0, <1>01, <1>07, <3>1, <3>2 DEF LockInv, TypeOK
  <2> QED BY <2>1, <2>2 DEF LockInv
<1>3. WantInv'
  BY <1>0 DEF WantInv, TypeOK
<1>4. FreshInv'
  BY <1>0, <1>00, <1>01 DEF FreshInv, TypeOK
<1>5. InsertInv'
  BY <1>0 DEF InsertInv, TypeOK
<1>6. TokenInv'
  <2> SUFFICES ASSUME NEW b \in Attempts,
                      pc'[b] \in {"current", "rotate", "commit", "revoke"}
               PROVE  /\ row'[want'[b].token] # NoRow
                      /\ read'[b].version = row'[want'[b].token].version
                      /\ read'[b].mfa => row'[want'[b].token].login \in proved'
    BY DEF TokenInv
  <2>0. pc[b] \in {"current", "rotate", "commit", "revoke"}
    BY <1>0 DEF TypeOK
  <2>1. want[b].token \in Attempts \ {a}
    BY <1>00, <1>07, <2>0 DEF TokenInv
  <2> QED BY <1>0, <1>01, <1>03, <2>0, <2>1 DEF TokenInv
<1>7. TargetInv'
  BY <1>0, <1>01, <1>03, <1>04 DEF TargetInv, TypeOK
<1>8. VersionInv'
  <2>1. \A s \in Attempts : row[s] # NoRow => row'[s] # NoRow
    BY <1>00, <1>01, <1>03
  <2>2. ended \subseteq Attempts
    BY DEF TypeOK
  <2>3. \A l \in ended' : row'[l] # NoRow
    BY <1>0, <2>1, <2>2 DEF VersionInv
  <2>4. ASSUME NEW s \in Attempts, row'[s] # NoRow
        PROVE  /\ row'[s].version <= version'
               /\ row'[s].login \in ended' => row'[s].version < version'
               /\ access'[s] = row'[s].version
               /\ row'[row'[s].login] # NoRow
    <3>1. CASE s = a
      BY <1>0, <1>00, <1>01, <1>02, <1>04, <2>1, <3>1 DEF VersionInv, TypeOK
    <3>2. CASE s = t
      BY <1>0, <1>00, <1>01, <1>02, <1>03, <2>1, <3>2 DEF VersionInv, TypeOK
    <3>3. CASE s # a /\ s # t
      BY <1>0, <1>01, <1>05, <2>1, <2>4, <3>3 DEF VersionInv, TypeOK
    <3> QED BY <3>1, <3>2, <3>3
  <2> QED BY <2>3, <2>4 DEF VersionInv
<1>9. OneLiveTokenPerLogin'
  BY <1>00, <1>01, <1>03, <1>04 DEF OneLiveTokenPerLogin, Live
<1>10. ChainsAreLinear'
  <2> SUFFICES ASSUME NEW s \in Attempts, row'[s] # NoRow
               PROVE  /\ row'[s].next # NoOne =>
                           /\ ~row'[s].live
                           /\ row'[row'[s].next].login = row'[s].login
                           /\ row'[row'[s].next].version = row'[s].version
                           /\ \A u \in Attempts : row'[u] # NoRow /\ row'[u].next = row'[s].next => u = s
                      /\ row'[s].login # s => \E u \in Attempts : row'[u] # NoRow /\ row'[u].next = s
    BY DEF ChainsAreLinear, Committed
  <2>1. CASE s = a
    BY <1>00, <1>01, <1>03, <1>04, <2>1
  <2>2. CASE s = t
    <3>1. \A u \in Attempts : row'[u] # NoRow /\ row'[u].next = a => u = t
      BY <1>01, <1>04, <1>05, NoAttemptAssumption
    <3>2. row[t].login # t => \E u \in Attempts \ {a, t} : row[u] # NoRow /\ row[u].next = t
      BY <1>00, <1>02 DEF ChainsAreLinear, Committed
    <3>3. row[t].login # t => \E u \in Attempts : row'[u] # NoRow /\ row'[u].next = t
      BY <1>01, <3>2
    <3> QED BY <1>00, <1>01, <1>03, <1>04, <2>2, <3>1, <3>3
  <2>3. CASE s # a /\ s # t
    <3>0. row'[s] = row[s] /\ row[s] # NoRow
      BY <1>01, <2>3
    <3>1. ASSUME row[s].next # NoOne
          PROVE  /\ ~row[s].live
                 /\ row'[row[s].next].login = row[s].login
                 /\ row'[row[s].next].version = row[s].version
                 /\ \A u \in Attempts : row'[u] # NoRow /\ row'[u].next = row[s].next => u = s
      <4>1. row[s].next \in Attempts \ {a}
        BY <1>05, <3>0, <3>1
      <4>2. /\ ~row[s].live
            /\ row[row[s].next].login = row[s].login
            /\ row[row[s].next].version = row[s].version
            /\ \A u \in Attempts : row[u] # NoRow /\ row[u].next = row[s].next => u = s
        BY <3>0, <3>1 DEF ChainsAreLinear, Committed
      <4> QED BY <1>01, <1>03, <1>04, <3>1, <4>1, <4>2
    <3>2. row[s].login # s => \E u \in Attempts \ {a, t} : row[u] # NoRow /\ row[u].next = s
      BY <1>00, <1>02, <3>0 DEF ChainsAreLinear, Committed
    <3>3. row[s].login # s => \E u \in Attempts : row'[u] # NoRow /\ row'[u].next = s
      BY <1>01, <3>2
    <3> QED BY <3>0, <3>1, <3>3
  <2> QED BY <2>1, <2>2, <2>3
<1>11. MfaMarkIsProved'
  BY <1>0, <1>00, <1>01, <1>03, <1>04 DEF MfaMarkIsProved, Committed
<1>12. HandedOn(want[a].token, a)
  BY <1>00, <1>01, <1>02, <1>03, <1>04 DEF HandedOn, t
<1> QED BY <1>1, <1>2, <1>3, <1>4, <1>5, <1>6, <1>7, <1>8, <1>9, <1>10, <1>11,
           <1>12

(* A logout waits for a rotation of its row, so no locked row is revoked.  *)
LEMMA RevokePreserves ==
  ASSUME IInv, NEW a \in Attempts, Revoke(a)
  PROVE  IInv' /\ RowsKept
<1> DEFINE t == want[a].token
<1>0. /\ pc[a] = "revoke" /\ lock[t] = NoOne
      /\ row' = [row EXCEPT ![t].live = FALSE]
      /\ pc' = [pc EXCEPT ![a] = "done"]
      /\ UNCHANGED <<lock, version, want, read, targets, access, ended, proved>>
  BY DEF Revoke, Goto
<1>00. t \in Attempts
  BY <1>0 DEF IInv, WantInv, Wants
<1> HIDE DEF t
<1>01. /\ RowsKept
       /\ \A s \in Attempts : row'[s].mfa = row[s].mfa
       /\ \A s \in Attempts \ {t} : row'[s] = row[s]
  <2>1. \A s \in Attempts : row[s] \in Rows \cup {NoRow} /\ row[s].live \in BOOLEAN
    BY RowFields DEF IInv, TypeOK
  <2>2. row \in [Attempts -> Rows \cup {NoRow}]
    BY DEF IInv, TypeOK
  <2> HIDE DEF IInv
  <2>3. row'[t] = [row[t] EXCEPT !.live = FALSE]
    BY <1>0, <1>00, <2>2
  <2>4. \A s \in Attempts \ {t} : row'[s] = row[s]
    BY <1>0, <1>00, <2>2
  <2>5. /\ row'[t] \in Rows \cup {NoRow}
        /\ row'[t] = NoRow <=> row[t] = NoRow
        /\ row'[t].live = FALSE
        /\ row'[t].version = row[t].version
        /\ row'[t].login = row[t].login
        /\ row'[t].next = row[t].next
        /\ row'[t].mfa = row[t].mfa
    BY <1>00, <2>1, <2>3, RowRevoked
  <2> QED BY <1>00, <2>1, <2>4, <2>5 DEF RowsKept
<1> USE DEF IInv
<1>1. TypeOK'
  <2>1. row' \in [Attempts -> Rows \cup {NoRow}]
    BY <1>0, <1>01 DEF RowsKept, TypeOK
  <2>2. pc' \in [Attempts -> Steps]
    BY <1>0 DEF TypeOK, Steps
  <2> QED BY <1>0, <2>1, <2>2 DEF TypeOK
<1>2. LockInv'
  <2>1. \A b \in Attempts : pc[b] = "commit" => want[b].token # t
    BY <1>0 DEF LockInv
  <2>2. \A b \in Attempts : pc[b] = "commit" => want[b].token \in Attempts
    BY DEF WantInv, Wants
  <2> QED BY <1>0, <1>01, <2>1, <2>2 DEF LockInv, TypeOK
<1>3. WantInv'
  BY <1>0 DEF WantInv, TypeOK
<1>4. FreshInv'
  BY <1>0, <1>01 DEF FreshInv, TypeOK, RowsKept
<1>5. InsertInv'
  BY <1>0 DEF InsertInv, TypeOK
<1>6. TokenInv'
  <2> SUFFICES ASSUME NEW b \in Attempts,
                      pc[b] \in {"current", "rotate", "commit", "revoke"}
               PROVE  /\ row'[want[b].token] # NoRow
                      /\ read[b].version = row'[want[b].token].version
                      /\ read[b].mfa => row'[want[b].token].login \in proved
    BY <1>0 DEF TokenInv, TypeOK
  <2>1. want[b].token \in Attempts
    BY DEF WantInv, Wants
  <2> QED BY <1>0, <1>01, <2>1 DEF TokenInv, RowsKept
<1>7. TargetInv'
  BY <1>0, <1>01, KeptRows
<1>8. VersionInv'
  BY <1>0, <1>01, KeptRows
<1>9. OneLiveTokenPerLogin'
  BY <1>0, <1>01, KeptRows
<1>10. ChainsAreLinear'
  BY <1>0, <1>01, KeptRows
<1>11. MfaMarkIsProved'
  BY <1>0, <1>01 DEF MfaMarkIsProved, Committed, RowsKept
<1> QED BY <1>1, <1>2, <1>3, <1>4, <1>5, <1>6, <1>7, <1>8, <1>9, <1>10, <1>11,
           <1>01

(* A bump leaves every stored row, and so every ended login, behind.       *)
LEMMA BumpPreserves ==
  ASSUME IInv, NEW a \in Attempts, Bump(a)
  PROVE  IInv'
<1> USE DEF IInv, Bump
<1>1. TypeOK'
  <2>1. version' \in Versions
    BY DEF TypeOK, Versions
  <2>2. ended' \subseteq Attempts
    BY RowFields DEF TypeOK, Committed
  <2>3. pc' \in [Attempts -> Steps]
    BY DEF TypeOK, Steps, Goto
  <2> QED BY <2>1, <2>2, <2>3 DEF TypeOK
<1>2. LockInv'
  BY DEF LockInv, Goto, TypeOK, WantInv, TokenInv
<1>3. WantInv'
  BY DEF WantInv, Goto, TypeOK
<1>4. FreshInv'
  BY DEF FreshInv, Goto, TypeOK
<1>5. InsertInv'
  BY DEF InsertInv, Goto, TypeOK, WantInv, Versions
<1>6. TokenInv'
  BY DEF TokenInv, Goto, TypeOK, WantInv
<1>7. TargetInv'
  BY DEF TargetInv, Goto, TypeOK
<1>8. VersionInv'
  <2>1. version \in Nat
    BY DEF TypeOK, Versions
  <2>2. \A t \in Attempts : row[t] # NoRow => row[t].version \in Nat
    BY RowFields DEF Versions
  <2>3. \A l \in ended' : row[l] # NoRow
    BY DEF VersionInv, Committed
  <2> QED BY <2>1, <2>2, <2>3 DEF VersionInv
<1>9. OneLiveTokenPerLogin'
  BY DEF OneLiveTokenPerLogin, Goto, TypeOK, Live
<1>10. ChainsAreLinear'
  BY DEF ChainsAreLinear, Goto, TypeOK, Committed
<1>11. MfaMarkIsProved'
  BY DEF MfaMarkIsProved, Goto, TypeOK, Committed
<1> QED BY <1>1, <1>2, <1>3, <1>4, <1>5, <1>6, <1>7, <1>8, <1>9, <1>10, <1>11

(* A sweep's snapshot.                                                     *)
LEMMA SweepPreserves ==
  ASSUME IInv, NEW a \in Attempts, Sweep(a)
  PROVE  IInv'
<1> USE DEF IInv, Sweep
<1>1. TypeOK'
  BY DEF TypeOK, Goto, Steps, Live
<1>2. LockInv'
  BY DEF LockInv, Goto, TypeOK, WantInv, TokenInv, Live
<1>3. WantInv'
  BY DEF WantInv, Goto, TypeOK, Live
<1>4. FreshInv'
  BY DEF FreshInv, Goto, TypeOK, Live
<1>5. InsertInv'
  BY DEF InsertInv, Goto, TypeOK, WantInv, Versions, Live
<1>6. TokenInv'
  BY DEF TokenInv, Goto, TypeOK, WantInv, Live
<1>7. TargetInv'
  <2>1. \A t \in Live : row[t] # NoRow
    BY RowFields DEF Live
  <2> QED BY <2>1 DEF TargetInv, TypeOK
<1>8. VersionInv'
  BY DEF VersionInv, Goto, TypeOK, Versions, Live
<1>9. OneLiveTokenPerLogin'
  BY DEF OneLiveTokenPerLogin, Goto, TypeOK, Live
<1>10. ChainsAreLinear'
  BY DEF ChainsAreLinear, Goto, TypeOK, Committed, Live
<1>11. MfaMarkIsProved'
  BY DEF MfaMarkIsProved, Goto, TypeOK, Committed, Live
<1> QED BY <1>1, <1>2, <1>3, <1>4, <1>5, <1>6, <1>7, <1>8, <1>9, <1>10, <1>11

(* A sweep revokes no locked row.                                          *)
LEMMA SweepEndsPreserves ==
  ASSUME IInv, NEW a \in Attempts, SweepEnds(a)
  PROVE  IInv' /\ RowsKept
<1> DEFINE next == IF want[a].kind = "enroll" THEN "read" ELSE "done"
<1>0. /\ pc[a] = "sweeping"
      /\ \A t \in targets[a] : lock[t] = NoOne
      /\ row' = [t \in Attempts |-> IF t \in targets[a]
                   THEN [row[t] EXCEPT !.live = FALSE] ELSE row[t]]
      /\ pc' = [pc EXCEPT ![a] = next]
      /\ next \in {"read", "done"}
      /\ UNCHANGED <<lock, version, want, read, targets, access, ended, proved>>
  BY DEF SweepEnds, Goto
<1> HIDE DEF next
<1>01. /\ RowsKept
       /\ \A s \in Attempts : row'[s].mfa = row[s].mfa
       /\ \A s \in Attempts : lock[s] # NoOne => row'[s] = row[s]
  <2>1. \A s \in Attempts : row[s] \in Rows \cup {NoRow} /\ row[s].live \in BOOLEAN
    BY RowFields DEF IInv, TypeOK
  <2>2. \A s \in Attempts : \/ row'[s] = [row[s] EXCEPT !.live = FALSE] /\ lock[s] = NoOne
                            \/ row'[s] = row[s]
    BY <1>0
  <2> SUFFICES ASSUME NEW s \in Attempts
               PROVE  /\ row'[s] \in Rows \cup {NoRow}
                      /\ row'[s] = NoRow <=> row[s] = NoRow
                      /\ row'[s].live => row[s].live
                      /\ row'[s].version = row[s].version
                      /\ row'[s].login = row[s].login
                      /\ row'[s].next = row[s].next
                      /\ row'[s].mfa = row[s].mfa
                      /\ lock[s] # NoOne => row'[s] = row[s]
    BY DEF RowsKept
  <2>3. CASE row'[s] = row[s]
    BY <2>1, <2>3
  <2>4. CASE row'[s] = [row[s] EXCEPT !.live = FALSE] /\ lock[s] = NoOne
    BY <2>1, <2>4, RowRevoked
  <2> QED BY <2>2, <2>3, <2>4
<1> USE DEF IInv
<1>1. TypeOK'
  <2>1. row' \in [Attempts -> Rows \cup {NoRow}]
    BY <1>0, <1>01 DEF RowsKept
  <2>2. pc' \in [Attempts -> Steps]
    BY <1>0 DEF TypeOK, Steps
  <2> QED BY <1>0, <2>1, <2>2 DEF TypeOK
<1>2. LockInv'
  <2>1. \A b \in Attempts : pc[b] = "commit" => want[b].token \in Attempts
    BY DEF WantInv, Wants
  <2>2. \A b \in Attempts : pc[b] = "commit" => lock[want[b].token] # NoOne
    BY DEF LockInv
  <2> QED BY <1>0, <1>01, <2>1, <2>2 DEF LockInv, TypeOK
<1>3. WantInv'
  BY <1>0 DEF WantInv, TypeOK
<1>4. FreshInv'
  BY <1>0, <1>01 DEF FreshInv, TypeOK, RowsKept
<1>5. InsertInv'
  BY <1>0 DEF InsertInv, TypeOK
<1>6. TokenInv'
  <2> SUFFICES ASSUME NEW b \in Attempts,
                      pc[b] \in {"current", "rotate", "commit", "revoke"}
               PROVE  /\ row'[want[b].token] # NoRow
                      /\ read[b].version = row'[want[b].token].version
                      /\ read[b].mfa => row'[want[b].token].login \in proved
    BY <1>0 DEF TokenInv, TypeOK
  <2>1. want[b].token \in Attempts
    BY DEF WantInv, Wants
  <2> QED BY <1>0, <1>01, <2>1 DEF TokenInv, RowsKept
<1>7. TargetInv'
  BY <1>0, <1>01, KeptRows
<1>8. VersionInv'
  BY <1>0, <1>01, KeptRows
<1>9. OneLiveTokenPerLogin'
  BY <1>0, <1>01, KeptRows
<1>10. ChainsAreLinear'
  BY <1>0, <1>01, KeptRows
<1>11. MfaMarkIsProved'
  BY <1>0, <1>01 DEF MfaMarkIsProved, Committed, RowsKept
<1> QED BY <1>1, <1>2, <1>3, <1>4, <1>5, <1>6, <1>7, <1>8, <1>9, <1>10, <1>11,
           <1>01

(* A request that dies gives up its lock.                                  *)
LEMMA DiePreserves ==
  ASSUME IInv, NEW a \in Attempts, Die(a)
  PROVE  IInv'
<1> USE DEF IInv, Die
<1>1. TypeOK'
  BY DEF TypeOK, Goto, Steps
<1>2. LockInv'
  <2>1. \A b \in Attempts : pc[b] = "commit" => want[b].token \in Attempts
    BY DEF WantInv, Wants
  <2> QED BY <2>1 DEF LockInv, TypeOK, Goto
<1>3. WantInv'
  BY DEF WantInv, Goto, TypeOK
<1>4. FreshInv'
  BY DEF FreshInv, Goto, TypeOK
<1>5. InsertInv'
  BY DEF InsertInv, Goto, TypeOK, WantInv, Versions
<1>6. TokenInv'
  BY DEF TokenInv, Goto, TypeOK, WantInv
<1>7. TargetInv'
  BY DEF TargetInv, Goto, TypeOK
<1>8. VersionInv'
  BY DEF VersionInv, Goto, TypeOK, Versions
<1>9. OneLiveTokenPerLogin'
  BY DEF OneLiveTokenPerLogin, Goto, TypeOK, Live
<1>10. ChainsAreLinear'
  BY DEF ChainsAreLinear, Goto, TypeOK, Committed
<1>11. MfaMarkIsProved'
  BY DEF MfaMarkIsProved, Goto, TypeOK, Committed
<1> QED BY <1>1, <1>2, <1>3, <1>4, <1>5, <1>6, <1>7, <1>8, <1>9, <1>10, <1>11

-----------------------------------------------------------------------------
(* The invariant.                                                          *)

(* Nothing is stored, locked or ended at first.                            *)
LEMMA InitIInv == Init => IInv
<1> SUFFICES ASSUME Init PROVE IInv
  OBVIOUS
<1> USE DEF Init
<1>1. TypeOK
  BY DEF TypeOK, Versions, Steps, Reads, NoRead
<1>2. /\ LockInv /\ WantInv /\ FreshInv /\ InsertInv /\ TokenInv
      /\ TargetInv /\ VersionInv
  BY DEF LockInv, WantInv, FreshInv, InsertInv, TokenInv, TargetInv, VersionInv
<1>3. OneLiveTokenPerLogin /\ ChainsAreLinear /\ MfaMarkIsProved
  BY DEF OneLiveTokenPerLogin, Live, ChainsAreLinear, MfaMarkIsProved,
         Committed, NoRow
<1> QED BY <1>1, <1>2, <1>3 DEF IInv

(* Every step preserves the invariant and does no more to the rows than    *)
(* RowStep says.                                                           *)
LEMMA StepIInv ==
  ASSUME IInv, [Next]_vars
  PROVE  IInv' /\ RowStep
<1>1. ASSUME UNCHANGED row PROVE RowStep
  BY <1>1 DEF RowStep, RowsKept, IInv, TypeOK
<1>2. CASE UNCHANGED vars
  <2>1. IInv'
    BY <1>2 DEF vars, IInv, TypeOK, LockInv, WantInv, FreshInv, InsertInv,
         TokenInv, TargetInv, VersionInv, OneLiveTokenPerLogin, Live,
         ChainsAreLinear, MfaMarkIsProved, Committed
  <2> QED BY <1>1, <1>2, <2>1 DEF vars
<1>3. ASSUME NEW a \in Attempts, Begin(a) PROVE IInv' /\ RowStep
  BY <1>1, <1>3, BeginPreserves DEF Begin
<1>4. ASSUME NEW a \in Attempts, Die(a) PROVE IInv' /\ RowStep
  BY <1>1, <1>4, DiePreserves DEF Die
<1>5. ASSUME NEW a \in Attempts, Proceed(a) PROVE IInv' /\ RowStep
  <2>1. CASE ReadVersion(a)
    BY <1>1, <2>1, ReadVersionPreserves DEF ReadVersion
  <2>2. CASE Insert(a)
    BY <2>2, InsertPreserves DEF RowStep
  <2>3. CASE Mark(a)
    BY <2>3, MarkPreserves DEF RowStep
  <2>4. CASE MarkRefused(a)
    BY <1>1, <2>4, MarkRefusedPreserves DEF MarkRefused
  <2>5. CASE Find(a)
    BY <1>1, <2>5, FindPreserves DEF Find
  <2>6. CASE Current(a)
    BY <1>1, <2>6, CurrentPreserves DEF Current
  <2>7. CASE NotCurrent(a)
    BY <1>1, <2>7, NotCurrentPreserves DEF NotCurrent
  <2>8. CASE Rotate(a)
    BY <1>1, <2>8, RotatePreserves DEF Rotate
  <2>9. CASE RotateLoses(a)
    BY <1>1, <2>9, RotateLosesPreserves DEF RotateLoses
  <2>10. CASE Commit(a)
    BY <2>10, CommitPreserves DEF RowStep, HandedOn
  <2>11. CASE Revoke(a)
    BY <2>11, RevokePreserves DEF RowStep
  <2>12. CASE Bump(a)
    BY <1>1, <2>12, BumpPreserves DEF Bump
  <2>13. CASE Sweep(a)
    BY <1>1, <2>13, SweepPreserves DEF Sweep
  <2>14. CASE SweepEnds(a)
    BY <2>14, SweepEndsPreserves DEF RowStep
  <2> QED BY <1>5, <2>1, <2>2, <2>3, <2>4, <2>5, <2>6, <2>7, <2>8, <2>9,
             <2>10, <2>11, <2>12, <2>13, <2>14 DEF Proceed
<1> QED BY <1>2, <1>3, <1>4, <1>5 DEF Next

(* The strengthened invariant holds throughout every execution.            *)
THEOREM Invariance == Spec => []IInv
<1>1. IInv /\ [Next]_vars => IInv'
  BY StepIInv
<1> QED BY InitIInv, <1>1, PTL DEF Spec

-----------------------------------------------------------------------------
(* What it gives.                                                          *)

(* Every variable keeps its type.                                          *)
THEOREM TypeCorrect == Spec => []TypeOK
<1>1. IInv => TypeOK
  BY DEF IInv
<1> QED BY Invariance, <1>1, PTL

(* No token is exchanged for two: however refreshes, retries, logouts and  *)
(* sweeps race, a login has at most one live refresh token.                *)
THEOREM OneLiveToken == Spec => []OneLiveTokenPerLogin
<1>1. IInv => OneLiveTokenPerLogin
  BY DEF IInv
<1> QED BY Invariance, <1>1, PTL

(* Rotation is all or nothing and the rows of a login form one chain.      *)
THEOREM LinearChains == Spec => []ChainsAreLinear
<1>1. IInv => ChainsAreLinear
  BY DEF IInv
<1> QED BY Invariance, <1>1, PTL

(* After a version bump no refresh token and no access token of an earlier *)
(* login passes the version check, whichever sweep its rotation escaped.   *)
THEOREM EndedSessionsAreOver == Spec => []EndedSessionsStayOver
<1>1. IInv => EndedSessionsStayOver
  <2> SUFFICES ASSUME IInv, NEW t \in Attempts, row[t] # NoRow,
                      row[t].login \in ended
               PROVE  row[t].version # version /\ access[t] # version
    BY DEF EndedSessionsStayOver, Committed
  <2>1. row[t].version \in Nat /\ version \in Nat
    BY RowFields DEF IInv, TypeOK, Versions
  <2> QED BY <2>1 DEF IInv, VersionInv
<1> QED BY Invariance, <1>1, PTL

(* A session's MFA mark stems from a factor its user has proved.           *)
THEOREM MarksAreProved == Spec => []MfaMarkIsProved
<1>1. IInv => MfaMarkIsProved
  BY DEF IInv
<1> QED BY Invariance, <1>1, PTL

(* Nobody rewrites a stored row's session or version, or revives a revoked *)
(* row.                                                                    *)
THEOREM RevokedStaysRevoked == Spec => RevokedForGood
<1> DEFINE Stable ==
      \A t \in Committed :
        /\ row'[t].login = row[t].login
        /\ row'[t].version = row[t].version
        /\ ~row[t].live => ~row'[t].live /\ row'[t].next = row[t].next
<1>1. ASSUME IInv, [Next]_vars PROVE Stable
  <2>1. IInv' /\ RowStep /\ \A t \in Attempts : row[t].live \in BOOLEAN
    BY <1>1, StepIInv, RowFields DEF IInv
  <2>2. CASE RowsKept
    BY <2>1, <2>2 DEF RowsKept, Committed
  <2>3. ASSUME NEW a \in Attempts, Opened(a) PROVE Stable
    BY <2>3 DEF Opened, Committed
  <2>4. ASSUME NEW t \in Attempts, NEW a \in Attempts, HandedOn(t, a) PROVE Stable
    BY <2>4 DEF HandedOn, Committed
  <2> QED BY <2>1, <2>2, <2>3, <2>4 DEF RowStep
<1>2. IInv /\ [Next]_vars => [Stable]_vars
  BY <1>1
<1> QED BY Invariance, <1>2, PTL DEF Spec, RevokedForGood

-----------------------------------------------------------------------------
(* Refinement.                                                             *)

(* The head of a login's chain is its live token.                          *)
LEMMA HeadIs ==
  ASSUME OneLiveTokenPerLogin, NEW t \in Live
  PROVE  HeadOf(row[t].login) = t
<1> DEFINE P(s) == s \in Live /\ row[s].login = row[t].login
<1>1. \A s : P(s) <=> s = t
  BY DEF OneLiveTokenPerLogin
<1> QED BY <1>1 DEF HeadOf

(* The same of the next state.                                             *)
LEMMA HeadIsNext ==
  ASSUME OneLiveTokenPerLogin', NEW t \in Live', NEW l, row'[t].login = l
  PROVE  HeadOf(l)' = t
<1> DEFINE P(s) == s \in Live' /\ row'[s].login = l
<1>1. \A s : P(s) <=> s = t
  BY DEF OneLiveTokenPerLogin
<1> QED BY <1>1 DEF HeadOf

(* Every step of the tokens is a step of SessionChains or changes nothing  *)
(* it can see.                                                             *)
LEMMA StepRefines ==
  ASSUME IInv, [Next]_vars
  PROVE  [Chains!ChainsNext]_(Chains!chainVars)
<1> USE DEF IInv
<1>1. IInv' /\ RowStep
  BY StepIInv
<1>2. /\ OneLiveTokenPerLogin /\ OneLiveTokenPerLogin'
      /\ \A t \in Live : t \in Attempts /\ row[t].live /\ row[t] # NoRow
                         /\ row[t].login \in Attempts
  BY <1>1, RowFields DEF Live
<1>3. CASE RowsKept
  <2> DEFINE closed == {l \in Attempts : \A t \in Live' : row'[t].login # l}
  <2>1. \A l \in Attempts : HeadOf(l)' = IF l \in closed THEN NoOne ELSE HeadOf(l)
    <3> SUFFICES ASSUME NEW l \in Attempts
                 PROVE  HeadOf(l)' = IF l \in closed THEN NoOne ELSE HeadOf(l)
      OBVIOUS
    <3>1. CASE l \in closed
      BY <3>1 DEF HeadOf
    <3>2. CASE l \notin closed
      <4>1. PICK t \in Live' : row'[t].login = l
        BY <3>2
      <4>2. t \in Live /\ row[t].login = l
        BY <1>3, <4>1 DEF RowsKept, Live
      <4>3. HeadOf(l) = t
        BY <1>2, <4>2, HeadIs
      <4>4. HeadOf(l)' = t
        BY <1>2, <4>1, HeadIsNext
      <4> QED BY <3>2, <4>3, <4>4
    <3> QED BY <3>1, <3>2
  <2>2. Committed' = Committed
    BY <1>3 DEF RowsKept, Committed
  <2>3. Chains!Close(closed)
    BY <2>1, <2>2 DEF Chains!Close
  <2> QED BY <2>3 DEF Chains!ChainsNext
<1>4. ASSUME NEW a \in Attempts, Opened(a)
      PROVE  Chains!ChainsNext
  <2>1. Live' = Live \cup {a} /\ a \notin Live
    BY <1>2, <1>4 DEF Opened, Live
  <2>2. a \notin Committed /\ Committed' = Committed \cup {a}
    BY <1>4 DEF Opened, Committed
  <2>3. HeadOf(a) = NoOne
    BY <1>2, <1>4 DEF HeadOf, Opened
  <2>4. HeadOf(a)' = a
    BY <1>2, <1>4, <2>1, HeadIsNext DEF Opened
  <2>5. ASSUME NEW l \in Attempts, l # a PROVE HeadOf(l)' = HeadOf(l)
    <3>1. CASE \E t \in Live : row[t].login = l
      <4>1. PICK t \in Live : row[t].login = l
        BY <3>1
      <4>2. t \in Live' /\ row'[t].login = l
        BY <1>2, <1>4, <2>1, <4>1 DEF Opened, Live
      <4> QED BY <1>2, <4>1, <4>2, HeadIs, HeadIsNext
    <3>2. CASE ~\E t \in Live : row[t].login = l
      <4>1. ~\E t \in Live' : row'[t].login = l
        BY <1>2, <1>4, <2>1, <2>5, <3>2 DEF Opened
      <4> QED BY <3>2, <4>1 DEF HeadOf
    <3> QED BY <3>1, <3>2
  <2>6. Chains!Open(a)
    BY <2>2, <2>3, <2>4, <2>5 DEF Chains!Open
  <2> QED BY <2>6 DEF Chains!ChainsNext
<1>5. ASSUME NEW t \in Attempts, NEW a \in Attempts, HandedOn(t, a)
      PROVE  Chains!ChainsNext
  <2>0. PICK l \in Attempts : l = row[t].login
    BY <1>2, <1>5 DEF HandedOn, Live
  <2>1. t \in Live /\ a # t /\ l \in Attempts /\ HeadOf(l) = t
    BY <1>2, <1>5, <2>0, HeadIs DEF HandedOn, Live
  <2>2. Live' = (Live \ {t}) \cup {a} /\ a \notin Live
    BY <1>2, <1>5, <2>1 DEF HandedOn, Live
  <2>3. a \notin Committed /\ Committed' = Committed \cup {a}
    BY <1>5 DEF HandedOn, Committed
  <2>4. HeadOf(l)' = a
    BY <1>2, <1>5, <2>0, <2>2, HeadIsNext DEF HandedOn
  <2>5. ASSUME NEW k \in Attempts, k # l PROVE HeadOf(k)' = HeadOf(k)
    <3>1. CASE \E s \in Live : row[s].login = k
      <4>1. PICK s \in Live : row[s].login = k
        BY <3>1
      <4>2. s \in Live' /\ row'[s].login = k
        BY <1>2, <1>5, <2>0, <2>2, <2>5, <4>1 DEF HandedOn, Live
      <4> QED BY <1>2, <4>1, <4>2, HeadIs, HeadIsNext
    <3>2. CASE ~\E s \in Live : row[s].login = k
      <4>1. ~\E s \in Live' : row'[s].login = k
        BY <1>2, <1>5, <2>0, <2>2, <2>5, <3>2 DEF HandedOn
      <4> QED BY <3>2, <4>1 DEF HeadOf
    <3> QED BY <3>1, <3>2
  <2>6. Chains!Advance(l, a)
    BY <2>1, <2>3, <2>4, <2>5 DEF Chains!Advance
  <2> QED BY <2>1, <2>6 DEF Chains!ChainsNext
<1> QED BY <1>1, <1>3, <1>4, <1>5 DEF RowStep

(* Seen from outside, the tokens of an account are chains that are opened, *)
(* advanced and ended atomically.                                          *)
THEOREM TokensImplementChains == Spec => ImplementsChains
<1>1. Init => Chains!ChainsInit
  BY DEF Init, Chains!ChainsInit, HeadOf, Live, Committed, NoRow
<1>2. IInv /\ [Next]_vars => [Chains!ChainsNext]_(Chains!chainVars)
  BY StepRefines
<1> QED BY Invariance, <1>1, <1>2, PTL
          DEF Spec, ImplementsChains, Chains!ChainsSpec

-----------------------------------------------------------------------------
(* Deployment.                                                             *)

(* The steps of a migration that need the lock, and the states in which a  *)
(* process may have its schema checked.                                    *)
Holding == {"ensure", "read", "backfill", "reread", "apply", "record", "unlock"}
Serving == {"up", "closing", "cli"}

(* The rows R have every migration of release r as it is on its disk.      *)
Has(R, r) == \A n \in DOMAIN Files[r] : n \in DOMAIN R /\ R[n] = Files[r][n]

(* The migrations that a server has yet to apply, by what it has read.     *)
Due(l) == DOMAIN Files[l.release] \ DOMAIN l.applied

(* What each step of a server leaves to the next: the lock is with who     *)
(* migrates; only who serves, or checks, has an answer; who serves or is   *)
(* about to, and whose answer is good, has its files in the rows R; who    *)
(* applies has read the rows as they are, and who has yet to record a file *)
(* has executed it.                                                        *)
Sound(s, p, l, c, a, h, R, T) ==
  /\ p \in Holding <=> h = s
  /\ p \notin Serving => c = "none" /\ a = "none"
  /\ p \in {"up", "closing"} \/ a = "ready" \/ (p = "unlock" /\ ~l.fails) => Has(R, l.release)
  /\ p \in {"apply", "record"} => l.applied = R /\ Deploy!Matching(R, Files[l.release])
  /\ p = "record" =>
       LET n == Deploy!First(Due(l)) IN Due(l) # {} /\ n \in Plain /\ T[n] >= 1

(* MigratedOnce, of the rows R and the executions T.                       *)
Once(R, T) ==
  \A n \in Names :
    /\ n \in DOMAIN R => T[n] >= 1
    /\ n \notin Plain => T[n] = IF n \in DOMAIN R THEN 1 ELSE 0

Probes == {"none", "table", "rows"}
Answers == {"none", "ready", "unhealthy"}

DeployFits ==
  /\ table \in BOOLEAN
  /\ rows \in Deploy!Tables
  /\ times \in [Names -> 0..2]
  /\ migrator \in Servers \cup {Nobody}
  /\ stage \in [Servers -> Deploy!Phases]
  /\ mine \in [Servers -> Deploy!Locals]
  /\ probe \in [Servers -> Probes]
  /\ answer \in [Servers -> Answers]
  /\ Once(rows, times)
  /\ \A s \in Servers :
       Sound(s, stage[s], mine[s], probe[s], answer[s], migrator, rows, times)

(* No row is lost, and none with a checksum changes.                       *)
Grows(R, Q) ==
  /\ DOMAIN R \subseteq DOMAIN Q
  /\ \A n \in DOMAIN R : R[n] # "unrecorded" => Q[n] = R[n]

(* A set of names that is not empty has a first.                           *)
LEMMA FirstIs ==
  ASSUME NEW S \in SUBSET Names, S # {}
  PROVE  Deploy!First(S) \in S
<1> USE DeploymentParameters
<1> DEFINE R == {ss \in Nat \X Nat : ss[1] < ss[2]}
<1>1. IsWellFoundedOn(R, Nat)
  BY NatLessThanWellFounded, Zenon DEF OpToRel
<1> HIDE DEF R
<1>2. PICK x \in S : \A y \in S : ~(<<y, x>> \in R)
  BY <1>1, WFMin
<1>3. \A y \in S : ~(y < x)
  BY <1>2 DEF R
<1>4. \A y \in S : x <= y
  BY <1>3, SMT
<1> QED
  BY <1>4 DEF Deploy!First

(* A table is a function from names to checksums.                          *)
LEMMA TablesAre ==
  \A t : t \in Deploy!Tables <=> DOMAIN t \in SUBSET Names /\ t \in [DOMAIN t -> Deploy!Checksums]
  BY DEF Deploy!Tables

(* A file's content is a checksum that is recorded.                        *)
LEMMA FilesAre ==
  ASSUME NEW r \in Releases
  PROVE  /\ DOMAIN Files[r] \subseteq Names
         /\ \A n \in DOMAIN Files[r] :
              Files[r][n] \in Deploy!Checksums /\ Files[r][n] # "unrecorded"
  BY DeploymentParameters DEF Deploy!Checksums, Deploy!Contents

(* What a migration has done of its own lasts, whatever is recorded next.  *)
LEMMA HasLasts ==
  ASSUME NEW r \in Releases, NEW R, NEW Q, Grows(R, Q), Has(R, r)
  PROVE  Has(Q, r)
<1>1. ASSUME NEW n \in DOMAIN Files[r] PROVE n \in DOMAIN Q /\ Q[n] = Files[r][n]
  <2>1. n \in DOMAIN R /\ R[n] = Files[r][n] /\ R[n] # "unrecorded"
    BY FilesAre DEF Has
  <2> QED BY <2>1 DEF Grows
<1> QED BY <1>1 DEF Has

(* A step of one server, given by what it leaves in that server's place,   *)
(* keeps DeployFits when the place is sound, the lock goes only from or to *)
(* that server, and only the holder of the lock records.                   *)
LEMMA ServerMoves ==
  ASSUME DeployFits, NEW s \in Servers,
         NEW p \in Deploy!Phases, NEW l \in Deploy!Locals, NEW c \in Probes, NEW a \in Answers,
         stage' = [stage EXCEPT ![s] = p], mine' = [mine EXCEPT ![s] = l],
         probe' = [probe EXCEPT ![s] = c], answer' = [answer EXCEPT ![s] = a],
         table' \in BOOLEAN, rows' \in Deploy!Tables, times' \in [Names -> 0..2],
         \/ migrator' = migrator
         \/ migrator \in {s, Nobody} /\ migrator' \in {s, Nobody},
         \/ rows' = rows /\ times' = times
         \/ migrator = s /\ Grows(rows, rows'),
         Once(rows', times'),
         Sound(s, p, l, c, a, migrator', rows', times')
  PROVE  DeployFits'
<1> USE DeploymentParameters
<1>1. /\ stage' \in [Servers -> Deploy!Phases] /\ mine' \in [Servers -> Deploy!Locals]
      /\ probe' \in [Servers -> Probes] /\ answer' \in [Servers -> Answers]
      /\ migrator' \in Servers \cup {Nobody}
  BY DEF DeployFits
<1>2. ASSUME NEW t \in Servers
      PROVE  Sound(t, stage'[t], mine'[t], probe'[t], answer'[t], migrator', rows', times')
  <2>1. CASE t = s
    <3>1. stage'[t] = p /\ mine'[t] = l /\ probe'[t] = c /\ answer'[t] = a
      BY <2>1 DEF DeployFits
    <3> QED BY <3>1, <2>1
  <2>2. CASE t # s
    <3>1. stage'[t] = stage[t] /\ mine'[t] = mine[t] /\ probe'[t] = probe[t] /\ answer'[t] = answer[t]
      BY <2>2 DEF DeployFits
    <3>2. migrator' = t <=> migrator = t
      BY <2>2
    <3>3. Sound(t, stage[t], mine[t], probe[t], answer[t], migrator, rows, times)
      BY DEF DeployFits
    <3>4. CASE rows' = rows /\ times' = times
      BY <3>1, <3>2, <3>3, <3>4 DEF Sound
    <3>5. CASE migrator = s /\ Grows(rows, rows')
      <4>1. stage[t] \notin Holding
        BY <3>3, <3>5, <2>2 DEF Sound
      <4>2. mine[t].release \in Releases
        BY DEF DeployFits, Deploy!Locals
      <4>3. Has(rows, mine[t].release) => Has(rows', mine[t].release)
        BY <4>2, <3>5, HasLasts
      <4> QED
        BY <3>1, <3>2, <3>3, <4>1, <4>3 DEF Sound, Holding
    <3> QED BY <3>4, <3>5
  <2> QED BY <2>1, <2>2
<1> QED
  BY <1>1, <1>2 DEF DeployFits

(* What a process reads and remembers is of its types.                     *)
LEMMA LocalsAre ==
  ASSUME NEW l \in Deploy!Locals
  PROVE  /\ l.release \in Releases /\ l.applied \in Deploy!Tables /\ l.todo \in SUBSET Names
         /\ [l EXCEPT !.fails = TRUE] \in Deploy!Locals
         /\ \A t \in Deploy!Tables : [l EXCEPT !.applied = t] \in Deploy!Locals
         /\ \A t \in Deploy!Tables, d \in SUBSET Names :
              [l EXCEPT !.applied = t, !.todo = d] \in Deploy!Locals
         /\ \A d \in SUBSET Names : [l EXCEPT !.todo = d] \in Deploy!Locals
<1>1. PICK f \in BOOLEAN : l = [release |-> l.release, applied |-> l.applied, todo |-> l.todo, fails |-> f]
  BY DEF Deploy!Locals
<1> QED
  BY <1>1 DEF Deploy!Locals

(* A process that has just begun a release has read nothing.               *)
LEMMA FreshIs == \A r \in Releases : Deploy!Fresh(r) \in Deploy!Locals
<1>1. Deploy!Empty \in Deploy!Tables
  BY TablesAre DEF Deploy!Empty
<1> QED
  BY <1>1 DEF Deploy!Fresh, Deploy!Locals

(* The phases by name.                                                     *)
LEMMA PhasesAre ==
  /\ "lock" \in Deploy!Phases /\ "cli" \in Deploy!Phases /\ "unlock" \in Deploy!Phases
  /\ "ensure" \in Deploy!Phases /\ "read" \in Deploy!Phases /\ "backfill" \in Deploy!Phases
  /\ "reread" \in Deploy!Phases /\ "apply" \in Deploy!Phases /\ "record" \in Deploy!Phases
  /\ "up" \in Deploy!Phases /\ "off" \in Deploy!Phases /\ "closing" \in Deploy!Phases
  BY DEF Deploy!Phases

(* Deployment begins in DeployFits.                                        *)
LEMMA DeployBegins == Deploy!Init => DeployFits
<1> SUFFICES ASSUME Deploy!Init PROVE DeployFits
  OBVIOUS
<1> USE DeploymentParameters
<1>1. rows \in Deploy!Tables
  BY TablesAre DEF Deploy!Init, Deploy!Empty, Deploy!Checksums, Deploy!Unrecorded
<1>2. DOMAIN rows \subseteq Names
  BY <1>1, TablesAre
<1>3. times \in [Names -> 0..2] /\ Once(rows, times)
  BY <1>2, SMT DEF Deploy!Init, Once
<1>4. mine \in [Servers -> Deploy!Locals]
  BY FreshIs DEF Deploy!Init
<1>5. ASSUME NEW s \in Servers
      PROVE  Sound(s, stage[s], mine[s], probe[s], answer[s], migrator, rows, times)
  BY DEF Deploy!Init, Sound, Holding, Serving
<1> QED
  BY <1>1, <1>3, <1>4, <1>5 DEF Deploy!Init, DeployFits, Deploy!Phases, Probes, Answers

(* A step that keeps the checks of server s and writes nothing.            *)
LEMMA ServerSteps ==
  ASSUME DeployFits, NEW s \in Servers, NEW p \in Deploy!Phases, NEW l \in Deploy!Locals,
         stage' = [stage EXCEPT ![s] = p], mine' = [mine EXCEPT ![s] = l],
         table' \in BOOLEAN, rows' = rows, times' = times, migrator' = migrator,
         probe' = probe, answer' = answer,
         Sound(s, p, l, probe[s], answer[s], migrator, rows, times)
  PROVE  DeployFits'
<1> DEFINE c == probe[s]
           a == answer[s]
<1>1. c \in Probes /\ a \in Answers
  BY DEF DeployFits
<1>2. probe' = [probe EXCEPT ![s] = c] /\ answer' = [answer EXCEPT ![s] = a]
  BY DEF DeployFits
<1>3. rows' \in Deploy!Tables /\ times' \in [Names -> 0..2] /\ Once(rows', times')
  BY DEF DeployFits
<1> HIDE DEF c, a
<1>4. Sound(s, p, l, c, a, migrator', rows', times')
  BY DEF c, a
<1> QED
  BY <1>1, <1>2, <1>3, <1>4, ServerMoves

(* A step that keeps what server s remembers, or its phase, writes it back. *)
LEMMA Itself ==
  ASSUME DeployFits, NEW s \in Servers
  PROVE  /\ stage[s] \in Deploy!Phases /\ mine[s] \in Deploy!Locals
         /\ probe[s] \in Probes /\ answer[s] \in Answers
         /\ stage = [stage EXCEPT ![s] = stage[s]] /\ mine = [mine EXCEPT ![s] = mine[s]]
         /\ probe = [probe EXCEPT ![s] = probe[s]] /\ answer = [answer EXCEPT ![s] = answer[s]]
         /\ Sound(s, stage[s], mine[s], probe[s], answer[s], migrator, rows, times)
  BY DEF DeployFits

(* A process begins, as a server or as a check of the command line.        *)
LEMMA BeginsFits ==
  ASSUME DeployFits, NEW s \in Servers, NEW r \in Releases,
         Deploy!Start(s, r) \/ Deploy!StartCli(s, r)
  PROVE  DeployFits'
<1> DEFINE p == stage'[s]
           l == Deploy!Fresh(r)
<1>1. p \in {"lock", "cli"} /\ stage' = [stage EXCEPT ![s] = p]
  BY Itself DEF DeployFits, Deploy!Start, Deploy!StartCli, Deploy!Goto
<1>2. Sound(s, p, l, probe[s], answer[s], migrator, rows, times)
  BY <1>1, Itself DEF Sound, Holding, Serving, Deploy!Start, Deploy!StartCli
<1>3. l \in Deploy!Locals
  BY FreshIs
<1>4. mine' = [mine EXCEPT ![s] = l] /\ table' \in BOOLEAN
      /\ rows' = rows /\ times' = times /\ migrator' = migrator
      /\ probe' = probe /\ answer' = answer
  BY DEF DeployFits, Deploy!Start, Deploy!StartCli, Deploy!Keep, Deploy!Database, Deploy!Checks
<1> HIDE DEF p, l
<1> QED
  BY <1>1, <1>2, <1>3, <1>4, ServerSteps, PhasesAre

(* An error of server s, which holds the lock.                             *)
LEMMA FailsFits ==
  ASSUME DeployFits, NEW s \in Servers, stage[s] \in Holding, Deploy!Failed(s),
         table' = table, rows' = rows, times' = times, migrator' = migrator,
         probe' = probe, answer' = answer
  PROVE  DeployFits'
<1> DEFINE l == [mine[s] EXCEPT !.fails = TRUE]
<1>1. l \in Deploy!Locals /\ l.fails = TRUE /\ l.release = mine[s].release
  BY Itself, LocalsAre DEF Deploy!Locals
<1>2. mine' = [mine EXCEPT ![s] = l] /\ stage' = [stage EXCEPT ![s] = "unlock"]
  BY DEF Deploy!Failed, Deploy!Keep, Deploy!Goto
<1> HIDE DEF l
<1>3. Sound(s, "unlock", l, probe[s], answer[s], migrator, rows, times)
  BY <1>1, Itself DEF Sound, Holding, Serving
<1> QED
  BY <1>1, <1>2, <1>3, ServerSteps, PhasesAre DEF DeployFits

(* A migration reads, and creates its table; a statement of it fails.      *)
LEMMA ReadsFit ==
  ASSUME DeployFits, NEW s \in Servers,
         Deploy!Ensure(s) \/ Deploy!Read(s) \/ Deploy!Constrain(s) \/ Deploy!Reread(s)
           \/ Deploy!Applied(s) \/ Deploy!Fail(s)
  PROVE  DeployFits'
<1> USE DEF Deploy!Database, Deploy!Checks, Deploy!Goto, Deploy!Keep
<1>s. Sound(s, stage[s], mine[s], probe[s], answer[s], migrator, rows, times)
      /\ stage[s] \in Deploy!Phases /\ mine[s] \in Deploy!Locals
      /\ mine = [mine EXCEPT ![s] = mine[s]]
      /\ table \in BOOLEAN /\ rows \in Deploy!Tables
  BY Itself DEF DeployFits
<1>e. CASE Deploy!Ensure(s)
  <2>1. Sound(s, "read", mine[s], probe[s], answer[s], migrator, rows, times)
    BY <1>s, <1>e DEF Sound, Holding, Serving, Deploy!Ensure
  <2> QED
    BY <2>1, <1>s, <1>e, ServerSteps, PhasesAre DEF Deploy!Ensure
<1>r. CASE Deploy!Read(s)
  <2> DEFINE d == Deploy!NeedsBackfill(rows)
             l == [mine[s] EXCEPT !.applied = rows, !.todo = d]
  <2>1. d \in SUBSET Names
    BY <1>s, TablesAre DEF Deploy!NeedsBackfill
  <2>2. l \in Deploy!Locals /\ l.release = mine[s].release
    <3> HIDE DEF d
    <3> QED BY <2>1, <1>s, LocalsAre DEF Deploy!Locals
  <2>3. mine' = [mine EXCEPT ![s] = l] /\ stage' = [stage EXCEPT ![s] = "backfill"]
    BY <1>r DEF Deploy!Read
  <2> HIDE DEF l, d
  <2>4. Sound(s, "backfill", l, probe[s], answer[s], migrator, rows, times)
    BY <2>2, <1>s, <1>r DEF Sound, Holding, Serving, Deploy!Read
  <2> QED
    BY <2>2, <2>3, <2>4, <1>s, <1>r, ServerSteps, PhasesAre DEF Deploy!Read
<1>c. CASE Deploy!Constrain(s)
  <2>1. CASE Deploy!Failed(s)
    BY <2>1, <1>c, FailsFits DEF Deploy!Constrain, Holding
  <2>2. CASE stage' = [stage EXCEPT ![s] = "reread"] /\ mine' = mine
    <3>1. Sound(s, "reread", mine[s], probe[s], answer[s], migrator, rows, times)
      BY <1>s, <1>c DEF Sound, Holding, Serving, Deploy!Constrain
    <3> QED
      BY <3>1, <2>2, <1>s, <1>c, ServerSteps, PhasesAre DEF Deploy!Constrain
  <2> QED BY <2>1, <2>2, <1>c DEF Deploy!Constrain
<1>d. CASE Deploy!Reread(s)
  <2>1. CASE Deploy!Failed(s)
    BY <2>1, <1>d, FailsFits DEF Deploy!Reread, Holding
  <2>2. CASE ~Deploy!Failed(s)
    <3> DEFINE l == [mine[s] EXCEPT !.applied = rows]
    <3>1. l \in Deploy!Locals /\ l.release = mine[s].release /\ l.applied = rows
      BY <1>s, LocalsAre DEF Deploy!Locals
    <3>2. /\ mine' = [mine EXCEPT ![s] = l] /\ stage' = [stage EXCEPT ![s] = "apply"]
          /\ Deploy!Matching(rows, Files[mine[s].release])
      BY <1>d, <2>2 DEF Deploy!Reread, Deploy!Disk
    <3> HIDE DEF l
    <3>3. Sound(s, "apply", l, probe[s], answer[s], migrator, rows, times)
      BY <3>1, <3>2, <1>s, <1>d DEF Sound, Holding, Serving, Deploy!Reread
    <3> QED
      BY <3>1, <3>2, <3>3, <1>s, <1>d, ServerSteps, PhasesAre DEF Deploy!Reread
  <2> QED BY <2>1, <2>2
<1>a. CASE Deploy!Applied(s)
  <2>1. mine[s].applied = rows /\ Deploy!Matching(rows, Files[mine[s].release])
    BY <1>s, <1>a DEF Sound, Deploy!Applied
  <2>2. Has(rows, mine[s].release)
    BY <2>1, <1>a DEF Has, Deploy!Applied, Deploy!NotApplied, Deploy!Disk, Deploy!Matching
  <2>3. Sound(s, "unlock", mine[s], probe[s], answer[s], migrator, rows, times)
    BY <2>2, <1>s, <1>a DEF Sound, Holding, Serving, Deploy!Applied
  <2> QED
    BY <2>3, <1>s, <1>a, ServerSteps, PhasesAre DEF Deploy!Applied
<1>f. CASE Deploy!Fail(s)
  BY <1>f, FailsFits DEF Deploy!Fail, Holding
<1> QED
  BY <1>e, <1>r, <1>c, <1>d, <1>a, <1>f

(* The lock is taken and given back; a server is told to end.              *)
LEMMA LockFits ==
  ASSUME DeployFits, NEW s \in Servers, Deploy!Lock(s) \/ Deploy!Unlock(s) \/ Deploy!Terminate(s)
  PROVE  DeployFits'
<1> DEFINE p == stage'[s]
<1>i. /\ Sound(s, stage[s], mine[s], probe[s], answer[s], migrator, rows, times)
      /\ mine[s] \in Deploy!Locals /\ probe[s] \in Probes /\ answer[s] \in Answers
      /\ mine' = [mine EXCEPT ![s] = mine[s]]
      /\ probe' = [probe EXCEPT ![s] = probe[s]] /\ answer' = [answer EXCEPT ![s] = answer[s]]
  BY Itself DEF Deploy!Lock, Deploy!Unlock, Deploy!Terminate, Deploy!Checks
<1>w. /\ table' = table /\ rows' = rows /\ times' = times
      /\ table' \in BOOLEAN /\ rows' \in Deploy!Tables /\ times' \in [Names -> 0..2]
      /\ Once(rows', times')
  BY DEF DeployFits, Deploy!Lock, Deploy!Unlock, Deploy!Terminate, Deploy!Database
<1>p. p \in Deploy!Phases /\ stage' = [stage EXCEPT ![s] = p]
  BY PhasesAre DEF DeployFits, Deploy!Lock, Deploy!Unlock, Deploy!Terminate, Deploy!Goto
<1>n. s # Nobody
  BY DeploymentParameters
<1>m. \/ migrator' = migrator
      \/ migrator \in {s, Nobody} /\ migrator' \in {s, Nobody}
  BY <1>i DEF Sound, Holding, Deploy!Lock, Deploy!Unlock, Deploy!Terminate
<1>s. Sound(s, p, mine[s], probe[s], answer[s], migrator', rows', times')
  <2>1. CASE Deploy!Lock(s)
    <3>1. p = "ensure" /\ stage[s] = "lock" /\ migrator' = s
      BY <2>1, <1>p DEF Deploy!Lock, Deploy!Goto, DeployFits
    <3> HIDE DEF p
    <3> QED BY <3>1, <1>i, <1>w DEF Sound, Holding, Serving
  <2>2. CASE Deploy!Unlock(s)
    <3>1. stage[s] = "unlock" /\ migrator' = Nobody
          /\ (p = "off" \/ (p = "up" /\ ~mine[s].fails))
      BY <2>2, <1>p DEF Deploy!Unlock, Deploy!Goto, DeployFits
    <3> HIDE DEF p
    <3> QED BY <3>1, <1>i, <1>w, <1>n DEF Sound, Holding, Serving
  <2>3. CASE Deploy!Terminate(s)
    <3>1. p = "closing" /\ stage[s] = "up" /\ migrator' = migrator
      BY <2>3, <1>p DEF Deploy!Terminate, Deploy!Goto, DeployFits
    <3> HIDE DEF p
    <3> QED BY <3>1, <1>i, <1>w DEF Sound, Holding, Serving
  <2> QED BY <2>1, <2>2, <2>3
<1> HIDE DEF p
<1> QED
  BY <1>i, <1>w, <1>p, <1>m, <1>s, ServerMoves

(* A process that ends lets go of the lock and of its answer.              *)
LEMMA EndsFit ==
  ASSUME DeployFits, NEW s \in Servers, Deploy!Ended(s)
  PROVE  DeployFits'
<1>i. /\ Sound(s, stage[s], mine[s], probe[s], answer[s], migrator, rows, times)
      /\ mine[s] \in Deploy!Locals /\ mine' = [mine EXCEPT ![s] = mine[s]]
  BY Itself DEF Deploy!Ended
<1>c. "none" \in Probes /\ "none" \in Answers
  BY DEF Probes, Answers
<1>w. /\ table' \in BOOLEAN /\ rows' \in Deploy!Tables /\ times' \in [Names -> 0..2]
      /\ rows' = rows /\ times' = times /\ Once(rows', times')
  BY DEF DeployFits, Deploy!Ended, Deploy!Database
<1>p. /\ stage' = [stage EXCEPT ![s] = "off"]
      /\ probe' = [probe EXCEPT ![s] = "none"] /\ answer' = [answer EXCEPT ![s] = "none"]
  BY DEF Deploy!Ended, Deploy!Goto
<1>m. /\ migrator' # s
      /\ \/ migrator' = migrator
         \/ migrator \in {s, Nobody} /\ migrator' \in {s, Nobody}
  BY DeploymentParameters DEF Deploy!Ended
<1>s. Sound(s, "off", mine[s], "none", "none", migrator', rows', times')
  BY <1>m DEF Sound, Holding, Serving
<1> QED
  BY <1>i, <1>c, <1>w, <1>p, <1>m, <1>s, PhasesAre, ServerMoves

(* The checks of the schema: a good answer is given when the rows are what *)
(* is on the disk.                                                         *)
LEMMA ChecksFit ==
  ASSUME DeployFits, NEW s \in Servers,
         Deploy!Probe(s) \/ Deploy!CheckTable(s) \/ Deploy!CheckRows(s)
           \/ Deploy!CheckFails(s) \/ Deploy!Forget(s)
  PROVE  DeployFits'
<1> DEFINE c == probe'[s]
           a == answer'[s]
<1>i. /\ Sound(s, stage[s], mine[s], probe[s], answer[s], migrator, rows, times)
      /\ stage[s] \in Deploy!Phases /\ mine[s] \in Deploy!Locals
      /\ stage' = [stage EXCEPT ![s] = stage[s]] /\ mine' = [mine EXCEPT ![s] = mine[s]]
      /\ migrator' = migrator
  BY Itself DEF Deploy!Probe, Deploy!CheckTable, Deploy!CheckRows, Deploy!CheckFails,
                Deploy!Forget, Deploy!Answered
<1>w. /\ table' \in BOOLEAN /\ rows' \in Deploy!Tables /\ times' \in [Names -> 0..2]
      /\ rows' = rows /\ times' = times /\ Once(rows', times')
  BY DEF DeployFits, Deploy!Probe, Deploy!CheckTable, Deploy!CheckRows, Deploy!CheckFails,
         Deploy!Forget, Deploy!Answered, Deploy!Database
<1>c. /\ c \in Probes /\ a \in Answers
      /\ probe' = [probe EXCEPT ![s] = c] /\ answer' = [answer EXCEPT ![s] = a]
  BY DEF DeployFits, Deploy!Probe, Deploy!CheckTable, Deploy!CheckRows, Deploy!CheckFails,
         Deploy!Forget, Deploy!Answered, Probes, Answers
<1>s. Sound(s, stage[s], mine[s], c, a, migrator', rows', times')
  <2>1. stage[s] \notin Serving => probe[s] = "none" /\ answer[s] = "none"
    BY <1>i DEF Sound
  <2>2. stage[s] \in Serving
    BY <2>1 DEF Serving, Deploy!Probe, Deploy!CheckTable, Deploy!CheckRows,
                Deploy!CheckFails, Deploy!Forget
  <2>3. a = "ready" => answer[s] = "ready" \/ rows = Files[mine[s].release]
    BY DEF DeployFits, Deploy!Probe, Deploy!CheckTable, Deploy!CheckRows, Deploy!CheckFails,
           Deploy!Forget, Deploy!Answered, Deploy!InOrder, Deploy!Disk, Answers
  <2>4. a = "ready" => Has(rows, mine[s].release)
    BY <1>i, <2>3 DEF Sound, Has
  <2> HIDE DEF a, c
  <2> QED BY <1>i, <1>w, <2>2, <2>4 DEF Sound, Serving
<1> HIDE DEF c, a
<1> QED
  BY <1>i, <1>w, <1>c, <1>s, ServerMoves

(* A row of before the checksums gets one; no other row changes.           *)
LEMMA BackfillFits ==
  ASSUME DeployFits, NEW s \in Servers, Deploy!Backfill(s)
  PROVE  DeployFits'
<1> USE DEF Deploy!Database, Deploy!Checks, Deploy!Goto, Deploy!Keep
<1>1. CASE Deploy!Failed(s) /\ rows' = rows
  BY <1>1, FailsFits DEF Deploy!Backfill, Holding
<1>2. CASE ~(Deploy!Failed(s) /\ rows' = rows)
  <2>1. PICK n \in mine[s].todo :
          /\ n \in DOMAIN Files[mine[s].release]
          /\ rows' = [rows EXCEPT ![n] = IF rows[n] = "unrecorded" THEN Files[mine[s].release][n]
                                                                  ELSE rows[n]]
          /\ mine' = [mine EXCEPT ![s] = [mine[s] EXCEPT !.todo = mine[s].todo \ {n}]]
    BY <1>2 DEF Deploy!Backfill, Deploy!Disk, Deploy!Unrecorded
  <2> DEFINE l == [mine[s] EXCEPT !.todo = mine[s].todo \ {n}]
             r == mine[s].release
  <2>i. /\ Sound(s, stage[s], mine[s], probe[s], answer[s], migrator, rows, times)
        /\ mine[s] \in Deploy!Locals /\ probe[s] \in Probes /\ answer[s] \in Answers
        /\ stage[s] \in Deploy!Phases /\ stage' = [stage EXCEPT ![s] = stage[s]]
        /\ probe' = [probe EXCEPT ![s] = probe[s]] /\ answer' = [answer EXCEPT ![s] = answer[s]]
        /\ table' = table /\ times' = times /\ migrator' = migrator /\ stage[s] = "backfill"
    BY Itself, <1>2 DEF Deploy!Backfill
  <2>2. r \in Releases /\ mine[s].todo \in SUBSET Names
    BY <2>i, LocalsAre
  <2>3. Files[r][n] \in Deploy!Checksums
    BY <2>1, <2>2, FilesAre
  <2>4. rows \in [DOMAIN rows -> Deploy!Checksums] /\ DOMAIN rows \in SUBSET Names
    BY TablesAre DEF DeployFits
  <2>5. DOMAIN rows' = DOMAIN rows /\ rows' \in [DOMAIN rows -> Deploy!Checksums]
    BY <2>1, <2>3, <2>4
  <2>6. rows' \in Deploy!Tables
    BY <2>4, <2>5, TablesAre
  <2>7. Grows(rows, rows')
    BY <2>1, <2>4, <2>5 DEF Grows
  <2>8. Once(rows', times') /\ times' \in [Names -> 0..2]
    BY <2>5, <2>i DEF DeployFits, Once
  <2>9. l \in Deploy!Locals /\ l.release = r /\ mine' = [mine EXCEPT ![s] = l]
    BY <2>1, <2>2, <2>i, LocalsAre DEF Deploy!Locals
  <2> HIDE DEF l, r
  <2>10. migrator = s /\ Sound(s, stage[s], l, probe[s], answer[s], migrator', rows', times')
    BY <2>i DEF Sound, Holding, Serving
  <2>11. table' \in BOOLEAN
    BY <2>i DEF DeployFits
  <2> QED
    BY <2>i, <2>6, <2>7, <2>8, <2>9, <2>10, <2>11, ServerMoves
<1> QED BY <1>1, <1>2

(* The next migration of a server that applies them: it has no row, and    *)
(* the rows with its own agree with the disk as the rows did.              *)
LEMMA NextIs ==
  ASSUME DeployFits, NEW s \in Servers, stage[s] \in {"apply", "record"},
         Deploy!NotApplied(s) # {}
  PROVE  LET n == Deploy!First(Deploy!NotApplied(s))
             sum == Deploy!Disk(s)[n]
             Q == Deploy!Recorded(n, sum)
             l == [mine[s] EXCEPT !.applied = Q]
         IN  /\ n \in Names /\ n \notin DOMAIN rows /\ Deploy!NotApplied(s) = Due(mine[s])
             /\ Q \in Deploy!Tables /\ DOMAIN Q = DOMAIN rows \cup {n} /\ Grows(rows, Q)
             /\ Deploy!Matching(Q, Files[l.release])
             /\ l \in Deploy!Locals /\ l.applied = Q /\ l.release = mine[s].release
<1> DEFINE n == Deploy!First(Deploy!NotApplied(s))
           r == mine[s].release
           Q == Deploy!Recorded(n, Files[r][n])
           l == [mine[s] EXCEPT !.applied = Q]
<1>i. Sound(s, stage[s], mine[s], probe[s], answer[s], migrator, rows, times)
      /\ mine[s] \in Deploy!Locals /\ r \in Releases
  BY Itself, LocalsAre
<1>1. mine[s].applied = rows /\ Deploy!Matching(rows, Files[r])
  BY <1>i DEF Sound
<1>2. Deploy!NotApplied(s) = Due(mine[s]) /\ Deploy!NotApplied(s) = DOMAIN Files[r] \ DOMAIN rows
  BY <1>1 DEF Deploy!NotApplied, Deploy!Disk, Due
<1>3. DOMAIN Files[r] \subseteq Names
  BY <1>i, FilesAre
<1>4. n \in Deploy!NotApplied(s)
  BY <1>2, <1>3, FirstIs
<1>5. n \in DOMAIN Files[r] /\ n \notin DOMAIN rows /\ n \in Names
  BY <1>2, <1>3, <1>4
<1> HIDE DEF n
<1>6. rows \in [DOMAIN rows -> Deploy!Checksums] /\ DOMAIN rows \in SUBSET Names
      /\ Files[r][n] \in Deploy!Checksums
  BY <1>i, <1>5, TablesAre, FilesAre DEF DeployFits
<1>7. /\ DOMAIN Q = DOMAIN rows \cup {n} /\ Q[n] = Files[r][n]
      /\ \A k \in DOMAIN rows : Q[k] = rows[k]
  BY <1>5 DEF Deploy!Recorded
<1>8. Q \in [DOMAIN Q -> Deploy!Checksums] /\ DOMAIN Q \in SUBSET Names
  BY <1>5, <1>6 DEF Deploy!Recorded
<1>9. Q \in Deploy!Tables
  BY <1>8, TablesAre
<1>10. Grows(rows, Q) /\ Deploy!Matching(Q, Files[r])
  BY <1>1, <1>7 DEF Grows, Deploy!Matching
<1> HIDE DEF Q
<1>11. l \in Deploy!Locals /\ l.applied = Q /\ l.release = r
  BY <1>i, <1>9, LocalsAre DEF Deploy!Locals
<1> HIDE DEF l
<1> QED
  BY <1>2, <1>5, <1>7, <1>9, <1>10, <1>11 DEF n, Q, l, Deploy!Disk

(* A file in its transaction.                                              *)
LEMMA ApplyFits ==
  ASSUME DeployFits, NEW s \in Servers, Deploy!Apply(s)
  PROVE  DeployFits'
<1> USE DEF Deploy!Database, Deploy!Checks, Deploy!Goto, Deploy!Keep
<1> DEFINE n == Deploy!First(Deploy!NotApplied(s))
           Q == Deploy!Recorded(n, Deploy!Disk(s)[n])
           l == [mine[s] EXCEPT !.applied = Q]
<1>n. /\ n \in Names /\ n \notin DOMAIN rows
      /\ Q \in Deploy!Tables /\ DOMAIN Q = DOMAIN rows \cup {n} /\ Grows(rows, Q)
      /\ Deploy!Matching(Q, Files[l.release])
      /\ l \in Deploy!Locals /\ l.applied = Q /\ l.release = mine[s].release
  BY NextIs DEF Deploy!Apply
<1>a. /\ stage[s] = "apply" /\ n \notin Plain
      /\ rows' = Q /\ mine' = [mine EXCEPT ![s] = l]
      /\ times' = [times EXCEPT ![n] = IF times[n] = 2 THEN 2 ELSE times[n] + 1]
      /\ stage' = stage /\ table' = table /\ migrator' = migrator
      /\ probe' = probe /\ answer' = answer
  BY <1>n DEF Deploy!Apply, Deploy!Executed, Deploy!Took, Deploy!InTransaction
<1> HIDE DEF n, Q, l
<1>i. /\ Sound(s, stage[s], mine[s], probe[s], answer[s], migrator, rows, times)
      /\ mine[s] \in Deploy!Locals /\ probe[s] \in Probes /\ answer[s] \in Answers
      /\ stage[s] \in Deploy!Phases /\ stage' = [stage EXCEPT ![s] = stage[s]]
      /\ probe' = [probe EXCEPT ![s] = probe[s]] /\ answer' = [answer EXCEPT ![s] = answer[s]]
      /\ table' \in BOOLEAN /\ mine[s].release \in Releases
  BY Itself, LocalsAre, <1>a DEF DeployFits
<1>1. times' \in [Names -> 0..2] /\ Once(rows', times')
  <2>1. times \in [Names -> 0..2] /\ Once(rows, times)
    BY DEF DeployFits
  <2>2. times[n] = 0
    BY <2>1, <1>n, <1>a DEF Once
  <2>3. times' = [times EXCEPT ![n] = 1]
    BY <2>2, <1>a
  <2> QED BY <2>1, <2>3, <1>n, <1>a DEF Once
<1>2. migrator = s
  BY <1>i, <1>a DEF Sound, Holding
<1>3. Sound(s, stage[s], l, probe[s], answer[s], migrator', rows', times')
  BY <1>i, <1>a, <1>n DEF Sound, Holding, Serving
<1>4. rows' \in Deploy!Tables /\ Grows(rows, rows') /\ migrator' = migrator
      /\ mine' = [mine EXCEPT ![s] = l] /\ l \in Deploy!Locals
  BY <1>a, <1>n
<1> QED
  BY <1>i, <1>1, <1>2, <1>3, <1>4, ServerMoves

(* A file outside a transaction takes effect.                              *)
LEMMA ApplyPlainFits ==
  ASSUME DeployFits, NEW s \in Servers, Deploy!ApplyPlain(s)
  PROVE  DeployFits'
<1> USE DEF Deploy!Database, Deploy!Checks, Deploy!Goto, Deploy!Keep
<1> DEFINE n == Deploy!First(Deploy!NotApplied(s))
<1>n. /\ n \in Names /\ n \notin DOMAIN rows /\ Deploy!NotApplied(s) = Due(mine[s])
  BY NextIs DEF Deploy!ApplyPlain
<1>a. /\ stage[s] = "apply" /\ n \in Plain /\ Due(mine[s]) # {}
      /\ times' = [times EXCEPT ![n] = IF times[n] = 2 THEN 2 ELSE times[n] + 1]
      /\ stage' = [stage EXCEPT ![s] = "record"] /\ rows' = rows
      /\ mine' = mine /\ table' = table /\ migrator' = migrator
      /\ probe' = probe /\ answer' = answer
  BY <1>n DEF Deploy!ApplyPlain, Deploy!Executed, Deploy!InTransaction
<1>f. Deploy!First(Due(mine[s])) = n
  BY <1>n
<1> HIDE DEF n
<1>i. /\ Sound(s, stage[s], mine[s], probe[s], answer[s], migrator, rows, times)
      /\ mine[s] \in Deploy!Locals /\ probe[s] \in Probes /\ answer[s] \in Answers
      /\ mine' = [mine EXCEPT ![s] = mine[s]]
      /\ probe' = [probe EXCEPT ![s] = probe[s]] /\ answer' = [answer EXCEPT ![s] = answer[s]]
      /\ table' \in BOOLEAN /\ rows' \in Deploy!Tables
  BY Itself, <1>a DEF DeployFits
<1>1. times' \in [Names -> 0..2] /\ Once(rows', times') /\ times'[n] >= 1
  <2>1. times \in [Names -> 0..2] /\ Once(rows, times)
    BY DEF DeployFits
  <2> DEFINE k == IF times[n] = 2 THEN 2 ELSE times[n] + 1
  <2>2. k \in 1..2 /\ times' = [times EXCEPT ![n] = k]
    BY <2>1, <1>n, <1>a
  <2> HIDE DEF k
  <2> QED BY <2>1, <2>2, <1>n, <1>a DEF Once
<1>2. migrator = s
  BY <1>i, <1>a DEF Sound, Holding
<1>3. Sound(s, "record", mine[s], probe[s], answer[s], migrator', rows', times')
  BY <1>i, <1>a, <1>f, <1>1 DEF Sound, Holding, Serving
<1>4. Grows(rows, rows')
  BY <1>a DEF Grows
<1>5. stage' = [stage EXCEPT ![s] = "record"] /\ migrator' = migrator
  BY <1>a
<1>6. times' \in [Names -> 0..2] /\ Once(rows', times')
  BY <1>1
<1> QED
  BY <1>i, <1>2, <1>3, <1>4, <1>5, <1>6, PhasesAre, ServerMoves

(* The row of a file that has taken effect.                                *)
LEMMA RecordFits ==
  ASSUME DeployFits, NEW s \in Servers, Deploy!Record(s)
  PROVE  DeployFits'
<1> USE DEF Deploy!Database, Deploy!Checks, Deploy!Goto, Deploy!Keep
<1> DEFINE n == Deploy!First(Deploy!NotApplied(s))
           Q == Deploy!Recorded(n, Deploy!Disk(s)[n])
           l == [mine[s] EXCEPT !.applied = Q]
<1>i. /\ Sound(s, stage[s], mine[s], probe[s], answer[s], migrator, rows, times)
      /\ mine[s] \in Deploy!Locals /\ probe[s] \in Probes /\ answer[s] \in Answers
      /\ stage[s] = "record" /\ Deploy!NotApplied(s) = Due(mine[s])
  BY Itself DEF Deploy!Record, Deploy!NotApplied, Due, Deploy!Disk
<1>d. Due(mine[s]) # {} /\ n \in Plain /\ times[n] >= 1
  BY <1>i DEF Sound
<1>n. /\ n \in Names /\ n \notin DOMAIN rows
      /\ Q \in Deploy!Tables /\ DOMAIN Q = DOMAIN rows \cup {n} /\ Grows(rows, Q)
      /\ Deploy!Matching(Q, Files[l.release])
      /\ l \in Deploy!Locals /\ l.applied = Q /\ l.release = mine[s].release
  BY <1>i, <1>d, NextIs
<1>a. /\ rows' = Q /\ mine' = [mine EXCEPT ![s] = l]
      /\ times' = times /\ stage' = [stage EXCEPT ![s] = "apply"]
      /\ table' = table /\ migrator' = migrator /\ probe' = probe /\ answer' = answer
  BY <1>n DEF Deploy!Record, Deploy!Took
<1> HIDE DEF n, Q, l
<1>j. /\ probe' = [probe EXCEPT ![s] = probe[s]] /\ answer' = [answer EXCEPT ![s] = answer[s]]
      /\ table' \in BOOLEAN /\ times' \in [Names -> 0..2]
  BY Itself, <1>a DEF DeployFits
<1>1. Once(rows', times')
  BY <1>a, <1>n, <1>d DEF Once, DeployFits
<1>2. migrator = s
  BY <1>i DEF Sound, Holding
<1>3. Sound(s, "apply", l, probe[s], answer[s], migrator', rows', times')
  BY <1>i, <1>a, <1>n DEF Sound, Holding, Serving
<1>4. rows' \in Deploy!Tables /\ Grows(rows, rows') /\ migrator' = migrator
      /\ mine' = [mine EXCEPT ![s] = l] /\ l \in Deploy!Locals
      /\ stage' = [stage EXCEPT ![s] = "apply"]
  BY <1>a, <1>n
<1>5. probe[s] \in Probes /\ answer[s] \in Answers
  BY <1>i
<1> QED
  BY <1>j, <1>1, <1>2, <1>3, <1>4, <1>5, PhasesAre, ServerMoves

(* Every step of a server keeps DeployFits.                                *)
LEMMA DeployMoves == DeployFits /\ [Deploy!Next]_deploymentVars => DeployFits'
<1> SUFFICES ASSUME DeployFits, [Deploy!Next]_deploymentVars PROVE DeployFits'
  OBVIOUS
<1>1. CASE UNCHANGED deploymentVars
  BY <1>1 DEF deploymentVars, DeployFits, Sound, Has, Due, Deploy!Matching, Once
<1>2. CASE Deploy!Next
  <2>1. PICK s \in Servers :
          \/ \E r \in Releases : Deploy!Start(s, r) \/ Deploy!StartCli(s, r)
          \/ Deploy!Lock(s) \/ Deploy!Step(s) \/ Deploy!Fail(s)
          \/ Deploy!Probe(s) \/ Deploy!CheckTable(s) \/ Deploy!CheckRows(s)
          \/ Deploy!CheckFails(s) \/ Deploy!Forget(s)
          \/ Deploy!Terminate(s) \/ Deploy!Close(s) \/ Deploy!Die(s)
    BY <1>2 DEF Deploy!Next
  <2>2. CASE \E r \in Releases : Deploy!Start(s, r) \/ Deploy!StartCli(s, r)
    BY <2>2, BeginsFits
  <2>3. CASE Deploy!Lock(s) \/ Deploy!Unlock(s) \/ Deploy!Terminate(s)
    BY <2>3, LockFits
  <2>4. CASE Deploy!Close(s) \/ Deploy!Die(s)
    BY <2>4, EndsFit DEF Deploy!Close, Deploy!Die
  <2>5. CASE \/ Deploy!Ensure(s) \/ Deploy!Read(s) \/ Deploy!Constrain(s) \/ Deploy!Reread(s)
             \/ Deploy!Applied(s) \/ Deploy!Fail(s)
    BY <2>5, ReadsFit
  <2>6. CASE \/ Deploy!Probe(s) \/ Deploy!CheckTable(s) \/ Deploy!CheckRows(s)
             \/ Deploy!CheckFails(s) \/ Deploy!Forget(s)
    BY <2>6, ChecksFit
  <2>7. CASE Deploy!Backfill(s) \/ Deploy!Apply(s) \/ Deploy!ApplyPlain(s) \/ Deploy!Record(s)
    BY <2>7, BackfillFits, ApplyFits, ApplyPlainFits, RecordFits
  <2> QED
    BY <2>1, <2>2, <2>3, <2>4, <2>5, <2>6, <2>7 DEF Deploy!Step
<1> QED BY <1>1, <1>2

(* What DeployFits says of the properties.                                 *)
LEMMA DeployHolds ==
  DeployFits => Deploy!TypeOK /\ Deploy!ServersFitSchema /\ Deploy!MigratedOnce
<1> SUFFICES ASSUME DeployFits
             PROVE  Deploy!TypeOK /\ Deploy!ServersFitSchema /\ Deploy!MigratedOnce
  OBVIOUS
<1>1. migrator # Nobody => stage[migrator] \in Holding
  BY DEF DeployFits, Sound
<1>2. Deploy!TypeOK
  BY <1>1 DEF Deploy!TypeOK, DeployFits, Holding, Probes, Answers
<1>3. Deploy!ServersFitSchema
  BY DEF DeployFits, Deploy!ServersFitSchema, Sound, Has, Deploy!Disk
<1>4. Deploy!MigratedOnce
  BY DEF DeployFits, Deploy!MigratedOnce, Once
<1> QED BY <1>2, <1>3, <1>4

-----------------------------------------------------------------------------
(* PaymentCommands.                                                        *)

(* A command's place in its plan: what it has written are the tables of    *)
(* the plan's steps so far, and it keeps a connection from its BEGIN, the  *)
(* erasure a second one from its second step.                              *)
Plan(l) == Pay!Plans[l.kind]
WrittenSoFar(l, k) == {Plan(l)[i] : i \in 1..(k - 2)} \cap Pay!Tables
Kept(l, k) == IF k <= 1 THEN 0 ELSE IF l.kind = "erase" /\ k >= 3 THEN 2 ELSE 1

Jobs == [kind: Pay!Kinds, status: Statuses, written: SUBSET Pay!Tables]

InPlan(l, k, n) ==
  /\ k <= Len(Plan(l)) + 2
  /\ n = Kept(l, k)
  /\ l.written = WrittenSoFar(l, k)

(* What holds of commands on the pool: each is at its place in its plan,   *)
(* no more connections are kept than there are, rows are locked by those   *)
(* that have begun, and the copies agree.                                  *)
PayFits ==
  /\ columns \in Pay!Columns
  /\ holder \in [Pay!Tables -> Commands \cup {Nobody}]
  /\ conn \in [Commands -> 0..2]
  /\ turn \in [Commands -> 0..7]
  /\ local \in [Commands -> Jobs]
  /\ IsFiniteSet(Pay!Connections) /\ Cardinality(Pay!Connections) <= PoolMax
  /\ \A c \in Commands : InPlan(local[c], turn[c], conn[c])
  /\ \A t \in Pay!Tables : holder[t] # Nobody => turn[holder[t]] > 1
  /\ Pay!CopiesAgree

(* The plans: their steps, and the tables that each of them writes.        *)
LEMMA PlansAre ==
  \A kind \in Pay!Kinds :
    LET plan == Pay!Plans[kind] IN
    /\ Len(plan) \in 1..5
    /\ \A i \in 1..Len(plan) :
         /\ plan[i] \in Pay!Tables \cup {"look", "audit", "nest"}
         /\ plan[i] = "nest" <=> (kind = "erase" /\ i = 1)
<1> USE DEF Pay!Plans, Pay!UpdateLeadPaymentStatus, Pay!SetLeadHostedPaymentUrl,
            Pay!SyncLeadToDocketwise, Pay!EraseLeads, Pay!Tables
<1>1. Pay!Kinds = {"status", "url", "sync", "erase"}
  BY DEF Pay!Kinds
<1> SUFFICES ASSUME NEW kind \in Pay!Kinds
             PROVE  LET plan == Pay!Plans[kind] IN
                    /\ Len(plan) \in 1..5
                    /\ \A i \in 1..Len(plan) :
                         /\ plan[i] \in Pay!Tables \cup {"look", "audit", "nest"}
                         /\ plan[i] = "nest" <=> (kind = "erase" /\ i = 1)
  OBVIOUS
<1>2. CASE kind = "status"
  BY <1>2
<1>3. CASE kind = "url"
  BY <1>3
<1>4. CASE kind = "sync"
  BY <1>4
<1>5. CASE kind = "erase"
  BY <1>5
<1> QED BY <1>1, <1>2, <1>3, <1>4, <1>5

(* The tables of a whole plan.                                             *)
LEMMA PlanWrites ==
  ASSUME NEW l, l.kind \in Pay!Kinds, NEW k \in 0..7, k - 2 = Len(Plan(l))
  PROVE  \/ l.kind = "status" /\ WrittenSoFar(l, k) = {"payments", "intakes"}
         \/ l.kind = "url" /\ WrittenSoFar(l, k) = {"payments"}
         \/ l.kind = "sync" /\ WrittenSoFar(l, k) = {"docketwise_sync", "intakes"}
         \/ l.kind = "erase" /\ WrittenSoFar(l, k) = {"intakes", "payments", "docketwise_sync"}
<1> USE DEF Pay!Plans, Pay!UpdateLeadPaymentStatus, Pay!SetLeadHostedPaymentUrl,
            Pay!SyncLeadToDocketwise, Pay!EraseLeads, Pay!Tables, Plan, WrittenSoFar
<1>1. Pay!Kinds = {"status", "url", "sync", "erase"}
  BY DEF Pay!Kinds
<1>2. CASE l.kind = "status"
  <2>1. 1..(k - 2) = {1, 2, 3, 4}
    BY <1>2
  <2> QED BY <1>2, <2>1
<1>3. CASE l.kind = "url"
  <2>1. 1..(k - 2) = {1}
    BY <1>3
  <2> QED BY <1>3, <2>1
<1>4. CASE l.kind = "sync"
  <2>1. 1..(k - 2) = {1, 2, 3, 4, 5}
    BY <1>4
  <2> QED BY <1>4, <2>1
<1>5. CASE l.kind = "erase"
  <2>1. 1..(k - 2) = {1, 2, 3, 4}
    BY <1>5
  <2> QED BY <1>5, <2>1
<1> QED BY <1>1, <1>2, <1>3, <1>4, <1>5

(* What a command has to do next, by its place.                            *)
LEMMA TodoIs ==
  ASSUME PayFits, NEW c \in Commands
  PROVE  LET plan == Plan(local[c])
             k == turn[c]
         IN  /\ k \in 0..7 /\ local[c] \in Jobs /\ local[c].kind \in Pay!Kinds
             /\ Len(plan) \in 1..5
             /\ Pay!Todo(c) = "connect" => k = 1
             /\ Pay!Todo(c) \in Pay!Tables \cup {"look", "audit", "nest"} =>
                  k >= 2 /\ k - 1 <= Len(plan) /\ plan[k - 1] = Pay!Todo(c)
             /\ Pay!Todo(c) = "commit" => k - 2 = Len(plan)
<1> DEFINE plan == Plan(local[c])
           k == turn[c]
<1>1. k \in 0..7 /\ local[c] \in Jobs /\ k <= Len(plan) + 2
  BY DEF PayFits, InPlan
<1>2. local[c].kind \in Pay!Kinds
  BY <1>1 DEF Jobs
<1>3. /\ Len(plan) \in 1..5
      /\ \A i \in 1..Len(plan) : plan[i] \in Pay!Tables \cup {"look", "audit", "nest"}
  BY <1>2, PlansAre DEF Plan
<1>4. Pay!Todo(c) = IF k = 0 THEN "none" ELSE IF k = 1 THEN "connect"
                    ELSE IF k - 1 > Len(plan) THEN "commit" ELSE plan[k - 1]
  BY DEF Pay!Todo, Plan
<1> HIDE DEF plan, k
<1>5. "connect" \notin Pay!Tables \cup {"look", "audit", "nest"}
      /\ "commit" \notin Pay!Tables \cup {"look", "audit", "nest"}
      /\ "none" \notin Pay!Tables \cup {"look", "audit", "nest"}
  BY DEF Pay!Tables
<1>6. k >= 2 /\ k - 1 <= Len(plan) => k - 1 \in 1..Len(plan)
  BY <1>1, <1>3
<1>7. CASE k >= 2 /\ k - 1 <= Len(plan)
  <2>1. Pay!Todo(c) = plan[k - 1]
    BY <1>1, <1>3, <1>4, <1>7
  <2>2. plan[k - 1] \in Pay!Tables \cup {"look", "audit", "nest"}
    BY <1>3, <1>6, <1>7
  <2>3. Pay!Todo(c) # "connect" /\ Pay!Todo(c) # "commit"
    BY <2>1, <2>2, <1>5
  <2> QED BY <1>1, <1>2, <1>3, <2>1, <2>3, <1>7 DEF k, plan
<1>8. CASE ~(k >= 2 /\ k - 1 <= Len(plan))
  <2>1. Pay!Todo(c) \in {"none", "connect", "commit"}
        /\ (Pay!Todo(c) = "connect" => k = 1) /\ (Pay!Todo(c) = "commit" => k - 2 = Len(plan))
    BY <1>1, <1>3, <1>4, <1>8
  <2>2. Pay!Todo(c) \notin Pay!Tables \cup {"look", "audit", "nest"}
    BY <2>1, <1>5
  <2> QED BY <1>1, <1>2, <1>3, <2>1, <2>2 DEF k, plan
<1> QED BY <1>7, <1>8

(* The same set has the same number of members, whoever counts.            *)
LEMMA SameCount == \A S : Pay!Cardinality(S) = Cardinality(S)
  BY DEF Pay!Cardinality, Cardinality

(* The commands begin in PayFits.                                          *)
LEMMA PayBegins == Pay!Init => PayFits
<1> SUFFICES ASSUME Pay!Init PROVE PayFits
  OBVIOUS
<1> USE PoolParameters
<1>1. columns = [status |-> Pending, url |-> FALSE, export |-> FALSE,
                 intakeStatus |-> Pending, intakeExport |-> FALSE]
  BY DEF Pay!Init, Pay!NewPayment, Pay!NewIntake, Pay!NewDocketwiseSync
<1>2. columns \in Pay!Columns /\ Pay!CopiesAgree
  BY <1>1 DEF Pay!Columns, Pay!CopiesAgree
<1>3. Pay!Idle \in Jobs
  BY DEF Pay!Idle, Jobs, Pay!Kinds, Pay!Plans
<1>4. Pay!Connections = {}
  BY DEF Pay!Init, Pay!Connections
<1>5. IsFiniteSet(Pay!Connections) /\ Cardinality(Pay!Connections) = 0
  BY <1>4, FS_EmptySet
<1>6. Pay!Idle.kind \in Pay!Kinds /\ Pay!Idle.written = {}
  BY <1>3 DEF Pay!Idle, Jobs
<1>7. InPlan(Pay!Idle, 0, 0)
  <2>1. Len(Plan(Pay!Idle)) \in 1..5
    BY <1>6, PlansAre DEF Plan
  <2>2. 1..(0 - 2) = {}
    OBVIOUS
  <2>3. WrittenSoFar(Pay!Idle, 0) = {}
    BY <2>2 DEF WrittenSoFar
  <2> QED BY <2>1, <2>3, <1>6 DEF InPlan, Kept
<1> QED
  BY <1>2, <1>3, <1>5, <1>7 DEF Pay!Init, PayFits

(* A step of one command, given by its new place, keeps PayFits when it    *)
(* takes at most one connection, of those that are free, and locks rows    *)
(* only for itself.                                                        *)
LEMMA CommandMoves ==
  ASSUME PayFits, NEW c \in Commands, NEW k \in 0..7, NEW l \in Jobs, NEW n \in 0..2,
         turn' = [turn EXCEPT ![c] = k], local' = [local EXCEPT ![c] = l],
         conn' = [conn EXCEPT ![c] = n],
         columns' \in Pay!Columns, (Pay!CopiesAgree)',
         InPlan(l, k, n),
         holder' \in [Pay!Tables -> Commands \cup {Nobody}],
         \A t \in Pay!Tables : holder'[t] # Nobody =>
           IF holder'[t] = c THEN k > 1 ELSE holder'[t] = holder[t],
         n <= conn[c] \/ (n = conn[c] + 1 /\ Pay!Free)
  PROVE  PayFits'
<1>t. conn \in [Commands -> 0..2] /\ turn \in [Commands -> 0..7] /\ local \in [Commands -> Jobs]
  BY DEF PayFits
<1>1. conn' \in [Commands -> 0..2] /\ turn' \in [Commands -> 0..7] /\ local' \in [Commands -> Jobs]
  BY <1>t
<1>2. \A d \in Commands : InPlan(local'[d], turn'[d], conn'[d])
  BY <1>t DEF PayFits
<1>3. ASSUME NEW t \in Pay!Tables, holder'[t] # Nobody PROVE turn'[holder'[t]] > 1
  <2>1. CASE holder'[t] = c
    BY <2>1, <1>3, <1>t
  <2>2. CASE holder'[t] # c
    <3>1. holder'[t] = holder[t] /\ turn[holder[t]] > 1 /\ holder[t] \in Commands
      BY <2>2, <1>3 DEF PayFits
    <3> QED BY <3>1, <2>2, <1>t
  <2> QED BY <2>1, <2>2
<1>4. IsFiniteSet(Pay!Connections') /\ Cardinality(Pay!Connections') <= PoolMax
  <2>0. IsFiniteSet(Pay!Connections) /\ Cardinality(Pay!Connections) <= PoolMax
        /\ Cardinality(Pay!Connections) \in Nat
    BY FS_CardinalityType DEF PayFits
  <2>1. CASE n <= conn[c]
    <3>1. Pay!Connections' \subseteq Pay!Connections
      BY <2>1, <1>t, <1>1 DEF Pay!Connections
    <3>2. IsFiniteSet(Pay!Connections') /\ Cardinality(Pay!Connections') <= Cardinality(Pay!Connections)
          /\ Cardinality(Pay!Connections') \in Nat
      BY <2>0, <3>1, FS_Subset, FS_CardinalityType
    <3> QED BY <2>0, <3>2, PoolParameters
  <2>2. CASE n = conn[c] + 1 /\ Pay!Free
    <3>1. Pay!Connections' = Pay!Connections \cup {<<c, n>>}
      BY <2>2, <1>t, <1>1 DEF Pay!Connections
    <3>2. /\ IsFiniteSet(Pay!Connections')
          /\ Cardinality(Pay!Connections') = IF <<c, n>> \in Pay!Connections
               THEN Cardinality(Pay!Connections) ELSE Cardinality(Pay!Connections) + 1
      BY <2>0, <3>1, FS_AddElement
    <3>3. Cardinality(Pay!Connections) < PoolMax
      BY <2>2, SameCount DEF Pay!Free, Pay!Taken
    <3> QED BY <2>0, <3>2, <3>3, PoolParameters
  <2> QED BY <2>1, <2>2
<1> QED
  BY <1>1, <1>2, <1>3, <1>4 DEF PayFits

(* A step of a plan that takes a connection when it is time to, and writes *)
(* when it is at a table.                                                  *)
LEMMA Further ==
  ASSUME NEW l \in Jobs, NEW k \in 1..7, NEW n, InPlan(l, k, n), k - 1 <= Len(Plan(l)),
         NEW t, k >= 2 => t = Plan(l)[k - 1]
  PROVE  /\ k + 1 \in 2..7
         /\ k = 1 => InPlan(l, k + 1, n + 1)
         /\ k >= 2 /\ t = "nest" => InPlan(l, k + 1, n + 1)
         /\ k >= 2 /\ t \in {"look", "audit"} => InPlan(l, k + 1, n)
         /\ k >= 2 /\ t \in Pay!Tables =>
              \A m \in Jobs : m.kind = l.kind /\ m.written = l.written \cup {t} => InPlan(m, k + 1, n)
<1>1. l.kind \in Pay!Kinds
  BY DEF Jobs
<1>2. Len(Plan(l)) \in 1..5 /\ \A i \in 1..Len(Plan(l)) : Plan(l)[i] = "nest" <=> (l.kind = "erase" /\ i = 1)
  BY <1>1, PlansAre DEF Plan
<1>3. k + 1 \in 2..7
  <2>1. Len(Plan(l)) \in 1..5
    BY <1>2
  <2> QED BY <2>1
<1>4. CASE k = 1
  <2>1. 1..(k - 2) = {} /\ 1..((k + 1) - 2) = {}
    BY <1>4
  <2>2. WrittenSoFar(l, k + 1) = WrittenSoFar(l, k)
    BY <2>1 DEF WrittenSoFar
  <2>3. Kept(l, k + 1) = Kept(l, k) + 1
    BY <1>4 DEF Kept
  <2> QED
    BY <1>3, <1>4, <2>2, <2>3, <1>2 DEF InPlan
<1>5. CASE k >= 2
  <2>1. t = "nest" <=> (l.kind = "erase" /\ k = 2)
    BY <1>2, <1>5
  <2>2. 1..((k + 1) - 2) = 1..(k - 2) \cup {k - 1}
    BY <1>5
  <2>3. WrittenSoFar(l, k + 1) = WrittenSoFar(l, k) \cup ({t} \cap Pay!Tables)
    BY <2>2, <1>5 DEF WrittenSoFar
  <2>4. Kept(l, k + 1) = IF t = "nest" THEN Kept(l, k) + 1 ELSE Kept(l, k)
    BY <2>1, <1>5 DEF Kept
  <2>5. t \in {"look", "audit", "nest"} => t \notin Pay!Tables
    BY DEF Pay!Tables
  <2>6. t = "nest" => InPlan(l, k + 1, n + 1)
    <3>1. ASSUME t = "nest" PROVE InPlan(l, k + 1, n + 1)
      <4>1. n = Kept(l, k) /\ k \in Nat /\ Len(Plan(l)) \in Nat
        BY <1>2 DEF InPlan
      <4>2. n + 1 = Kept(l, k + 1)
        BY <4>1, <3>1, <2>4
      <4>3. l.written = WrittenSoFar(l, k + 1)
        BY <3>1, <2>3, <2>5 DEF InPlan
      <4>4. k + 1 <= Len(Plan(l)) + 2
        BY <4>1
      <4> QED BY <4>2, <4>3, <4>4 DEF InPlan
    <3> QED BY <3>1
  <2>7. t \in {"look", "audit"} => InPlan(l, k + 1, n)
    <3>1. ASSUME t \in {"look", "audit"} PROVE InPlan(l, k + 1, n)
      <4>1. n = Kept(l, k) /\ k \in Nat /\ Len(Plan(l)) \in Nat
        BY <1>2 DEF InPlan
      <4>2. n = Kept(l, k + 1)
        BY <4>1, <3>1, <2>4
      <4>3. l.written = WrittenSoFar(l, k + 1)
        BY <3>1, <2>3, <2>5 DEF InPlan
      <4>4. k + 1 <= Len(Plan(l)) + 2
        BY <4>1
      <4> QED BY <4>2, <4>3, <4>4 DEF InPlan
    <3> QED BY <3>1
  <2>8. ASSUME t \in Pay!Tables, NEW m \in Jobs, m.kind = l.kind, m.written = l.written \cup {t}
        PROVE  InPlan(m, k + 1, n)
    <3>1. Plan(m) = Plan(l) /\ WrittenSoFar(m, k + 1) = WrittenSoFar(l, k + 1)
          /\ Kept(m, k + 1) = Kept(l, k + 1)
      BY <2>8 DEF Plan, WrittenSoFar, Kept
    <3>2. t # "nest"
      BY <2>8, <2>5
    <3>3. m.written = WrittenSoFar(m, k + 1)
      BY <2>8, <3>1, <2>3 DEF InPlan
    <3>4. n = Kept(m, k + 1)
      BY <3>1, <3>2, <2>4 DEF InPlan
    <3>5. k + 1 <= Len(Plan(m)) + 2
      BY <1>2, <3>1
    <3> QED BY <3>3, <3>4, <3>5 DEF InPlan
  <2> QED BY <1>3, <1>5, <2>6, <2>7, <2>8
<1> QED BY <1>4, <1>5

(* What holds of a command at any time.                                    *)
LEMMA CommandIs ==
  ASSUME PayFits, NEW c \in Commands
  PROVE  /\ turn[c] \in 0..7 /\ local[c] \in Jobs /\ conn[c] \in 0..2
         /\ InPlan(local[c], turn[c], conn[c])
         /\ local = [local EXCEPT ![c] = local[c]] /\ conn = [conn EXCEPT ![c] = conn[c]]
         /\ \A t \in Pay!Tables : holder[t] = c => turn[c] > 1
         /\ conn[c] + 1 \in 0..2 \/ conn[c] = 2
  BY PoolParameters DEF PayFits

(* A command that has not begun keeps nothing and has written nothing.     *)
LEMMA IdleIs ==
  ASSUME NEW l \in Jobs, l.written = {}, NEW k \in {0, 1}
  PROVE  InPlan(l, k, 0)
<1>1. l.kind \in Pay!Kinds
  BY DEF Jobs
<1>2. Len(Plan(l)) \in 1..5
  BY <1>1, PlansAre DEF Plan
<1>3. 1..(k - 2) = {}
  OBVIOUS
<1>4. WrittenSoFar(l, k) = {}
  BY <1>3 DEF WrittenSoFar
<1> QED
  BY <1>2, <1>4 DEF InPlan, Kept

(* A command begins.                                                       *)
LEMMA StartFits ==
  ASSUME PayFits, NEW c \in Commands, NEW kind \in Pay!Kinds, NEW status \in Statuses,
         Pay!Start(c, kind, status)
  PROVE  PayFits'
<1> DEFINE l == [Pay!Idle EXCEPT !.kind = kind, !.status = status]
<1>1. l = [kind |-> kind, status |-> status, written |-> {}]
  <2>1. Pay!Idle = [kind |-> "url", status |-> Pending, written |-> {}]
    BY DEF Pay!Idle
  <2> DEFINE i == [Pay!Idle EXCEPT !.kind = kind]
  <2>2. i = [kind |-> kind, status |-> Pending, written |-> {}]
    BY <2>1
  <2>3. l = [i EXCEPT !.status = status]
    BY DEF Pay!Idle
  <2> HIDE DEF i, l
  <2> QED BY <2>2, <2>3
<1>2. turn' = [turn EXCEPT ![c] = 1] /\ local' = [local EXCEPT ![c] = l]
      /\ columns' = columns /\ holder' = holder /\ conn' = conn /\ turn[c] = 0
  BY DEF Pay!Start
<1> HIDE DEF l
<1>3. l \in Jobs /\ InPlan(l, 1, 0)
  BY <1>1, IdleIs DEF Jobs
<1>4. conn[c] = 0 /\ conn' = [conn EXCEPT ![c] = 0]
  BY <1>2, CommandIs DEF InPlan, Kept
<1>5. columns' \in Pay!Columns /\ (Pay!CopiesAgree)'
  BY <1>2 DEF PayFits, Pay!CopiesAgree
<1>6. /\ holder' \in [Pay!Tables -> Commands \cup {Nobody}]
      /\ \A t \in Pay!Tables : holder'[t] # Nobody =>
           IF holder'[t] = c THEN 1 > 1 ELSE holder'[t] = holder[t]
  BY <1>2, CommandIs DEF PayFits
<1>7. 0 <= conn[c] /\ 1 \in 0..7 /\ 0 \in 0..2
  BY CommandIs
<1> QED
  BY <1>2, <1>3, <1>4, <1>5, <1>6, <1>7, CommandMoves

(* A command takes a connection, reads through the pool, or records.       *)
LEMMA ConnectFits ==
  ASSUME PayFits, NEW c \in Commands, Pay!Connect(c) \/ Pay!Look(c) \/ Pay!Audit(c)
  PROVE  PayFits'
<1> DEFINE k == turn[c] + 1
           l == local[c]
           n == conn'[c]
           todo == Pay!Todo(c)
<1>1. turn' = [turn EXCEPT ![c] = k] /\ columns' = columns /\ holder' = holder /\ local' = local
  BY DEF Pay!Connect, Pay!Look, Pay!Audit, Pay!Advance
<1>2. \/ todo = "connect" /\ n = conn[c] + 1 /\ Pay!Free
      \/ todo = "nest" /\ n = conn[c] + 1 /\ Pay!Free
      \/ todo \in {"look", "audit"} /\ n = conn[c]
  BY DEF PayFits, Pay!Connect, Pay!Look, Pay!Audit
<1>3. conn' = [conn EXCEPT ![c] = n]
  BY CommandIs DEF PayFits, Pay!Connect, Pay!Look, Pay!Audit
<1>4. turn[c] \in 1..7 /\ turn[c] - 1 <= Len(Plan(l))
      /\ (turn[c] >= 2 => todo = Plan(l)[turn[c] - 1])
      /\ (todo = "connect" <=> turn[c] = 1)
  <2>1. CASE todo = "connect"
    BY <2>1, TodoIs
  <2>2. CASE todo \in {"look", "audit", "nest"}
    BY <2>2, TodoIs
  <2> QED BY <2>1, <2>2, <1>2
<1>5. InPlan(l, turn[c], conn[c]) /\ l \in Jobs /\ conn[c] \in 0..2
  BY CommandIs
<1> HIDE DEF k, l, n, todo
<1>6. InPlan(l, k, n) /\ k \in 2..7
  <2>1. CASE todo = "connect"
    <3>1. turn[c] = 1 /\ n = conn[c] + 1
      BY <2>1, <1>2, <1>4
    <3> QED BY <3>1, <1>4, <1>5, Further DEF k
  <2>2. CASE todo = "nest"
    <3>1. turn[c] >= 2 /\ n = conn[c] + 1
      BY <2>2, <1>2, <1>4
    <3> QED BY <3>1, <2>2, <1>4, <1>5, Further DEF k
  <2>3. CASE todo \in {"look", "audit"}
    <3>1. turn[c] >= 2 /\ n = conn[c]
      BY <2>3, <1>2, <1>4
    <3> QED BY <3>1, <2>3, <1>4, <1>5, Further DEF k
  <2> QED BY <2>1, <2>2, <2>3, <1>2
<1>7. n \in 0..2
  BY <1>6 DEF InPlan, Kept
<1>8. columns' \in Pay!Columns /\ (Pay!CopiesAgree)'
  BY <1>1 DEF PayFits, Pay!CopiesAgree
<1>9. /\ holder' \in [Pay!Tables -> Commands \cup {Nobody}]
      /\ \A t \in Pay!Tables : holder'[t] # Nobody =>
           IF holder'[t] = c THEN k > 1 ELSE holder'[t] = holder[t]
  BY <1>1, <1>6 DEF PayFits
<1>10. n <= conn[c] \/ (n = conn[c] + 1 /\ Pay!Free)
  BY <1>2, <1>5
<1>11. local' = [local EXCEPT ![c] = l] /\ k \in 0..7
  BY <1>1, <1>6, CommandIs DEF l
<1> QED
  BY <1>1, <1>3, <1>5, <1>6, <1>7, <1>8, <1>9, <1>10, <1>11, CommandMoves

(* A statement locks its row and waits for the commit.                     *)
LEMMA WriteFits ==
  ASSUME PayFits, NEW c \in Commands, Pay!Write(c)
  PROVE  PayFits'
<1> DEFINE k == turn[c] + 1
           t == Pay!Todo(c)
           w == local[c].written \cup {t}
           l == [local[c] EXCEPT !.written = w]
<1>1. turn' = [turn EXCEPT ![c] = k] /\ columns' = columns /\ conn' = conn
      /\ t \in Pay!Tables /\ holder' = [holder EXCEPT ![t] = c]
      /\ local' = [local EXCEPT ![c] = l]
  BY DEF Pay!Write, Pay!Advance
<1>2. local[c] \in Jobs /\ InPlan(local[c], turn[c], conn[c]) /\ conn[c] \in 0..2
  BY CommandIs
<1>3. turn[c] \in 2..7 /\ turn[c] - 1 <= Len(Plan(local[c])) /\ t = Plan(local[c])[turn[c] - 1]
  BY <1>1, TodoIs
<1>4. w \in SUBSET Pay!Tables
  BY <1>1, <1>2 DEF Jobs
<1> HIDE DEF w
<1>5. l \in Jobs /\ l.kind = local[c].kind /\ l.written = w
  BY <1>2, <1>4 DEF Jobs
<1> HIDE DEF k, t, l
<1>6. InPlan(l, k, conn[c]) /\ k \in 2..7
  <2>1. /\ turn[c] + 1 \in 2..7
        /\ \A m \in Jobs : m.kind = local[c].kind /\ m.written = local[c].written \cup {t} =>
             InPlan(m, turn[c] + 1, conn[c])
    <3>1. turn[c] \in 1..7 /\ turn[c] >= 2
      BY <1>3
    <3> QED BY <3>1, <1>1, <1>2, <1>3, Further
  <2> QED BY <2>1, <1>5 DEF k, w
<1>7. columns' \in Pay!Columns /\ (Pay!CopiesAgree)'
  BY <1>1 DEF PayFits, Pay!CopiesAgree
<1>8. /\ holder' \in [Pay!Tables -> Commands \cup {Nobody}]
      /\ \A u \in Pay!Tables : holder'[u] # Nobody =>
           IF holder'[u] = c THEN k > 1 ELSE holder'[u] = holder[u]
  BY <1>1, <1>6 DEF PayFits
<1>9. conn' = [conn EXCEPT ![c] = conn[c]] /\ k \in 0..7 /\ conn[c] <= conn[c]
  BY <1>1, <1>2, <1>6, CommandIs
<1> QED
  BY <1>1, <1>2, <1>5, <1>6, <1>7, <1>8, <1>9, CommandMoves

(* The end of a command, with the columns as they were or as it leaves     *)
(* them.                                                                   *)
LEMMA EndFits ==
  ASSUME PayFits, NEW c \in Commands, Pay!End(c),
         columns' \in Pay!Columns, (Pay!CopiesAgree)'
  PROVE  PayFits'
<1>1. Pay!Idle \in Jobs /\ InPlan(Pay!Idle, 0, 0)
  BY PoolParameters, IdleIs DEF Pay!Idle, Jobs, Pay!Kinds, Pay!Plans
<1>2. turn' = [turn EXCEPT ![c] = 0] /\ local' = [local EXCEPT ![c] = Pay!Idle]
      /\ conn' = [conn EXCEPT ![c] = 0]
      /\ holder' = [t \in Pay!Tables |-> IF holder[t] = c THEN Nobody ELSE holder[t]]
  BY DEF Pay!End
<1>3. /\ holder' \in [Pay!Tables -> Commands \cup {Nobody}]
      /\ \A t \in Pay!Tables : holder'[t] # Nobody =>
           IF holder'[t] = c THEN 0 > 1 ELSE holder'[t] = holder[t]
  BY <1>2, PoolParameters DEF PayFits
<1>4. 0 <= conn[c] /\ 0 \in 0..7 /\ 0 \in 0..2
  BY CommandIs
<1> QED
  BY <1>1, <1>2, <1>3, <1>4, CommandMoves

(* A column is as the one statement that sets it leaves it, and as it was  *)
(* when none does.                                                         *)
LEMMA AfterIs ==
  ASSUME NEW c \in Commands, NEW T, NEW f \in DOMAIN columns
  PROVE  /\ (\A t \in T : f \notin DOMAIN Pay!Sets(c, t)) => Pay!After(c, T)[f] = columns[f]
         /\ \A t \in T :
              f \in DOMAIN Pay!Sets(c, t) /\ (\A u \in T : f \in DOMAIN Pay!Sets(c, u) => u = t)
              => Pay!After(c, T)[f] = Pay!Sets(c, t)[f]
  BY DEF Pay!After

(* A commit leaves the copies as what they are copies of.                  *)
LEMMA CommitFits ==
  ASSUME PayFits, NEW c \in Commands, Pay!Commit(c)
  PROVE  PayFits'
<1> DEFINE l == local[c]
           T == local[c].written
<1>1. columns' = Pay!After(c, T) /\ Pay!End(c)
  BY DEF Pay!Commit
<1>2. l \in Jobs /\ l.kind \in Pay!Kinds /\ l.status \in Statuses /\ turn[c] \in 0..7
      /\ turn[c] - 2 = Len(Plan(l)) /\ T = WrittenSoFar(l, turn[c])
  BY TodoIs, CommandIs DEF Pay!Commit, Jobs, InPlan
<1>3. \/ l.kind = "status" /\ T = {"payments", "intakes"}
      \/ l.kind = "url" /\ T = {"payments"}
      \/ l.kind = "sync" /\ T = {"docketwise_sync", "intakes"}
      \/ l.kind = "erase" /\ T = {"intakes", "payments", "docketwise_sync"}
  BY <1>2, PlanWrites
<1>4. /\ DOMAIN columns = {"status", "url", "export", "intakeStatus", "intakeExport"}
      /\ columns.status \in Statuses /\ columns.url \in BOOLEAN /\ columns.export \in BOOLEAN
      /\ columns.intakeStatus = columns.status /\ columns.intakeExport = columns.export
  BY DEF PayFits, Pay!Columns, Pay!CopiesAgree
<1>5. DOMAIN columns' = DOMAIN columns /\ columns' = [f \in DOMAIN columns |-> columns'[f]]
  BY <1>1 DEF Pay!After
<1> USE DEF Pay!PaymentStatus, Pay!IntakePaymentStatus, Pay!HostedPaymentUrl,
            Pay!AnonymizedPayment, Pay!DocketwiseSync, Pay!IntakeDocketwiseStatus
<1>6. /\ columns'["status"] \in Statuses /\ columns'["url"] \in BOOLEAN
      /\ columns'["export"] \in BOOLEAN
      /\ columns'["intakeStatus"] = columns'["status"] /\ columns'["intakeExport"] = columns'["export"]
  <2>1. CASE l.kind = "status" /\ T = {"payments", "intakes"}
    <3>0. /\ Pay!Sets(c, "payments") = [status |-> l.status]
          /\ Pay!Sets(c, "intakes") = [intakeStatus |-> l.status]
      BY <2>1 DEF Pay!Sets
    <3>1. /\ DOMAIN Pay!Sets(c, "payments") = {"status"}
          /\ DOMAIN Pay!Sets(c, "intakes") = {"intakeStatus"}
      BY <3>0
    <3>2. columns'["status"] = l.status
      BY <2>1, <3>0, <3>1, <1>1, <1>4, AfterIs
    <3>3. columns'["intakeStatus"] = l.status
      BY <2>1, <3>0, <3>1, <1>1, <1>4, AfterIs
    <3>4. columns'["url"] = columns["url"]
      BY <2>1, <3>0, <3>1, <1>1, <1>4, AfterIs
    <3>5. columns'["export"] = columns["export"]
      BY <2>1, <3>0, <3>1, <1>1, <1>4, AfterIs
    <3>6. columns'["intakeExport"] = columns["intakeExport"]
      BY <2>1, <3>0, <3>1, <1>1, <1>4, AfterIs
    <3> QED BY <3>2, <3>3, <3>4, <3>5, <3>6, <1>2, <1>4
  <2>2. CASE l.kind = "url" /\ T = {"payments"}
    <3>0. /\ Pay!Sets(c, "payments") = [url |-> TRUE]
      BY <2>2 DEF Pay!Sets
    <3>1. /\ DOMAIN Pay!Sets(c, "payments") = {"url"}
      BY <3>0
    <3>2. columns'["status"] = columns["status"]
      BY <2>2, <3>0, <3>1, <1>1, <1>4, AfterIs
    <3>3. columns'["intakeStatus"] = columns["intakeStatus"]
      BY <2>2, <3>0, <3>1, <1>1, <1>4, AfterIs
    <3>4. columns'["url"] = TRUE
      BY <2>2, <3>0, <3>1, <1>1, <1>4, AfterIs
    <3>5. columns'["export"] = columns["export"]
      BY <2>2, <3>0, <3>1, <1>1, <1>4, AfterIs
    <3>6. columns'["intakeExport"] = columns["intakeExport"]
      BY <2>2, <3>0, <3>1, <1>1, <1>4, AfterIs
    <3> QED BY <3>2, <3>3, <3>4, <3>5, <3>6, <1>2, <1>4
  <2>3. CASE l.kind = "sync" /\ T = {"docketwise_sync", "intakes"}
    <3>0. /\ Pay!Sets(c, "docketwise_sync") = [export |-> TRUE]
          /\ Pay!Sets(c, "intakes") = [intakeExport |-> TRUE]
      BY <2>3 DEF Pay!Sets
    <3>1. /\ DOMAIN Pay!Sets(c, "docketwise_sync") = {"export"}
          /\ DOMAIN Pay!Sets(c, "intakes") = {"intakeExport"}
      BY <3>0
    <3>2. columns'["status"] = columns["status"]
      BY <2>3, <3>0, <3>1, <1>1, <1>4, AfterIs
    <3>3. columns'["intakeStatus"] = columns["intakeStatus"]
      BY <2>3, <3>0, <3>1, <1>1, <1>4, AfterIs
    <3>4. columns'["url"] = columns["url"]
      BY <2>3, <3>0, <3>1, <1>1, <1>4, AfterIs
    <3>5. columns'["export"] = TRUE
      BY <2>3, <3>0, <3>1, <1>1, <1>4, AfterIs
    <3>6. columns'["intakeExport"] = TRUE
      BY <2>3, <3>0, <3>1, <1>1, <1>4, AfterIs
    <3> QED BY <3>2, <3>3, <3>4, <3>5, <3>6, <1>2, <1>4
  <2>4. CASE l.kind = "erase" /\ T = {"intakes", "payments", "docketwise_sync"}
    <3>0. /\ Pay!Sets(c, "intakes") = [intakeExport |-> TRUE]
          /\ Pay!Sets(c, "payments") = [url |-> FALSE]
          /\ Pay!Sets(c, "docketwise_sync") = [export |-> TRUE]
      BY <2>4 DEF Pay!Sets
    <3>1. /\ DOMAIN Pay!Sets(c, "intakes") = {"intakeExport"}
          /\ DOMAIN Pay!Sets(c, "payments") = {"url"}
          /\ DOMAIN Pay!Sets(c, "docketwise_sync") = {"export"}
      BY <3>0
    <3>2. columns'["status"] = columns["status"]
      BY <2>4, <3>0, <3>1, <1>1, <1>4, AfterIs
    <3>3. columns'["intakeStatus"] = columns["intakeStatus"]
      BY <2>4, <3>0, <3>1, <1>1, <1>4, AfterIs
    <3>4. columns'["url"] = FALSE
      BY <2>4, <3>0, <3>1, <1>1, <1>4, AfterIs
    <3>5. columns'["export"] = TRUE
      BY <2>4, <3>0, <3>1, <1>1, <1>4, AfterIs
    <3>6. columns'["intakeExport"] = TRUE
      BY <2>4, <3>0, <3>1, <1>1, <1>4, AfterIs
    <3> QED BY <3>2, <3>3, <3>4, <3>5, <3>6, <1>2, <1>4
  <2> QED BY <1>3, <2>1, <2>2, <2>3, <2>4
<1>7. columns' \in Pay!Columns /\ (Pay!CopiesAgree)'
  BY <1>4, <1>5, <1>6 DEF Pay!Columns, Pay!CopiesAgree
<1> QED
  BY <1>1, <1>7, EndFits

(* Every step of a command keeps PayFits.                                  *)
LEMMA PayMoves == PayFits /\ [Pay!Next]_paymentVars => PayFits'
<1> SUFFICES ASSUME PayFits, [Pay!Next]_paymentVars PROVE PayFits'
  OBVIOUS
<1>1. CASE UNCHANGED paymentVars
  BY <1>1 DEF paymentVars, PayFits, Pay!Connections, Pay!CopiesAgree
<1>2. CASE Pay!Next
  <2>1. PICK c \in Commands :
          \/ \E kind \in Pay!Kinds, status \in Statuses : Pay!Start(c, kind, status)
          \/ Pay!Obtain(c) \/ Pay!Proceed(c) \/ Pay!Fail(c)
    BY <1>2 DEF Pay!Next
  <2>2. CASE \E kind \in Pay!Kinds, status \in Statuses : Pay!Start(c, kind, status)
    BY <2>2, StartFits
  <2>3. CASE Pay!Connect(c) \/ Pay!Look(c) \/ Pay!Audit(c)
    BY <2>3, ConnectFits
  <2>4. CASE Pay!Write(c) \/ Pay!Commit(c)
    BY <2>4, WriteFits, CommitFits
  <2>5. CASE Pay!Fail(c) \/ Pay!Timeout(c) \/ Pay!Deadlock(c)
    <3>1. Pay!End(c) /\ columns' = columns
      BY <2>5 DEF Pay!Fail, Pay!Timeout, Pay!Deadlock
    <3>2. columns' \in Pay!Columns /\ (Pay!CopiesAgree)'
      BY <3>1 DEF PayFits, Pay!CopiesAgree
    <3> QED BY <3>1, <3>2, EndFits
  <2> QED
    BY <2>1, <2>2, <2>3, <2>4, <2>5 DEF Pay!Obtain, Pay!Proceed
<1> QED BY <1>1, <1>2

(* What PayFits says of the properties.                                    *)
LEMMA PayHolds == PayFits => Pay!TypeOK /\ Pay!CopiesAgree
<1> SUFFICES ASSUME PayFits PROVE Pay!TypeOK /\ Pay!CopiesAgree
  OBVIOUS
<1>1. Pay!Taken <= PoolMax
  BY SameCount DEF PayFits, Pay!Taken
<1>2. ASSUME NEW t \in Pay!Tables, holder[t] # Nobody PROVE conn[holder[t]] > 0
  <2>1. holder[t] \in Commands /\ turn[holder[t]] > 1
    BY <1>2 DEF PayFits
  <2>2. turn[holder[t]] \in 0..7 /\ conn[holder[t]] = Kept(local[holder[t]], turn[holder[t]])
    BY <2>1, CommandIs DEF InPlan
  <2> QED BY <2>1, <2>2 DEF Kept
<1> QED
  BY <1>1, <1>2 DEF PayFits, Pay!TypeOK, Jobs

-----------------------------------------------------------------------------
(* MCBackend.  A behaviour is of one part throughout; the others stay as   *)
(* they begin, so each part's invariant holds all the time.                *)
LEMMA PartsBegin == MCInit => Init /\ DeployFits /\ PayFits
  BY DeployBegins, PayBegins DEF MCInit

(* What a step is, seen from each part.                                    *)
LEMMA PartsMove ==
  [MCNext]_mcvars =>
    /\ [Next]_vars
    /\ [Deploy!Next]_deploymentVars
    /\ [Pay!Next]_paymentVars
  BY DEF MCNext, mcvars, sessionVars, vars, deploymentVars, paymentVars

(* The invariants of all parts hold all the time.                          *)
LEMMA PartsKeep == MCSpec => [](DeployFits /\ PayFits) /\ Spec
<1>1. DeployFits /\ PayFits /\ [MCNext]_mcvars => (DeployFits /\ PayFits)' /\ [Next]_vars
  BY PartsMove, DeployMoves, PayMoves
<1>2. [MCNext]_mcvars => [Next]_vars
  BY PartsMove
<1> QED
  BY <1>1, <1>2, PartsBegin, PTL DEF MCSpec, Spec

(* The sessions, the servers and the commands keep their types: the        *)
(* migrations' lock is with a process that migrates, the pool is never     *)
(* overdrawn, and only a command with a connection has a row locked.       *)
THEOREM BackendTypesCorrect == MCSpec => []TypesOK
<1>1. TypeOK /\ DeployFits /\ PayFits => TypesOK
  BY DeployHolds, PayHolds DEF TypesOK
<1> QED BY <1>1, PartsKeep, TypeCorrect, PTL

(* However many servers of however many releases start, migrate, fail and  *)
(* die, one that accepts connections and one that keeps a good answer of a *)
(* check finds its own migrations in the table as they are on its disk     *)
(* (db/migrate.js, readiness.service.js).                                  *)
THEOREM ServersFitAlways == MCSpec => []ServersFitSchema
<1>1. DeployFits => ServersFitSchema
  BY DeployHolds DEF ServersFitSchema
<1> QED BY <1>1, PartsKeep, PTL

(* A migration in a transaction takes effect exactly once and with its     *)
(* row, and one outside is never recorded without its effect               *)
(* (db/migrate.js).                                                        *)
THEOREM MigratedOnceAlways == MCSpec => []MigratedOnce
<1>1. DeployFits => MigratedOnce
  BY DeployHolds DEF MigratedOnce
<1> QED BY <1>1, PartsKeep, PTL

(* However many commands overlap on a pool of whatever size, fail, time    *)
(* out or are ended in a deadlock, the intake's copies of the states of    *)
(* payment and export are what their own rows say (payment.service.js,     *)
(* docketwise-admin.service.js, db/transaction.js).                        *)
THEOREM CopiesAgreeAlways == MCSpec => []CopiesAgree
<1>1. PayFits => CopiesAgree
  BY PayHolds DEF CopiesAgree
<1> QED BY <1>1, PartsKeep, PTL

=============================================================================

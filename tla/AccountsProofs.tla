--------------------------- MODULE AccountsProofs ---------------------------
(* Of accounts and one-time tokens, for any numbers of users, addresses,    *)
(* tokens and overlapping requests: the types, that a token takes effect    *)
(* once, that no two accounts have one address, that resends and live       *)
(* tokens are as few as the requests that overlap, and that whoever is      *)
(* verified has proved the address, unless requests of his have crossed.    *)
(*                                                                          *)
(* The argument has five layers, each an invariant that uses those before.  *)
(* Shape: a handler knows what its step needs, tokens exist from their      *)
(* number on, and who commits has the account to itself.  Once: a token is  *)
(* live for as long as a confirmation holds it and only one does; a reset   *)
(* has spent it before the password is written.  Distinct: an address that  *)
(* an open confirmation is about to give is nobody else's.  BusyFits,       *)
(* ResendsFit and LiveFit count what overlapping requests will still add.   *)
(* Proved: live tokens are for the address of the account, or for the one   *)
(* that is pending unless a change is between its first two statements and  *)
(* nobody has the token, or the account has proved its address before.      *)
EXTENDS Accounts, FiniteSetTheorems, TLAPS

-----------------------------------------------------------------------------
(* What each handler knows.                                                 *)

Created(t) == token[t].state # "none"

(* A token that exists is of an account that does.                          *)
TokenFits(t) ==
  Created(t) =>
    /\ token[t].user \in Users /\ token[t].email \in Addresses
    /\ token[t].purpose \in Purposes
    /\ account[token[t].user].state # "none"

Issuing == {"insert", "count", "pending", "drop", "invalidate", "create"}
Presenting == {"consume", "find", "apply", "commit"}
Resetting == {"spend", "password"}

(* A handler that is at step k with l, when the accounts are a and the      *)
(* tokens b: whom it is about exists, it has an address to issue a token    *)
(* for, or it has the token it is about.                                    *)
Fits(a, b, k, l) ==
  /\ k # "idle" => l.user \in Users
  /\ k \notin {"idle", "insert"} => a[l.user].state # "none"
  /\ k \in Issuing => l.target \in Addresses
  /\ k = "insert" => l.purpose = "registration"
  /\ k = "count" => l.purpose = "resend"
  /\ k \in {"pending", "drop"} => l.purpose = "email_change"
  /\ k = "invalidate" => l.purpose \in {"registration", "resend", "email_change"}
  /\ k = "create" => l.purpose \in Purposes
  /\ k \in Presenting \cup Resetting \cup {"deliver"} =>
       l.token \in Tokens /\ b[l.token].state # "none"
  /\ k \in Presenting =>
       /\ l.user = b[l.token].user
       /\ l.purpose = b[l.token].purpose /\ l.purpose # "reset"
  /\ k \in Resetting => l.user = b[l.token].user /\ b[l.token].purpose = "reset"

(* Tokens exist from their number on.                                       *)
Numbered == \E n \in Nat : \A t \in Tokens : Created(t) <=> t <= n

(* Who is about to commit has the row of the account to itself, and finds   *)
(* the address that is pending still pending.                               *)
Committing ==
  \A g \in Handlers :
    pc[g] = "commit" =>
      /\ local[g].purpose = "email_change" => account[local[g].user].pending # None
      /\ \A h \in Handlers \ {g} : pc[h] = "commit" => local[h].user # local[g].user

Shape ==
  /\ TypeOK
  /\ \A t \in Tokens : TokenFits(t)
  /\ \A h \in Handlers : Fits(account, token, pc[h], local[h])
  /\ \A t \in mailed : Created(t)
  /\ Numbered
  /\ Committing

(* A step of handler h leaves the rows alone that others have locked.       *)
Respects(h) == \A u \in Users : account'[u] # account[u] => AccountFree(h, u)

(* What a step leaves as it is of a row that exists.                        *)
Later ==
  /\ \A u \in Users : account[u].state # "none" => account'[u].state # "none"
  /\ \A t \in Tokens :
       Created(t) =>
         /\ token'[t].state # "none"
         /\ token'[t].user = token[t].user /\ token'[t].email = token[t].email
         /\ token'[t].purpose = token[t].purpose

(* A handler fits after a step if it did before.                            *)
LEMMA FitsLater ==
  ASSUME Shape, Later, NEW k, NEW l, Fits(account, token, k, l)
  PROVE  Fits(account', token', k, l)
<1>1. k # "idle" /\ k # "insert" => account'[l.user].state # "none"
  BY DEF Fits, Later
<1>2. k \in Presenting \cup Resetting \cup {"deliver"} =>
        /\ l.token \in Tokens /\ token'[l.token].state # "none"
        /\ token'[l.token].user = token[l.token].user
        /\ token'[l.token].purpose = token[l.token].purpose
  BY DEF Fits, Later, Created
<1> QED
  BY <1>1, <1>2 DEF Fits, Presenting, Resetting, Issuing

(* One handler moves.                                                       *)
LEMMA MoveShape ==
  ASSUME Parameters, Shape, Later,
         account' \in [Users -> Rows],
         \A u \in Users : account'[u].state # "none" => account'[u].email # None,
         token' \in [Tokens -> TokenRows],
         \A t \in Tokens : TokenFits(t)',
         mailed' \subseteq Tokens, \A t \in mailed' : token'[t].state # "none",
         proved' \in [Users -> SUBSET Addresses],
         used' \in [Tokens -> Nat], resent' \in [Users -> Nat], crossed' \subseteq Users,
         Numbered',
         NEW h \in Handlers, NEW k \in Steps, NEW l \in Locals,
         Goto(h, k, l), Fits(account', token', k, l), Respects(h),
         k = "commit" =>
           /\ AccountFree(h, l.user)
           /\ l.purpose = "email_change" => account'[l.user].pending # None
  PROVE  Shape'
<1>1. pc' \in [Handlers -> Steps] /\ local' \in [Handlers -> Locals]
  BY DEF Goto, Shape, TypeOK
<1>2. TypeOK'
  BY <1>1 DEF TypeOK
<1>3. ASSUME NEW g \in Handlers PROVE Fits(account', token', pc'[g], local'[g])
  <2>1. CASE g = h
    BY <2>1 DEF Goto, Shape, TypeOK
  <2>2. CASE g # h
    <3>1. pc'[g] = pc[g] /\ local'[g] = local[g]
      BY <2>2 DEF Goto, Shape, TypeOK
    <3>2. Fits(account, token, pc[g], local[g])
      BY DEF Shape
    <3> QED
      BY <3>1, <3>2, FitsLater
  <2> QED
    BY <2>1, <2>2
<1>4. \A t \in mailed' : Created(t)'
  BY DEF Created
<1>5. \A g \in Handlers :
        /\ pc'[g] = IF g = h THEN k ELSE pc[g]
        /\ local'[g] = IF g = h THEN l ELSE local[g]
  BY DEF Goto, Shape, TypeOK
<1>6. ASSUME NEW g \in Handlers, pc'[g] = "commit"
      PROVE  /\ local'[g].purpose = "email_change" =>
                  account'[local'[g].user].pending # None
             /\ \A f \in Handlers \ {g} : pc'[f] = "commit" => local'[f].user # local'[g].user
  <2>1. CASE g = h
    BY <1>5, <1>6, <2>1 DEF AccountFree, HoldsAccount
  <2>2. CASE g # h
    <3>1. /\ pc[g] = "commit" /\ local'[g] = local[g]
          /\ local[g].purpose = "email_change" => account[local[g].user].pending # None
          /\ \A f \in Handlers \ {g} : pc[f] = "commit" => local[f].user # local[g].user
      BY <1>5, <1>6, <2>2 DEF Shape, Committing
    <3>2. local[g].user \in Users /\ ~AccountFree(h, local[g].user)
      BY <2>2, <3>1 DEF Shape, Fits, AccountFree, HoldsAccount
    <3>3. account'[local[g].user] = account[local[g].user]
      BY <3>2 DEF Respects
    <3>4. k = "commit" => l.user # local[g].user
      BY <3>2
    <3> QED
      BY <1>5, <3>1, <3>3, <3>4
  <2> QED
    BY <2>1, <2>2
<1>7. Committing'
  BY <1>6 DEF Committing
<1> QED
  BY <1>2, <1>3, <1>4, <1>7 DEF Shape

(* A step that changes no more of a token than that one that exists is live *)
(* or not.                                                                  *)
TokensMove ==
  /\ token' \in [Tokens -> TokenRows]
  /\ \A t \in Tokens :
       /\ token'[t].user = token[t].user /\ token'[t].email = token[t].email
       /\ token'[t].purpose = token[t].purpose
       /\ token'[t].state # "none" <=> token[t].state # "none"

(* A step that removes no account and leaves none without an address.       *)
AccountsMove ==
  /\ account' \in [Users -> Rows]
  /\ \A u \in Users :
       /\ account'[u].state # "none" => account'[u].email # None
       /\ account[u].state # "none" => account'[u].state # "none"

(* Handlers fit and tokens stay numbered as long as rows are not removed.   *)
LEMMA MovesKeep ==
  ASSUME Parameters, Shape, TokensMove, AccountsMove
  PROVE  Later /\ Numbered' /\ \A t \in Tokens : TokenFits(t)'
<1>1. Later
  BY DEF Later, TokensMove, AccountsMove, Created
<1>2. Numbered'
  BY DEF Shape, Numbered, TokensMove, Created
<1>3. ASSUME NEW t \in Tokens PROVE TokenFits(t)'
  <2>1. TokenFits(t)
    BY DEF Shape
  <2> QED
    BY <2>1 DEF TokenFits, TokensMove, AccountsMove, Created
<1> QED
  BY <1>1, <1>2, <1>3

(* One handler moves, and tokens are no more live or live again.            *)
LEMMA MoveOn ==
  ASSUME Parameters, Shape, TokensMove, AccountsMove, mailed' = mailed,
         proved' \in [Users -> SUBSET Addresses],
         used' \in [Tokens -> Nat], resent' = resent, crossed' \subseteq Users,
         NEW h \in Handlers, NEW k \in Steps \ {"commit"}, NEW l \in Locals,
         Goto(h, k, l), Fits(account, token, k, l), Respects(h)
  PROVE  Shape'
<1>1. Later /\ Numbered' /\ \A t \in Tokens : TokenFits(t)'
  BY MovesKeep
<1>2. Fits(account', token', k, l)
  BY <1>1, FitsLater
<1>3. mailed' \subseteq Tokens /\ \A t \in mailed' : token'[t].state # "none"
  BY <1>1 DEF Shape, TypeOK, Later, Created
<1>4. /\ account' \in [Users -> Rows] /\ token' \in [Tokens -> TokenRows]
      /\ \A u \in Users : account'[u].state # "none" => account'[u].email # None
      /\ resent' \in [Users -> Nat]
  BY DEF TokensMove, AccountsMove, Shape, TypeOK
<1> QED
  BY <1>1, <1>2, <1>3, <1>4, MoveShape

(* No account is written.                                                   *)
LEMMA SameAccounts == ASSUME Shape, account' = account PROVE AccountsMove
BY DEF Shape, TypeOK, AccountsMove

(* No token is written.                                                     *)
LEMMA SameTokens == ASSUME Shape, token' = token PROVE TokensMove
BY DEF Shape, TypeOK, TokensMove

(* A request begins, or a step only reads.                                  *)
Untouched ==
  UNCHANGED <<account, token, mailed, proved, used, resent>> /\ crossed' \subseteq Users

LEMMA SameIsUntouched ==
  ASSUME Shape, UNCHANGED <<account, token, mailed, observers>> PROVE Untouched
BY DEF Untouched, observers, Shape, TypeOK

LEMMA ReadShape ==
  ASSUME Parameters, Shape, Untouched,
         NEW h \in Handlers, NEW k \in Steps, NEW l \in Locals,
         Goto(h, k, l), Fits(account, token, k, l),
         k = "commit" =>
           /\ AccountFree(h, l.user)
           /\ l.purpose = "email_change" => account[l.user].pending # None
  PROVE  Shape'
<1>1. /\ account' = account /\ token' = token /\ mailed' = mailed
      /\ proved' = proved /\ used' = used /\ resent' = resent /\ crossed' \subseteq Users
  BY DEF Untouched
<1>2. TokensMove /\ AccountsMove
  BY <1>1, SameAccounts, SameTokens
<1>3. Later /\ Numbered' /\ \A t \in Tokens : TokenFits(t)'
  BY <1>2, MovesKeep
<1>4. /\ proved' \in [Users -> SUBSET Addresses] /\ used' \in [Tokens -> Nat]
      /\ crossed' \subseteq Users /\ resent' \in [Users -> Nat]
      /\ mailed' \subseteq Tokens /\ \A t \in mailed' : token'[t].state # "none"
      /\ account' \in [Users -> Rows] /\ token' \in [Tokens -> TokenRows]
      /\ \A u \in Users : account'[u].state # "none" => account'[u].email # None
  BY <1>1 DEF Shape, TypeOK, Created
<1>5. Fits(account', token', k, l) /\ Respects(h)
  BY <1>1 DEF Respects
<1>6. k = "commit" =>
        /\ AccountFree(h, l.user)
        /\ l.purpose = "email_change" => account'[l.user].pending # None
  BY <1>1
<1> QED
  BY <1>3, <1>4, <1>5, <1>6, MoveShape

(* A handler that has ended fits.                                           *)
LEMMA AtRest == NoLocal \in Locals /\ "idle" \in Steps /\ Fits(account, token, "idle", NoLocal)
BY DEF NoLocal, Locals, Steps, Fits, Issuing, Presenting, Resetting

(* What a handler that is under way knows.                                  *)
LEMMA Known ==
  ASSUME Shape, NEW h \in Handlers
  PROVE  /\ local[h] \in Locals /\ pc[h] \in Steps
         /\ Fits(account, token, pc[h], local[h])
BY DEF Shape, TypeOK

(* What a request about an address begins with.                             *)
LEMMA AboutIs ==
  ASSUME NEW u, NEW e, NEW p
  PROVE  [NoLocal EXCEPT !.user = u, !.target = e, !.purpose = p]
           = [user |-> u, target |-> e, purpose |-> p, token |-> None]
<1>1. NoLocal = [user |-> None, target |-> None, purpose |-> "none", token |-> None]
  BY DEF NoLocal
<1> DEFINE a == [NoLocal EXCEPT !.user = u]
<1>2. a = [user |-> u, target |-> None, purpose |-> "none", token |-> None]
  BY <1>1
<1> HIDE DEF a
<1> DEFINE b == [a EXCEPT !.target = e]
<1>3. b = [user |-> u, target |-> e, purpose |-> "none", token |-> None]
  BY <1>2
<1> HIDE DEF b
<1>4. [b EXCEPT !.purpose = p] = [user |-> u, target |-> e, purpose |-> p, token |-> None]
  BY <1>3
<1> QED
  BY <1>4 DEF a, b

(* What a reset of the password begins with.                                *)
LEMMA PresentsOnlyIs ==
  ASSUME NEW u, NEW t
  PROVE  [NoLocal EXCEPT !.user = u, !.token = t]
           = [user |-> u, target |-> None, purpose |-> "none", token |-> t]
<1>1. NoLocal = [user |-> None, target |-> None, purpose |-> "none", token |-> None]
  BY DEF NoLocal
<1> DEFINE a == [NoLocal EXCEPT !.user = u]
<1>2. a = [user |-> u, target |-> None, purpose |-> "none", token |-> None]
  BY <1>1
<1> HIDE DEF a
<1>3. [a EXCEPT !.token = t] = [user |-> u, target |-> None, purpose |-> "none", token |-> t]
  BY <1>2
<1> QED
  BY <1>3 DEF a

(* What a confirmation begins with.                                         *)
LEMMA PresentsIs ==
  ASSUME NEW u, NEW t, NEW p
  PROVE  [NoLocal EXCEPT !.user = u, !.token = t, !.purpose = p]
           = [user |-> u, target |-> None, purpose |-> p, token |-> t]
<1> DEFINE a == [NoLocal EXCEPT !.user = u, !.token = t]
<1>1. a = [user |-> u, target |-> None, purpose |-> "none", token |-> t]
  BY PresentsOnlyIs
<1> HIDE DEF a
<1>2. [a EXCEPT !.purpose = p] = [user |-> u, target |-> None, purpose |-> p, token |-> t]
  BY <1>1
<1> QED
  BY <1>2 DEF a

(* A request begins, with what it was asked for.                            *)
LEMMA StartsShape ==
  ASSUME Parameters, Shape, NEW h \in Handlers,
         \/ \E u \in Users : Resend(h, u)
         \/ \E e \in Addresses : ResendPublic(h, e) \/ Forgot(h, e)
         \/ \E u \in Users, e \in Addresses : Register(h, u, e) \/ Change(h, u, e)
         \/ \E t \in Tokens : Confirm(h, t) \/ Reset(h, t)
  PROVE  Shape'
<1>0. Untouched
  <2>1. UNCHANGED <<account, token, mailed, proved, used, resent>>
    BY DEF Resend, ResendPublic, Forgot, Register, Change, Confirm, Reset, observers
  <2>2. crossed' \subseteq Users
    BY DEF Resend, ResendPublic, Forgot, Register, Change, Confirm, Reset, observers, CrossIf,
           Owners, Shape, TypeOK
  <2> QED
    BY <2>1, <2>2 DEF Untouched
<1>1. ASSUME NEW u \in Users, Resend(h, u) PROVE Shape'
  <2> DEFINE l == [NoLocal EXCEPT !.user = u, !.target = account[u].email,
                                  !.purpose = "resend"]
  <2>1. l = [user |-> u, target |-> account[u].email, purpose |-> "resend", token |-> None]
    BY AboutIs
  <2>2. account[u].email \in Addresses /\ account[u].state # "none"
    BY <1>1 DEF Resend, Active, Shape, TypeOK, Rows
  <2>3. l \in Locals /\ Fits(account, token, "count", l)
    BY <2>1, <2>2 DEF Locals, Purposes, Fits, Issuing, Presenting, Resetting
  <2>4. Goto(h, "count", l)
    BY <1>1 DEF Resend
  <2> HIDE DEF l
  <2>5. "count" \in Steps
    BY DEF Steps
  <2> QED
    BY <1>0, <2>3, <2>4, <2>5, ReadShape
<1>2. ASSUME NEW e \in Addresses, ResendPublic(h, e) PROVE Shape'
  <2>1. PICK u \in Owners(e) :
          Goto(h, "count",
               [NoLocal EXCEPT !.user = u,
                  !.target = IF account[u].pending # None THEN account[u].pending
                                                          ELSE account[u].email,
                  !.purpose = "resend"])
    BY <1>2 DEF ResendPublic
  <2> DEFINE e1 == IF account[u].pending # None THEN account[u].pending ELSE account[u].email
             l == [NoLocal EXCEPT !.user = u, !.target = e1, !.purpose = "resend"]
  <2>2. u \in Users /\ e1 \in Addresses /\ account[u].state # "none"
    BY DEF Owners, Active, Shape, TypeOK, Rows
  <2>3. l = [user |-> u, target |-> e1, purpose |-> "resend", token |-> None]
    BY AboutIs
  <2> HIDE DEF e1
  <2>4. l \in Locals /\ Fits(account, token, "count", l)
    BY <2>2, <2>3 DEF Locals, Purposes, Fits, Issuing, Presenting, Resetting
  <2>5. Goto(h, "count", l)
    BY <1>2, <2>1 DEF ResendPublic, e1
  <2> HIDE DEF l
  <2>6. "count" \in Steps
    BY DEF Steps
  <2> QED
    BY <1>0, <2>4, <2>5, <2>6, ReadShape
<1>3. ASSUME NEW e \in Addresses, Forgot(h, e) PROVE Shape'
  <2>1. PICK u \in Owners(e) :
          Goto(h, "create", [NoLocal EXCEPT !.user = u, !.target = e, !.purpose = "reset"])
    BY <1>3 DEF Forgot
  <2> DEFINE l == [NoLocal EXCEPT !.user = u, !.target = e, !.purpose = "reset"]
  <2>2. u \in Users /\ account[u].state # "none"
    BY DEF Owners, Active
  <2>3. l = [user |-> u, target |-> e, purpose |-> "reset", token |-> None]
    BY AboutIs
  <2>4. l \in Locals /\ Fits(account, token, "create", l)
    BY <2>2, <2>3 DEF Locals, Purposes, Fits, Issuing, Presenting, Resetting
  <2>5. Goto(h, "create", l)
    BY <1>3, <2>1 DEF Forgot
  <2> HIDE DEF l
  <2>6. "create" \in Steps
    BY DEF Steps
  <2> QED
    BY <1>0, <2>4, <2>5, <2>6, ReadShape
<1>4. ASSUME NEW u \in Users, NEW e \in Addresses, Register(h, u, e) PROVE Shape'
  <2> DEFINE l == [NoLocal EXCEPT !.user = u, !.target = e, !.purpose = "registration"]
  <2>1. l = [user |-> u, target |-> e, purpose |-> "registration", token |-> None]
    BY AboutIs
  <2>2. l \in Locals /\ Fits(account, token, "insert", l)
    BY <2>1 DEF Locals, Purposes, Fits, Issuing, Presenting, Resetting
  <2>3. Goto(h, "insert", l)
    BY <1>4 DEF Register
  <2> HIDE DEF l
  <2>4. "insert" \in Steps
    BY DEF Steps
  <2> QED
    BY <1>0, <2>2, <2>3, <2>4, ReadShape
<1>5. ASSUME NEW u \in Users, NEW e \in Addresses, Change(h, u, e) PROVE Shape'
  <2> DEFINE l == [NoLocal EXCEPT !.user = u, !.target = e, !.purpose = "email_change"]
  <2>1. l = [user |-> u, target |-> e, purpose |-> "email_change", token |-> None]
    BY AboutIs
  <2>2. account[u].state # "none"
    BY <1>5 DEF Change, Active
  <2>3. l \in Locals /\ Fits(account, token, "pending", l)
    BY <2>1, <2>2 DEF Locals, Purposes, Fits, Issuing, Presenting, Resetting
  <2>4. Goto(h, "pending", l)
    BY <1>5 DEF Change
  <2> HIDE DEF l
  <2>5. "pending" \in Steps
    BY DEF Steps
  <2> QED
    BY <1>0, <2>3, <2>4, <2>5, ReadShape
<1>6. ASSUME NEW t \in Tokens, Confirm(h, t) PROVE Shape'
  <2> DEFINE l == [NoLocal EXCEPT !.user = token[t].user, !.token = t,
                                  !.purpose = token[t].purpose]
  <2>1. l = [user |-> token[t].user, target |-> None, purpose |-> token[t].purpose,
             token |-> t]
    BY PresentsIs
  <2>2. token[t].state # "none" /\ TokenFits(t)
    BY <1>6 DEF Confirm, Shape, Created
  <2>3. l \in Locals /\ Fits(account, token, "consume", l)
    BY <1>6, <2>1, <2>2
    DEF Confirm, TokenFits, Created, Locals, Purposes, Fits, Issuing, Presenting, Resetting
  <2>4. Goto(h, "consume", l)
    BY <1>6 DEF Confirm
  <2> HIDE DEF l
  <2>5. "consume" \in Steps
    BY DEF Steps
  <2> QED
    BY <1>0, <2>3, <2>4, <2>5, ReadShape
<1>7. ASSUME NEW t \in Tokens, Reset(h, t) PROVE Shape'
  <2> DEFINE l == [NoLocal EXCEPT !.user = token[t].user, !.token = t]
  <2>1. l = [user |-> token[t].user, target |-> None, purpose |-> "none", token |-> t]
    BY PresentsOnlyIs
  <2>2. token[t].state # "none" /\ TokenFits(t)
    BY <1>7 DEF Reset, Shape, Created
  <2>3. l \in Locals /\ Fits(account, token, "spend", l)
    BY <1>7, <2>1, <2>2
    DEF Reset, TokenFits, Created, Locals, Fits, Issuing, Presenting, Resetting
  <2>4. Goto(h, "spend", l)
    BY <1>7 DEF Reset
  <2> HIDE DEF l
  <2>5. "spend" \in Steps
    BY DEF Steps
  <2> QED
    BY <1>0, <2>3, <2>4, <2>5, ReadShape
<1> QED
  BY <1>1, <1>2, <1>3, <1>4, <1>5, <1>6, <1>7

(* The steps that change neither an account nor a token.                    *)
LEMMA ReadsShape ==
  ASSUME Parameters, Shape, NEW h \in Handlers,
         CountSends(h) \/ Consume(h) \/ Mark(h) \/ PromoteTaken(h) \/ Promote(h)
  PROVE  Shape'
<1>0. Untouched
  <2>1. UNCHANGED <<account, token, mailed, proved, used, resent>>
    BY DEF CountSends, Consume, Mark, PromoteTaken, Promote, observers
  <2>2. crossed' \subseteq Users
    BY DEF CountSends, Consume, Mark, PromoteTaken, Promote, observers, CrossIf, Shape, TypeOK,
           Fits
  <2> QED
    BY <2>1, <2>2 DEF Untouched
<1> DEFINE l == local[h]
<1>1. l \in Locals /\ pc[h] \in Steps /\ Fits(account, token, pc[h], l)
  BY Known
<1>2. "invalidate" \in Steps /\ "find" \in Steps /\ "commit" \in Steps
  BY DEF Steps
<1>3. ASSUME End(h) PROVE Shape'
  BY <1>0, <1>3, AtRest, ReadShape DEF End
<1>4. CASE CountSends(h)
  <2>1. pc[h] = "count"
    BY <1>4 DEF CountSends
  <2>2. CASE Goto(h, "invalidate", l)
    <3>1. Fits(account, token, "invalidate", l)
      BY <1>1, <2>1 DEF Fits, Issuing, Presenting, Resetting
    <3> QED
      BY <1>0, <1>1, <1>2, <2>1, <2>2, <3>1, ReadShape
  <2>3. CASE End(h)
    BY <1>3, <2>3
  <2> QED
    BY <1>4, <2>2, <2>3 DEF CountSends
<1>5. CASE Consume(h)
  <2>1. pc[h] = "consume"
    BY <1>5 DEF Consume
  <2>2. CASE Goto(h, "find", l)
    <3>1. Fits(account, token, "find", l)
      BY <1>1, <2>1 DEF Fits, Issuing, Presenting, Resetting
    <3> QED
      BY <1>0, <1>1, <1>2, <2>1, <2>2, <3>1, ReadShape
  <2>3. CASE End(h)
    BY <1>3, <2>3
  <2> QED
    BY <1>5, <2>2, <2>3 DEF Consume
<1>6. CASE Mark(h)
  <2>1. /\ pc[h] = "apply"
        /\ Goto(h, "commit", l) /\ AccountFree(h, l.user) /\ l.purpose # "email_change"
    BY <1>6 DEF Mark
  <2>2. Fits(account, token, "commit", l)
    BY <1>1, <2>1 DEF Fits, Issuing, Presenting, Resetting
  <2> QED
    BY <1>0, <1>1, <1>2, <2>1, <2>2, ReadShape
<1>7. CASE PromoteTaken(h)
  BY <1>3, <1>7 DEF PromoteTaken
<1>8. CASE Promote(h)
  <2> DEFINE e == account[l.user].pending
             m == [l EXCEPT !.target = e]
  <2>1. /\ pc[h] = "apply"
        /\ Goto(h, "commit", m) /\ e # None /\ AccountFree(h, l.user)
    BY <1>8 DEF Promote, Promotable
  <2>2. e \in Addresses /\ e = account[l.user].pending
    BY <1>1, <2>1 DEF Fits, Shape, TypeOK, Rows
  <2> HIDE DEF e
  <2>3. m = [user |-> l.user, target |-> e, purpose |-> l.purpose, token |-> l.token]
    BY <1>1 DEF Locals
  <2>4. m \in Locals /\ Fits(account, token, "commit", m)
    BY <1>1, <2>1, <2>2, <2>3 DEF Locals, Fits, Issuing, Presenting, Resetting
  <2>5. m.user = l.user
    BY <2>3
  <2> HIDE DEF m
  <2> QED
    BY <1>0, <1>2, <2>1, <2>2, <2>4, <2>5, ReadShape
<1> QED
  BY <1>4, <1>5, <1>6, <1>7, <1>8

(* Tokens of an account are invalidated.                                    *)
LEMMA InvalidatedIs ==
  ASSUME Shape, NEW S \in SUBSET {t \in Tokens : Created(t)},
         NEW b, b = Invalidated(S)
  PROVE  /\ b \in [Tokens -> TokenRows]
         /\ \A t \in Tokens :
              /\ b[t].user = token[t].user /\ b[t].email = token[t].email
              /\ b[t].purpose = token[t].purpose
              /\ b[t].state # "none" <=> token[t].state # "none"
              /\ b[t].state = IF t \in S THEN "invalid" ELSE token[t].state
<1>1. \A t \in Tokens : b[t] = IF t \in S THEN [token[t] EXCEPT !.state = "invalid"]
                                          ELSE token[t]
  BY DEF Invalidated
<1>2. \A t \in Tokens : token[t] \in TokenRows
  BY DEF Shape, TypeOK
<1>3. ASSUME NEW t \in Tokens
      PROVE  /\ b[t] \in TokenRows
             /\ b[t].user = token[t].user /\ b[t].email = token[t].email
             /\ b[t].purpose = token[t].purpose
             /\ b[t].state # "none" <=> token[t].state # "none"
             /\ b[t].state = IF t \in S THEN "invalid" ELSE token[t].state
  BY <1>1, <1>2 DEF TokenRows, Created
<1>4. b \in [Tokens -> TokenRows]
  BY <1>3 DEF Invalidated
<1> QED
  BY <1>3, <1>4

(* A token is spent, or has expired.                                        *)
LEMMA TurnedIs ==
  ASSUME Shape, NEW t \in Tokens, Created(t), NEW s \in {"spent", "invalid"},
         token' = [token EXCEPT ![t].state = s]
  PROVE  /\ token' \in [Tokens -> TokenRows]
         /\ \A x \in Tokens :
              /\ token'[x].user = token[x].user /\ token'[x].email = token[x].email
              /\ token'[x].purpose = token[x].purpose
              /\ token'[x].state # "none" <=> token[x].state # "none"
              /\ token'[x].state = IF x = t THEN s ELSE token[x].state
<1>1. \A x \in Tokens : token'[x] = IF x = t THEN [token[t] EXCEPT !.state = s] ELSE token[x]
  BY DEF Shape, TypeOK
<1>2. \A x \in Tokens : token[x] \in TokenRows
  BY DEF Shape, TypeOK
<1>3. [token[t] EXCEPT !.state = s] \in TokenRows
  BY <1>2 DEF TokenRows
<1>4. token' = [token EXCEPT ![t] = [token[t] EXCEPT !.state = s]]
  OBVIOUS
<1>5. token' \in [Tokens -> TokenRows]
  BY <1>3, <1>4 DEF Shape, TypeOK
<1>6. ASSUME NEW x \in Tokens
      PROVE  /\ token'[x].user = token[x].user /\ token'[x].email = token[x].email
             /\ token'[x].purpose = token[x].purpose
             /\ token'[x].state # "none" <=> token[x].state # "none"
             /\ token'[x].state = IF x = t THEN s ELSE token[x].state
  BY <1>1, <1>2 DEF TokenRows, Created
<1> QED
  BY <1>5, <1>6

(* A token is used.                                                         *)
LEMMA SpentIs ==
  ASSUME Shape, NEW t \in Tokens, Created(t), token' = Spent(t)
  PROVE  /\ TokensMove
         /\ \A x \in Tokens : token'[x].state = IF x = t THEN "spent" ELSE token[x].state
<1>1. PICK s \in {"spent", "invalid"} : s = "spent"
  OBVIOUS
<1>2. token' = [token EXCEPT ![t].state = s]
  BY <1>1 DEF Spent
<1>3. /\ token' \in [Tokens -> TokenRows]
      /\ \A x \in Tokens :
           /\ token'[x].user = token[x].user /\ token'[x].email = token[x].email
           /\ token'[x].purpose = token[x].purpose
           /\ token'[x].state # "none" <=> token[x].state # "none"
           /\ token'[x].state = IF x = t THEN s ELSE token[x].state
  BY <1>2, TurnedIs
<1> QED
  BY <1>1, <1>3 DEF TokensMove

(* A token has expired.                                                     *)
LEMMA ExpiredIs ==
  ASSUME Shape, NEW t \in Tokens, Expire(t)
  PROVE  /\ TokensMove
         /\ \A x \in Tokens : token'[x].state = IF x = t THEN "invalid" ELSE token[x].state
<1>1. PICK s \in {"spent", "invalid"} : s = "invalid"
  OBVIOUS
<1>2. token' = [token EXCEPT ![t].state = s] /\ Created(t)
  BY <1>1 DEF Expire, Created
<1>3. /\ token' \in [Tokens -> TokenRows]
      /\ \A x \in Tokens :
           /\ token'[x].user = token[x].user /\ token'[x].email = token[x].email
           /\ token'[x].purpose = token[x].purpose
           /\ token'[x].state # "none" <=> token[x].state # "none"
           /\ token'[x].state = IF x = t THEN s ELSE token[x].state
  BY <1>2, TurnedIs
<1> QED
  BY <1>1, <1>3 DEF TokensMove

(* The tokens that an issuer invalidates exist and are of its account.      *)
LEMMA LiveOnes ==
  ASSUME NEW u
  PROVE  /\ Live(u) \in SUBSET {t \in Tokens : Created(t)}
         /\ \A t \in Live(u) : token[t].user = u /\ token[t].purpose # "reset"
                             /\ token[t].state = "live"
BY DEF Live, Verifications, TokensOf, Created

(* The row of u gets state s, address e and pending address p.              *)
Wrote(u, s, e, p) ==
  /\ account' \in [Users -> Rows]
  /\ account'[u].state = s /\ account'[u].email = e /\ account'[u].pending = p
  /\ \A v \in Users \ {u} : account'[v] = account[v]

(* A whole row of users is written.                                         *)
LEMMA WroteIt ==
  ASSUME Shape, NEW u \in Users, NEW s \in {"active", "gone"}, NEW e \in Addresses,
         NEW p \in Addresses \cup {None}, NEW v \in BOOLEAN,
         account' = [account EXCEPT ![u] =
                       [state |-> s, email |-> e, pending |-> p, verified |-> v]]
  PROVE  Wrote(u, s, e, p)
<1> DEFINE r == [state |-> s, email |-> e, pending |-> p, verified |-> v]
<1>1. r \in Rows /\ r.state = s /\ r.email = e /\ r.pending = p
  BY DEF Rows
<1> HIDE DEF r
<1>2. account' = [account EXCEPT ![u] = r]
  BY DEF r
<1> QED
  BY <1>1, <1>2 DEF Wrote, Shape, TypeOK

(* Who writes the row of one account leaves the others alone, and the       *)
(* account exists after it.                                                 *)
LEMMA WroteMoves ==
  ASSUME Parameters, Shape, NEW u \in Users, NEW s \in {"active", "gone"},
         NEW e \in Addresses, NEW p, Wrote(u, s, e, p)
  PROVE  AccountsMove
BY DEF Parameters, Shape, TypeOK, Wrote, AccountsMove

(* setPendingEmailById.                                                     *)
LEMMA PendingIs ==
  ASSUME Shape, NEW u \in Users, NEW e,
         account' = [account EXCEPT ![u].pending = e, ![u].verified = FALSE]
  PROVE  \E y : /\ y = FALSE
               /\ account' = [account EXCEPT ![u] =
                              [state |-> account[u].state, email |-> account[u].email, pending |-> e, verified |-> y]]
<1>1. PICK y : y = FALSE
  OBVIOUS
<1> DEFINE r == account[u]
<1>2. r = [state |-> r.state, email |-> r.email, pending |-> r.pending, verified |-> r.verified]
  BY DEF Shape, TypeOK, Rows
<1> DEFINE a == [account EXCEPT ![u].pending = e]
<1>3. [r EXCEPT !.pending = e] = [state |-> r.state, email |-> r.email, pending |-> e, verified |-> r.verified]
  BY <1>2
<1>4. a = [account EXCEPT ![u] = [state |-> r.state, email |-> r.email, pending |-> e, verified |-> r.verified]]
  BY <1>3
<1> HIDE DEF a
<1>5. a[u] = [state |-> r.state, email |-> r.email, pending |-> e, verified |-> r.verified]
  BY <1>4 DEF Shape, TypeOK
<1> DEFINE b == [a EXCEPT ![u].verified = y]
<1>6. [a[u] EXCEPT !.verified = y] = [state |-> r.state, email |-> r.email, pending |-> e, verified |-> y]
  BY <1>5
<1>7. b = [a EXCEPT ![u] = [state |-> r.state, email |-> r.email, pending |-> e, verified |-> y]]
  BY <1>6
<1>8. b = [account EXCEPT ![u] = [state |-> r.state, email |-> r.email, pending |-> e, verified |-> y]]
  BY <1>4, <1>7 DEF Shape, TypeOK
<1>9. account' = b
  BY <1>1, Zenon DEF a
<1> HIDE DEF b
<1> QED
  BY <1>1, <1>8, <1>9

(* promotePendingEmailById.                                                 *)
LEMMA PromotedIs ==
  ASSUME Shape, NEW u \in Users, account' = Promoted(u)
  PROVE  \E y : /\ y = TRUE
               /\ account' = [account EXCEPT ![u] =
                              [state |-> account[u].state, email |-> account[u].pending, pending |-> None, verified |-> y]]
<1>1. PICK y : y = TRUE
  OBVIOUS
<1> DEFINE r == account[u]
<1>2. r = [state |-> r.state, email |-> r.email, pending |-> r.pending, verified |-> r.verified]
  BY DEF Shape, TypeOK, Rows
<1> DEFINE a == [account EXCEPT ![u].email = r.pending]
<1>3. [r EXCEPT !.email = r.pending] = [state |-> r.state, email |-> r.pending, pending |-> r.pending, verified |-> r.verified]
  BY <1>2
<1>4. a = [account EXCEPT ![u] = [state |-> r.state, email |-> r.pending, pending |-> r.pending, verified |-> r.verified]]
  BY <1>3
<1> HIDE DEF a
<1>5. a[u] = [state |-> r.state, email |-> r.pending, pending |-> r.pending, verified |-> r.verified]
  BY <1>4 DEF Shape, TypeOK
<1> DEFINE b == [a EXCEPT ![u].pending = None]
<1>6. [a[u] EXCEPT !.pending = None] = [state |-> r.state, email |-> r.pending, pending |-> None, verified |-> r.verified]
  BY <1>5
<1>7. b = [a EXCEPT ![u] = [state |-> r.state, email |-> r.pending, pending |-> None, verified |-> r.verified]]
  BY <1>6
<1>8. b = [account EXCEPT ![u] = [state |-> r.state, email |-> r.pending, pending |-> None, verified |-> r.verified]]
  BY <1>4, <1>7 DEF Shape, TypeOK
<1> HIDE DEF b
<1>9. b[u] = [state |-> r.state, email |-> r.pending, pending |-> None, verified |-> r.verified]
  BY <1>8 DEF Shape, TypeOK
<1> DEFINE c == [b EXCEPT ![u].verified = y]
<1>10. [b[u] EXCEPT !.verified = y] = [state |-> r.state, email |-> r.pending, pending |-> None, verified |-> y]
  BY <1>9
<1>11. c = [b EXCEPT ![u] = [state |-> r.state, email |-> r.pending, pending |-> None, verified |-> y]]
  BY <1>10
<1>12. c = [account EXCEPT ![u] = [state |-> r.state, email |-> r.pending, pending |-> None, verified |-> y]]
  BY <1>8, <1>11 DEF Shape, TypeOK
<1>13. account' = c
  BY <1>1, Zenon DEF a, b, Promoted
<1> HIDE DEF c
<1> QED
  BY <1>1, <1>12, <1>13

(* markUserEmailVerifiedById.                                               *)
LEMMA MarkedIs ==
  ASSUME Shape, NEW u \in Users, 
         account' = [account EXCEPT ![u].verified = TRUE, ![u].pending = None]
  PROVE  \E y : /\ y = TRUE
               /\ account' = [account EXCEPT ![u] =
                              [state |-> account[u].state, email |-> account[u].email, pending |-> None, verified |-> y]]
<1>1. PICK y : y = TRUE
  OBVIOUS
<1> DEFINE r == account[u]
<1>2. r = [state |-> r.state, email |-> r.email, pending |-> r.pending, verified |-> r.verified]
  BY DEF Shape, TypeOK, Rows
<1> DEFINE a == [account EXCEPT ![u].verified = y]
<1>3. [r EXCEPT !.verified = y] = [state |-> r.state, email |-> r.email, pending |-> r.pending, verified |-> y]
  BY <1>2
<1>4. a = [account EXCEPT ![u] = [state |-> r.state, email |-> r.email, pending |-> r.pending, verified |-> y]]
  BY <1>3
<1> HIDE DEF a
<1>5. a[u] = [state |-> r.state, email |-> r.email, pending |-> r.pending, verified |-> y]
  BY <1>4 DEF Shape, TypeOK
<1> DEFINE b == [a EXCEPT ![u].pending = None]
<1>6. [a[u] EXCEPT !.pending = None] = [state |-> r.state, email |-> r.email, pending |-> None, verified |-> y]
  BY <1>5
<1>7. b = [a EXCEPT ![u] = [state |-> r.state, email |-> r.email, pending |-> None, verified |-> y]]
  BY <1>6
<1>8. b = [account EXCEPT ![u] = [state |-> r.state, email |-> r.email, pending |-> None, verified |-> y]]
  BY <1>4, <1>7 DEF Shape, TypeOK
<1>9. account' = b
  BY <1>1, Zenon DEF a
<1> HIDE DEF b
<1> QED
  BY <1>1, <1>8, <1>9

(* The INSERT of a registration.                                            *)
LEMMA InsertWrites ==
  ASSUME Shape, NEW h \in Handlers, Insert(h), account' # account
  PROVE  /\ pc[h] = "insert" /\ account[local[h].user].state = "none"
         /\ Owners(local[h].target) = {} /\ AddressFree(h, local[h].target)
         /\ Goto(h, "invalidate", local[h])
         /\ Wrote(local[h].user, "active", local[h].target, None)
<1> DEFINE u == local[h].user
           e == local[h].target
<1>1. /\ pc[h] = "insert" /\ account[u].state = "none" /\ Owners(e) = {} /\ AddressFree(h, e)
      /\ Goto(h, "invalidate", local[h])
      /\ account' = [account EXCEPT ![u] = [state |-> "active", email |-> e,
                                            pending |-> None, verified |-> FALSE]]
  BY DEF Insert
<1>2. u \in Users /\ e \in Addresses
  BY <1>1 DEF Shape, Fits, Issuing
<1>3. PICK v \in BOOLEAN : v = FALSE
  OBVIOUS
<1> HIDE DEF u, e
<1>4. account' = [account EXCEPT ![u] = [state |-> "active", email |-> e,
                                         pending |-> None, verified |-> v]]
  BY <1>1, <1>3, Zenon
<1>5. Wrote(u, "active", e, None)
  BY <1>2, <1>4, WroteIt
<1> QED
  BY <1>1, <1>5 DEF u, e

(* The UPDATE of a change of the address.                                   *)
LEMMA SetPendingWrites ==
  ASSUME Shape, NEW h \in Handlers, SetPending(h), Active(local[h].user)
  PROVE  Wrote(local[h].user, "active", account[local[h].user].email, local[h].target)
<1> DEFINE u == local[h].user
           e == local[h].target
<1>1. /\ pc[h] = "pending" /\ account[u].state = "active"
      /\ account' = [account EXCEPT ![u].pending = e, ![u].verified = FALSE]
  BY DEF SetPending, Active
<1>2. u \in Users /\ e \in Addresses
  BY <1>1 DEF Shape, Fits, Issuing
<1> HIDE DEF u, e
<1>3. account[u].email \in Addresses
  BY <1>1, <1>2 DEF Shape, TypeOK, Rows
<1>4. PICK y : y = FALSE /\ account' = [account EXCEPT ![u] =
                 [state |-> account[u].state, email |-> account[u].email,
                  pending |-> e, verified |-> y]]
  BY <1>1, <1>2, PendingIs
<1>5. y \in BOOLEAN
  BY <1>4
<1>6. account[u].state = "active" /\ e \in Addresses \cup {None}
  BY <1>1, <1>2
<1>7. Wrote(u, "active", account[u].email, e)
  BY <1>2, <1>3, <1>4, <1>5, <1>6, WroteIt
<1> QED
  BY <1>7 DEF u, e

(* The UPDATE of a confirmation of a change.                                *)
LEMMA PromotedWrites ==
  ASSUME Shape, NEW u \in Users, Active(u), account[u].pending # None,
         account' = Promoted(u)
  PROVE  Wrote(u, "active", account[u].pending, None)
<1>1. account[u].pending \in Addresses /\ account[u].state = "active"
  BY DEF Shape, TypeOK, Rows, Active
<1>2. PICK y : y = TRUE /\ account' = [account EXCEPT ![u] =
                 [state |-> account[u].state, email |-> account[u].pending,
                  pending |-> None, verified |-> y]]
  BY PromotedIs
<1>3. y \in BOOLEAN
  BY <1>2
<1> QED
  BY <1>1, <1>2, <1>3, WroteIt

(* The UPDATE of any other confirmation.                                    *)
LEMMA MarkedWrites ==
  ASSUME Shape, NEW u \in Users, Active(u),
         account' = [account EXCEPT ![u].verified = TRUE, ![u].pending = None]
  PROVE  Wrote(u, "active", account[u].email, None)
<1>1. account[u].email \in Addresses /\ account[u].state = "active"
  BY DEF Shape, TypeOK, Rows, Active
<1>2. PICK y : y = TRUE /\ account' = [account EXCEPT ![u] =
                 [state |-> account[u].state, email |-> account[u].email,
                  pending |-> None, verified |-> y]]
  BY MarkedIs
<1>3. y \in BOOLEAN
  BY <1>2
<1> QED
  BY <1>1, <1>2, <1>3, WroteIt

(* What the commit of a confirmation writes.                                *)
LEMMA CommitWrites ==
  ASSUME Shape, NEW h \in Handlers, Commit(h), account' # account
  PROVE  /\ Active(local[h].user)
         /\ \/ local[h].purpose # "email_change" /\
                Wrote(local[h].user, "active", account[local[h].user].email, None)
            \/ local[h].purpose = "email_change" /\ account[local[h].user].pending # None /\
                Wrote(local[h].user, "active", account[local[h].user].pending, None)
<1> DEFINE u == local[h].user
<1>1. pc[h] = "commit" /\ account' = Confirmed(h)
  BY DEF Commit
<1>2. u \in Users /\ Active(u)
  BY <1>1 DEF Shape, Fits, Confirmed
<1>3. CASE local[h].purpose = "email_change"
  <2>1. account[u].pending # None /\ account' = Promoted(u)
    BY <1>1, <1>2, <1>3 DEF Confirmed, Shape, Committing
  <2> QED
    BY <1>2, <1>3, <2>1, PromotedWrites
<1>4. CASE local[h].purpose # "email_change"
  <2>1. account' = [account EXCEPT ![u].verified = TRUE, ![u].pending = None]
    BY <1>1, <1>2, <1>4 DEF Confirmed
  <2> QED
    BY <1>2, <1>4, <2>1, MarkedWrites
<1> QED
  BY <1>3, <1>4

(* The steps that write tokens only.                                        *)
LEMMA TokenStepsShape ==
  ASSUME Parameters, Shape, NEW h \in Handlers,
         Drop(h) \/ Invalidate(h) \/ SpendReset(h) \/ PromoteNothing(h) \/ FindUser(h)
  PROVE  Shape'
<1> DEFINE l == local[h]
<1>1. l \in Locals /\ pc[h] \in Steps /\ Fits(account, token, pc[h], l)
  BY Known
<1>2. ASSUME account' = account, mailed' = mailed, UNCHANGED observers, TokensMove,
             NEW k \in Steps \ {"commit"}, NEW m \in Locals,
             Goto(h, k, m), Fits(account, token, k, m)
      PROVE  Shape'
  <2>1. AccountsMove /\ Respects(h)
    BY <1>2, SameAccounts DEF Respects
  <2>2. /\ proved' \in [Users -> SUBSET Addresses] /\ used' \in [Tokens -> Nat]
        /\ crossed' \subseteq Users /\ resent' = resent
    BY <1>2 DEF Shape, TypeOK, observers
  <2> QED
    BY <1>2, <2>1, <2>2, MoveOn
<1>3. ASSUME NEW u, token' = Invalidated(Live(u)) PROVE TokensMove
  BY <1>3, LiveOnes, InvalidatedIs DEF TokensMove
<1>4. ASSUME SpendOnly(h), l.token \in Tokens, Created(l.token) PROVE Shape'
  <2>1. token' = Spent(l.token)
    BY <1>4 DEF SpendOnly
  <2>2. TokensMove
    BY <1>4, <2>1, SpentIs
  <2>3. "idle" \in Steps \ {"commit"}
    BY DEF Steps
  <2> QED
    BY <1>2, <1>4, <2>2, <2>3, AtRest DEF SpendOnly, End
<1>5. CASE Drop(h)
  <2>1. /\ account' = account /\ mailed' = mailed /\ UNCHANGED observers
        /\ token' = Invalidated(Live(l.user)) /\ Goto(h, "invalidate", l) /\ pc[h] = "drop"
    BY <1>5 DEF Drop
  <2>2. Fits(account, token, "invalidate", l) /\ "invalidate" \in Steps \ {"commit"}
    BY <1>1, <2>1 DEF Fits, Issuing, Presenting, Resetting, Steps
  <2> QED
    BY <1>1, <1>2, <1>3, <2>1, <2>2
<1>6. CASE Invalidate(h)
  <2>1. /\ account' = account /\ mailed' = mailed /\ UNCHANGED observers
        /\ token' = Invalidated(Live(l.user)) /\ Goto(h, "create", l) /\ pc[h] = "invalidate"
    BY <1>6 DEF Invalidate
  <2>2. Fits(account, token, "create", l) /\ "create" \in Steps \ {"commit"}
    BY <1>1, <2>1 DEF Fits, Issuing, Presenting, Resetting, Steps, Purposes
  <2> QED
    BY <1>1, <1>2, <1>3, <2>1, <2>2
<1>7. CASE SpendReset(h)
  <2>1. /\ account' = account /\ mailed' = mailed /\ UNCHANGED observers /\ pc[h] = "spend"
    BY <1>7 DEF SpendReset
  <2>2. l.token \in Tokens /\ Created(l.token)
    BY <1>1, <2>1 DEF Fits, Resetting, Created
  <2>3. CASE token[l.token].state = "live"
    <3>1. token' = Spent(l.token) /\ Goto(h, "password", l)
      BY <1>7, <2>3 DEF SpendReset
    <3>2. TokensMove
      BY <2>2, <3>1, SpentIs
    <3>3. Fits(account, token, "password", l) /\ "password" \in Steps \ {"commit"}
      BY <1>1, <2>1 DEF Fits, Issuing, Presenting, Resetting, Steps
    <3> QED
      BY <1>1, <1>2, <2>1, <3>1, <3>2, <3>3
  <2>4. CASE token[l.token].state # "live"
    <3>1. token' = token /\ End(h)
      BY <1>7, <2>4 DEF SpendReset
    <3>2. TokensMove
      BY <3>1, SameTokens
    <3>3. "idle" \in Steps \ {"commit"}
      BY DEF Steps
    <3> QED
      BY <1>2, <2>1, <3>1, <3>2, <3>3, AtRest DEF End
  <2> QED
    BY <2>3, <2>4
<1>8. CASE PromoteNothing(h)
  <2>1. pc[h] = "apply" /\ SpendOnly(h)
    BY <1>8 DEF PromoteNothing
  <2>2. l.token \in Tokens /\ Created(l.token)
    BY <1>1, <2>1 DEF Fits, Presenting, Created
  <2> QED
    BY <1>4, <2>1, <2>2
<1>9. CASE FindUser(h)
  <2>1. pc[h] = "find"
    BY <1>9 DEF FindUser
  <2>2. l.token \in Tokens /\ Created(l.token)
    BY <1>1, <2>1 DEF Fits, Presenting, Created
  <2>3. CASE Goto(h, "apply", l) /\ UNCHANGED <<account, token, mailed, observers>>
    <3>1. Fits(account, token, "apply", l) /\ "apply" \in Steps
      BY <1>1, <2>1 DEF Fits, Issuing, Presenting, Resetting, Steps
    <3> QED
      BY <1>1, <2>3, <3>1, SameIsUntouched, ReadShape
  <2> QED
    BY <1>4, <1>9, <2>2, <2>3 DEF FindUser
<1> QED
  BY <1>5, <1>6, <1>7, <1>8, <1>9

(* The steps that write accounts, or the observers.                         *)
LEMMA AccountStepsShape ==
  ASSUME Parameters, Shape, NEW h \in Handlers,
         Insert(h) \/ SetPending(h) \/ SetPassword(h)
  PROVE  Shape'
<1> DEFINE l == local[h]
<1>1. l \in Locals /\ pc[h] \in Steps /\ Fits(account, token, pc[h], l)
  BY Known
<1>2. ASSUME token' = token, mailed' = mailed, UNCHANGED <<proved, used, resent>>,
             crossed' \subseteq Users, AccountsMove, Respects(h),
             NEW k \in Steps \ {"commit"}, NEW m \in Locals,
             Goto(h, k, m), Fits(account', token', k, m)
      PROVE  Shape'
  <2>1. TokensMove
    BY <1>2, SameTokens
  <2>2. Later /\ Numbered' /\ \A t \in Tokens : TokenFits(t)'
    BY <1>2, <2>1, MovesKeep
  <2>3. /\ proved' \in [Users -> SUBSET Addresses] /\ used' \in [Tokens -> Nat]
        /\ crossed' \subseteq Users /\ resent' \in [Users -> Nat]
        /\ mailed' \subseteq Tokens /\ \A t \in mailed' : token'[t].state # "none"
        /\ token' \in [Tokens -> TokenRows]
    BY <1>2 DEF Shape, TypeOK, Created
  <2>4. /\ account' \in [Users -> Rows]
        /\ \A u \in Users : account'[u].state # "none" => account'[u].email # None
    BY <1>2 DEF AccountsMove
  <2> QED
    BY <1>2, <2>2, <2>3, <2>4, MoveShape
<1>3. CASE Insert(h)
  <2>1. /\ token' = token /\ mailed' = mailed /\ pc[h] = "insert"
        /\ UNCHANGED <<proved, used, resent>> /\ crossed' \subseteq Users
    BY <1>3 DEF Insert, observers, Shape, TypeOK
  <2>2. CASE account' = account
    <3>1. AccountsMove /\ Respects(h)
      BY <2>2, SameAccounts DEF Respects
    <3>2. CASE End(h)
      <4>1. "idle" \in Steps \ {"commit"} /\ Fits(account', token', "idle", NoLocal)
        BY <2>1, <2>2, AtRest DEF Steps
      <4> QED
        BY <1>2, <2>1, <3>1, <3>2, <4>1, AtRest DEF End
    <3>3. CASE ~End(h)
      <4>1. /\ Goto(h, "invalidate", l)
            /\ account' = [account EXCEPT ![l.user] =
                             [state |-> "active", email |-> l.target,
                              pending |-> None, verified |-> FALSE]]
            /\ account[l.user].state = "none"
        BY <1>3, <3>3 DEF Insert
      <4>2. account'[l.user].state = "active"
        BY <1>1, <2>1, <4>1 DEF Fits, Shape, TypeOK
      <4> QED
        BY <2>2, <4>1, <4>2
    <3> QED
      BY <3>2, <3>3
  <2>3. CASE account' # account
    <3>1. /\ account[l.user].state = "none" /\ Goto(h, "invalidate", l)
          /\ Wrote(l.user, "active", l.target, None)
      BY <1>3, <2>3, InsertWrites
    <3>2. l.user \in Users /\ l.target \in Addresses /\ l.purpose = "registration"
      BY <1>1, <2>1 DEF Fits, Issuing
    <3>3. AccountsMove
      BY <3>1, <3>2, WroteMoves
    <3>4. Respects(h)
      <4>1. AccountFree(h, l.user)
        BY <3>1 DEF AccountFree, HoldsAccount, Shape, Fits
      <4> QED
        BY <3>1, <4>1 DEF Respects, Wrote
    <3>5. Fits(account', token', "invalidate", l) /\ "invalidate" \in Steps \ {"commit"}
      BY <3>1, <3>2 DEF Wrote, Fits, Issuing, Presenting, Resetting, Steps
    <3> QED
      BY <1>1, <1>2, <2>1, <3>1, <3>3, <3>4, <3>5
  <2> QED
    BY <2>2, <2>3
<1>4. CASE SetPending(h)
  <2>1. /\ token' = token /\ mailed' = mailed /\ pc[h] = "pending"
        /\ UNCHANGED <<proved, used, resent>>
        /\ AccountFree(h, l.user) /\ Goto(h, "drop", l)
        /\ ~Active(l.user) => account' = account
        /\ crossed' \in {crossed, crossed \cup {l.user}}
    BY <1>4 DEF SetPending, CrossIf
  <2>2. l.user \in Users /\ l.target \in Addresses /\ l.purpose = "email_change"
        /\ account[l.user].state # "none"
    BY <1>1, <2>1 DEF Fits, Issuing
  <2>3. AccountsMove /\ Respects(h)
    <3>1. CASE ~Active(l.user)
      BY <2>1, <3>1, SameAccounts DEF Respects
    <3>2. CASE Active(l.user)
      <4>1. Wrote(l.user, "active", account[l.user].email, l.target)
        BY <1>4, <3>2, SetPendingWrites
      <4>2. account[l.user].email \in Addresses
        BY <2>2 DEF Shape, TypeOK, Rows
      <4> QED
        BY <2>1, <2>2, <4>1, <4>2, WroteMoves DEF Respects, Wrote
    <3> QED
      BY <3>1, <3>2
  <2>4. Fits(account', token', "drop", l) /\ "drop" \in Steps \ {"commit"}
    BY <2>2, <2>3 DEF AccountsMove, Fits, Issuing, Presenting, Resetting, Steps
  <2>5. crossed' \subseteq Users
    BY <2>1, <2>2 DEF Shape, TypeOK
  <2> QED
    BY <1>1, <1>2, <2>1, <2>3, <2>4, <2>5
<1>5. CASE SetPassword(h)
  <2>1. /\ account' = account /\ token' = token /\ mailed' = mailed /\ proved' = proved
        /\ resent' = resent /\ crossed' = crossed /\ End(h) /\ pc[h] = "password"
        /\ used' = [used EXCEPT ![l.token] = @ + (IF Active(l.user) THEN 1 ELSE 0)]
    BY <1>5 DEF SetPassword
  <2>2. l.token \in Tokens
    BY <1>1, <2>1 DEF Fits, Resetting
  <2>3. used' \in [Tokens -> Nat]
    BY <2>1, <2>2 DEF Shape, TypeOK
  <2>4. TokensMove /\ AccountsMove /\ Respects(h)
    BY <2>1, SameTokens, SameAccounts DEF Respects
  <2>5. proved' \in [Users -> SUBSET Addresses] /\ crossed' \subseteq Users
    BY <2>1 DEF Shape, TypeOK
  <2>6. "idle" \in Steps \ {"commit"}
    BY DEF Steps
  <2> QED
    BY <2>1, <2>3, <2>4, <2>5, <2>6, AtRest, MoveOn DEF End
<1> QED
  BY <1>3, <1>4, <1>5

(* There are as many numbers up to n.                                       *)
LEMMA FirstOnes == ASSUME NEW n \in Nat PROVE IsFiniteSet(1..n) /\ Cardinality(1..n) = n
<1>1. 1 \in Int /\ n \in Int
  OBVIOUS
<1>2. IsFiniteSet(1..n) /\ Cardinality(1..n) = IF 1 > n THEN 0 ELSE n - 1 + 1
  BY <1>1, FS_Interval
<1> QED
  BY <1>2

(* Tokens are numbered as they are created, so a new one is new.            *)
LEMMA NewToken ==
  ASSUME Parameters, Shape,
         NEW t, t = 1 + Cardinality({x \in Tokens : token[x].state # "none"}), t \in Tokens
  PROVE  \A x \in Tokens : Created(x) <=> x < t
<1> DEFINE C == {x \in Tokens : token[x].state # "none"}
<1>1. PICK n \in Nat : \A x \in Tokens : Created(x) <=> x <= n
  BY DEF Shape, Numbered
<1>2. MaxTokens \in Nat /\ Tokens = 1..MaxTokens
  BY DEF Parameters, Tokens
<1>3. CASE n < MaxTokens
  <2>1. C = 1..n
    BY <1>1, <1>2, <1>3 DEF Created
  <2>2. Cardinality(C) = n
    BY <1>1, <2>1, FirstOnes
  <2> QED
    BY <1>1, <1>2, <2>2
<1>4. CASE n >= MaxTokens
  <2>1. C = 1..MaxTokens
    BY <1>1, <1>2, <1>4 DEF Created
  <2>2. Cardinality(C) = MaxTokens
    BY <1>2, <2>1, FirstOnes
  <2> QED
    BY <1>2, <2>2
<1> QED
  BY <1>1, <1>2, <1>3, <1>4

(* The INSERT of a token: it is new, and no other is written.               *)
LEMMA CreateIs ==
  ASSUME Parameters, Shape, NEW h \in Handlers, Create(h)
  PROVE  \E t \in Tokens :
           /\ ~Created(t)
           /\ \A x \in Tokens : Created(x) <=> x < t
           /\ token' \in [Tokens -> TokenRows]
           /\ token'[t] = [state |-> "live", user |-> local[h].user,
                           email |-> local[h].target, purpose |-> local[h].purpose]
           /\ \A x \in Tokens \ {t} : token'[x] = token[x]
           /\ Goto(h, "deliver", [local[h] EXCEPT !.token = t])
<1> DEFINE l == local[h]
           t == 1 + Cardinality({x \in Tokens : token[x].state # "none"})
           r == [state |-> "live", user |-> l.user, email |-> l.target, purpose |-> l.purpose]
<1>1. /\ pc[h] = "create" /\ t \in Tokens /\ token' = [token EXCEPT ![t] = r]
      /\ Goto(h, "deliver", [l EXCEPT !.token = t])
  BY DEF Create
<1>2. \A x \in Tokens : Created(x) <=> x < t
  BY <1>1, NewToken
<1> HIDE DEF t
<1>3. r \in TokenRows
  BY <1>1 DEF TokenRows, Shape, Fits, Issuing
<1> HIDE DEF r
<1>4. ~Created(t)
  BY <1>1, <1>2 DEF Tokens
<1>5. token' \in [Tokens -> TokenRows] /\ token'[t] = r /\ \A x \in Tokens \ {t} : token'[x] = token[x]
  BY <1>1, <1>3 DEF Shape, TypeOK
<1> QED
  BY <1>1, <1>2, <1>4, <1>5 DEF r

(* A new token has the next number, and its issuer is about to deliver it.  *)
LEMMA CreateShape == ASSUME Parameters, Shape, NEW h \in Handlers, Create(h) PROVE Shape'
<1> DEFINE l == local[h]
<1>1. l \in Locals /\ pc[h] = "create" /\ Fits(account, token, "create", l)
  BY Known DEF Create
<1>2. PICK t \in Tokens :
           /\ ~Created(t)
           /\ \A x \in Tokens : Created(x) <=> x < t
           /\ token' \in [Tokens -> TokenRows]
           /\ token'[t] = [state |-> "live", user |-> l.user,
                           email |-> l.target, purpose |-> l.purpose]
           /\ \A x \in Tokens \ {t} : token'[x] = token[x]
           /\ Goto(h, "deliver", [l EXCEPT !.token = t])
  BY CreateIs
<1>3. /\ token'[t].state = "live" /\ token'[t].user = l.user
      /\ token'[t].email = l.target /\ token'[t].purpose = l.purpose
  BY <1>2
<1>4. /\ account' = account /\ mailed' = mailed /\ proved' = proved /\ used' = used
      /\ crossed' = crossed
      /\ resent' = [resent EXCEPT ![l.user] = @ + (IF l.purpose = "resend" THEN 1 ELSE 0)]
  BY DEF Create
<1>5. l.user \in Users /\ l.target \in Addresses /\ l.purpose \in Purposes
      /\ account[l.user].state # "none"
  BY <1>1 DEF Fits, Issuing
<1>6. Later
  BY <1>2, <1>4 DEF Later, Created
<1>7. ASSUME NEW x \in Tokens PROVE TokenFits(x)'
  BY <1>2, <1>3, <1>4, <1>5 DEF Shape, TokenFits, Created
<1>8. Numbered'
  <2>1. t \in Nat
    BY DEF Tokens
  <2>2. \A x \in Tokens : token'[x].state # "none" <=> x <= t
    BY <1>2, <1>3, <2>1 DEF Created, Tokens
  <2> QED
    BY <2>1, <2>2 DEF Numbered, Created
<1>9. /\ proved' \in [Users -> SUBSET Addresses] /\ used' \in [Tokens -> Nat]
      /\ crossed' \subseteq Users /\ mailed' \subseteq Tokens
      /\ account' \in [Users -> Rows]
      /\ \A u \in Users : account'[u].state # "none" => account'[u].email # None
  BY <1>4 DEF Shape, TypeOK
<1>10. resent' \in [Users -> Nat]
  <2>1. resent \in [Users -> Nat]
    BY DEF Shape, TypeOK
  <2>2. resent[l.user] + (IF l.purpose = "resend" THEN 1 ELSE 0) \in Nat
    BY <1>5, <2>1
  <2> QED
    BY <1>4, <2>1, <2>2
<1>11. \A x \in mailed' : token'[x].state # "none"
  BY <1>2, <1>4 DEF Shape, TypeOK, Created
<1> DEFINE m == [l EXCEPT !.token = t]
<1>12. m = [user |-> l.user, target |-> l.target, purpose |-> l.purpose, token |-> t]
  BY <1>1 DEF Locals
<1>13. m \in Locals
  BY <1>1, <1>12 DEF Locals
<1>14. Fits(account', token', "deliver", m)
  BY <1>3, <1>4, <1>5, <1>12 DEF Fits, Issuing, Presenting, Resetting
<1>15. Goto(h, "deliver", m) /\ Respects(h) /\ "deliver" \in Steps
  BY <1>2, <1>4 DEF Respects, Steps
<1> HIDE DEF m
<1> QED
  BY <1>2, <1>6, <1>7, <1>8, <1>9, <1>10, <1>11, <1>13, <1>14, <1>15, MoveShape

(* A token that is mailed exists.                                           *)
LEMMA DeliverShape == ASSUME Parameters, Shape, NEW h \in Handlers, Deliver(h) PROVE Shape'
<1> DEFINE t == local[h].token
<1>1. t \in Tokens /\ Created(t)
  BY DEF Deliver, Shape, Fits, Created
<1>2. /\ account' = account /\ token' = token /\ UNCHANGED observers
      /\ mailed' \in {mailed, mailed \cup {t}} /\ Goto(h, "idle", NoLocal)
  BY DEF Deliver, End
<1>3. /\ proved' \in [Users -> SUBSET Addresses] /\ used' \in [Tokens -> Nat]
      /\ crossed' \subseteq Users /\ mailed' \subseteq Tokens /\ resent' \in [Users -> Nat]
      /\ account' \in [Users -> Rows] /\ token' \in [Tokens -> TokenRows]
      /\ \A u \in Users : account'[u].state # "none" => account'[u].email # None
      /\ \A x \in mailed' : token'[x].state # "none"
  BY <1>1, <1>2 DEF Shape, TypeOK, observers, Created
<1>4. Later /\ Numbered' /\ \A x \in Tokens : TokenFits(x)'
  BY <1>2, SameAccounts, SameTokens, MovesKeep
<1>5. Fits(account', token', "idle", NoLocal) /\ Respects(h) /\ "idle" # "commit"
  BY <1>2, AtRest DEF Respects
<1> QED
  BY <1>2, <1>3, <1>4, <1>5, AtRest, MoveShape

(* What a confirmation does to the tokens when it commits.                  *)
LEMMA CommitTokens ==
  ASSUME Shape, NEW h \in Handlers, Commit(h)
  PROVE  /\ TokensMove
         /\ \A x \in Tokens :
              token'[x].state = IF x = local[h].token THEN "spent"
                                ELSE IF x \in Live(local[h].user) THEN "invalid"
                                ELSE token[x].state
<1> DEFINE t == local[h].token
           b == Invalidated(Live(local[h].user))
           r == [token[t] EXCEPT !.state = "spent"]
<1>1. t \in Tokens /\ Created(t)
  BY DEF Commit, Shape, Fits, Presenting, Created
<1>2. token' = [b EXCEPT ![t] = r]
  BY DEF Commit
<1>3. /\ b \in [Tokens -> TokenRows]
      /\ \A x \in Tokens :
           /\ b[x].user = token[x].user /\ b[x].email = token[x].email
           /\ b[x].purpose = token[x].purpose
           /\ b[x].state # "none" <=> token[x].state # "none"
           /\ b[x].state = IF x \in Live(local[h].user) THEN "invalid" ELSE token[x].state
  BY LiveOnes, InvalidatedIs
<1>4. /\ r \in TokenRows /\ r.user = token[t].user /\ r.email = token[t].email
      /\ r.purpose = token[t].purpose /\ r.state = "spent"
  BY <1>1 DEF Shape, TypeOK, TokenRows
<1> HIDE DEF b, r
<1>5. token' \in [Tokens -> TokenRows] /\ \A x \in Tokens : token'[x] = IF x = t THEN r ELSE b[x]
  BY <1>1, <1>2, <1>3, <1>4
<1> QED
  BY <1>1, <1>3, <1>4, <1>5 DEF TokensMove, Created

(* The steps that confirm.                                                  *)
LEMMA ConfirmsShape ==
  ASSUME Parameters, Shape, NEW h \in Handlers, PromoteOther(h) \/ Commit(h)
  PROVE  Shape'
<1> DEFINE l == local[h]
           t == l.token
           u == l.user
<1>1. /\ t \in Tokens /\ u \in Users /\ Created(t) /\ account[u].state # "none"
      /\ token[t].email \in Addresses
  BY DEF PromoteOther, Promotable, Commit, Shape, Fits, Presenting, Created, TokenFits
<1>2. /\ proved' = [proved EXCEPT ![u] = @ \cup {token[t].email}]
      /\ used' = [used EXCEPT ![t] = @ + 1]
      /\ mailed' = mailed /\ resent' = resent /\ crossed' = crossed
      /\ Goto(h, "idle", NoLocal)
  BY DEF PromoteOther, Commit, End
<1>3. proved' \in [Users -> SUBSET Addresses]
  BY <1>1, <1>2 DEF Shape, TypeOK
<1>4. used' \in [Tokens -> Nat]
  BY <1>1, <1>2 DEF Shape, TypeOK
<1>5. crossed' \subseteq Users /\ "idle" \in Steps \ {"commit"}
  BY <1>2 DEF Shape, TypeOK, Steps
<1>6. TokensMove /\ AccountsMove /\ Respects(h)
  <2>1. CASE PromoteOther(h)
    <3>1. /\ token' = Spent(t) /\ account' = Promoted(u) /\ account[u].pending # None
          /\ Active(u) /\ AccountFree(h, u)
      BY <2>1 DEF PromoteOther, Promotable
    <3>2. TokensMove
      BY <1>1, <3>1, SpentIs
    <3>3. Wrote(u, "active", account[u].pending, None)
      BY <1>1, <3>1, PromotedWrites
    <3>4. account[u].pending \in Addresses
      BY <1>1, <3>1 DEF Shape, TypeOK, Rows
    <3>5. AccountsMove
      BY <1>1, <3>3, <3>4, WroteMoves
    <3> QED
      BY <3>1, <3>2, <3>3, <3>5 DEF Respects, Wrote
  <2>2. CASE Commit(h)
    <3>1. TokensMove
      BY <2>2, CommitTokens
    <3>2. CASE account' = account
      BY <3>1, <3>2, SameAccounts DEF Respects
    <3>3. CASE account' # account
      <4>1. PICK e : /\ e \in {account[u].email, account[u].pending} /\ e # None
                     /\ Wrote(u, "active", e, None)
        <5>1. account[u].email # None
          BY <1>1 DEF Shape, TypeOK
        <5> QED
          BY <2>2, <3>3, <5>1, CommitWrites
      <4>2. e \in Addresses
        BY <1>1, <4>1 DEF Shape, TypeOK, Rows
      <4>3. AccountsMove
        BY <1>1, <4>1, <4>2, WroteMoves
      <4>4. AccountFree(h, u)
        BY <2>2 DEF Commit, Shape, Committing, AccountFree, HoldsAccount
      <4> QED
        BY <3>1, <4>1, <4>3, <4>4 DEF Respects, Wrote
    <3> QED
      BY <3>2, <3>3
  <2> QED
    BY <2>1, <2>2
<1> QED
  BY <1>2, <1>3, <1>4, <1>5, <1>6, AtRest, MoveOn

(* An account is deleted, a token expires or a handler dies.                *)
LEMMA OthersShape ==
  ASSUME Parameters, Shape,
         \/ \E u \in Users : Delete(u)
         \/ \E t \in Tokens : Expire(t)
         \/ \E h \in Handlers : Die(h)
  PROVE  Shape'
<1>1. ASSUME NEW h \in Handlers, Die(h) PROVE Shape'
  <2>1. /\ account' = account /\ token' = token /\ mailed' = mailed /\ proved' = proved
        /\ used' = used /\ resent' = resent /\ pc[h] # "idle" /\ Goto(h, "idle", NoLocal)
        /\ crossed' \in {crossed, crossed \cup {local[h].user}}
    BY <1>1 DEF Die, End, CrossIf
  <2>2. local[h].user \in Users
    BY <2>1 DEF Shape, Fits
  <2>3. /\ crossed' \subseteq Users /\ proved' \in [Users -> SUBSET Addresses]
        /\ used' \in [Tokens -> Nat]
    BY <2>1, <2>2 DEF Shape, TypeOK
  <2>4. TokensMove /\ AccountsMove /\ Respects(h) /\ "idle" \in Steps \ {"commit"}
    BY <2>1, SameTokens, SameAccounts DEF Respects, Steps
  <2> QED
    BY <2>1, <2>3, <2>4, AtRest, MoveOn
<1>2. ASSUME AccountsMove, TokensMove, mailed' = mailed, pc' = pc, local' = local,
             UNCHANGED observers,
             \A g \in Handlers : pc[g] = "commit" => account'[local[g].user].pending
                                                   = account[local[g].user].pending
      PROVE  Shape'
  <2>1. Later /\ Numbered' /\ \A x \in Tokens : TokenFits(x)'
    BY <1>2, MovesKeep
  <2>2. TypeOK'
    BY <1>2 DEF Shape, TypeOK, observers, AccountsMove, TokensMove
  <2>3. ASSUME NEW g \in Handlers PROVE Fits(account', token', pc'[g], local'[g])
    BY <1>2, <2>1, FitsLater DEF Shape
  <2>4. \A t \in mailed' : Created(t)'
    BY <1>2, <2>1 DEF Shape, TypeOK, Later, Created
  <2>5. Committing'
    BY <1>2 DEF Shape, Committing
  <2> QED
    BY <2>1, <2>2, <2>3, <2>4, <2>5 DEF Shape
<1>3. ASSUME NEW u \in Users, Delete(u) PROVE Shape'
  <2>1. /\ token' = token /\ mailed' = mailed /\ pc' = pc /\ local' = local
        /\ UNCHANGED observers /\ Active(u)
        /\ account' = [account EXCEPT ![u].state = "gone"]
    BY <1>3 DEF Delete
  <2>2. AccountsMove /\ \A v \in Users : account'[v].pending = account[v].pending
    <3> DEFINE r == [account[u] EXCEPT !.state = "gone"]
    <3>1. /\ r \in Rows /\ r.state = "gone" /\ r.email = account[u].email
          /\ r.pending = account[u].pending
      BY DEF Shape, TypeOK, Rows
    <3>2. account' = [account EXCEPT ![u] = r]
      BY <2>1
    <3> HIDE DEF r
    <3> QED
      BY <2>1, <3>1, <3>2 DEF Shape, TypeOK, AccountsMove, Active
  <2>3. \A g \in Handlers : pc[g] = "commit" => local[g].user \in Users
    BY DEF Shape, Fits
  <2> QED
    BY <1>2, <2>1, <2>2, <2>3, SameTokens
<1>4. ASSUME NEW t \in Tokens, Expire(t) PROVE Shape'
  <2>1. TokensMove
    BY <1>4, ExpiredIs
  <2>2. /\ account' = account /\ mailed' = mailed /\ pc' = pc /\ local' = local
        /\ UNCHANGED observers
    BY <1>4 DEF Expire
  <2> QED
    BY <1>2, <2>1, <2>2, SameAccounts
<1> QED
  BY <1>1, <1>3, <1>4

(* The initial states.                                                      *)
LEMMA InitShape == ASSUME Parameters, Init PROVE Shape
<1>1. TypeOK
  <2>1. NoLocal \in Locals /\ "idle" \in Steps
    BY AtRest
  <2>2. account \in [Users -> Rows]
    BY DEF Init, Rows
  <2>3. token \in [Tokens -> TokenRows]
    BY DEF Init, TokenRows
  <2> QED
    BY <2>1, <2>2, <2>3 DEF Init, TypeOK
<1>2. \A t \in Tokens : ~Created(t)
  BY DEF Init, Created
<1>3. Numbered
  <2>1. \A t \in Tokens : Created(t) <=> t <= 0
    BY <1>2 DEF Tokens
  <2> QED
    BY <2>1 DEF Numbered
<1>4. \A h \in Handlers : Fits(account, token, pc[h], local[h])
  BY AtRest DEF Init
<1>5. Committing
  BY DEF Init, Committing
<1> QED
  BY <1>1, <1>2, <1>3, <1>4, <1>5 DEF Init, Shape, TokenFits

(* Every step.                                                              *)
LEMMA NextShape == ASSUME Parameters, Shape, [Next]_vars PROVE Shape'
<1>1. CASE UNCHANGED vars
  BY <1>1 DEF vars, observers, Shape, TypeOK, TokenFits, Fits, Numbered, Created, Committing
<1>2. ASSUME NEW h \in Handlers, Step(h) PROVE Shape'
  BY <1>2, ReadsShape, TokenStepsShape, AccountStepsShape, CreateShape, DeliverShape,
     ConfirmsShape DEF Step
<1>3. CASE Next
  BY <1>2, <1>3, StartsShape, OthersShape DEF Next
<1> QED
  BY <1>1, <1>3

(* The variables have their types, and each handler knows what it needs.    *)
LEMMA ShapeInvariance == ASSUME Parameters PROVE Spec => []Shape
<1>1. Init => Shape
  BY InitShape
<1>2. Shape /\ [Next]_vars => Shape'
  BY NextShape
<1> QED
  BY <1>1, <1>2, PTL DEF Spec

-----------------------------------------------------------------------------
(* A token takes effect once.                                               *)

(* The steps at which a confirmation has its token's row locked.            *)
Holding == {"find", "apply", "commit"}

(* A confirmation has its token, which is live until it commits, to itself; *)
(* so has a reset, whose token is spent; and what has taken effect is spent.*)
Once ==
  /\ \A h \in Handlers :
       /\ pc[h] \in Holding =>
            /\ token[local[h].token].state = "live"
            /\ TokenFree(h, local[h].token)
       /\ pc[h] = "password" =>
            /\ token[local[h].token].state = "spent" /\ used[local[h].token] = 0
            /\ \A g \in Handlers \ {h} :
                 pc[g] = "password" => local[g].token # local[h].token
  /\ \A t \in Tokens : used[t] = 0 \/ (used[t] = 1 /\ token[t].state = "spent")

(* A step of h makes no spent token usable, leaves those that others have   *)
(* locked, and lets a token take effect that has not.                       *)
Careful(h) ==
  \A t \in Tokens :
    /\ token[t].state = "spent" => token'[t].state = "spent"
    /\ token[t].state = "live" /\ token'[t].state # "live" => TokenFree(h, t)
    /\ \/ used'[t] = used[t]
       \/ /\ used[t] = 0 /\ used'[t] = 1 /\ token'[t].state = "spent"
          /\ \A g \in Handlers \ {h} : ~(pc[g] = "password" /\ local[g].token = t)

(* One handler moves and is careful.                                        *)
LEMMA MoveOnce ==
  ASSUME Parameters, Shape, Once, NEW h \in Handlers, Careful(h), NEW k, NEW l, Goto(h, k, l),
         k \in Holding => l.token \in Tokens /\ token'[l.token].state = "live" /\ TokenFree(h, l.token),
         k = "password" =>
           /\ l.token \in Tokens /\ token'[l.token].state = "spent" /\ used'[l.token] = 0
           /\ \A g \in Handlers \ {h} : ~(pc[g] = "password" /\ local[g].token = l.token)
  PROVE  Once'
<1>1. \A g \in Handlers :
        /\ pc'[g] = IF g = h THEN k ELSE pc[g]
        /\ local'[g] = IF g = h THEN l ELSE local[g]
  BY DEF Goto, Shape, TypeOK
<1>2. ASSUME NEW g \in Handlers, pc'[g] \in Holding
      PROVE  /\ token'[local'[g].token].state = "live"
             /\ \A f \in Handlers \ {g} : ~(pc'[f] \in Holding /\ local'[f].token = local'[g].token)
  <2>1. CASE g = h
    BY <1>1, <1>2, <2>1 DEF TokenFree, HoldsToken, Holding
  <2>2. CASE g # h
    <3>1. /\ pc[g] \in Holding /\ local'[g] = local[g]
          /\ token[local[g].token].state = "live" /\ TokenFree(g, local[g].token)
      BY <1>1, <1>2, <2>2 DEF Once
    <3>2. local[g].token \in Tokens
      BY <3>1 DEF Shape, Fits, Presenting, Holding
    <3>3. ~TokenFree(h, local[g].token)
      BY <2>2, <3>1 DEF TokenFree, HoldsToken, Holding
    <3>4. token'[local[g].token].state = "live"
      BY <3>1, <3>2, <3>3 DEF Careful
    <3>5. k \in Holding => l.token # local[g].token
      BY <3>3
    <3> QED
      BY <1>1, <3>1, <3>4, <3>5 DEF TokenFree, HoldsToken, Holding
  <2> QED
    BY <2>1, <2>2
<1>3. ASSUME NEW g \in Handlers, pc'[g] = "password"
      PROVE  /\ token'[local'[g].token].state = "spent" /\ used'[local'[g].token] = 0
             /\ \A f \in Handlers \ {g} : pc'[f] = "password" => local'[f].token # local'[g].token
  <2>1. CASE g = h
    BY <1>1, <1>3, <2>1
  <2>2. CASE g # h
    <3>1. /\ pc[g] = "password" /\ local'[g] = local[g]
          /\ token[local[g].token].state = "spent" /\ used[local[g].token] = 0
          /\ \A f \in Handlers \ {g} : pc[f] = "password" => local[f].token # local[g].token
      BY <1>1, <1>3, <2>2 DEF Once
    <3>2. local[g].token \in Tokens
      BY <3>1 DEF Shape, Fits, Resetting
    <3>3. token'[local[g].token].state = "spent" /\ used'[local[g].token] = 0
      BY <2>2, <3>1, <3>2 DEF Careful
    <3>4. k = "password" => l.token # local[g].token
      BY <2>2, <3>1
    <3> QED
      BY <1>1, <3>1, <3>3, <3>4
  <2> QED
    BY <2>1, <2>2
<1>4. \A t \in Tokens : used'[t] = 0 \/ (used'[t] = 1 /\ token'[t].state = "spent")
  BY DEF Once, Careful
<1>5. ASSUME NEW g \in Handlers, pc'[g] \in Holding
      PROVE  TokenFree(g, local[g].token)'
  BY <1>2, <1>5 DEF TokenFree, HoldsToken, Holding
<1> QED
  BY <1>2, <1>3, <1>4, <1>5 DEF Once

(* A request begins, or a step concerns neither tokens nor their effects.   *)
LEMMA QuietOnce ==
  ASSUME Parameters, Shape, Once, NEW h \in Handlers, token' = token, used' = used,
         NEW k, k \notin Holding, k # "password", NEW l, Goto(h, k, l)
  PROVE  Once'
<1>1. Careful(h)
  BY DEF Careful
<1> QED
  BY <1>1, MoveOnce

(* The steps that write no token.                                           *)
LEMMA StartsOnce ==
  ASSUME Parameters, Shape, Once, NEW h \in Handlers,
         \/ \E u \in Users : Resend(h, u)
         \/ \E e \in Addresses : ResendPublic(h, e) \/ Forgot(h, e)
         \/ \E u \in Users, e \in Addresses : Register(h, u, e) \/ Change(h, u, e)
         \/ \E t \in Tokens : Confirm(h, t) \/ Reset(h, t)
         \/ Insert(h) \/ CountSends(h) \/ SetPending(h) \/ Deliver(h) \/ PromoteTaken(h)
         \/ Die(h)
  PROVE  Once'
<1>1. token' = token /\ used' = used
  BY DEF Resend, ResendPublic, Forgot, Register, Change, Confirm, Reset, Insert, CountSends,
         SetPending, Deliver, PromoteTaken, Die, observers
<1>2. \E k, l : k \notin Holding /\ k # "password" /\ Goto(h, k, l)
  BY DEF Resend, ResendPublic, Forgot, Register, Change, Confirm, Reset, Insert, CountSends,
         SetPending, Deliver, PromoteTaken, Die, Holding, End
<1> QED
  BY <1>1, <1>2, QuietOnce

(* The steps with which a confirmation takes the locks it needs.            *)
LEMMA ReadsOnce ==
  ASSUME Parameters, Shape, Once, NEW h \in Handlers,
         Consume(h) \/ Mark(h) \/ Promote(h)
  PROVE  Once'
<1> DEFINE l == local[h]
<1>1. token' = token /\ used' = used /\ l.token \in Tokens /\ l \in Locals
  BY DEF Consume, Mark, Promote, Promotable, observers, Shape, Fits, Presenting, TypeOK
<1>2. Careful(h)
  BY <1>1 DEF Careful
<1>3. CASE Consume(h)
  <2>1. CASE End(h)
    BY <1>1, <2>1, QuietOnce DEF End, Holding
  <2>2. CASE Goto(h, "find", l) /\ token[l.token].state = "live"
    BY <1>1, <1>2, <1>3, <2>2, MoveOnce DEF Consume
  <2> QED
    BY <1>3, <2>1, <2>2 DEF Consume
<1>4. CASE Mark(h) \/ Promote(h)
  <2>1. \E m : Goto(h, "commit", m) /\ m.token = l.token
    <3>1. [l EXCEPT !.target = account[l.user].pending].token = l.token
      BY <1>1 DEF Locals
    <3> QED
      BY <1>4, <3>1 DEF Mark, Promote
  <2>2. pc[h] = "apply"
    BY <1>4 DEF Mark, Promote, Promotable
  <2>3. token[l.token].state = "live" /\ TokenFree(h, l.token)
    BY <2>2 DEF Once, Holding
  <2> QED
    BY <1>1, <1>2, <2>1, <2>3, MoveOnce
<1> QED
  BY <1>3, <1>4

(* Tokens that nobody has locked are invalidated.                           *)
LEMMA InvalidatedCareful ==
  ASSUME Shape, NEW h \in Handlers, NEW u, token' = Invalidated(Live(u)), used' = used,
         \A t \in Live(u) : TokenFree(h, t)
  PROVE  Careful(h)
<1>1. \A x \in Tokens :
        token'[x].state = IF x \in Live(u) THEN "invalid" ELSE token[x].state
  BY LiveOnes, InvalidatedIs
<1> QED
  BY <1>1, LiveOnes DEF Careful

(* A confirmation ends without an effect.                                   *)
LEMMA SpendOnlyOnce ==
  ASSUME Parameters, Shape, Once, NEW h \in Handlers, pc[h] \in Holding, SpendOnly(h)
  PROVE  Once'
<1> DEFINE t == local[h].token
<1>1. t \in Tokens /\ Created(t) /\ TokenFree(h, t)
  BY DEF Shape, Fits, Presenting, Holding, Created, Once
<1>2. token' = Spent(t) /\ used' = used /\ Goto(h, "idle", NoLocal)
  BY DEF SpendOnly, observers, End
<1>3. \A x \in Tokens : token'[x].state = IF x = t THEN "spent" ELSE token[x].state
  BY <1>1, <1>2, SpentIs
<1>4. Careful(h)
  BY <1>1, <1>2, <1>3 DEF Careful
<1> QED
  BY <1>2, <1>4, MoveOnce DEF Holding

(* The steps that write tokens and have no other effect.                    *)
LEMMA TokenStepsOnce ==
  ASSUME Parameters, Shape, Once, NEW h \in Handlers,
         Drop(h) \/ Invalidate(h) \/ Create(h) \/ FindUser(h) \/ PromoteNothing(h)
  PROVE  Once'
<1>1. CASE Drop(h) \/ Invalidate(h)
  <2>1. Careful(h)
    BY <1>1, InvalidatedCareful DEF Drop, Invalidate, observers
  <2>2. \E k, l : k \notin Holding /\ k # "password" /\ Goto(h, k, l)
    BY <1>1 DEF Drop, Invalidate, Holding
  <2> QED
    BY <2>1, <2>2, MoveOnce
<1>2. CASE Create(h)
  <2>1. \E t \in Tokens :
          /\ ~Created(t) /\ \A x \in Tokens \ {t} : token'[x] = token[x]
          /\ Goto(h, "deliver", [local[h] EXCEPT !.token = t])
    BY <1>2, CreateIs
  <2>2. used' = used
    BY <1>2 DEF Create
  <2>3. Careful(h)
    BY <2>1, <2>2 DEF Careful, Created
  <2> QED
    BY <2>1, <2>3, MoveOnce DEF Holding
<1>3. CASE FindUser(h)
  <2>1. pc[h] = "find" /\ pc[h] \in Holding
    BY <1>3 DEF FindUser, Holding
  <2>2. CASE Goto(h, "apply", local[h]) /\ UNCHANGED <<account, token, mailed, observers>>
    <3>1. token' = token /\ used' = used
      BY <2>2 DEF observers
    <3>2. Careful(h)
      BY <3>1 DEF Careful
    <3>3. token[local[h].token].state = "live" /\ TokenFree(h, local[h].token)
      BY <2>1 DEF Once
    <3>4. local[h].token \in Tokens
      BY <2>1 DEF Shape, Fits, Presenting
    <3> QED
      BY <2>2, <3>1, <3>2, <3>3, <3>4, MoveOnce DEF Holding
  <2> QED
    BY <1>3, <2>1, <2>2, SpendOnlyOnce DEF FindUser
<1>4. CASE PromoteNothing(h)
  BY <1>4, SpendOnlyOnce DEF PromoteNothing, Holding
<1> QED
  BY <1>1, <1>2, <1>3, <1>4

(* The steps with which a confirmation takes effect.                        *)
LEMMA EffectsOnce ==
  ASSUME Parameters, Shape, Once, NEW h \in Handlers, PromoteOther(h) \/ Commit(h)
  PROVE  Once'
<1> DEFINE t == local[h].token
<1>1. /\ pc[h] \in Holding /\ t \in Tokens /\ Created(t) /\ token[t].purpose # "reset"
  BY DEF PromoteOther, Promotable, Commit, Shape, Fits, Presenting, Created, Holding
<1>2. token[t].state = "live" /\ TokenFree(h, t)
  BY <1>1 DEF Once
<1>3. used[t] = 0
  BY <1>1, <1>2 DEF Once
<1>4. used' = [used EXCEPT ![t] = @ + 1] /\ Goto(h, "idle", NoLocal)
  BY DEF PromoteOther, Commit, End
<1>5. \A x \in Tokens : used'[x] = IF x = t THEN 1 ELSE used[x]
  BY <1>3, <1>4 DEF Shape, TypeOK
<1>6. \A g \in Handlers \ {h} : ~(pc[g] = "password" /\ local[g].token = t)
  BY <1>1 DEF Shape, Fits, Resetting
<1>7. \A x \in Tokens :
        \/ token'[x].state = IF x = t THEN "spent" ELSE token[x].state
        \/ x # t /\ token[x].state = "live" /\ TokenFree(h, x)
  <2>1. CASE PromoteOther(h)
    BY <1>1, <2>1, SpentIs DEF PromoteOther
  <2>2. CASE Commit(h)
    <3>1. \A x \in Live(local[h].user) : TokenFree(h, x)
      BY <2>2 DEF Commit
    <3> QED
      BY <2>2, <3>1, CommitTokens, LiveOnes
  <2> QED
    BY <2>1, <2>2
<1>8. token'[t].state = "spent"
  BY <1>1, <1>7
<1>9. Careful(h)
  BY <1>2, <1>3, <1>5, <1>6, <1>7, <1>8 DEF Careful
<1> QED
  BY <1>4, <1>9, MoveOnce DEF Holding

(* The steps of a reset of the password.                                    *)
LEMMA ResetsOnce ==
  ASSUME Parameters, Shape, Once, NEW h \in Handlers, SpendReset(h) \/ SetPassword(h)
  PROVE  Once'
<1> DEFINE t == local[h].token
<1>1. /\ t \in Tokens /\ Created(t) /\ token[t].purpose = "reset"
  BY DEF SpendReset, SetPassword, Shape, Fits, Resetting, Created
<1>2. TokenFree(h, t)
  BY <1>1 DEF TokenFree, HoldsToken, Shape, Fits, Presenting
<1>3. CASE SpendReset(h)
  <2>1. CASE token[t].state = "live"
    <3>1. token' = Spent(t) /\ used' = used /\ Goto(h, "password", local[h])
      BY <1>3, <2>1 DEF SpendReset, observers
    <3>2. \A x \in Tokens : token'[x].state = IF x = t THEN "spent" ELSE token[x].state
      BY <1>1, <3>1, SpentIs
    <3>3. used[t] = 0 /\ \A g \in Handlers : ~(pc[g] = "password" /\ local[g].token = t)
      BY <1>1, <2>1 DEF Once
    <3>4. Careful(h)
      BY <1>2, <3>1, <3>2 DEF Careful
    <3> QED
      BY <1>1, <3>1, <3>2, <3>3, <3>4, MoveOnce DEF Holding
  <2>2. CASE token[t].state # "live"
    BY <1>3, <2>2, QuietOnce DEF SpendReset, observers, End, Holding
  <2> QED
    BY <2>1, <2>2
<1>4. CASE SetPassword(h)
  <2>1. /\ token' = token /\ pc[h] = "password" /\ Goto(h, "idle", NoLocal)
        /\ used' = [used EXCEPT ![t] = @ + (IF Active(local[h].user) THEN 1 ELSE 0)]
    BY <1>4 DEF SetPassword, End
  <2>2. /\ token[t].state = "spent" /\ used[t] = 0
        /\ \A g \in Handlers \ {h} : ~(pc[g] = "password" /\ local[g].token = t)
    BY <2>1 DEF Once
  <2>3. used'[t] \in {0, 1} /\ \A x \in Tokens \ {t} : used'[x] = used[x]
    BY <1>1, <2>1, <2>2 DEF Shape, TypeOK
  <2>4. Careful(h)
    BY <2>1, <2>2, <2>3 DEF Careful
  <2> QED
    BY <2>1, <2>4, MoveOnce DEF Holding
<1> QED
  BY <1>3, <1>4

(* Every step.                                                              *)
LEMMA NextOnce == ASSUME Parameters, Shape, Once, [Next]_vars PROVE Once'
<1>1. CASE UNCHANGED vars
  BY <1>1 DEF vars, observers, Once, TokenFree, HoldsToken
<1>2. ASSUME NEW h \in Handlers, Step(h) PROVE Once'
  BY <1>2, StartsOnce, ReadsOnce, TokenStepsOnce, EffectsOnce, ResetsOnce DEF Step
<1>3. ASSUME NEW u \in Users, Delete(u) PROVE Once'
  BY <1>3 DEF Delete, observers, Once, TokenFree, HoldsToken
<1>4. ASSUME NEW t \in Tokens, Expire(t) PROVE Once'
  <2>1. /\ pc' = pc /\ local' = local /\ used' = used /\ token[t].state = "live"
        /\ \A h \in Handlers : ~HoldsToken(h, t)
    BY <1>4 DEF Expire, observers
  <2>2. \A x \in Tokens : token'[x].state = IF x = t THEN "invalid" ELSE token[x].state
    BY <1>4, ExpiredIs
  <2>3. \A h \in Handlers :
          pc[h] \in Holding => token'[local[h].token].state = "live"
    <3>1. \A h \in Handlers : pc[h] \in Holding => local[h].token \in Tokens
      BY DEF Shape, Fits, Presenting, Holding
    <3> QED
      BY <2>1, <2>2, <3>1 DEF Once, HoldsToken, Holding
  <2>4. \A h \in Handlers :
          pc[h] = "password" => token'[local[h].token].state = "spent"
    <3>1. \A h \in Handlers : pc[h] = "password" => local[h].token \in Tokens
      BY DEF Shape, Fits, Resetting
    <3> QED
      BY <2>1, <2>2, <3>1 DEF Once
  <2>5. \A h \in Handlers : pc[h] \in Holding => TokenFree(h, local[h].token)'
    BY <2>1 DEF Once, TokenFree, HoldsToken
  <2>6. \A x \in Tokens : used'[x] = 0 \/ (used'[x] = 1 /\ token'[x].state = "spent")
    BY <2>1, <2>2 DEF Once
  <2> QED
    BY <2>1, <2>3, <2>4, <2>5, <2>6 DEF Once
<1>5. CASE Next
  BY <1>2, <1>3, <1>4, <1>5, StartsOnce DEF Next
<1> QED
  BY <1>1, <1>5

(* A token is used once, by who has it to itself.                           *)
LEMMA OnceInvariance == ASSUME Parameters PROVE Spec => []Once
<1>1. Init => Once
  <2> SUFFICES ASSUME Init PROVE Once
    OBVIOUS
  <2>1. \A h \in Handlers : pc[h] = "idle"
    BY DEF Init
  <2>2. \A t \in Tokens : used[t] = 0
    BY DEF Init
  <2> QED
    BY <2>1, <2>2 DEF Once, Holding
<1>2. Shape /\ Once /\ [Next]_vars => Once'
  BY NextOnce
<1> QED
  BY <1>1, <1>2, ShapeInvariance, PTL DEF Spec

-----------------------------------------------------------------------------
(* One account has an address.                                              *)

(* An open confirmation is about to give its account a new address.         *)
Promoting(h) == pc[h] = "commit" /\ local[h].purpose = "email_change"

(* Accounts that exist have addresses of their own, and the address that a  *)
(* confirmation is about to give its account is nobody else's.              *)
Distinct ==
  /\ \A u, v \in Users :
       Active(u) /\ Active(v) /\ account[u].email = account[v].email => u = v
  /\ \A h \in Handlers :
       Promoting(h) =>
         /\ account[local[h].user].pending = local[h].target
         /\ Owners(local[h].target) \subseteq {local[h].user}
         /\ AddressFree(h, local[h].target)

(* A step of h writes no row, or one that nobody has locked: with the       *)
(* address it has, or with one that nobody has or is about to have.         *)
Proper(h) ==
  \/ account' = account
  \/ \E u \in Users : \E e, p :
       /\ Wrote(u, "active", e, p) /\ AccountFree(h, u)
       /\ \/ Active(u) /\ e = account[u].email
          \/ Owners(e) \subseteq {u} /\ AddressFree(h, e)

(* Where the rows of users are as they are, or one is written.              *)
LEMMA OwnersAfter ==
  ASSUME Shape, Distinct, NEW h \in Handlers, Proper(h)
  PROVE  /\ \A u, v \in Users :
              Active(u)' /\ Active(v)' /\ account'[u].email = account'[v].email => u = v
         /\ \A g \in Handlers \ {h} :
              Promoting(g) =>
                /\ account'[local[g].user].pending = local[g].target
                /\ \A v \in Users : Active(v)' /\ account'[v].email = local[g].target
                                   => v = local[g].user
<1>1. ASSUME account' = account
      PROVE  /\ \A u, v \in Users :
                   Active(u)' /\ Active(v)' /\ account'[u].email = account'[v].email => u = v
             /\ \A g \in Handlers \ {h} :
                   Promoting(g) =>
                     /\ account'[local[g].user].pending = local[g].target
                     /\ \A v \in Users : Active(v)' /\ account'[v].email = local[g].target
                                        => v = local[g].user
  BY <1>1 DEF Distinct, Owners, Active
<1>2. ASSUME NEW u \in Users, NEW e, NEW p, Wrote(u, "active", e, p), AccountFree(h, u),
             \/ Active(u) /\ e = account[u].email
             \/ Owners(e) \subseteq {u} /\ AddressFree(h, e)
      PROVE  /\ \A w, v \in Users :
                   Active(w)' /\ Active(v)' /\ account'[w].email = account'[v].email => w = v
             /\ \A g \in Handlers \ {h} :
                   Promoting(g) =>
                     /\ account'[local[g].user].pending = local[g].target
                     /\ \A v \in Users : Active(v)' /\ account'[v].email = local[g].target
                                        => v = local[g].user
  <2>1. /\ account'[u].email = e
        /\ \A v \in Users \ {u} : account'[v] = account[v]
    BY <1>2 DEF Wrote
  <2>2. \A v \in Users \ {u} : ~(Active(v) /\ account[v].email = e)
    BY <1>2 DEF Distinct, Owners
  <2>3. \A v \in Users \ {u} : ~(Active(v)' /\ account'[v].email = e)
    BY <2>1, <2>2 DEF Active
  <2>4. \A w, v \in Users :
          Active(w)' /\ Active(v)' /\ account'[w].email = account'[v].email => w = v
    <3> SUFFICES ASSUME NEW w \in Users, NEW v \in Users, Active(w)', Active(v)',
                        account'[w].email = account'[v].email
                 PROVE  w = v
      OBVIOUS
    <3>1. CASE w = u \/ v = u
      BY <2>1, <2>3, <3>1
    <3>2. CASE w # u /\ v # u
      BY <2>1, <3>2 DEF Distinct, Active
    <3> QED
      BY <3>1, <3>2
  <2>5. ASSUME NEW g \in Handlers \ {h}, Promoting(g)
        PROVE  /\ account'[local[g].user].pending = local[g].target
               /\ \A v \in Users : Active(v)' /\ account'[v].email = local[g].target
                                  => v = local[g].user
    <3>1. local[g].user # u /\ local[g].user \in Users
      BY <1>2, <2>5 DEF Promoting, AccountFree, HoldsAccount, Shape, Fits
    <3>2. account'[local[g].user].pending = local[g].target
      BY <2>1, <2>5, <3>1 DEF Distinct
    <3>3. e # local[g].target
      BY <1>2, <2>5, <3>1 DEF Distinct, Promoting, AddressFree, Owners
    <3>4. \A v \in Users : Active(v) /\ account[v].email = local[g].target => v = local[g].user
      BY <2>5 DEF Distinct, Owners
    <3>5. \A v \in Users : Active(v)' /\ account'[v].email = local[g].target => v = local[g].user
      BY <2>1, <3>3, <3>4 DEF Active
    <3> QED
      BY <3>2, <3>5
  <2> QED
    BY <2>4, <2>5
<1> QED
  BY <1>1, <1>2 DEF Proper

(* One handler moves, and whoever commits next has the address to itself.   *)
LEMMA MoveDistinct ==
  ASSUME Parameters, Shape, Distinct, NEW h \in Handlers, Proper(h), NEW k, NEW l, Goto(h, k, l),
         k = "commit" /\ l.purpose = "email_change" =>
           /\ account' = account
           /\ account[l.user].pending = l.target
           /\ Owners(l.target) \subseteq {l.user} /\ AddressFree(h, l.target)
  PROVE  Distinct'
<1>1. \A g \in Handlers :
        /\ pc'[g] = IF g = h THEN k ELSE pc[g]
        /\ local'[g] = IF g = h THEN l ELSE local[g]
  BY DEF Goto, Shape, TypeOK
<1>2. ASSUME NEW g \in Handlers, pc'[g] = "commit", local'[g].purpose = "email_change"
      PROVE  /\ account'[local'[g].user].pending = local'[g].target
             /\ \A v \in Users : Active(v)' /\ account'[v].email = local'[g].target
                                => v = local'[g].user
             /\ \A f \in Handlers \ {g} :
                  ~(/\ pc'[f] = "commit" /\ local'[f].purpose = "email_change"
                    /\ local'[f].target = local'[g].target)
  <2>1. CASE g = h
    BY <1>1, <1>2, <2>1 DEF AddressFree, Owners, Active
  <2>2. CASE g # h
    <3>1. Promoting(g) /\ local'[g] = local[g]
      BY <1>1, <1>2, <2>2 DEF Promoting
    <3>2. /\ account'[local[g].user].pending = local[g].target
          /\ \A v \in Users : Active(v)' /\ account'[v].email = local[g].target
                             => v = local[g].user
      BY <2>2, <3>1, OwnersAfter
    <3>3. \A f \in Handlers \ {g} :
            ~(/\ pc[f] = "commit" /\ local[f].purpose = "email_change"
              /\ local[f].target = local[g].target)
      BY <3>1 DEF Distinct, AddressFree
    <3>4. k = "commit" /\ l.purpose = "email_change" => l.target # local[g].target
      BY <2>2, <3>1 DEF AddressFree, Promoting
    <3> QED
      BY <1>1, <3>1, <3>2, <3>3, <3>4
  <2> QED
    BY <2>1, <2>2
<1>3. \A u, v \in Users :
        Active(u)' /\ Active(v)' /\ account'[u].email = account'[v].email => u = v
  BY OwnersAfter
<1> QED
  BY <1>2, <1>3 DEF Distinct, Promoting, Owners, AddressFree

(* The steps that write no account and lock none.                           *)
LEMMA QuietDistinct ==
  ASSUME Parameters, Shape, Distinct, NEW h \in Handlers,
         \/ \E u \in Users : Resend(h, u)
         \/ \E e \in Addresses : ResendPublic(h, e) \/ Forgot(h, e)
         \/ \E u \in Users, e \in Addresses : Register(h, u, e) \/ Change(h, u, e)
         \/ \E t \in Tokens : Confirm(h, t) \/ Reset(h, t)
         \/ CountSends(h) \/ Drop(h) \/ Invalidate(h) \/ Create(h) \/ Deliver(h)
         \/ Consume(h) \/ FindUser(h) \/ PromoteNothing(h) \/ PromoteTaken(h)
         \/ SpendReset(h) \/ SetPassword(h) \/ Die(h)
  PROVE  Distinct'
<1>1. account' = account
  BY DEF Resend, ResendPublic, Forgot, Register, Change, Confirm, Reset, CountSends, Drop,
         Invalidate, Create, Deliver, Consume, FindUser, PromoteNothing, PromoteTaken,
         SpendReset, SetPassword, Die, SpendOnly
<1>2. \E k, l : k # "commit" /\ Goto(h, k, l)
  BY DEF Resend, ResendPublic, Forgot, Register, Change, Confirm, Reset, CountSends, Drop,
         Invalidate, Create, Deliver, Consume, FindUser, PromoteNothing, PromoteTaken,
         SpendReset, SetPassword, Die, SpendOnly, End
<1> QED
  BY <1>1, <1>2, MoveDistinct DEF Proper

(* The steps that write an account: the index has been asked.               *)
LEMMA WritesDistinct ==
  ASSUME Parameters, Shape, Distinct, NEW h \in Handlers,
         Insert(h) \/ SetPending(h) \/ PromoteOther(h) \/ Commit(h)
  PROVE  Distinct'
<1> DEFINE u == local[h].user
<1>1. u \in Users
  BY DEF Insert, SetPending, PromoteOther, Promotable, Commit, Shape, Fits
<1>2. \E k, l : k # "commit" /\ Goto(h, k, l)
  BY DEF Insert, SetPending, PromoteOther, Commit, End
<1>3. CASE account' = account
  BY <1>2, <1>3, MoveDistinct DEF Proper
<1>4. CASE Insert(h) /\ account' # account
  <2>1. /\ Wrote(u, "active", local[h].target, None) /\ account[u].state = "none"
        /\ Owners(local[h].target) = {} /\ AddressFree(h, local[h].target)
    BY <1>4, InsertWrites
  <2>2. AccountFree(h, u)
    BY <2>1 DEF AccountFree, HoldsAccount, Shape, Fits
  <2> QED
    BY <1>1, <1>2, <2>1, <2>2, MoveDistinct DEF Proper
<1>5. CASE SetPending(h) /\ account' # account
  <2>1. Active(u) /\ AccountFree(h, u)
    BY <1>5 DEF SetPending
  <2>2. Wrote(u, "active", account[u].email, local[h].target)
    BY <1>5, <2>1, SetPendingWrites
  <2> QED
    BY <1>1, <1>2, <2>1, <2>2, MoveDistinct DEF Proper
<1>6. CASE PromoteOther(h)
  <2>1. /\ Active(u) /\ AccountFree(h, u) /\ account[u].pending # None
        /\ AddressFree(h, account[u].pending) /\ Owners(account[u].pending) \subseteq {u}
        /\ account' = Promoted(u)
    BY <1>6 DEF PromoteOther, Promotable, PendingFree
  <2>2. Wrote(u, "active", account[u].pending, None)
    BY <1>1, <2>1, PromotedWrites
  <2> QED
    BY <1>1, <1>2, <2>1, <2>2, MoveDistinct DEF Proper
<1>7. CASE Commit(h) /\ account' # account
  <2>1. AccountFree(h, u) /\ pc[h] = "commit"
    BY <1>7 DEF Commit, Shape, Committing, AccountFree, HoldsAccount
  <2>2. Active(u)
    BY <1>7, CommitWrites
  <2>3. CASE local[h].purpose # "email_change"
    <3>1. Wrote(u, "active", account[u].email, None)
      BY <1>7, <2>3, CommitWrites
    <3> QED
      BY <1>1, <1>2, <2>1, <2>2, <3>1, MoveDistinct DEF Proper
  <2>4. CASE local[h].purpose = "email_change"
    <3>1. Wrote(u, "active", account[u].pending, None)
      BY <1>7, <2>4, CommitWrites
    <3>2. /\ account[u].pending = local[h].target
          /\ Owners(account[u].pending) \subseteq {u} /\ AddressFree(h, account[u].pending)
      BY <2>1, <2>4 DEF Distinct, Promoting
    <3> QED
      BY <1>1, <1>2, <2>1, <3>1, <3>2, MoveDistinct DEF Proper
  <2> QED
    BY <2>3, <2>4
<1> QED
  BY <1>3, <1>4, <1>5, <1>6, <1>7

(* The steps that lock an account for the commit.                           *)
LEMMA LocksDistinct ==
  ASSUME Parameters, Shape, Distinct, NEW h \in Handlers, Mark(h) \/ Promote(h)
  PROVE  Distinct'
<1> DEFINE l == local[h]
<1>1. account' = account
  BY DEF Mark, Promote
<1>2. CASE Mark(h)
  BY <1>1, <1>2, MoveDistinct DEF Mark, Proper
<1>3. CASE Promote(h)
  <2> DEFINE e == account[l.user].pending
             m == [l EXCEPT !.target = e]
  <2>1. /\ Goto(h, "commit", m) /\ AddressFree(h, e) /\ Owners(e) \subseteq {l.user}
    BY <1>3 DEF Promote, Promotable, PendingFree
  <2>2. m.user = l.user /\ m.target = e /\ account[m.user].pending = e
    BY DEF Shape, TypeOK, Locals
  <2> HIDE DEF m, e
  <2> QED
    BY <1>1, <2>1, <2>2, MoveDistinct DEF Proper
<1> QED
  BY <1>2, <1>3

(* Every step.                                                              *)
LEMMA NextDistinct == ASSUME Parameters, Shape, Distinct, [Next]_vars PROVE Distinct'
<1>1. CASE UNCHANGED vars
  BY <1>1 DEF vars, Distinct, Active, Owners, Promoting, AddressFree
<1>2. ASSUME NEW h \in Handlers, Step(h) PROVE Distinct'
  BY <1>2, QuietDistinct, WritesDistinct, LocksDistinct DEF Step
<1>3. ASSUME NEW u \in Users, Delete(u) PROVE Distinct'
  <2>1. /\ pc' = pc /\ local' = local /\ \A h \in Handlers : ~HoldsAccount(h, u)
        /\ \A v \in Users \ {u} : account'[v] = account[v]
        /\ ~Active(u)'
    BY <1>3 DEF Delete, Shape, TypeOK, Rows, Active
  <2>2. \A h \in Handlers :
          Promoting(h) => local[h].user \in Users \ {u}
    BY <2>1 DEF Promoting, HoldsAccount, Shape, Fits
  <2>3. \A v \in Users : Active(v)' => Active(v) /\ account'[v] = account[v]
    BY <2>1 DEF Active
  <2>4. \A v, w \in Users :
          Active(v)' /\ Active(w)' /\ account'[v].email = account'[w].email => v = w
    BY <2>3 DEF Distinct
  <2>5. ASSUME NEW h \in Handlers, Promoting(h)
        PROVE  /\ account'[local[h].user].pending = local[h].target
               /\ \A v \in Users : Active(v)' /\ account'[v].email = local[h].target
                                  => v = local[h].user
    <3>1. account[local[h].user].pending = local[h].target
      BY <2>5 DEF Distinct
    <3>2. \A v \in Users : Active(v) /\ account[v].email = local[h].target => v = local[h].user
      BY <2>5 DEF Distinct, Owners
    <3> QED
      BY <2>1, <2>2, <2>3, <2>5, <3>1, <3>2
  <2>6. \A h \in Handlers : Promoting(h) => AddressFree(h, local[h].target)'
    BY <2>1 DEF Distinct, AddressFree
  <2> QED
    BY <2>1, <2>4, <2>5, <2>6 DEF Distinct, Promoting, Owners
<1>4. ASSUME NEW t \in Tokens, Expire(t) PROVE Distinct'
  BY <1>4 DEF Expire, Distinct, Active, Owners, Promoting, AddressFree
<1>5. CASE Next
  BY <1>2, <1>3, <1>4, <1>5, QuietDistinct DEF Next
<1> QED
  BY <1>1, <1>5

(* No two accounts have one address, nor will have after the commits under  *)
(* way.                                                                     *)
LEMMA DistinctInvariance == ASSUME Parameters PROVE Spec => []Distinct
<1>1. Init => Distinct
  BY DEF Init, Distinct, Active, Promoting
<1>2. Shape /\ Distinct /\ [Next]_vars => Distinct'
  BY NextDistinct
<1> QED
  BY <1>1, <1>2, ShapeInvariance, PTL DEF Spec

-----------------------------------------------------------------------------
(* Tokens and resends are few.                                              *)

Busy == {h \in Handlers : pc[h] # "idle"}
Resending(u) ==
  {h \in Handlers : /\ pc[h] \in {"invalidate", "create"}
                    /\ local[h].purpose = "resend" /\ local[h].user = u}
Creating(u) ==
  {h \in Handlers : pc[h] = "create" /\ local[h].purpose # "reset" /\ local[h].user = u}

BusyFits == IsFiniteSet(Busy) /\ Cardinality(Busy) <= MaxActive

(* Whoever has passed the check of the limit is counted like the token it   *)
(* will create.                                                             *)
ResendsFit ==
  \A u \in Users :
    /\ resent[u] <= Cardinality(Verifications(u))
    /\ resent[u] + Cardinality(Resending(u)) <= MaxSends + MaxActive - 1

(* Whoever has invalidated the tokens before is counted like its own.       *)
LiveFit ==
  \A u \in Users : Cardinality(Live(u)) + Cardinality(Creating(u)) <= MaxActive

(* A step that creates no token.                                            *)
NoneAdded ==
  /\ TokensMove
  /\ \A t \in Tokens : token'[t].state = "live" => token[t].state = "live"

(* There are finitely many tokens.                                          *)
LEMMA FewTokens ==
  ASSUME Parameters, NEW u
  PROVE  /\ IsFiniteSet(Verifications(u)) /\ IsFiniteSet(Live(u))
         /\ Cardinality(Verifications(u)) \in Nat /\ Cardinality(Live(u)) \in Nat
<1>1. IsFiniteSet(Tokens)
  BY FirstOnes DEF Parameters, Tokens
<1>2. Verifications(u) \in SUBSET Tokens /\ Live(u) \in SUBSET Tokens
  BY DEF Verifications, Live, TokensOf
<1>3. IsFiniteSet(Verifications(u)) /\ IsFiniteSet(Live(u))
  BY <1>1, <1>2, FS_Subset
<1> QED
  BY <1>3, FS_CardinalityType

(* There are finitely many handlers under way.                              *)
LEMMA FewHandlers ==
  ASSUME Parameters, BusyFits, NEW S \in SUBSET Busy
  PROVE  IsFiniteSet(S) /\ Cardinality(S) \in Nat /\ Cardinality(S) <= MaxActive
<1>1. IsFiniteSet(S) /\ Cardinality(S) <= Cardinality(Busy)
  BY FS_Subset DEF BusyFits
<1>2. Cardinality(S) \in Nat /\ Cardinality(Busy) \in Nat
  BY <1>1, FS_CardinalityType DEF BusyFits
<1> QED
  BY <1>1, <1>2 DEF BusyFits, Parameters

(* Whoever issues a token is under way.                                     *)
LEMMA InBusy == ASSUME NEW u PROVE Resending(u) \in SUBSET Busy /\ Creating(u) \in SUBSET Busy
BY DEF Resending, Creating, Busy

(* Where none is created, the tokens are those of before, and fewer are     *)
(* live.                                                                    *)
LEMMA SameVerifications ==
  ASSUME Shape, NoneAdded, NEW u
  PROVE  Verifications(u)' = Verifications(u) /\ Live(u)' \in SUBSET Live(u)
BY DEF NoneAdded, TokensMove, Verifications, Live, TokensOf

(* A request begins.                                                        *)
Starts(h) ==
  \/ \E u \in Users : Resend(h, u)
  \/ \E e \in Addresses : ResendPublic(h, e) \/ Forgot(h, e)
  \/ \E u \in Users, e \in Addresses : Register(h, u, e) \/ Change(h, u, e)
  \/ \E t \in Tokens : Confirm(h, t) \/ Reset(h, t)

(* Only Create creates tokens and counts resends.                           *)
LEMMA NoNewTokens ==
  ASSUME Parameters, Shape, NEW h \in Handlers, Starts(h) \/ Step(h) \/ Die(h), ~Create(h)
  PROVE  NoneAdded /\ resent' = resent
<1>1. resent' = resent
  BY DEF Starts, Resend, ResendPublic, Forgot, Register, Change, Confirm, Reset, Step, Die,
         Insert, CountSends, SetPending, Drop, Invalidate, Deliver, Consume, FindUser, Mark,
         PromoteNothing, PromoteTaken, PromoteOther, Promote, Commit, SpendReset, SetPassword,
         SpendOnly, observers
<1>2. ASSUME token' = token PROVE NoneAdded
  BY <1>2, SameTokens DEF NoneAdded
<1>3. ASSUME NEW t \in Tokens, Created(t), token' = Spent(t) PROVE NoneAdded
  BY <1>3, SpentIs DEF NoneAdded
<1>4. ASSUME NEW u, token' = Invalidated(Live(u)) PROVE NoneAdded
  BY <1>4, LiveOnes, InvalidatedIs DEF NoneAdded, TokensMove
<1>5. pc[h] \in {"apply", "find", "commit", "spend"} =>
        local[h].token \in Tokens /\ Created(local[h].token)
  BY DEF Shape, Fits, Presenting, Resetting, Created
<1>6. CASE Starts(h) \/ Die(h)
  BY <1>1, <1>2, <1>6 DEF Starts, Resend, ResendPublic, Forgot, Register, Change, Confirm, Reset, Die
<1>7. CASE \/ Insert(h) \/ CountSends(h) \/ SetPending(h) \/ Deliver(h) \/ Consume(h)
           \/ Mark(h) \/ PromoteTaken(h) \/ Promote(h) \/ SetPassword(h)
  BY <1>1, <1>2, <1>7 DEF Insert, CountSends, SetPending, Deliver, Consume, Mark, PromoteTaken,
                    Promote, SetPassword
<1>8. CASE Drop(h) \/ Invalidate(h)
  BY <1>1, <1>4, <1>8 DEF Drop, Invalidate
<1>9. CASE FindUser(h) \/ PromoteNothing(h) \/ PromoteOther(h) \/ SpendReset(h)
  BY <1>1, <1>2, <1>3, <1>5, <1>9
  DEF FindUser, PromoteNothing, PromoteOther, Promotable, SpendReset, SpendOnly
<1>10. CASE Commit(h)
  BY <1>1, <1>5, <1>10, CommitTokens DEF NoneAdded
<1> QED
  BY <1>1, <1>6, <1>7, <1>8, <1>9, <1>10 DEF Step

(* No more than MaxActive requests are under way.                           *)
LEMMA NextBusy == ASSUME Parameters, Shape, BusyFits, [Next]_vars PROVE BusyFits'
<1>1. CASE UNCHANGED vars
  BY <1>1 DEF vars, BusyFits, Busy
<1>2. ASSUME Busy' \in SUBSET Busy PROVE BusyFits'
  BY <1>2, FewHandlers DEF BusyFits
<1>3. ASSUME NEW h \in Handlers, Starts(h) PROVE BusyFits'
  <2>1. Cardinality(Busy) < MaxActive
    BY <1>3 DEF Starts, Resend, ResendPublic, Forgot, Register, Change, Confirm, Reset, Start, Busy
  <2>2. Busy' \in SUBSET (Busy \cup {h})
    BY <1>3 DEF Starts, Resend, ResendPublic, Forgot, Register, Change, Confirm, Reset, Goto, Busy,
                Shape, TypeOK
  <2>3. /\ IsFiniteSet(Busy \cup {h})
        /\ Cardinality(Busy \cup {h}) = IF h \in Busy THEN Cardinality(Busy)
                                        ELSE Cardinality(Busy) + 1
    BY FS_AddElement DEF BusyFits
  <2>4. IsFiniteSet(Busy') /\ Cardinality(Busy') <= Cardinality(Busy \cup {h})
    BY <2>2, <2>3, FS_Subset
  <2>5. Cardinality(Busy) \in Nat /\ Cardinality(Busy') \in Nat
    BY <2>4, FS_CardinalityType DEF BusyFits
  <2> QED
    BY <2>1, <2>3, <2>4, <2>5 DEF BusyFits, Parameters
<1>4. ASSUME NEW h \in Handlers, Step(h) \/ Die(h) PROVE BusyFits'
  <2>1. h \in Busy
    BY <1>4 DEF Step, Die, Insert, CountSends, SetPending, Drop, Invalidate, Create, Deliver,
                Consume, FindUser, Mark, PromoteNothing, PromoteTaken, PromoteOther, Promote,
                Promotable, Commit, SpendReset, SetPassword, Busy
  <2>2. \E k, l : Goto(h, k, l)
    BY <1>4 DEF Step, Die, Insert, CountSends, SetPending, Drop, Invalidate, Create, Deliver,
                Consume, FindUser, Mark, PromoteNothing, PromoteTaken, PromoteOther, Promote,
                Commit, SpendReset, SetPassword, SpendOnly, End
  <2>3. Busy' \in SUBSET Busy
    BY <2>1, <2>2 DEF Busy, Goto, Shape, TypeOK
  <2> QED
    BY <1>2, <2>3
<1>5. ASSUME pc' = pc PROVE BusyFits'
  BY <1>5 DEF BusyFits, Busy
<1>6. CASE Next
  BY <1>3, <1>4, <1>5, <1>6 DEF Next, Starts, Delete, Expire
<1> QED
  BY <1>1, <1>6

(* Where the tokens and the marks of u are the same, or fewer.              *)
LEMMA FewerFit ==
  ASSUME Parameters, Shape, BusyFits, BusyFits', NEW u \in Users
  PROVE  /\ /\ resent[u] <= Cardinality(Verifications(u))
            /\ resent[u] + Cardinality(Resending(u)) <= MaxSends + MaxActive - 1
            /\ Verifications(u)' = Verifications(u) /\ resent'[u] = resent[u]
            /\ Resending(u)' \in SUBSET Resending(u)
            => /\ resent'[u] <= Cardinality(Verifications(u)')
               /\ resent'[u] + Cardinality(Resending(u)') <= MaxSends + MaxActive - 1
         /\ /\ Cardinality(Live(u)) + Cardinality(Creating(u)) <= MaxActive
            /\ Live(u)' \in SUBSET Live(u) /\ Creating(u)' \in SUBSET Creating(u)
            => Cardinality(Live(u)') + Cardinality(Creating(u)') <= MaxActive
<1>1. /\ IsFiniteSet(Resending(u)) /\ IsFiniteSet(Creating(u))
      /\ Cardinality(Resending(u)) \in Nat /\ Cardinality(Creating(u)) \in Nat
  BY InBusy, FewHandlers
<1>2. IsFiniteSet(Live(u)) /\ Cardinality(Live(u)) \in Nat
  BY FewTokens
<1>3. resent[u] \in Nat
  BY DEF Shape, TypeOK
<1>4. MaxSends \in Nat /\ MaxActive \in Nat
  BY DEF Parameters
<1>5. Resending(u)' \in SUBSET Resending(u) =>
        Cardinality(Resending(u)') \in Nat /\ Cardinality(Resending(u)') <= Cardinality(Resending(u))
  BY <1>1, FS_Subset, FS_CardinalityType
<1>6. Creating(u)' \in SUBSET Creating(u) =>
        Cardinality(Creating(u)') \in Nat /\ Cardinality(Creating(u)') <= Cardinality(Creating(u))
  BY <1>1, FS_Subset, FS_CardinalityType
<1>7. Live(u)' \in SUBSET Live(u) =>
        Cardinality(Live(u)') \in Nat /\ Cardinality(Live(u)') <= Cardinality(Live(u))
  BY <1>2, FS_Subset, FS_CardinalityType
<1>8. /\ resent[u] <= Cardinality(Verifications(u))
      /\ resent[u] + Cardinality(Resending(u)) <= MaxSends + MaxActive - 1
      /\ Verifications(u)' = Verifications(u) /\ resent'[u] = resent[u]
      /\ Resending(u)' \in SUBSET Resending(u)
      => /\ resent'[u] <= Cardinality(Verifications(u)')
         /\ resent'[u] + Cardinality(Resending(u)') <= MaxSends + MaxActive - 1
  <2> SUFFICES ASSUME resent[u] <= Cardinality(Verifications(u)),
                      resent[u] + Cardinality(Resending(u)) <= MaxSends + MaxActive - 1,
                      Verifications(u)' = Verifications(u), resent'[u] = resent[u],
                      Resending(u)' \in SUBSET Resending(u)
               PROVE  /\ resent'[u] <= Cardinality(Verifications(u)')
                      /\ resent'[u] + Cardinality(Resending(u)') <= MaxSends + MaxActive - 1
    OBVIOUS
  <2> QED
    BY <1>1, <1>3, <1>4, <1>5
<1>9. /\ Cardinality(Live(u)) + Cardinality(Creating(u)) <= MaxActive
      /\ Live(u)' \in SUBSET Live(u) /\ Creating(u)' \in SUBSET Creating(u)
      => Cardinality(Live(u)') + Cardinality(Creating(u)') <= MaxActive
  BY <1>1, <1>2, <1>4, <1>6, <1>7
<1> QED
  BY <1>8, <1>9

(* A handler that has not come to resend or to create is not counted.       *)
LEMMA FewerHandlers ==
  ASSUME Shape, NEW h \in Handlers, NEW k, NEW l, Goto(h, k, l), NEW u
  PROVE  /\ (k \notin {"invalidate", "create"} \/ l.purpose # "resend" \/ l.user # u \/ h \in Resending(u))
              => Resending(u)' \in SUBSET Resending(u)
         /\ (k # "create" \/ l.purpose = "reset" \/ l.user # u)
              => Creating(u)' \in SUBSET Creating(u)
<1>1. \A g \in Handlers :
        /\ pc'[g] = IF g = h THEN k ELSE pc[g]
        /\ local'[g] = IF g = h THEN l ELSE local[g]
  BY DEF Goto, Shape, TypeOK
<1> QED
  BY <1>1 DEF Resending, Creating

(* Most steps bring no handler to issue a token.                            *)
LEMMA QuietFew ==
  ASSUME Parameters, Shape, BusyFits, BusyFits', ResendsFit, LiveFit, NEW h \in Handlers,
         \/ Starts(h) \/ Insert(h) \/ SetPending(h) \/ Drop(h) \/ Deliver(h)
         \/ Consume(h) \/ FindUser(h) \/ Mark(h) \/ PromoteNothing(h) \/ PromoteTaken(h)
         \/ PromoteOther(h) \/ Promote(h) \/ Commit(h) \/ SpendReset(h) \/ SetPassword(h)
         \/ Die(h)
  PROVE  ResendsFit' /\ LiveFit'
<1>1. \E k, l :
        /\ Goto(h, k, l)
        /\ k # "invalidate" \/ l.purpose # "resend"
        /\ k # "create" \/ l.purpose = "reset"
  <2>1. CASE Starts(h)
    <3>1. ASSUME NEW e \in Addresses, Forgot(h, e)
          PROVE  \E l : Goto(h, "create", l) /\ l.purpose = "reset"
      <4>1. PICK u : Goto(h, "create", [NoLocal EXCEPT !.user = u, !.target = e, !.purpose = "reset"])
        BY <3>1 DEF Forgot
      <4>2. [NoLocal EXCEPT !.user = u, !.target = e, !.purpose = "reset"].purpose = "reset"
        BY AboutIs
      <4> QED
        BY <4>1, <4>2
    <3>2. CASE \E e \in Addresses : Forgot(h, e)
      BY <3>1, <3>2
    <3>3. CASE ~\E e \in Addresses : Forgot(h, e)
      <4>1. \E k, l : Goto(h, k, l) /\ k # "invalidate" /\ k # "create"
        BY <2>1, <3>3 DEF Starts, Resend, ResendPublic, Register, Change, Confirm, Reset
      <4> QED
        BY <4>1
    <3> QED
      BY <3>2, <3>3
  <2>2. CASE Insert(h) \/ Drop(h)
    <3>1. local[h].purpose # "resend"
      BY <2>2 DEF Insert, Drop, Shape, Fits
    <3> QED
      BY <2>2, <3>1 DEF Insert, Drop, End
  <2>3. CASE \/ SetPending(h) \/ Deliver(h)
             \/ Consume(h) \/ FindUser(h) \/ Mark(h) \/ PromoteNothing(h) \/ PromoteTaken(h)
             \/ PromoteOther(h) \/ Promote(h) \/ Commit(h) \/ SpendReset(h) \/ SetPassword(h)
             \/ Die(h)
    <3>1. \E k, l : Goto(h, k, l) /\ k # "invalidate" /\ k # "create"
      BY <2>3 DEF SetPending, Deliver, Consume, FindUser, Mark, PromoteNothing, PromoteTaken,
         PromoteOther, Promote, Commit, SpendReset, SetPassword, Die, SpendOnly, End
    <3> QED
      BY <3>1
  <2> QED
    BY <2>1, <2>2, <2>3
<1>2. NoneAdded /\ resent' = resent
  <2>1. ~Create(h)
    <3>1. ASSUME pc[h] # "create" PROVE ~Create(h)
      BY <3>1 DEF Create
    <3>2. CASE Die(h)
      <4>1. pc'[h] = "idle"
        BY <3>2 DEF Die, End, Goto, Shape, TypeOK
      <4>2. Create(h) => pc'[h] = "deliver"
        BY DEF Create, Goto, Shape, TypeOK
      <4> QED
        BY <4>1, <4>2
    <3>3. CASE ~Die(h)
      BY <3>1, <3>3 DEF Starts, Resend, ResendPublic, Forgot, Register, Change, Confirm, Reset,
        Start, Insert, SetPending, Drop, Deliver, Consume, FindUser, Mark, PromoteNothing,
        PromoteTaken, PromoteOther, Promote, Promotable, Commit, SpendReset, SetPassword
    <3> QED
      BY <3>2, <3>3
  <2> QED
    BY <2>1, NoNewTokens DEF Step
<1>3. ASSUME NEW u \in Users
      PROVE  /\ Verifications(u)' = Verifications(u) /\ resent'[u] = resent[u]
             /\ Live(u)' \in SUBSET Live(u)
             /\ Resending(u)' \in SUBSET Resending(u) /\ Creating(u)' \in SUBSET Creating(u)
  BY <1>1, <1>2, SameVerifications, FewerHandlers
<1> QED
  BY <1>3, FewerFit DEF ResendsFit, LiveFit

(* The limit is checked: there are as few handlers as may be under way, and *)
(* fewer tokens than may be sent.                                           *)
LEMMA CountFew ==
  ASSUME Parameters, Shape, BusyFits, BusyFits', ResendsFit, LiveFit,
         NEW h \in Handlers, CountSends(h)
  PROVE  ResendsFit' /\ LiveFit'
<1>1. NoneAdded /\ resent' = resent
  <2>1. ~Create(h)
    BY DEF CountSends, Create
  <2> QED
    BY <2>1, NoNewTokens DEF Step
<1>2. pc[h] = "count" /\ (Goto(h, "invalidate", local[h]) \/ Goto(h, "idle", NoLocal))
  BY DEF CountSends, End
<1>3. ASSUME NEW u \in Users
      PROVE  /\ Verifications(u)' = Verifications(u) /\ resent'[u] = resent[u]
             /\ Live(u)' \in SUBSET Live(u) /\ Creating(u)' \in SUBSET Creating(u)
  BY <1>1, <1>2, SameVerifications, FewerHandlers
<1>4. ASSUME NEW u \in Users
      PROVE  /\ resent'[u] <= Cardinality(Verifications(u)')
             /\ resent'[u] + Cardinality(Resending(u)') <= MaxSends + MaxActive - 1
  <2>1. CASE Resending(u)' \in SUBSET Resending(u)
    BY <1>3, <2>1, FewerFit DEF ResendsFit
  <2>2. CASE Resending(u)' \notin SUBSET Resending(u)
    <3>1. local[h].user = u /\ Goto(h, "invalidate", local[h])
      BY <1>2, <2>2, FewerHandlers
    <3>2. Cardinality(Verifications(u)) < MaxSends
      <4>1. CASE End(h)
        <5>1. pc'[h] = "idle" /\ pc'[h] = "invalidate"
          BY <3>1, <4>1 DEF End, Goto, Shape, TypeOK
        <5> QED
          BY <5>1
      <4> QED
        BY <3>1, <4>1 DEF CountSends
    <3>3. resent[u] <= Cardinality(Verifications(u))
      BY DEF ResendsFit
    <3>4. resent[u] \in Nat /\ Cardinality(Verifications(u)) \in Nat
      BY FewTokens DEF Shape, TypeOK
    <3>5. Resending(u)' \in SUBSET Busy'
      BY DEF Resending, Busy
    <3>6. Cardinality(Resending(u)') \in Nat /\ Cardinality(Resending(u)') <= MaxActive
      <4>1. IsFiniteSet(Busy') /\ Cardinality(Busy') <= MaxActive
        BY DEF BusyFits
      <4>2. /\ IsFiniteSet(Resending(u)')
            /\ Cardinality(Resending(u)') <= Cardinality(Busy')
        BY <3>5, <4>1, FS_Subset
      <4>3. Cardinality(Resending(u)') \in Nat /\ Cardinality(Busy') \in Nat
        BY <4>1, <4>2, FS_CardinalityType
      <4> QED
        BY <4>1, <4>2, <4>3 DEF Parameters
    <3>7. resent'[u] + Cardinality(Resending(u)') <= MaxSends + MaxActive - 1
      BY <1>3, <3>2, <3>3, <3>4, <3>6 DEF Parameters
    <3>8. resent'[u] <= Cardinality(Verifications(u)')
      BY <1>3, <3>3
    <3> QED
      BY <3>7, <3>8
  <2> QED
    BY <2>1, <2>2
<1>5. LiveFit'
  BY <1>3, FewerFit DEF LiveFit
<1> QED
  BY <1>4, <1>5 DEF ResendsFit

(* An issuer invalidates the live tokens of its user.                       *)
LEMMA InvalidateFew ==
  ASSUME Parameters, Shape, BusyFits, BusyFits', ResendsFit, LiveFit,
         NEW h \in Handlers, Invalidate(h)
  PROVE  ResendsFit' /\ LiveFit'
<1>1. NoneAdded /\ resent' = resent
  <2>1. ~Create(h)
    BY DEF Invalidate, Create
  <2> QED
    BY <2>1, NoNewTokens DEF Step
<1>2. /\ pc[h] = "invalidate" /\ Goto(h, "create", local[h])
      /\ token' = Invalidated(Live(local[h].user))
  BY DEF Invalidate
<1>3. ASSUME NEW u \in Users
      PROVE  /\ Verifications(u)' = Verifications(u) /\ resent'[u] = resent[u]
             /\ Live(u)' \in SUBSET Live(u)
             /\ Resending(u)' \in SUBSET Resending(u)
             /\ u # local[h].user => Creating(u)' \in SUBSET Creating(u)
  <2>1. h \in Resending(u) \/ local[h].purpose # "resend" \/ local[h].user # u
    BY <1>2 DEF Resending
  <2> QED
    BY <1>1, <1>2, <2>1, SameVerifications, FewerHandlers
<1>4. ASSUME NEW u \in Users, u = local[h].user
      PROVE  Cardinality(Live(u)') + Cardinality(Creating(u)') <= MaxActive
  <2>1. Live(u)' = {}
    <3>1. \A x \in Tokens :
            token'[x].state = IF x \in Live(u) THEN "invalid" ELSE token[x].state
      BY <1>2, <1>4, LiveOnes, InvalidatedIs
    <3> QED
      BY <1>3, <3>1 DEF Live, Verifications, TokensOf
  <2>2. Cardinality(Live(u)') = 0
    BY <2>1, FS_EmptySet
  <2>3. Cardinality(Creating(u)') \in Nat /\ Cardinality(Creating(u)') <= MaxActive
    <3>1. Creating(u)' \in SUBSET Busy'
      BY DEF Creating, Busy
    <3>2. IsFiniteSet(Busy') /\ Cardinality(Busy') <= MaxActive
      BY DEF BusyFits
    <3>3. IsFiniteSet(Creating(u)') /\ Cardinality(Creating(u)') <= Cardinality(Busy')
      BY <3>1, <3>2, FS_Subset
    <3>4. Cardinality(Creating(u)') \in Nat /\ Cardinality(Busy') \in Nat
      BY <3>2, <3>3, FS_CardinalityType
    <3> QED
      BY <3>2, <3>3, <3>4 DEF Parameters
  <2> QED
    BY <2>2, <2>3
<1>5. ResendsFit'
  BY <1>3, FewerFit DEF ResendsFit
<1>6. LiveFit'
  BY <1>3, <1>4, FewerFit DEF LiveFit
<1> QED
  BY <1>5, <1>6

(* What is counted of an issuer is counted of its token.                    *)
LEMMA CreateFew ==
  ASSUME Parameters, Shape, BusyFits, BusyFits', ResendsFit, LiveFit,
         NEW h \in Handlers, Create(h)
  PROVE  ResendsFit' /\ LiveFit'
<1> DEFINE l == local[h]
<1>1. PICK t \in Tokens :
        /\ ~Created(t)
        /\ \A x \in Tokens : Created(x) <=> x < t
        /\ token' \in [Tokens -> TokenRows]
        /\ token'[t] = [state |-> "live", user |-> l.user,
                        email |-> l.target, purpose |-> l.purpose]
        /\ \A x \in Tokens \ {t} : token'[x] = token[x]
        /\ Goto(h, "deliver", [l EXCEPT !.token = t])
  BY CreateIs
<1>2. /\ token'[t].state = "live" /\ token'[t].user = l.user /\ token'[t].purpose = l.purpose
      /\ token[t].state = "none" /\ pc[h] = "create" /\ l.user \in Users
  BY <1>1 DEF Created, Create, Shape, Fits
<1>3. \A u \in Users : resent'[u] = resent[u] + IF u = l.user /\ l.purpose = "resend" THEN 1 ELSE 0
  <2>1. resent' = [resent EXCEPT ![l.user] = @ + (IF l.purpose = "resend" THEN 1 ELSE 0)]
    BY DEF Create
  <2> QED
    BY <1>2, <2>1 DEF Shape, TypeOK
<1>4. ASSUME NEW u \in Users
      PROVE  /\ Verifications(u)' = IF u = l.user /\ l.purpose # "reset"
                                    THEN Verifications(u) \cup {t} ELSE Verifications(u)
             /\ Live(u)' = IF u = l.user /\ l.purpose # "reset"
                           THEN Live(u) \cup {t} ELSE Live(u)
             /\ t \notin Verifications(u) /\ t \notin Live(u)
  BY <1>1, <1>2 DEF Verifications, Live, TokensOf
<1>5. ASSUME NEW u \in Users
      PROVE  /\ Resending(u)' = IF u = l.user /\ l.purpose = "resend"
                                THEN Resending(u) \ {h} ELSE Resending(u)
             /\ Creating(u)' = IF u = l.user /\ l.purpose # "reset"
                               THEN Creating(u) \ {h} ELSE Creating(u)
             /\ u = l.user /\ l.purpose = "resend" => h \in Resending(u)
             /\ u = l.user /\ l.purpose # "reset" => h \in Creating(u)
  <2>1. \A g \in Handlers :
          /\ pc'[g] = IF g = h THEN "deliver" ELSE pc[g]
          /\ g # h => local'[g] = local[g]
    BY <1>1 DEF Goto, Shape, TypeOK
  <2> QED
    BY <1>2, <2>1 DEF Resending, Creating
<1>6. ASSUME NEW u \in Users
      PROVE  /\ resent'[u] <= Cardinality(Verifications(u)')
             /\ resent'[u] + Cardinality(Resending(u)') <= MaxSends + MaxActive - 1
             /\ Cardinality(Live(u)') + Cardinality(Creating(u)') <= MaxActive
  <2>1. /\ resent[u] <= Cardinality(Verifications(u))
        /\ resent[u] + Cardinality(Resending(u)) <= MaxSends + MaxActive - 1
        /\ Cardinality(Live(u)) + Cardinality(Creating(u)) <= MaxActive
    BY DEF ResendsFit, LiveFit
  <2>2. /\ IsFiniteSet(Resending(u)) /\ IsFiniteSet(Creating(u))
        /\ Cardinality(Resending(u)) \in Nat /\ Cardinality(Creating(u)) \in Nat
    BY InBusy, FewHandlers
  <2>3. /\ IsFiniteSet(Verifications(u)) /\ IsFiniteSet(Live(u))
        /\ Cardinality(Verifications(u)) \in Nat /\ Cardinality(Live(u)) \in Nat
    BY FewTokens
  <2>4. resent[u] \in Nat /\ MaxSends \in Nat /\ MaxActive \in Nat
    BY DEF Shape, TypeOK, Parameters
  <2>5. CASE u = l.user /\ l.purpose # "reset"
    <3>1. Cardinality(Verifications(u)') = Cardinality(Verifications(u)) + 1
      BY <1>4, <2>3, <2>5, FS_AddElement
    <3>2. Cardinality(Live(u)') = Cardinality(Live(u)) + 1
      BY <1>4, <2>3, <2>5, FS_AddElement
    <3>3. Cardinality(Creating(u)') = Cardinality(Creating(u)) - 1
      BY <1>5, <2>2, <2>5, FS_RemoveElement
    <3>4. CASE l.purpose = "resend"
      <4>1. Cardinality(Resending(u)') = Cardinality(Resending(u)) - 1
        BY <1>5, <2>2, <2>5, <3>4, FS_RemoveElement
      <4>2. resent'[u] = resent[u] + 1
        BY <1>3, <2>5, <3>4
      <4> QED
        BY <2>1, <2>2, <2>3, <2>4, <3>1, <3>2, <3>3, <4>1, <4>2
    <3>5. CASE l.purpose # "resend"
      <4>1. Resending(u)' = Resending(u) /\ resent'[u] = resent[u]
        BY <1>3, <1>5, <2>4, <3>5
      <4> QED
        BY <2>1, <2>2, <2>3, <2>4, <3>1, <3>2, <3>3, <4>1
    <3> QED
      BY <3>4, <3>5
  <2>6. CASE ~(u = l.user /\ l.purpose # "reset")
    <3>1. /\ Verifications(u)' = Verifications(u) /\ Live(u)' = Live(u)
          /\ Creating(u)' = Creating(u) /\ Resending(u)' = Resending(u)
      BY <1>4, <1>5, <2>6
    <3>2. resent'[u] = resent[u]
      BY <1>3, <2>4, <2>6
    <3> QED
      BY <2>1, <3>1, <3>2
  <2> QED
    BY <2>5, <2>6
<1> QED
  BY <1>6 DEF ResendsFit, LiveFit

(* Every step.                                                              *)
LEMMA NextFew ==
  ASSUME Parameters, Shape, BusyFits, BusyFits', ResendsFit, LiveFit, [Next]_vars
  PROVE  ResendsFit' /\ LiveFit'
<1>1. CASE UNCHANGED vars
  BY <1>1 DEF vars, observers, ResendsFit, LiveFit, Verifications, Live, TokensOf, Resending, Creating
<1>2. ASSUME NEW h \in Handlers, Starts(h) \/ Step(h) \/ Die(h) PROVE ResendsFit' /\ LiveFit'
  BY <1>2, QuietFew, CountFew, InvalidateFew, CreateFew DEF Step
<1>3. ASSUME NEW u \in Users, Delete(u) PROVE ResendsFit' /\ LiveFit'
  BY <1>3 DEF Delete, observers, ResendsFit, LiveFit, Verifications, Live, TokensOf, Resending, Creating
<1>4. ASSUME NEW t \in Tokens, Expire(t) PROVE ResendsFit' /\ LiveFit'
  <2>1. NoneAdded /\ resent' = resent /\ pc' = pc /\ local' = local
    BY <1>4, ExpiredIs DEF NoneAdded, Expire, observers
  <2>2. \A u : Resending(u)' = Resending(u) /\ Creating(u)' = Creating(u)
    BY <2>1 DEF Resending, Creating
  <2> QED
    BY <2>1, <2>2, SameVerifications, FewerFit DEF ResendsFit, LiveFit
<1>5. CASE Next
  BY <1>2, <1>3, <1>4, <1>5 DEF Next, Starts
<1> QED
  BY <1>1, <1>5

(* The initial states.                                                      *)
LEMMA InitFew == ASSUME Parameters, Init PROVE BusyFits /\ ResendsFit /\ LiveFit
<1>1. Busy = {} /\ \A u : Resending(u) = {} /\ Creating(u) = {} /\ Live(u) = {}
  BY DEF Init, Busy, Resending, Creating, Live, Verifications, TokensOf
<1>2. IsFiniteSet({}) /\ Cardinality({}) = 0
  BY FS_EmptySet
<1>3. \A u \in Users : resent[u] = 0 /\ Cardinality(Verifications(u)) \in Nat
  BY FewTokens DEF Init
<1>4. MaxSends \in Nat /\ MaxActive \in Nat /\ MaxActive >= 1
  BY DEF Parameters
<1>5. BusyFits
  BY <1>1, <1>2, <1>4 DEF BusyFits
<1>6. ASSUME NEW u \in Users
      PROVE  /\ resent[u] <= Cardinality(Verifications(u))
             /\ resent[u] + Cardinality(Resending(u)) <= MaxSends + MaxActive - 1
             /\ Cardinality(Live(u)) + Cardinality(Creating(u)) <= MaxActive
  <2>1. /\ Cardinality(Resending(u)) = 0 /\ Cardinality(Creating(u)) = 0
        /\ Cardinality(Live(u)) = 0
    BY <1>1, <1>2
  <2> QED
    BY <1>3, <1>4, <2>1
<1> QED
  BY <1>5, <1>6 DEF ResendsFit, LiveFit

(* Live tokens and resends are as few as the overlapping requests allow.    *)
LEMMA FewInvariance == ASSUME Parameters PROVE Spec => [](BusyFits /\ ResendsFit /\ LiveFit)
<1>1. Init => BusyFits /\ ResendsFit /\ LiveFit
  BY InitFew
<1>2. Shape /\ (BusyFits /\ ResendsFit /\ LiveFit) /\ [Next]_vars => (BusyFits /\ ResendsFit /\ LiveFit)'
  BY NextBusy, NextFew
<1> QED
  BY <1>1, <1>2, ShapeInvariance, PTL DEF Spec

-----------------------------------------------------------------------------
(* Whoever is verified has proved the address, unless requests of his have  *)
(* crossed.                                                                 *)

(* Who confirms a token for address e shows to read the mail of the address *)
(* that u has, or u has shown it before.                                    *)
Sound(u, e) == e = account[u].email \/ account[u].email \in proved[u]

(* u is changing its address and has not dropped the tokens issued before;  *)
(* no confirmation has t.                                                   *)
Apart(u, t) == Dropping(u) /\ \A g \in Handlers : ~HoldsToken(g, t)

(* Live token t of u gives u the address it is for, if any.                 *)
TokenAimed(u, t) ==
  IF token[t].purpose = "email_change"
  THEN account[u].pending \in {None, token[t].email} \/ Apart(u, t)
  ELSE Sound(u, token[t].email)

(* A handler at step k with l will issue such a token for u.                *)
Aimed(u, k, l) ==
  /\ k \in {"count", "invalidate", "create"} /\ l.purpose \in {"registration", "resend"}
       => Sound(u, l.target)
  /\ k \in {"drop", "invalidate", "create"} /\ l.purpose = "email_change"
       => account[u].pending \in {None, l.target}

ProvedFor(u) ==
  u \notin crossed /\ Active(u) =>
    /\ account[u].verified => account[u].email \in proved[u]
    /\ \A t \in Live(u) : TokenAimed(u, t)
    /\ \A h \in Handlers : local[h].user = u => Aimed(u, pc[h], local[h])

Proved == \A u \in Users : ProvedFor(u)

(* No more tokens of u are live after a step, and none is another one.      *)
NoMore(u) ==
  \A t \in Live(u)' : /\ t \in Live(u) /\ token'[t].purpose = token[t].purpose
                      /\ token'[t].email = token[t].email

LEMMA NoneAddedNoMore == ASSUME Shape, NoneAdded, NEW u PROVE NoMore(u)
<1> SUFFICES ASSUME NEW t \in Live(u)'
             PROVE  /\ t \in Live(u) /\ token'[t].purpose = token[t].purpose
                    /\ token'[t].email = token[t].email
  BY DEF NoMore
<1>1. t \in Live(u) /\ t \in Tokens
  BY SameVerifications DEF Live, Verifications, TokensOf
<1> QED
  BY <1>1 DEF NoneAdded, TokensMove

(* Where each handler is after one has moved.                               *)
LEMMA Moved ==
  ASSUME Shape, NEW h \in Handlers, NEW k, NEW l, Goto(h, k, l), NEW g \in Handlers
  PROVE  /\ pc'[g] = IF g = h THEN k ELSE pc[g]
         /\ local'[g] = IF g = h THEN l ELSE local[g]
BY DEF Goto, Shape, TypeOK

(* What was apart is apart after the step of a handler that neither ends    *)
(* a change's first part nor takes a token.                                 *)
LEMMA StillApart ==
  ASSUME Shape, NEW h \in Handlers, NEW k, NEW l, Goto(h, k, l), NEW u, NEW t, Apart(u, t),
         ~(Changing(h, u) /\ pc[h] = "drop"),
         k \in Holding => l.token # t \/ (pc[h] \in Holding /\ l.token = local[h].token)
  PROVE  Apart(u, t)'
<1>1. PICK f \in Handlers : Changing(f, u) /\ pc[f] = "drop"
  BY DEF Apart, Dropping
<1>2. pc'[f] = pc[f] /\ local'[f] = local[f]
  BY <1>1, Moved
<1>3. Dropping(u)'
  BY <1>1, <1>2 DEF Dropping, Changing
<1>4. ASSUME NEW g \in Handlers PROVE ~HoldsToken(g, t)'
  <2>1. ~HoldsToken(g, t)
    BY DEF Apart
  <2> QED
    BY <2>1, Moved DEF HoldsToken, Holding
<1> QED
  BY <1>3, <1>4 DEF Apart

(* What is known of u stays true where u's row does not change, its tokens  *)
(* are no more, and the handler that moves issues what it should.           *)
LEMMA KeepProved ==
  ASSUME Shape, NEW u \in Users, ProvedFor(u), NoMore(u),
         account'[u] = account[u], proved[u] \subseteq proved'[u], crossed \subseteq crossed',
         NEW h \in Handlers, NEW k, NEW l, Goto(h, k, l),
         \A t \in Live(u)' :
           token[t].purpose = "email_change" /\ Apart(u, t) => Apart(u, t)' \/ u \in crossed',
         l.user = u /\ Active(u) /\ u \notin crossed => Aimed(u, k, l) \/ u \in crossed'
  PROVE  ProvedFor(u)'
<1> SUFFICES ASSUME u \notin crossed', Active(u)'
             PROVE  /\ account'[u].verified => account'[u].email \in proved'[u]
                    /\ \A t \in Live(u)' : TokenAimed(u, t)'
                    /\ \A g \in Handlers : local'[g].user = u => Aimed(u, pc[g], local[g])'
  BY DEF ProvedFor
<1>1. u \notin crossed /\ Active(u)
  BY DEF Active
<1>2. account'[u].verified => account'[u].email \in proved'[u]
  BY <1>1 DEF ProvedFor
<1>3. \A e : Sound(u, e) => Sound(u, e)'
  BY DEF Sound
<1>4. ASSUME NEW t \in Live(u)' PROVE TokenAimed(u, t)'
  <2>1. /\ t \in Live(u) /\ token'[t].purpose = token[t].purpose
        /\ token'[t].email = token[t].email
    BY <1>4 DEF NoMore
  <2>2. TokenAimed(u, t)
    BY <1>1, <2>1 DEF ProvedFor
  <2>3. CASE token[t].purpose = "email_change"
    BY <1>4, <2>1, <2>2, <2>3 DEF TokenAimed
  <2>4. CASE token[t].purpose # "email_change"
    <3>1. Sound(u, token[t].email)'
      BY <1>3, <2>1, <2>2, <2>4 DEF TokenAimed, Sound
    <3> QED
      BY <2>1, <2>4, <3>1 DEF TokenAimed
  <2> QED
    BY <2>3, <2>4
<1>5. ASSUME NEW j, NEW m, Aimed(u, j, m)
      PROVE  /\ j \in {"count", "invalidate", "create"} /\ m.purpose \in {"registration", "resend"}
                  => m.target = account'[u].email \/ account'[u].email \in proved'[u]
             /\ j \in {"drop", "invalidate", "create"} /\ m.purpose = "email_change"
                  => account'[u].pending \in {None, m.target}
  BY <1>5 DEF Aimed, Sound
<1>6. ASSUME NEW g \in Handlers, local'[g].user = u PROVE Aimed(u, pc[g], local[g])'
  <2>1. /\ pc'[g] = IF g = h THEN k ELSE pc[g]
        /\ local'[g] = IF g = h THEN l ELSE local[g]
    BY Moved
  <2>2. Aimed(u, pc'[g], local'[g])
    <3>1. CASE g = h
      BY <1>1, <1>6, <2>1, <3>1
    <3>2. CASE g # h
      BY <1>1, <1>6, <2>1, <3>2 DEF ProvedFor
    <3> QED
      BY <3>1, <3>2
  <2> QED
    BY <1>5, <2>2 DEF Aimed, Sound
<1> QED
  BY <1>2, <1>4, <1>6

(* A request begins, for the address its user has.                          *)
LEMMA StartsProved ==
  ASSUME Parameters, Shape, Proved, NEW h \in Handlers, Starts(h)
  PROVE  Proved'
<1>1. NoneAdded
  <2>1. ~Create(h)
    BY DEF Starts, Resend, ResendPublic, Forgot, Register, Change, Confirm, Reset, Start, Create
  <2> QED
    BY <2>1, NoNewTokens
<1>2. account' = account /\ proved' = proved /\ crossed \subseteq crossed' /\ pc[h] = "idle"
  BY DEF Starts, Resend, ResendPublic, Forgot, Register, Change, Confirm, Reset, Start, observers,
         CrossIf
<1>3. ASSUME NEW k, NEW l, Goto(h, k, l), k \notin Holding,
             l.user \notin crossed' => Aimed(l.user, k, l)
      PROVE  Proved'
  <2>1. ASSUME NEW u \in Users PROVE ProvedFor(u)'
    <3>1. \A t : Apart(u, t) => Apart(u, t)'
      BY <1>2, <1>3, StillApart
    <3>2. ProvedFor(u) /\ NoMore(u)
      BY <1>1, NoneAddedNoMore DEF Proved
    <3> QED
      BY <1>2, <1>3, <3>1, <3>2, KeepProved
  <2> QED
    BY <2>1 DEF Proved
<1>4. ASSUME NEW u \in Users, Resend(h, u) PROVE Proved'
  <2> DEFINE l == [NoLocal EXCEPT !.user = u, !.target = account[u].email,
                                  !.purpose = "resend"]
  <2>1. l = [user |-> u, target |-> account[u].email, purpose |-> "resend", token |-> None]
    BY AboutIs
  <2>2. Goto(h, "count", l)
    BY <1>4 DEF Resend
  <2> HIDE DEF l
  <2>3. Aimed(l.user, "count", l)
    BY <2>1 DEF Aimed, Sound
  <2> QED
    BY <1>3, <2>2, <2>3 DEF Holding
<1>5. ASSUME NEW e \in Addresses, Forgot(h, e) PROVE Proved'
  <2>1. PICK u : Goto(h, "create", [NoLocal EXCEPT !.user = u, !.target = e, !.purpose = "reset"])
    BY <1>5 DEF Forgot
  <2> DEFINE l == [NoLocal EXCEPT !.user = u, !.target = e, !.purpose = "reset"]
  <2>2. l = [user |-> u, target |-> e, purpose |-> "reset", token |-> None]
    BY AboutIs
  <2>3. Goto(h, "create", l)
    BY <2>1
  <2> HIDE DEF l
  <2>4. Aimed(l.user, "create", l)
    BY <2>2 DEF Aimed
  <2> QED
    BY <1>3, <2>3, <2>4 DEF Holding
<1>6. CASE \/ \E u \in Users, e \in Addresses : Register(h, u, e) \/ Change(h, u, e)
           \/ \E t \in Tokens : Confirm(h, t) \/ Reset(h, t)
  <2>1. \E k, l : Goto(h, k, l) /\ k \in {"insert", "pending", "consume", "spend"}
    BY <1>6 DEF Register, Change, Confirm, Reset
  <2> QED
    BY <1>3, <2>1 DEF Aimed, Holding
<1>7. ASSUME NEW e \in Addresses, ResendPublic(h, e) PROVE Proved'
  <2>1. PICK u \in Owners(e) :
          /\ Goto(h, "count",
                  [NoLocal EXCEPT !.user = u,
                     !.target = IF account[u].pending # None THEN account[u].pending
                                                             ELSE account[u].email,
                     !.purpose = "resend"])
          /\ CrossIf(account[u].pending # None, u)
    BY <1>7 DEF ResendPublic
  <2> DEFINE a == IF account[u].pending # None THEN account[u].pending ELSE account[u].email
             l == [NoLocal EXCEPT !.user = u, !.target = a, !.purpose = "resend"]
  <2>2. l = [user |-> u, target |-> a, purpose |-> "resend", token |-> None]
    BY AboutIs
  <2>3. Goto(h, "count", l)
    BY <2>1
  <2>4. u \notin crossed' => a = account[u].email
    BY <2>1 DEF CrossIf
  <2> HIDE DEF a, l
  <2>5. l.user \notin crossed' => Aimed(l.user, "count", l)
    BY <2>2, <2>4 DEF Aimed, Sound
  <2> QED
    BY <1>3, <2>3, <2>5 DEF Holding
<1> QED
  BY <1>4, <1>5, <1>6, <1>7 DEF Starts

(* The steps that write no account, but for a change that drops tokens, the *)
(* creation of one and the end of a handler.                                *)
LEMMA ReadsProved ==
  ASSUME Parameters, Shape, Proved, NEW h \in Handlers,
         \/ CountSends(h) \/ Invalidate(h) \/ Deliver(h) \/ Consume(h) \/ FindUser(h)
         \/ Mark(h) \/ PromoteNothing(h) \/ PromoteTaken(h) \/ Promote(h)
         \/ SpendReset(h) \/ SetPassword(h)
  PROVE  Proved'
<1>1. ~Create(h) /\ pc[h] # "drop"
  BY DEF CountSends, Invalidate, Deliver, Consume, FindUser, Mark, PromoteNothing, PromoteTaken,
         Promote, Promotable, SpendReset, SetPassword, Create
<1>2. NoneAdded
  BY <1>1, NoNewTokens DEF Step
<1>3. account' = account /\ proved' = proved /\ crossed \subseteq crossed'
  BY DEF CountSends, Invalidate, Deliver, Consume, FindUser, Mark, PromoteNothing, PromoteTaken,
         Promote, SpendReset, SetPassword, SpendOnly, observers, CrossIf
<1>4. ASSUME NEW k, NEW l, Goto(h, k, l),
             k \in Holding => pc[h] \in Holding /\ l.token = local[h].token,
             \A u \in Users : l.user = u /\ Active(u) /\ u \notin crossed => Aimed(u, k, l)
      PROVE  Proved'
  <2>1. ASSUME NEW u \in Users PROVE ProvedFor(u)'
    <3>1. \A t : Apart(u, t) => Apart(u, t)'
      BY <1>1, <1>4, StillApart
    <3>2. ProvedFor(u) /\ NoMore(u)
      BY <1>2, NoneAddedNoMore DEF Proved
    <3> QED
      BY <1>3, <1>4, <3>1, <3>2, KeepProved
  <2> QED
    BY <2>1 DEF Proved
<1>5. ASSUME NEW u \in Users, local[h].user = u, Active(u), u \notin crossed
      PROVE  Aimed(u, pc[h], local[h])
  BY <1>5 DEF Proved, ProvedFor
<1>6. CASE CountSends(h)
  <2>1. CASE Goto(h, "invalidate", local[h])
    <3>1. pc[h] = "count" /\ local[h].purpose = "resend"
      BY <1>6 DEF CountSends, Shape, Fits
    <3> QED
      BY <1>4, <1>5, <2>1, <3>1 DEF Aimed, Holding
  <2>2. CASE End(h)
    BY <1>4, <2>2 DEF End, Aimed, Holding
  <2> QED
    BY <1>6, <2>1, <2>2 DEF CountSends
<1>7. CASE Invalidate(h)
  <2>1. pc[h] = "invalidate" /\ Goto(h, "create", local[h])
    BY <1>7 DEF Invalidate
  <2> QED
    BY <1>4, <1>5, <2>1 DEF Aimed, Holding
<1>8. CASE Consume(h)
  <2>1. CASE End(h)
    BY <1>4, <2>1 DEF End, Aimed, Holding
  <2>2. CASE Goto(h, "find", local[h]) /\ ~End(h)
    <3> DEFINE t == local[h].token
    <3>1. /\ token[t].purpose = local[h].purpose /\ token[t].user = local[h].user
          /\ local[h].purpose = "email_change" /\ Dropping(local[h].user) =>
               local[h].user \in crossed'
      BY <1>8 DEF Consume, CrossIf, Shape, Fits, Presenting
    <3>2. ASSUME NEW u \in Users PROVE ProvedFor(u)'
      <4>1. ASSUME NEW x \in Live(u)', token[x].purpose = "email_change", Apart(u, x)
            PROVE  Apart(u, x)' \/ u \in crossed'
        <5>1. CASE x = t
          <6>1. token[t].user = u
            BY <1>2, <4>1, <5>1, SameVerifications DEF Live, Verifications, TokensOf
          <6> QED
            BY <3>1, <4>1, <5>1, <6>1 DEF Apart
        <5>2. CASE x # t
          BY <1>1, <2>2, <4>1, <5>2, StillApart
        <5> QED
          BY <5>1, <5>2
      <4>2. ProvedFor(u) /\ NoMore(u)
        BY <1>2, NoneAddedNoMore DEF Proved
      <4>3. Aimed(u, "find", local[h])
        BY DEF Aimed
      <4> QED
        BY <1>3, <2>2, <4>1, <4>2, <4>3, KeepProved
    <3> QED
      BY <3>2 DEF Proved
  <2> QED
    BY <1>8, <2>1, <2>2 DEF Consume
<1>9. CASE \/ Deliver(h) \/ PromoteNothing(h) \/ PromoteTaken(h) \/ SpendReset(h)
           \/ SetPassword(h) \/ (FindUser(h) /\ SpendOnly(h))
  <2>1. \E k, l : Goto(h, k, l) /\ k \in {"idle", "password"}
    BY <1>9 DEF Deliver, PromoteNothing, PromoteTaken, SpendReset, SetPassword, SpendOnly, End
  <2> QED
    BY <1>4, <2>1 DEF Aimed, Holding
<1>10. CASE Mark(h) \/ Promote(h) \/ (FindUser(h) /\ Goto(h, "apply", local[h]))
  <2>1. pc[h] \in Holding /\ local[h] \in Locals
    BY <1>10 DEF Mark, Promote, Promotable, FindUser, Holding, Shape, TypeOK
  <2>2. \A a : [local[h] EXCEPT !.target = a].token = local[h].token
    BY <2>1 DEF Locals
  <2>3. \E k, l : Goto(h, k, l) /\ k \in {"apply", "commit"} /\ l.token = local[h].token
    BY <1>10, <2>2 DEF FindUser, Mark, Promote
  <2> QED
    BY <1>4, <2>1, <2>3 DEF Aimed
<1>11. FindUser(h) => SpendOnly(h) \/ Goto(h, "apply", local[h])
  BY DEF FindUser
<1> QED
  BY <1>6, <1>7, <1>8, <1>9, <1>10, <1>11

(* Registration: the account is new, and so has no tokens, and nobody else  *)
(* has a request about it but to register it.                               *)
LEMMA InsertProved ==
  ASSUME Parameters, Shape, Proved, NEW h \in Handlers, Insert(h)
  PROVE  Proved'
<1>0. PICK u \in Users : u = local[h].user
  BY DEF Insert, Shape, Fits
<1>1. /\ pc[h] = "insert" /\ token' = token /\ proved' = proved /\ crossed' = crossed
      /\ local[h].purpose = "registration"
  BY DEF Insert, observers, Shape, Fits
<1>2. ASSUME NEW v \in Users PROVE NoMore(v)
  BY <1>1, SameTokens, NoneAddedNoMore DEF NoneAdded
<1>3. ASSUME NEW v \in Users, account'[v] = account[v], NEW k, k \notin Holding, NEW l,
             Goto(h, k, l), l.user # v \/ k = "idle"
      PROVE  ProvedFor(v)'
  <2>1. \A t : Apart(v, t) => Apart(v, t)'
    BY <1>1, <1>3, StillApart
  <2>2. Aimed(v, "idle", l)
    BY DEF Aimed
  <2> QED
    BY <1>1, <1>2, <1>3, <2>1, <2>2, KeepProved DEF Proved
<1>4. CASE account' = account /\ End(h)
  BY <1>3, <1>4 DEF End, Proved, Holding
<1>5. CASE account' # account
  <2> DEFINE e == local[h].target
  <2>1. /\ account[u].state = "none" /\ Goto(h, "invalidate", local[h])
        /\ Wrote(u, "active", e, None)
    BY <1>0, <1>5, InsertWrites
  <2>2. account'[u].verified = FALSE
    <3>1. account' = [account EXCEPT ![u] = [state |-> "active", email |-> e,
                                             pending |-> None, verified |-> FALSE]]
      BY <1>0, <1>5 DEF Insert
    <3>2. u \in DOMAIN account
      BY <1>0, <1>1 DEF Shape, TypeOK
    <3> HIDE DEF e
    <3> QED
      BY <3>1, <3>2, Zenon
  <2>3. Live(u)' = {}
    BY <1>0, <1>1, <2>1 DEF Live, Verifications, TokensOf, Shape, TokenFits, Created
  <2>4. ASSUME NEW g \in Handlers, local'[g].user = u
        PROVE  Aimed(u, pc[g], local[g])'
    <3>1. CASE g = h
      BY <1>0, <1>1, <2>1, <3>1, Moved DEF Aimed, Sound, Wrote
    <3>2. CASE g # h
      <4>1. pc'[g] = pc[g] /\ local'[g] = local[g]
        BY <2>1, <3>2, Moved
      <4>2. pc[g] \in {"idle", "insert"}
        BY <2>1, <2>4, <4>1 DEF Shape, Fits
      <4> QED
        BY <4>1, <4>2 DEF Aimed
    <3> QED
      BY <3>1, <3>2
  <2>5. ProvedFor(u)'
    BY <2>2, <2>3, <2>4 DEF ProvedFor
  <2>6. ASSUME NEW v \in Users \ {u} PROVE ProvedFor(v)'
    BY <1>0, <1>3, <2>1 DEF Wrote, Holding
  <2> QED
    BY <2>5, <2>6 DEF Proved
<1>6. account' = account => End(h)
  <2>1. SUFFICES ASSUME account' = account, ~End(h) PROVE FALSE
    OBVIOUS
  <2>2. /\ account[u].state = "none"
        /\ account = [account EXCEPT ![u] = [state |-> "active", email |-> local[h].target,
                                            pending |-> None, verified |-> FALSE]]
    BY <1>0, <2>1 DEF Insert
  <2>3. account[u] = [state |-> "active", email |-> local[h].target,
                      pending |-> None, verified |-> FALSE]
    BY <2>2, Zenon DEF Shape, TypeOK
  <2>4. account[u].state = "active"
    BY <2>3
  <2> QED
    BY <2>2, <2>4
<1> QED
  BY <1>4, <1>5, <1>6

(* setPendingEmailById: the account is not verified any more, and has not   *)
(* dropped its tokens; nobody else is changing the address or confirming a  *)
(* change.                                                                  *)
LEMMA SetPendingProved ==
  ASSUME Parameters, Shape, Proved, NEW h \in Handlers, SetPending(h)
  PROVE  Proved'
<1> DEFINE e == local[h].target
<1>0. PICK u \in Users : u = local[h].user
  BY DEF SetPending, Shape, Fits
<1>1. /\ pc[h] = "pending" /\ token' = token /\ proved' = proved /\ crossed \subseteq crossed'
      /\ local[h].purpose = "email_change" /\ Goto(h, "drop", local[h]) /\ AccountFree(h, u)
      /\ u \notin crossed' => \A g \in Handlers : ~Changing(g, u) /\ ~Confirming(g, u)
  BY <1>0 DEF SetPending, CrossIf, Shape, Fits
<1>2. ASSUME NEW v \in Users PROVE NoMore(v)
  BY <1>1, SameTokens, NoneAddedNoMore DEF NoneAdded
<1>3. \A v \in Users \ {u} : account'[v] = account[v]
  BY <1>0, SetPendingWrites DEF SetPending, Wrote
<1>4. ASSUME NEW v \in Users \ {u} PROVE ProvedFor(v)'
  <2>1. \A t : Apart(v, t) => Apart(v, t)'
    BY <1>1, StillApart DEF Holding
  <2> QED
    BY <1>0, <1>1, <1>2, <1>3, <2>1, KeepProved DEF Proved
<1>5. ProvedFor(u)'
  <2>1. CASE ~Active(u)
    BY <1>0, <2>1 DEF SetPending, Active, ProvedFor
  <2>2. CASE Active(u) /\ u \notin crossed'
    <3>1. Wrote(u, "active", account[u].email, e)
      BY <1>0, <2>2, SetPendingWrites
    <3>2. account'[u].verified = FALSE
      <4>1. account' = [account EXCEPT ![u].pending = e, ![u].verified = FALSE]
        BY <1>0, <2>2 DEF SetPending
      <4> HIDE DEF e
      <4>2. PICK y : y = FALSE /\ account' = [account EXCEPT ![u] =
                       [state |-> account[u].state, email |-> account[u].email,
                        pending |-> e, verified |-> y]]
        BY <1>0, <1>1, <4>1, PendingIs
      <4>3. account'[u].verified = y
        BY <1>0, <1>1, <4>2 DEF Shape, TypeOK
      <4> QED
        BY <4>2, <4>3, Zenon
    <3>3. ProvedFor(u) /\ u \notin crossed
      BY <1>1, <2>2 DEF Proved
    <3>4. account'[u].email = account[u].email /\ account'[u].pending = e
      BY <3>1 DEF Wrote
    <3>5. Dropping(u)'
      BY <1>0, <1>1, Moved DEF Dropping, Changing
    <3>6. ASSUME NEW t \in Live(u)' PROVE TokenAimed(u, t)'
      <4>1. t \in Live(u) /\ token[t].user = u /\ TokenAimed(u, t)
        BY <1>2, <2>2, <3>3, <3>6 DEF NoMore, ProvedFor, Live, Verifications, TokensOf
      <4>2. CASE token[t].purpose = "email_change"
        <5>1. ASSUME NEW g \in Handlers PROVE ~HoldsToken(g, t)'
          <6>1. CASE g = h
            BY <1>1, <6>1, Moved DEF HoldsToken
          <6>2. CASE g # h
            <7>1. ~HoldsToken(g, t)
              <8>1. SUFFICES ASSUME HoldsToken(g, t) PROVE FALSE
                OBVIOUS
              <8>2. local[g].user = u /\ local[g].purpose = "email_change"
                BY <4>1, <4>2, <8>1 DEF HoldsToken, Shape, Fits, Presenting
              <8> QED
                BY <1>1, <2>2, <6>2, <8>1, <8>2
                DEF HoldsToken, Confirming, AccountFree, HoldsAccount
            <7> QED
              BY <1>1, <6>2, <7>1, Moved DEF HoldsToken
          <6> QED
            BY <6>1, <6>2
        <5> QED
          BY <1>1, <3>5, <4>2, <5>1 DEF TokenAimed, Apart
      <4>3. CASE token[t].purpose # "email_change"
        BY <1>1, <3>4, <4>1, <4>3 DEF TokenAimed, Sound
      <4> QED
        BY <4>2, <4>3
    <3>7. ASSUME NEW g \in Handlers, local'[g].user = u
          PROVE  Aimed(u, pc[g], local[g])'
      <4>1. CASE g = h
        BY <1>1, <3>4, <4>1, Moved DEF Aimed
      <4>2. CASE g # h
        <5>1. /\ pc'[g] = pc[g] /\ local'[g] = local[g] /\ Aimed(u, pc[g], local[g])
              /\ ~Changing(g, u)
          BY <1>1, <2>2, <3>3, <3>7, <4>2, Moved DEF ProvedFor
        <5> QED
          BY <1>1, <3>4, <3>7, <5>1 DEF Aimed, Sound, Changing
      <4> QED
        BY <4>1, <4>2
    <3> QED
      BY <3>2, <3>6, <3>7 DEF ProvedFor
  <2>3. CASE u \in crossed'
    BY <2>3 DEF ProvedFor
  <2> QED
    BY <2>1, <2>2, <2>3
<1> QED
  BY <1>4, <1>5 DEF Proved

(* The tokens issued for the address before are invalidated.                *)
LEMMA DropProved ==
  ASSUME Parameters, Shape, Proved, NEW h \in Handlers, Drop(h)
  PROVE  Proved'
<1>0. PICK u \in Users : u = local[h].user
  BY DEF Drop, Shape, Fits
<1>1. /\ pc[h] = "drop" /\ account' = account /\ proved' = proved /\ crossed' = crossed
      /\ local[h].purpose = "email_change" /\ Goto(h, "invalidate", local[h])
      /\ token' = Invalidated(Live(u))
  BY <1>0 DEF Drop, observers, Shape, Fits
<1>2. NoneAdded
  BY <1>1, LiveOnes, InvalidatedIs DEF NoneAdded, TokensMove
<1>3. Live(u)' = {}
  <2>1. \A t \in Tokens :
          /\ token'[t].user = token[t].user /\ token'[t].purpose = token[t].purpose
          /\ token'[t].state # "none" <=> token[t].state # "none"
          /\ token'[t].state = IF t \in Live(u) THEN "invalid" ELSE token[t].state
    BY <1>1, LiveOnes, InvalidatedIs
  <2> QED
    BY <2>1 DEF Live, Verifications, TokensOf
<1>4. ASSUME NEW v \in Users PROVE ProvedFor(v)'
  <2>1. ASSUME NEW t \in Live(v)', Apart(v, t) PROVE Apart(v, t)'
    <3>1. ~Changing(h, v)
      BY <1>0, <1>3, <2>1 DEF Changing
    <3> QED
      BY <1>1, <2>1, <3>1, StillApart DEF Holding
  <2>2. local[h].user = v /\ Active(v) /\ v \notin crossed => Aimed(v, "invalidate", local[h])
    BY <1>1 DEF Aimed, Proved, ProvedFor
  <2> QED
    BY <1>1, <1>2, <2>1, <2>2, NoneAddedNoMore, KeepProved DEF Proved
<1> QED
  BY <1>4 DEF Proved

(* A new token is for the address that its account has or will have.        *)
LEMMA CreateProved ==
  ASSUME Parameters, Shape, Proved, NEW h \in Handlers, Create(h)
  PROVE  Proved'
<1>0. PICK u \in Users : u = local[h].user
  BY DEF Create, Shape, Fits
<1>1. /\ pc[h] = "create" /\ account' = account /\ proved' = proved /\ crossed' = crossed
      /\ local[h].purpose \in Purposes
  BY DEF Create, Shape, Fits
<1>2. PICK t \in Tokens :
        /\ ~Created(t)
        /\ token'[t] = [state |-> "live", user |-> local[h].user,
                        email |-> local[h].target, purpose |-> local[h].purpose]
        /\ \A x \in Tokens \ {t} : token'[x] = token[x]
        /\ Goto(h, "deliver", [local[h] EXCEPT !.token = t])
  BY CreateIs
<1> DEFINE l == [local[h] EXCEPT !.token = t]
<1>3. l.user = u
  BY <1>0 DEF Shape, TypeOK, Locals
<1> HIDE DEF l
<1>4. Goto(h, "deliver", l)
  BY <1>2 DEF l
<1>5. ASSUME NEW v \in Users, NEW x \in Live(v)', x # t \/ v # u
      PROVE  x \in Live(v) /\ token'[x].purpose = token[x].purpose /\ token'[x].email = token[x].email
  BY <1>0, <1>2, <1>5 DEF Live, Verifications, TokensOf
<1>6. ASSUME NEW v, NEW x, Apart(v, x) PROVE Apart(v, x)'
  BY <1>1, <1>4, <1>6, StillApart DEF Holding
<1>7. ASSUME NEW v \in Users \ {u} PROVE ProvedFor(v)'
  <2>1. NoMore(v)
    BY <1>5 DEF NoMore
  <2> QED
    BY <1>1, <1>3, <1>4, <1>6, <2>1, KeepProved DEF Proved
<1>8. ProvedFor(u)'
  <2> SUFFICES ASSUME u \notin crossed, Active(u)
               PROVE  ProvedFor(u)'
    BY <1>1 DEF ProvedFor, Active
  <2>1. account'[u].verified => account'[u].email \in proved'[u]
    BY <1>1 DEF Proved, ProvedFor
  <2>2. Aimed(u, "create", local[h])
    BY <1>0, <1>1 DEF Proved, ProvedFor
  <2>3. ASSUME NEW x \in Live(u)' PROVE TokenAimed(u, x)'
    <3>1. CASE x = t
      <4>1. token'[x].purpose = local[h].purpose /\ token'[x].email = local[h].target
        BY <1>2, <3>1
      <4>2. token'[x].purpose # "reset"
        BY <2>3 DEF Live, Verifications
      <4> QED
        BY <1>1, <2>2, <4>1, <4>2 DEF Aimed, Purposes, TokenAimed, Sound
    <3>2. CASE x # t
      <4>1. TokenAimed(u, x)
        BY <1>5, <2>3, <3>2 DEF Proved, ProvedFor
      <4>2. token'[x].purpose = token[x].purpose /\ token'[x].email = token[x].email
        BY <1>5, <2>3, <3>2
      <4>3. Apart(u, x) => Apart(u, x)'
        BY <1>6
      <4> QED
        BY <1>1, <4>1, <4>2, <4>3 DEF TokenAimed, Sound
    <3> QED
      BY <3>1, <3>2
  <2>4. ASSUME NEW g \in Handlers, local'[g].user = u
        PROVE  Aimed(u, pc[g], local[g])'
    <3>1. CASE g = h
      BY <1>4, <3>1, Moved DEF Aimed
    <3>2. CASE g # h
      <4>1. pc'[g] = pc[g] /\ local'[g] = local[g] /\ Aimed(u, pc[g], local[g])
        BY <1>4, <2>4, <3>2, Moved DEF Proved, ProvedFor
      <4> QED
        BY <1>1, <4>1 DEF Aimed, Sound
    <3> QED
      BY <3>1, <3>2
  <2> QED
    BY <2>1, <2>3, <2>4 DEF ProvedFor
<1> QED
  BY <1>7, <1>8 DEF Proved

(* A handler dies: if it was about to drop tokens, its user has crossed.    *)
LEMMA DieProved ==
  ASSUME Parameters, Shape, Proved, NEW h \in Handlers, Die(h)
  PROVE  Proved'
<1>1. /\ pc[h] # "idle" /\ Goto(h, "idle", NoLocal) /\ account' = account /\ token' = token
      /\ proved' = proved /\ crossed \subseteq crossed'
      /\ pc[h] = "drop" => local[h].user \in crossed'
  BY DEF Die, End, CrossIf
<1>2. NoneAdded
  BY <1>1, SameTokens DEF NoneAdded
<1>3. ASSUME NEW v \in Users PROVE ProvedFor(v)'
  <2>1. ASSUME NEW t, Apart(v, t) PROVE Apart(v, t)' \/ v \in crossed'
    <3>1. CASE Changing(h, v) /\ pc[h] = "drop"
      BY <1>1, <3>1 DEF Changing
    <3>2. CASE ~(Changing(h, v) /\ pc[h] = "drop")
      BY <1>1, <2>1, <3>2, StillApart DEF Holding
    <3> QED
      BY <3>1, <3>2
  <2>2. Aimed(v, "idle", NoLocal)
    BY DEF Aimed
  <2> QED
    BY <1>1, <1>2, <2>1, <2>2, NoneAddedNoMore, KeepProved DEF Proved
<1> QED
  BY <1>3 DEF Proved

(* A confirmation of a change that has its token has one for the address    *)
(* that is pending.                                                         *)
LEMMA HeldIsPending ==
  ASSUME Shape, Once, Proved, NEW h \in Handlers, pc[h] \in Holding
  PROVE  /\ local[h].user \in Users /\ local[h].token \in Live(local[h].user)
         /\ local[h].purpose = token[local[h].token].purpose
         /\ local[h].user \notin crossed /\ Active(local[h].user)
              /\ local[h].purpose = "email_change" =>
                 account[local[h].user].pending \in {None, token[local[h].token].email}
<1> DEFINE u == local[h].user
           t == local[h].token
<1>1. /\ t \in Tokens /\ Created(t) /\ token[t].state = "live" /\ token[t].user = u /\ u \in Users
      /\ token[t].purpose # "reset" /\ local[h].purpose = token[t].purpose
  BY DEF Shape, Fits, Presenting, Created, Once, Holding
<1>2. t \in Live(u)
  BY <1>1 DEF Live, Verifications, TokensOf, Created
<1>3. ~Apart(u, t)
  BY DEF Apart, HoldsToken, Holding
<1>4. u \notin crossed /\ Active(u) => TokenAimed(u, t)
  BY <1>1, <1>2 DEF Proved, ProvedFor
<1> QED
  BY <1>1, <1>2, <1>3, <1>4 DEF TokenAimed

(* promotePendingEmailById gives the account an address that the token was  *)
(* not for: only where requests have crossed.                               *)
LEMMA PromoteOtherProved ==
  ASSUME Parameters, Shape, Once, Proved, NEW h \in Handlers, PromoteOther(h)
  PROVE  Proved'
<1>0. PICK u \in Users : u = local[h].user
  BY DEF PromoteOther, Promotable, Shape, Fits
<1> DEFINE t == local[h].token
<1>1. /\ pc[h] = "apply" /\ Goto(h, "idle", NoLocal) /\ crossed' = crossed
      /\ Active(u) /\ account[u].pending # None /\ account[u].pending # token[t].email
      /\ account' = Promoted(u) /\ token' = Spent(t) /\ local[h].purpose = "email_change"
      /\ proved' = [proved EXCEPT ![u] = @ \cup {token[t].email}]
  BY <1>0 DEF PromoteOther, Promotable, End
<1>2. u \in crossed
  BY <1>0, <1>1, HeldIsPending DEF Holding
<1>3. NoneAdded
  <2>1. t \in Tokens /\ Created(t)
    BY <1>1 DEF Shape, Fits, Presenting, Created
  <2> QED
    BY <1>1, <2>1, SpentIs DEF NoneAdded
<1>4. /\ \A v \in Users \ {u} : account'[v] = account[v]
      /\ \A v \in Users : proved[v] \subseteq proved'[v]
  BY <1>1, PromotedWrites DEF Wrote, Shape, TypeOK
<1>5. ASSUME NEW v \in Users \ {u} PROVE ProvedFor(v)'
  <2>1. \A x : Apart(v, x) => Apart(v, x)'
    BY <1>1, StillApart DEF Holding
  <2>2. Aimed(v, "idle", NoLocal)
    BY DEF Aimed
  <2> QED
    BY <1>1, <1>3, <1>4, <2>1, <2>2, NoneAddedNoMore, KeepProved DEF Proved
<1>6. ProvedFor(u)'
  BY <1>1, <1>2 DEF ProvedFor
<1> QED
  BY <1>5, <1>6 DEF Proved

(* Which address an account has after a confirmation.                       *)
LEMMA CommitEmail ==
  ASSUME Shape, NEW h \in Handlers, Commit(h), Active(local[h].user)
  PROVE  /\ account'[local[h].user].pending = None
         /\ account'[local[h].user].email =
              IF local[h].purpose = "email_change" THEN account[local[h].user].pending
                                                   ELSE account[local[h].user].email
         /\ \A v \in Users \ {local[h].user} : account'[v] = account[v]
<1> DEFINE u == local[h].user
<1>1. pc[h] = "commit" /\ account' = Confirmed(h) /\ u \in Users
  BY DEF Commit, Shape, Fits
<1>2. CASE local[h].purpose = "email_change"
  <2>1. account[u].pending # None /\ account' = Promoted(u)
    BY <1>1, <1>2 DEF Confirmed, Shape, Committing
  <2> QED
    BY <1>1, <1>2, <2>1, PromotedWrites DEF Wrote
<1>3. CASE local[h].purpose # "email_change"
  <2>1. account' = [account EXCEPT ![u].verified = TRUE, ![u].pending = None]
    BY <1>1, <1>3 DEF Confirmed
  <2> QED
    BY <1>1, <1>3, <2>1, MarkedWrites DEF Wrote
<1> QED
  BY <1>2, <1>3

(* A confirmation is for the address that the account has then, or the      *)
(* account has proved that one before.                                      *)
LEMMA CommitProved ==
  ASSUME Parameters, Shape, Once, Proved, NEW h \in Handlers, Commit(h)
  PROVE  Proved'
<1>0. PICK u \in Users : u = local[h].user
  BY DEF Commit, Shape, Fits
<1> DEFINE t == local[h].token
<1>1. /\ pc[h] = "commit" /\ Goto(h, "idle", NoLocal) /\ crossed' = crossed
      /\ proved' = [proved EXCEPT ![u] = @ \cup {token[t].email}]
  BY <1>0 DEF Commit, End
<1>2. /\ t \in Live(u) /\ local[h].purpose = token[t].purpose
      /\ u \notin crossed /\ Active(u) /\ local[h].purpose = "email_change" =>
           account[u].pending \in {None, token[t].email}
  BY <1>0, <1>1, HeldIsPending DEF Holding
<1>3. /\ TokensMove
      /\ \A x \in Tokens : token'[x].state = IF x = t THEN "spent"
                                             ELSE IF x \in Live(u) THEN "invalid"
                                             ELSE token[x].state
  BY <1>0, CommitTokens
<1>4. NoneAdded /\ Live(u)' = {}
  BY <1>3 DEF NoneAdded, Live, Verifications, TokensOf, TokensMove
<1>5. /\ \A v \in Users \ {u} : account'[v] = account[v]
      /\ \A v \in Users : proved[v] \subseteq proved'[v]
      /\ token[t].email \in proved'[u]
  <2>1. ~Active(u) => account' = account
    BY <1>0 DEF Commit, Confirmed
  <2>2. Active(u) => \A v \in Users \ {u} : account'[v] = account[v]
    BY <1>0, CommitEmail
  <2>3. /\ \A v \in Users : proved[v] \subseteq proved'[v]
        /\ token[t].email \in proved'[u]
    BY <1>1 DEF Shape, TypeOK
  <2> QED
    BY <2>1, <2>2, <2>3
<1>6. ASSUME NEW v \in Users \ {u} PROVE ProvedFor(v)'
  <2>1. \A x : Apart(v, x) => Apart(v, x)'
    BY <1>1, StillApart DEF Holding
  <2>2. Aimed(v, "idle", NoLocal)
    BY DEF Aimed
  <2> QED
    BY <1>1, <1>4, <1>5, <2>1, <2>2, NoneAddedNoMore, KeepProved DEF Proved
<1>7. ProvedFor(u)'
  <2> SUFFICES ASSUME u \notin crossed, Active(u)'
               PROVE  ProvedFor(u)'
    BY <1>1 DEF ProvedFor
  <2>1. Active(u)
    <3>1. ~Active(u) => account' = account
      BY <1>0 DEF Commit, Confirmed
    <3> QED
      BY <3>1 DEF Active
  <2>2. /\ account'[u].pending = None
        /\ account'[u].email = IF local[h].purpose = "email_change" THEN account[u].pending
                                                                    ELSE account[u].email
    BY <1>0, <2>1, CommitEmail
  <2>3. account'[u].email \in proved'[u]
    <3>1. CASE local[h].purpose = "email_change"
      <4>1. account[u].pending # None
        BY <1>0, <1>1, <3>1 DEF Shape, Committing
      <4> QED
        BY <1>2, <1>5, <2>1, <2>2, <3>1, <4>1
    <3>2. CASE local[h].purpose # "email_change"
      <4>1. Sound(u, token[t].email)
        BY <1>2, <2>1, <3>2 DEF Proved, ProvedFor, TokenAimed
      <4> QED
        BY <1>5, <2>2, <3>2, <4>1 DEF Sound
    <3> QED
      BY <3>1, <3>2
  <2>4. ASSUME NEW g \in Handlers PROVE Aimed(u, pc[g], local[g])'
    BY <2>2, <2>3 DEF Aimed, Sound
  <2> QED
    BY <1>4, <2>3, <2>4 DEF ProvedFor
<1> QED
  BY <1>6, <1>7 DEF Proved

(* What the other parts do: a token expires, or an account is deleted.      *)
LEMMA OthersStepProved ==
  ASSUME Parameters, Shape, Proved,
         \/ \E u \in Users : Delete(u)
         \/ \E t \in Tokens : Expire(t)
  PROVE  Proved'
<1>1. pc' = pc /\ local' = local /\ proved' = proved /\ crossed' = crossed
  BY DEF Delete, Expire, observers
<1>2. ASSUME NEW v \in Users, Active(v)'
      PROVE  /\ Active(v) /\ account'[v].email = account[v].email
             /\ account'[v].pending = account[v].pending
             /\ account'[v].verified = account[v].verified
  <2>1. CASE account' = account
    BY <1>2, <2>1 DEF Active
  <2>2. ASSUME NEW u \in Users, Delete(u) PROVE v # u
    BY <1>2, <2>2 DEF Delete, Active, Shape, TypeOK
  <2>3. ASSUME NEW u \in Users, Delete(u) PROVE account'[v] = account[v]
    BY <2>2, <2>3 DEF Delete, Shape, TypeOK
  <2> QED
    BY <1>2, <2>1, <2>3 DEF Expire, Active
<1>3. ASSUME NEW t \in Tokens
      PROVE  /\ token'[t].user = token[t].user /\ token'[t].purpose = token[t].purpose
             /\ token'[t].email = token[t].email
             /\ token'[t].state = "live" => token[t].state = "live"
  <2>1. CASE token' = token
    BY <2>1
  <2>2. ASSUME NEW x \in Tokens, Expire(x) PROVE NoneAdded
    BY <2>2, ExpiredIs DEF NoneAdded
  <2> QED
    BY <2>1, <2>2 DEF Delete, NoneAdded, TokensMove
<1>4. ASSUME NEW v \in Users PROVE Live(v)' \in SUBSET Live(v)
  BY <1>3 DEF Live, Verifications, TokensOf
<1>5. ASSUME NEW v \in Users PROVE ProvedFor(v)'
  <2> SUFFICES ASSUME v \notin crossed, Active(v)' PROVE ProvedFor(v)'
    BY <1>1 DEF ProvedFor
  <2>1. ProvedFor(v) /\ Active(v)
    BY <1>2 DEF Proved
  <2>2. \A e : Sound(v, e)' <=> Sound(v, e)
    BY <1>1, <1>2 DEF Sound
  <2>3. ASSUME NEW x \in Live(v)' PROVE TokenAimed(v, x)'
    <3>1. x \in Live(v) /\ x \in Tokens
      BY <1>4, <2>3 DEF Live, Verifications, TokensOf
    <3>2. Apart(v, x)' <=> Apart(v, x)
      BY <1>1 DEF Apart, Dropping, Changing, HoldsToken
    <3>3. TokenAimed(v, x)
      BY <2>1, <3>1 DEF ProvedFor
    <3> QED
      BY <1>1, <1>2, <1>3, <3>1, <3>2, <3>3 DEF TokenAimed, Sound
  <2>4. ASSUME NEW g \in Handlers, local'[g].user = v PROVE Aimed(v, pc[g], local[g])'
    <3>1. Aimed(v, pc[g], local[g]) /\ pc'[g] = pc[g] /\ local'[g] = local[g]
      BY <1>1, <2>1, <2>4 DEF ProvedFor
    <3> QED
      BY <1>1, <1>2, <3>1 DEF Aimed, Sound
  <2>5. account'[v].verified => account'[v].email \in proved'[v]
    BY <1>1, <1>2, <2>1 DEF ProvedFor
  <2> QED
    BY <2>3, <2>4, <2>5 DEF ProvedFor
<1> QED
  BY <1>5 DEF Proved

(* Every step.                                                              *)
LEMMA NextProved ==
  ASSUME Parameters, Shape, Once, Proved, [Next]_vars
  PROVE  Proved'
<1>1. CASE UNCHANGED vars
  <2>1. ASSUME NEW u PROVE ProvedFor(u)' = ProvedFor(u)
    <3>1. /\ account' = account /\ token' = token /\ pc' = pc /\ local' = local
          /\ proved' = proved /\ crossed' = crossed
      BY <1>1 DEF vars, observers
    <3>2. Live(u)' = Live(u) /\ Dropping(u)' = Dropping(u)
      BY <3>1 DEF Live, Verifications, TokensOf, Dropping, Changing
    <3>3. \A t : TokenAimed(u, t)' = TokenAimed(u, t)
      BY <3>1, <3>2 DEF TokenAimed, Sound, Apart, HoldsToken
    <3> QED
      BY <3>1, <3>2, <3>3 DEF ProvedFor, Active, Aimed, Sound
  <2> QED
    BY <2>1 DEF Proved
<1>2. ASSUME NEW h \in Handlers, Step(h) PROVE Proved'
  BY <1>2, ReadsProved, InsertProved, SetPendingProved, DropProved, CreateProved,
     PromoteOtherProved, CommitProved DEF Step
<1>3. ASSUME NEW h \in Handlers, Starts(h) \/ Die(h) PROVE Proved'
  BY <1>3, StartsProved, DieProved
<1>4. CASE (\E u \in Users : Delete(u)) \/ (\E t \in Tokens : Expire(t))
  BY <1>4, OthersStepProved
<1> QED
  BY <1>1, <1>2, <1>3, <1>4 DEF Next, Starts

(* The live tokens of an account, and those about to be issued, prove the   *)
(* address that they give it.                                               *)
LEMMA ProvedInvariance == ASSUME Parameters PROVE Spec => []Proved
<1>1. Init => Proved
  BY DEF Init, Proved, ProvedFor, Active
<1>2. Shape /\ Once /\ Proved /\ [Next]_vars => Proved'
  BY NextProved
<1> QED
  BY <1>1, <1>2, ShapeInvariance, OnceInvariance, PTL DEF Spec

-----------------------------------------------------------------------------
(* What the runs check of accounts.                                         *)

(* The variables have their types, and an account that exists has an        *)
(* address.                                                                 *)
THEOREM TypesFit == ASSUME Parameters PROVE Spec => []TypeOK
<1>1. Shape => TypeOK
  BY DEF Shape
<1> QED
  BY <1>1, ShapeInvariance, PTL

(* A one-time token takes effect at most once, and is spent when it has:    *)
(* however many requests confirm or reset with it at a time, expire it or   *)
(* replace it (email-verification.service.js, password-reset.service.js).   *)
THEOREM TokensWorkOnce == ASSUME Parameters PROVE Spec => []SpentOnce
<1>1. Once => SpentOnce
  BY DEF Once, SpentOnce
<1> QED
  BY <1>1, OnceInvariance, PTL

(* No two accounts have one address, whichever registrations and changes    *)
(* of the address overlap (the index uq_users_email_lower_active).          *)
THEOREM OneAccount == ASSUME Parameters PROVE Spec => []OneAccountPerAddress
<1>1. ASSUME Distinct, NEW e \in Addresses PROVE Cardinality(Owners(e)) <= 1
  <2>1. CASE Owners(e) = {}
    BY <2>1, FS_EmptySet
  <2>2. ASSUME NEW u \in Owners(e) PROVE Cardinality(Owners(e)) <= 1
    <3>1. Owners(e) = {u}
      BY <1>1, <2>2 DEF Distinct, Owners
    <3>2. Cardinality({u}) = 1
      BY FS_Singleton
    <3> QED
      BY <3>1, <3>2
  <2> QED
    BY <2>1, <2>2
<1>2. Distinct => OneAccountPerAddress
  BY <1>1 DEF OneAccountPerAddress
<1> QED
  BY <1>2, DistinctInvariance, PTL

(* Requests that overlap exceed the hourly limit on resends by no more than *)
(* there are of them, whatever fails in between (auth.service.js).          *)
THEOREM ResendsLimited == ASSUME Parameters PROVE Spec => []ResendsAreLimited
<1>1. ASSUME Shape, BusyFits, ResendsFit, NEW u \in Users
      PROVE  resent[u] <= MaxSends + MaxActive - 1
  <2>1. Cardinality(Resending(u)) \in Nat
    BY <1>1, InBusy, FewHandlers
  <2>2. resent[u] \in Nat /\ MaxSends + MaxActive - 1 \in Int
    BY <1>1 DEF Shape, TypeOK, Parameters
  <2> QED
    BY <1>1, <2>1, <2>2 DEF ResendsFit
<1>2. Shape /\ BusyFits /\ ResendsFit => ResendsAreLimited
  BY <1>1 DEF ResendsAreLimited
<1> QED
  BY <1>2, ShapeInvariance, FewInvariance, PTL

(* No account has more live tokens than there are issuers at a time: each   *)
(* invalidates those before it issues its own (email-verification-delivery).*)
THEOREM FewAreLive == ASSUME Parameters PROVE Spec => []FewLiveTokens
<1>1. ASSUME BusyFits, LiveFit, NEW u \in Users PROVE Cardinality(Live(u)) <= MaxActive
  <2>1. Cardinality(Creating(u)) \in Nat /\ Cardinality(Live(u)) \in Nat
    BY <1>1, InBusy, FewHandlers, FewTokens
  <2> QED
    BY <1>1, <2>1 DEF LiveFit, Parameters
<1>2. BusyFits /\ LiveFit => FewLiveTokens
  BY <1>1 DEF FewLiveTokens
<1> QED
  BY <1>2, FewInvariance, PTL

(* Whoever counts as verified has shown to read the mail of the address,    *)
(* however requests overlap, unless some of his have crossed: the public    *)
(* resend has taken an address that was pending, a change has come upon     *)
(* another change or a confirmation of one, or it has ended before it       *)
(* dropped the tokens issued before (email-verification.service.js,         *)
(* email-change.service.js).                                                *)
THEOREM VerifiedAreProved == ASSUME Parameters PROVE Spec => []VerifiedIsProved
<1>1. Proved => VerifiedIsProved
  BY DEF Proved, ProvedFor, VerifiedIsProved
<1> QED
  BY <1>1, ProvedInvariance, PTL
=============================================================================

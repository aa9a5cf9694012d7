------------------------------ MODULE Accounts ------------------------------
(***************************************************************************)
(* Registration, verification of e-mail addresses, change of the address   *)
(* and reset of the password: services/auth.service.js (registerUser),     *)
(* email-verification.service.js, email-verification-delivery.js,          *)
(* email-change.service.js and password-reset.service.js.                  *)
(*                                                                         *)
(* Every statement is a step of its own, but for the confirmation, whose   *)
(* statements are one transaction: it locks the token's row, then the      *)
(* account's, then all of the account's live tokens, and shows nothing     *)
(* before its commit.  A statement of anybody else that needs a locked row *)
(* waits.  A handler may end after any of its steps.                       *)
(*                                                                         *)
(* Left out: the sessions that end and begin with these operations (they   *)
(* are in RefreshTokens), audit rows, and the second factor that a         *)
(* privileged account shows to change its address.                         *)
(***************************************************************************)
EXTENDS Naturals, FiniteSets

CONSTANTS
  Users,       \* the rows of users there may be
  Addresses,   \* e-mail addresses
  MaxTokens,   \* bound: rows of email_verification_tokens and password_reset_tokens
  Handlers,    \* requests under way
  MaxActive,   \* bound on how many are under way at a time
  MaxSends,    \* EMAIL_VERIFICATION_MAX_SENDS_PER_HOUR
  Inputs,      \* the kinds of requests that arrive
  None         \* not a user, an address or a token

VARIABLES
  account,     \* account[u]: the row of users
  token,       \* token[t]: the row of a one-time token
  mailed,      \* the tokens a provider has accepted for delivery
  pc,          \* pc[h]: how far handler h is
  local,       \* local[h]: what it was asked for and has found
  proved,      \* observer: proved[u]: addresses u has shown to read
  used,        \* observer: used[t]: how often t has taken effect
  resent,      \* observer: resent[u]: tokens issued by resends
  crossed      \* observer: users of whom requests have crossed

observers == <<proved, used, resent, crossed>>
vars == <<account, token, mailed, pc, local, observers>>

(* What the bounds and the names have to be.                               *)
Parameters ==
  /\ MaxTokens \in Nat /\ MaxActive \in Nat \ {0} /\ MaxSends \in Nat
  /\ None \notin Users \cup Addresses \cup 1..MaxTokens

-----------------------------------------------------------------------------
(* One-time tokens, numbered as they are created.                          *)
Tokens == 1..MaxTokens

Purposes == {"registration", "resend", "email_change", "reset"}

Kinds == {"register", "resend", "resend_public", "change", "confirm",
          "forgot", "reset"}

Rows == [state: {"none", "active", "gone"}, email: Addresses \cup {None},
         pending: Addresses \cup {None}, verified: BOOLEAN]

TokenRows == [state: {"none", "live", "spent", "invalid"}, user: Users \cup {None},
              email: Addresses \cup {None}, purpose: Purposes \cup {"none"}]

Steps == {"idle", "insert", "count", "pending", "drop", "invalidate", "create",
          "deliver", "consume", "find", "apply", "commit", "spend", "password"}

(* user and target: whom and where a token is for; purpose: what it is     *)
(* for; token: the one that was created or is presented.                   *)
Locals == [user: Users \cup {None}, target: Addresses \cup {None},
           purpose: Purposes \cup {"none"}, token: Tokens \cup {None}]

NoLocal == [user |-> None, target |-> None, purpose |-> "none", token |-> None]

Init ==
  /\ account = [u \in Users |-> [state |-> "none", email |-> None,
                                 pending |-> None, verified |-> FALSE]]
  /\ token = [t \in Tokens |-> [state |-> "none", user |-> None,
                                email |-> None, purpose |-> "none"]]
  /\ mailed = {}
  /\ pc = [h \in Handlers |-> "idle"]
  /\ local = [h \in Handlers |-> NoLocal]
  /\ proved = [u \in Users |-> {}]
  /\ used = [t \in Tokens |-> 0]
  /\ resent = [u \in Users |-> 0]
  /\ crossed = {}

-----------------------------------------------------------------------------
Active(u) == account[u].state = "active"

(* findUserByEmail, and the index uq_users_email_lower_active.             *)
Owners(e) == {u \in Users : Active(u) /\ account[u].email = e}

TokensOf(u) == {t \in Tokens : token[t].state # "none" /\ token[t].user = u}
Verifications(u) == {t \in TokensOf(u) : token[t].purpose # "reset"}
Live(u) == {t \in Verifications(u) : token[t].state = "live"}

(* Rows that an open confirmation has locked.                              *)
HoldsToken(h, t) == pc[h] \in {"find", "apply", "commit"} /\ local[h].token = t
HoldsAccount(h, u) == pc[h] = "commit" /\ local[h].user = u

TokenFree(h, t) == \A g \in Handlers \ {h} : ~HoldsToken(g, t)
AccountFree(h, u) == \A g \in Handlers \ {h} : ~HoldsAccount(g, u)

(* The address an open transaction is about to give its account: an INSERT *)
(* or UPDATE with the same address waits for its end.                      *)
AddressFree(h, e) ==
  \A g \in Handlers \ {h} :
    ~(pc[g] = "commit" /\ local[g].purpose = "email_change" /\ local[g].target = e)

Goto(h, step, l) ==
  /\ pc' = [pc EXCEPT ![h] = step]
  /\ local' = [local EXCEPT ![h] = l]

End(h) == Goto(h, "idle", NoLocal)

Start(h, kind) ==
  /\ kind \in Inputs
  /\ pc[h] = "idle"
  /\ Cardinality({g \in Handlers : pc[g] # "idle"}) < MaxActive

Invalidated(S) == [t \in Tokens |-> IF t \in S THEN [token[t] EXCEPT !.state = "invalid"]
                                               ELSE token[t]]

(* A change of u's address between its UPDATE and its token.               *)
Changing(h, u) ==
  /\ pc[h] \in {"drop", "invalidate", "create"}
  /\ local[h].user = u /\ local[h].purpose = "email_change"

Dropping(u) == \E h \in Handlers : Changing(h, u) /\ pc[h] = "drop"

(* An open confirmation of a change that has not come to u's row yet.      *)
Confirming(h, u) ==
  /\ pc[h] \in {"find", "apply"}
  /\ local[h].user = u /\ local[h].purpose = "email_change"

(* What the code does not keep apart, and VerifiedIsProved exempts: a      *)
(* public resend that takes the address that is pending; a change that     *)
(* comes upon another one, or upon a confirmation of one; a confirmation   *)
(* that comes upon a change before it has dropped the old tokens; and a    *)
(* change that ends there.                                                 *)
CrossIf(condition, u) == crossed' = IF condition THEN crossed \cup {u} ELSE crossed

-----------------------------------------------------------------------------
(* Registration.                                                           *)

(* registerUser: the address is free when it is looked up ...              *)
Register(h, u, e) ==
  /\ Start(h, "register")
  /\ account[u].state = "none"
  /\ Owners(e) = {}
  /\ Goto(h, "insert", [NoLocal EXCEPT !.user = u, !.target = e,
                                       !.purpose = "registration"])
  /\ UNCHANGED <<account, token, mailed, observers>>

(* Mutant: the table has no index on the address.                          *)
InsertAlways(h) ==
  LET u == local[h].user
      e == local[h].target
  IN
  /\ pc[h] = "insert"
  /\ account[u].state = "none"
  /\ account' = [account EXCEPT ![u] = [state |-> "active", email |-> e,
                                        pending |-> None, verified |-> FALSE]]
  /\ Goto(h, "invalidate", local[h])
  /\ UNCHANGED <<token, mailed, observers>>

(* ... and, a hash of the password later, the index decides.               *)
Insert(h) ==
  LET u == local[h].user
      e == local[h].target
  IN
  /\ pc[h] = "insert"
  /\ AddressFree(h, e)
  /\ IF account[u].state = "none" /\ Owners(e) = {}
     THEN /\ account' = [account EXCEPT ![u] = [state |-> "active", email |-> e,
                                                pending |-> None, verified |-> FALSE]]
          /\ Goto(h, "invalidate", local[h])
     ELSE UNCHANGED account /\ End(h)
  /\ UNCHANGED <<token, mailed, observers>>

-----------------------------------------------------------------------------
(* Another token for an account that is not verified.                      *)

(* Mutant: the token goes to the address that is pending.                  *)
ResendToPending(h, u) ==
  /\ Start(h, "resend")
  /\ Active(u) /\ ~account[u].verified
  /\ Goto(h, "count", [NoLocal EXCEPT !.user = u, !.purpose = "resend",
                         !.target = IF account[u].pending # None THEN account[u].pending
                                                                 ELSE account[u].email])
  /\ UNCHANGED <<account, token, mailed, observers>>

(* requestEmailVerification of a user who is signed in: the user that the  *)
(* middleware has put into the request has no pending_email (it is called  *)
(* pendingEmail there), so the target is the address of the account.       *)
Resend(h, u) ==
  /\ Start(h, "resend")
  /\ Active(u) /\ ~account[u].verified
  /\ Goto(h, "count", [NoLocal EXCEPT !.user = u, !.target = account[u].email,
                                      !.purpose = "resend"])
  /\ UNCHANGED <<account, token, mailed, observers>>

(* resendEmailVerificationPublic finds the row itself, and so the address  *)
(* that is pending: the token's purpose will be to verify the other one.   *)
ResendPublic(h, e) ==
  /\ Start(h, "resend_public")
  /\ \E u \in Owners(e) :
       /\ ~account[u].verified
       /\ Goto(h, "count",
               [NoLocal EXCEPT !.user = u,
                  !.target = IF account[u].pending # None THEN account[u].pending
                                                          ELSE account[u].email,
                  !.purpose = "resend"])
       /\ CrossIf(account[u].pending # None, u)
  /\ UNCHANGED <<account, token, mailed, proved, used, resent>>

(* countRecentEmailVerificationSends: all of the model is one hour.        *)
CountSends(h) ==
  /\ pc[h] = "count"
  /\ IF Cardinality(Verifications(local[h].user)) < MaxSends
     THEN Goto(h, "invalidate", local[h]) ELSE End(h)
  /\ UNCHANGED <<account, token, mailed, observers>>

-----------------------------------------------------------------------------
(* Change of the address.                                                  *)

(* requestEmailChange: the password is right, and nobody has the address.  *)
Change(h, u, e) ==
  /\ Start(h, "change")
  /\ Active(u) /\ account[u].email # e
  /\ Owners(e) = {}
  /\ Goto(h, "pending", [NoLocal EXCEPT !.user = u, !.target = e,
                                        !.purpose = "email_change"])
  /\ UNCHANGED <<account, token, mailed, observers>>

(* setPendingEmailById.                                                    *)
SetPending(h) ==
  LET u == local[h].user IN
  /\ pc[h] = "pending"
  /\ AccountFree(h, u)
  /\ account' = IF Active(u)
                THEN [account EXCEPT ![u].pending = local[h].target, ![u].verified = FALSE]
                ELSE account
  /\ CrossIf(\E g \in Handlers : Changing(g, u) \/ Confirming(g, u), u)
  /\ Goto(h, "drop", local[h])
  /\ UNCHANGED <<token, mailed, proved, used, resent>>

(* The service invalidates the tokens, and issuing invalidates them again. *)
Drop(h) ==
  /\ pc[h] = "drop"
  /\ \A t \in Live(local[h].user) : TokenFree(h, t)
  /\ token' = Invalidated(Live(local[h].user))
  /\ Goto(h, "invalidate", local[h])
  /\ UNCHANGED <<account, mailed, observers>>

-----------------------------------------------------------------------------
(* issueVerificationTokenForChange and deliverVerificationEmail.           *)

Invalidate(h) ==
  /\ pc[h] = "invalidate"
  /\ \A t \in Live(local[h].user) : TokenFree(h, t)
  /\ token' = Invalidated(Live(local[h].user))
  /\ Goto(h, "create", local[h])
  /\ UNCHANGED <<account, mailed, observers>>

(* createEmailVerificationToken, and createPasswordResetToken.             *)
Create(h) ==
  LET l == local[h]
      t == 1 + Cardinality({s \in Tokens : token[s].state # "none"})
  IN
  /\ pc[h] = "create"
  /\ t \in Tokens
  /\ token' = [token EXCEPT ![t] = [state |-> "live", user |-> l.user,
                                    email |-> l.target, purpose |-> l.purpose]]
  /\ Goto(h, "deliver", [l EXCEPT !.token = t])
  /\ resent' = [resent EXCEPT ![l.user] = @ + (IF l.purpose = "resend" THEN 1 ELSE 0)]
  /\ UNCHANGED <<account, mailed, proved, used, crossed>>

(* The provider accepts the message, fails, or is not configured.          *)
Deliver(h) ==
  /\ pc[h] = "deliver"
  /\ mailed' \in {mailed, mailed \cup {local[h].token}}
  /\ End(h)
  /\ UNCHANGED <<account, token, observers>>

-----------------------------------------------------------------------------
(* confirmEmailVerification, one transaction.                              *)

Confirm(h, t) ==
  /\ Start(h, "confirm")
  /\ t \in mailed
  /\ token[t].purpose # "reset"
  /\ Goto(h, "consume", [NoLocal EXCEPT !.user = token[t].user, !.token = t,
                                        !.purpose = token[t].purpose])
  /\ UNCHANGED <<account, token, mailed, observers>>

(* Mutant: a token that has been used is accepted again.                   *)
ConsumeAgain(h) ==
  /\ pc[h] = "consume"
  /\ TokenFree(h, local[h].token)
  /\ Goto(h, "find", local[h])
  /\ UNCHANGED <<account, token, mailed, observers>>

(* consumeEmailVerificationToken: the UPDATE has its row until the commit. *)
Consume(h) ==
  /\ pc[h] = "consume"
  /\ TokenFree(h, local[h].token)
  /\ IF token[local[h].token].state = "live" THEN Goto(h, "find", local[h]) ELSE End(h)
  /\ CrossIf(local[h].purpose = "email_change" /\ Dropping(local[h].user), local[h].user)
  /\ UNCHANGED <<account, token, mailed, proved, used, resent>>

Spent(t) == [token EXCEPT ![t].state = "spent"]

(* The commit of a transaction that has done nothing but use its token.    *)
SpendOnly(h) ==
  /\ token' = Spent(local[h].token)
  /\ End(h)
  /\ UNCHANGED <<account, mailed, observers>>

FindUser(h) ==
  /\ pc[h] = "find"
  /\ \/ Active(local[h].user) /\ Goto(h, "apply", local[h])
                              /\ UNCHANGED <<account, token, mailed, observers>>
     \/ ~Active(local[h].user) /\ SpendOnly(h)

(* markUserEmailVerifiedById.                                              *)
Mark(h) ==
  /\ pc[h] = "apply" /\ local[h].purpose # "email_change"
  /\ AccountFree(h, local[h].user)
  /\ Goto(h, "commit", local[h])
  /\ UNCHANGED <<account, token, mailed, observers>>

(* promotePendingEmailById finds no row with a pending address.            *)
PromoteNothing(h) ==
  LET u == local[h].user IN
  /\ pc[h] = "apply" /\ local[h].purpose = "email_change"
  /\ AccountFree(h, u)
  /\ ~Active(u) \/ account[u].pending = None
  /\ SpendOnly(h)

(* Mutant: the row is taken whether an address is pending or not.          *)
PromotableAlways(h) ==
  LET u == local[h].user IN
  /\ pc[h] = "apply" /\ local[h].purpose = "email_change"
  /\ AccountFree(h, u)
  /\ AddressFree(h, account[u].pending)

Promotable(h) ==
  LET u == local[h].user IN
  /\ pc[h] = "apply" /\ local[h].purpose = "email_change"
  /\ AccountFree(h, u)
  /\ Active(u) /\ account[u].pending # None
  /\ AddressFree(h, account[u].pending)

(* The index on the address, again.                                        *)
PendingFree(u) == Owners(account[u].pending) \subseteq {u}

(* Somebody has taken the address meanwhile: the transaction is rolled     *)
(* back and its token may be used again.                                   *)
PromoteTaken(h) ==
  /\ Promotable(h)
  /\ ~PendingFree(local[h].user)
  /\ End(h)
  /\ UNCHANGED <<account, token, mailed, observers>>

Promoted(u) == [account EXCEPT ![u].email = account[u].pending,
                               ![u].pending = None, ![u].verified = TRUE]

(* The pending address is another than the token's: the callback returns,  *)
(* so the transaction is committed, and the caller gets an error.          *)
PromoteOther(h) ==
  LET u == local[h].user
      t == local[h].token
  IN
  /\ Promotable(h)
  /\ PendingFree(u)
  /\ account[u].pending # token[t].email
  /\ account' = Promoted(u)
  /\ token' = Spent(t)
  /\ proved' = [proved EXCEPT ![u] = @ \cup {token[t].email}]
  /\ used' = [used EXCEPT ![t] = @ + 1]
  /\ End(h)
  /\ UNCHANGED <<mailed, resent, crossed>>

Promote(h) ==
  LET u == local[h].user IN
  /\ Promotable(h)
  /\ PendingFree(u)
  /\ account[u].pending = token[local[h].token].email
  /\ Goto(h, "commit", [local[h] EXCEPT !.target = account[u].pending])
  /\ UNCHANGED <<account, token, mailed, observers>>

Confirmed(h) ==
  LET u == local[h].user IN
  IF ~Active(u) THEN account
  ELSE IF local[h].purpose = "email_change" THEN Promoted(u)
  ELSE [account EXCEPT ![u].verified = TRUE, ![u].pending = None]

(* invalidateEmailVerificationTokensForUser waits for the tokens that      *)
(* other confirmations have locked; then the transaction is committed.     *)
Commit(h) ==
  LET u == local[h].user
      t == local[h].token
  IN
  /\ pc[h] = "commit"
  /\ \A s \in Live(u) : TokenFree(h, s)
  /\ account' = Confirmed(h)
  /\ token' = [Invalidated(Live(u)) EXCEPT ![t] = [token[t] EXCEPT !.state = "spent"]]
  /\ proved' = [proved EXCEPT ![u] = @ \cup {token[t].email}]
  /\ used' = [used EXCEPT ![t] = @ + 1]
  /\ End(h)
  /\ UNCHANGED <<mailed, resent, crossed>>

-----------------------------------------------------------------------------
(* Reset of the password.                                                  *)

(* requestPasswordReset; the tokens issued before stay valid.              *)
Forgot(h, e) ==
  /\ Start(h, "forgot")
  /\ \E u \in Owners(e) :
       Goto(h, "create", [NoLocal EXCEPT !.user = u, !.target = e, !.purpose = "reset"])
  /\ UNCHANGED <<account, token, mailed, observers>>

Reset(h, t) ==
  /\ Start(h, "reset")
  /\ t \in mailed
  /\ token[t].purpose = "reset"
  /\ Goto(h, "spend", [NoLocal EXCEPT !.user = token[t].user, !.token = t])
  /\ UNCHANGED <<account, token, mailed, observers>>

(* consumePasswordResetToken, a statement of its own.                      *)
SpendReset(h) ==
  /\ pc[h] = "spend"
  /\ IF token[local[h].token].state = "live"
     THEN token' = Spent(local[h].token) /\ Goto(h, "password", local[h])
     ELSE UNCHANGED token /\ End(h)
  /\ UNCHANGED <<account, mailed, observers>>

(* updateUserPasswordById.                                                 *)
SetPassword(h) ==
  LET t == local[h].token IN
  /\ pc[h] = "password"
  /\ AccountFree(h, local[h].user)
  /\ used' = [used EXCEPT ![t] = @ + (IF Active(local[h].user) THEN 1 ELSE 0)]
  /\ End(h)
  /\ UNCHANGED <<account, token, mailed, proved, resent, crossed>>

-----------------------------------------------------------------------------
(* The other parts: an administrator deletes the account, a token expires. *)

Delete(u) ==
  /\ Active(u)
  /\ \A h \in Handlers : ~HoldsAccount(h, u)
  /\ account' = [account EXCEPT ![u].state = "gone"]
  /\ UNCHANGED <<token, mailed, pc, local, observers>>

Expire(t) ==
  /\ token[t].state = "live"
  /\ \A h \in Handlers : ~HoldsToken(h, t)
  /\ token' = [token EXCEPT ![t].state = "invalid"]
  /\ UNCHANGED <<account, mailed, pc, local, observers>>

(* The process dies, a statement fails, or PostgreSQL ends a transaction   *)
(* of a deadlock: what was not committed is gone, with its locks.  Nothing *)
(* undoes setPendingEmailById when the tokens issued before have not been  *)
(* invalidated after it.                                                   *)
Die(h) ==
  /\ pc[h] # "idle"
  /\ End(h)
  /\ CrossIf(pc[h] = "drop", local[h].user)
  /\ UNCHANGED <<account, token, mailed, proved, used, resent>>

Step(h) ==
  \/ Insert(h) \/ CountSends(h) \/ SetPending(h) \/ Drop(h)
  \/ Invalidate(h) \/ Create(h) \/ Deliver(h)
  \/ Consume(h) \/ FindUser(h) \/ Mark(h) \/ PromoteNothing(h)
  \/ PromoteTaken(h) \/ PromoteOther(h) \/ Promote(h) \/ Commit(h)
  \/ SpendReset(h) \/ SetPassword(h)

Next ==
  \/ \E h \in Handlers :
       \/ \E u \in Users : Resend(h, u)
       \/ \E e \in Addresses : ResendPublic(h, e) \/ Forgot(h, e)
       \/ \E u \in Users, e \in Addresses : Register(h, u, e) \/ Change(h, u, e)
       \/ \E t \in Tokens : Confirm(h, t) \/ Reset(h, t)
       \/ Step(h)
       \/ Die(h)
  \/ \E u \in Users : Delete(u)
  \/ \E t \in Tokens : Expire(t)

Spec == Init /\ [][Next]_vars

-----------------------------------------------------------------------------
(* The types of the variables; an account that exists has an address.      *)
TypeOK ==
  /\ account \in [Users -> Rows]
  /\ \A u \in Users : account[u].state # "none" => account[u].email # None
  /\ token \in [Tokens -> TokenRows]
  /\ mailed \subseteq Tokens
  /\ pc \in [Handlers -> Steps]
  /\ local \in [Handlers -> Locals]
  /\ proved \in [Users -> SUBSET Addresses]
  /\ used \in [Tokens -> Nat]
  /\ resent \in [Users -> Nat]
  /\ crossed \subseteq Users

(* A token takes effect once, however its mail is clicked: for a           *)
(* confirmation the token and its effect become visible together, and for  *)
(* a reset the token is spent before the password is written.              *)
SpentOnce ==
  \A t \in Tokens : used[t] <= 1 /\ (used[t] = 1 => token[t].state = "spent")

(* No two accounts that exist have one address, whether they register with *)
(* it or change to it while it is free.                                    *)
OneAccountPerAddress == \A e \in Addresses : Cardinality(Owners(e)) <= 1

(* The hourly limit on resends is checked some statements before the token *)
(* is counted, so requests that overlap may exceed it, but by no more than *)
(* there are of them.                                                      *)
ResendsAreLimited ==
  \A u \in Users : resent[u] <= MaxSends + MaxActive - 1

(* A new token replaces those issued before; only issuers that overlap     *)
(* leave more than one.                                                    *)
FewLiveTokens == \A u \in Users : Cardinality(Live(u)) <= MaxActive

(* Whoever counts as verified has shown to read the mail of that address,  *)
(* unless requests of his have crossed.                                    *)
VerifiedIsProved ==
  \A u \in Users :
    Active(u) /\ account[u].verified /\ u \notin crossed => account[u].email \in proved[u]

(* As the documentation of e-mail verification has it, without exception.  *)
VerifiedAddressIsProved ==
  \A u \in Users : Active(u) /\ account[u].verified => account[u].email \in proved[u]

=============================================================================

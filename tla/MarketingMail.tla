--------------------------- MODULE MarketingMail ----------------------------
(* Marketing mail to one person: services/email-compliance.service.js and  *)
(* services/email.service.js, with the suppressions of an address          *)
(* (repositories/email-suppression.repository.js) and the consents of the  *)
(* account (repositories/user.repository.js).                              *)
(*                                                                         *)
(* No request is a transaction: its statements commit one by one, those of *)
(* several requests interleave, and a request may die between any two.     *)
(*                                                                         *)
(* Left out: mail that is not marketing, which no gate looks at; people    *)
(* without an account, to whom nothing is sent; changes of the address;    *)
(* the times, sources and reasons that are stored along.                   *)
(***************************************************************************)
EXTENDS Naturals, Sequences

CONSTANTS
  Handlers,   \* requests and sends under way
  None

VARIABLES
  user,       \* the consents and the opt-out of the account
  suppressed, \* the scopes in email_suppressions for the address
  local,      \* local[h]: what h has still to do
  out         \* observer: the categories that a finished request opted out of

vars == <<user, suppressed, local, out>>

-----------------------------------------------------------------------------
(* The two categories of marketing templates are scopes, too.              *)
Categories == {"marketing", "newsletter"}
All == "all_non_transactional"
Scopes == Categories \cup {All}

CategoriesOf(scope) == IF scope = All THEN Categories ELSE {scope}

(* SCOPE_BLOCKS: the scopes that keep a mail of category c back.           *)
Blocks(c) == {c, All}

UserSet == [marketing: BOOLEAN, newsletter: BOOLEAN, optedOutOfSale: BOOLEAN]

(* What a request does in one statement.                                   *)
Suppress(scope) == [op |-> "suppress", scope |-> scope]
Release(scope)  == [op |-> "release", scope |-> scope]
Withdraw(scope) == [op |-> "withdraw", scope |-> scope]
Grant(m, n)     == [op |-> "grant", marketing |-> m, newsletter |-> n]
OptOutOfSale    == [op |-> "opt_out_of_sale"]

Statements ==
  {Suppress(s) : s \in Scopes} \cup {Release(s) : s \in Categories}
    \cup {Withdraw(s) : s \in Scopes} \cup {Grant(m, n) : m, n \in BOOLEAN}
    \cup {OptOutOfSale}

(* todo: the statements left; leaves and joins: the categories a request   *)
(* opts out of and into; of a send: its category, what it has passed, and  *)
(* what the person had opted out of when it began.                         *)
Idle == [kind |-> "idle"]
IsRequest(l) == l.kind = "request"
Joins(h, c) == IsRequest(local[h]) /\ c \in local[h].joins

Init ==
  /\ user \in {u \in UserSet : ~u.optedOutOfSale}
  /\ suppressed = {}
  /\ local = [h \in Handlers |-> Idle]
  /\ out = {}

-----------------------------------------------------------------------------
(* Requests.  The statements of each are settled when it has read the      *)
(* account: nothing it reads later changes them.                           *)

(* A grant leaves the other consent as it was read.                        *)
Granting(c, other) ==
  <<IF c = "marketing" THEN Grant(TRUE, other) ELSE Grant(other, TRUE), Release(c)>>

(* Mutant: a consent is withdrawn, and no suppression kept.                *)
LeavingQuietly(scope) == <<Withdraw(scope)>>

(* An opt-out suppresses first and withdraws the consent then.             *)
Leaving(scope) == <<Suppress(scope), Withdraw(scope)>>

Chosen(choice, read) == IF choice = None THEN read ELSE choice

(* updateEmailPreferences; the page sends both choices, others need not.   *)
Preferring(m, n) ==
  (CASE m = TRUE  -> Granting("marketing", Chosen(n, user.newsletter))
     [] m = FALSE -> Leaving("marketing")
     [] OTHER     -> <<>>)
  \o
  (CASE n = TRUE  -> Granting("newsletter", Chosen(m, user.marketing))
     [] n = FALSE -> Leaving("newsletter")
     [] OTHER     -> <<>>)

(* processUnsubscribe: a link suppresses its scope, or the two categories  *)
(* besides.                                                                *)
Unsubscribing(scope) ==
  IF scope = All
  THEN <<Suppress(All), Suppress("marketing"), Suppress("newsletter"), Withdraw(All)>>
  ELSE Leaving(scope)

(* suppressMarketingForUser: for a browser that signals an opt-out (GPC).  *)
SuppressingAll ==
  <<Suppress("marketing"), Suppress("newsletter"), Suppress(All), Withdraw(All)>>

(* applyDsarCcpaOptOut: an opt-out of the sale of personal data.           *)
OptingOutOfSale == <<OptOutOfSale>> \o SuppressingAll

(* Of two requests that overlap, the one that opts in is taken to be last. *)
Start(h, todo, leaves, joins) ==
  /\ local[h] = Idle
  /\ local' = [g \in Handlers |->
                 IF g = h
                 THEN [kind |-> "request", todo |-> todo, joins |-> joins,
                       leaves |-> {c \in leaves : \A j \in Handlers : ~Joins(j, c)}]
                 ELSE IF IsRequest(local[g]) THEN [local[g] EXCEPT !.leaves = @ \ joins]
                 ELSE IF local[g].kind = "send"
                 THEN [local[g] EXCEPT !.unwanted = @ /\ local[g].category \notin joins]
                 ELSE local[g]]
  /\ out' = out \ joins
  /\ UNCHANGED <<user, suppressed>>

UpdatePreferences(h) ==
  \E m, n \in {TRUE, FALSE, None} :
    LET choice == [marketing |-> m, newsletter |-> n] IN
    /\ <<m, n>> # <<None, None>>
    /\ Start(h, Preferring(m, n), {c \in Categories : choice[c] = FALSE},
             {c \in Categories : choice[c] = TRUE})

Unsubscribe(h) ==
  \E scope \in Scopes : Start(h, Unsubscribing(scope), CategoriesOf(scope), {})

SignalOptOut(h) == Start(h, SuppressingAll, Categories, {})
RequestOptOut(h) == Start(h, OptingOutOfSale, Categories, {})

(* The row for the scope is inserted or found (ON CONFLICT), or deleted.   *)
Suppressions(s) ==
  CASE s.op = "suppress" -> suppressed \cup {s.scope}
    [] s.op = "release"  -> suppressed \ {s.scope}
    [] OTHER             -> suppressed

(* grantUserMarketingConsent writes both consents,                         *)
(* withdrawUserMarketingConsent those of the scope.                        *)
Consents(s) ==
  CASE s.op = "grant"    -> [user EXCEPT !.marketing = s.marketing, !.newsletter = s.newsletter]
    [] s.op = "withdraw" ->
         [user EXCEPT !.marketing = @ /\ "marketing" \notin CategoriesOf(s.scope),
                      !.newsletter = @ /\ "newsletter" \notin CategoriesOf(s.scope)]
    [] s.op = "opt_out_of_sale" -> [user EXCEPT !.optedOutOfSale = TRUE]
    [] OTHER -> user

(* The next statement of a request.                                        *)
Execute(h) ==
  LET l == local[h] IN
  /\ IsRequest(l) /\ l.todo # <<>>
  /\ suppressed' = Suppressions(Head(l.todo))
  /\ user' = Consents(Head(l.todo))
  /\ local' = [local EXCEPT ![h].todo = Tail(@)]
  /\ UNCHANGED out

(* The answer.                                                             *)
Answer(h) ==
  LET l == local[h] IN
  /\ IsRequest(l) /\ l.todo = <<>>
  /\ out' = out \cup l.leaves
  /\ local' = [local EXCEPT ![h] = Idle]
  /\ UNCHANGED <<user, suppressed>>

(* A statement fails or the process dies: what is done stays done.         *)
Die(h) ==
  /\ local[h] # Idle
  /\ local' = [local EXCEPT ![h] = Idle]
  /\ UNCHANGED <<user, suppressed, out>>

-----------------------------------------------------------------------------
(* sendMarketingEmail, with a configured provider and a postal address.    *)

Send(h, c) ==
  /\ local[h] = Idle
  /\ local' = [local EXCEPT ![h] =
                 [kind |-> "send", category |-> c, passed |-> "none", unwanted |-> c \in out]]
  /\ UNCHANGED <<user, suppressed, out>>

Pass(h, from, to, admitted) ==
  /\ local[h].kind = "send" /\ local[h].passed = from
  /\ local' = [local EXCEPT ![h] = IF admitted THEN [@ EXCEPT !.passed = to] ELSE Idle]
  /\ UNCHANGED <<user, suppressed, out>>

(* isEmailSuppressedForCategory.                                           *)
CheckSuppressions(h) ==
  Pass(h, "none", "suppressions", Blocks(local[h].category) \cap suppressed = {})

(* The row that findUserById selects has no ccpa_sale_opt_out_at, so the   *)
(* gate's look at it finds nothing and the consents decide.                *)
CheckConsent(h) ==
  Pass(h, "suppressions", "consent", user[local[h].category])

(* The mail is signed and handed to the provider.                          *)
Deliver(h) ==
  /\ local[h].kind = "send" /\ local[h].passed = "consent"
  /\ local' = [local EXCEPT ![h] = Idle]
  /\ UNCHANGED <<user, suppressed, out>>

Next ==
  \E h \in Handlers :
    \/ UpdatePreferences(h) \/ Unsubscribe(h) \/ SignalOptOut(h) \/ RequestOptOut(h)
    \/ Execute(h) \/ Answer(h) \/ Die(h)
    \/ \E c \in Categories : Send(h, c)
    \/ CheckSuppressions(h) \/ CheckConsent(h) \/ Deliver(h)

Spec == Init /\ [][Next]_vars

-----------------------------------------------------------------------------
Sends == [kind: {"send"}, category: Categories,
          passed: {"none", "suppressions", "consent"}, unwanted: BOOLEAN]

TypeOK ==
  /\ user \in UserSet
  /\ suppressed \subseteq Scopes
  /\ \A h \in Handlers :
       LET l == local[h] IN
       \/ l \in {Idle} \cup Sends
       \/ /\ l.kind = "request"
          /\ l.todo \in Seq(Statements)
          /\ l.leaves \subseteq Categories /\ l.joins \subseteq Categories
  /\ out \subseteq Categories

(* No mail of a category is delivered that was begun after the person had  *)
(* opted out of the category, unless the person opted in again: not even   *)
(* after an update that writes a consent back as it had read it.           *)
NoMailAfterOptOut ==
  \A h \in Handlers :
    local[h].kind = "send" /\ local[h].passed = "consent" => ~local[h].unwanted

=============================================================================

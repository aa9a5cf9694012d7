--------------------------- MODULE Administrators ---------------------------
(***************************************************************************)
(* Who administrates: the gate in front of the administration              *)
(* (middleware/auth.js), roles and deletion of users                       *)
(* (services/user.service.js) and the script that provisions the first     *)
(* administrator (scripts/create-initial-admin.js).                        *)
(*                                                                         *)
(* The gate reads the user's row and its security version in two           *)
(* statements; a handler reads the user it is about, then counts the       *)
(* administrators, then writes, and nothing keeps the rows from changing   *)
(* in between.  Only the script takes a lock.                              *)
(*                                                                         *)
(* Left out: how a session gets its second factor (RefreshTokens and       *)
(* SecondFactor), the idempotency of the commands (IdempotentCommand), and *)
(* attorneys, who pass for users here.                                     *)
(***************************************************************************)
EXTENDS Naturals, FiniteSets

CONSTANTS
  Users,       \* rows of users there may be
  Handlers,    \* requests under way
  Scripts,     \* runs of create-initial-admin
  Orders,      \* what the requests ask for
  MaxVersion,  \* bound on session_security_version
  None         \* nobody

VARIABLES
  row,         \* row[u]: role, state and security version
  access,      \* access[u]: the versions in the access tokens of u
  pc, local,   \* how far a request is, and what it has read
  script,      \* script[s]: how far a run of the script is
  raced,       \* observer: orders about administrators have overlapped
  erased       \* observer: an administrator's data have been erased

observers == <<raced, erased>>
vars == <<row, access, pc, local, script, observers>>

-----------------------------------------------------------------------------
Roles == {"user", "admin"}

Rows == [role: Roles, state: {"none", "active", "gone"}, version: 1..MaxVersion]

Commands == {"promote", "demote", "delete"}

Steps == {"idle", "version", "target", "count", "write"}

Locals == [actor: Users \cup {None}, claim: 0..MaxVersion, role: Roles,
           command: Commands \cup {"none"}, user: Users \cup {None}, removes: BOOLEAN]

NoLocal == [actor |-> None, claim |-> 0, role |-> "user",
            command |-> "none", user |-> None, removes |-> FALSE]

Active(u) == row[u].state = "active"
Admins == {u \in Users : Active(u) /\ row[u].role = "admin"}

Init ==
  /\ row \in [Users -> {x \in Rows : /\ x.state \in {"none", "active"} /\ x.version = 1
                                     /\ x.state = "none" => x.role = "user"}]
  /\ access = [u \in Users |-> {}]
  /\ pc = [h \in Handlers |-> "idle"]
  /\ local = [h \in Handlers |-> NoLocal]
  /\ script = [s \in Scripts |-> "idle"]
  /\ raced = FALSE
  /\ erased = FALSE

Goto(h, step, l) ==
  /\ pc' = [pc EXCEPT ![h] = step]
  /\ local' = [local EXCEPT ![h] = l]

End(h) == Goto(h, "idle", NoLocal)

-----------------------------------------------------------------------------
(* The gate.                                                               *)

(* A session with a fresh second factor gets a token: createAccessToken.   *)
SignIn(u) ==
  /\ Active(u)
  /\ access' = [access EXCEPT ![u] = @ \cup {row[u].version}]
  /\ UNCHANGED <<row, pc, local, script, observers>>

(* getUserFromAccessToken: findUserById ...                                *)
Request(h, actor, claim, command, u) ==
  /\ pc[h] = "idle"
  /\ claim \in access[actor]
  /\ Active(actor)
  /\ Goto(h, "version", [NoLocal EXCEPT !.actor = actor, !.claim = claim, !.role = row[actor].role,
                           !.command = command, !.user = u])
  /\ UNCHANGED <<row, access, script, raced, erased>>

(* ... and getSessionSecurityVersion, which is 1 for a row that is gone.   *)
SecurityVersion(u) == IF Active(u) THEN row[u].version ELSE 1

(* The version the token was issued with, and requireRole.                 *)
Admitted(h) ==
  LET l == local[h] IN
  /\ l.claim = SecurityVersion(l.actor)
  /\ l.role = "admin"

Pass(h) ==
  /\ pc[h] = "version"
  /\ IF Admitted(h)
     THEN Goto(h, "target", local[h]) ELSE End(h)
  /\ UNCHANGED <<row, access, script, raced, erased>>

-----------------------------------------------------------------------------
(* updateUserRole and deleteUser.                                          *)

(* The user as the handler finds it decides whether an administrator goes. *)
FindTarget(h) ==
  LET l == local[h] IN
  /\ pc[h] = "target"
  /\ IF Active(l.user)
     THEN LET removes == row[l.user].role = "admin" /\ l.command # "promote" IN
          Goto(h, IF removes THEN "count" ELSE "write", [l EXCEPT !.removes = removes])
     ELSE End(h)
  /\ UNCHANGED <<row, access, script, raced, erased>>

(* Mutant: the last administrator may go.                                  *)
EnoughForOne == Cardinality(Admins) >= 1

(* assertCanRemoveAdminRole, assertCanDeleteUser.                          *)
EnoughAdmins == Cardinality(Admins) > 1

Removing(h) == pc[h] = "write" /\ local[h].removes

CountAdmins(h) ==
  /\ pc[h] = "count"
  /\ IF EnoughAdmins
     THEN /\ Goto(h, "write", local[h])
          /\ raced' = (raced \/ \E g \in Handlers \ {h} : Removing(g))
     ELSE End(h) /\ UNCHANGED raced
  /\ UNCHANGED <<row, access, script, erased>>

(* Mutant: a new role leaves the sessions as they are.                     *)
WithRoleOnly(x, role) == [x EXCEPT !.role = role]

(* updateUserRoleById: the role and the end of the user's sessions.        *)
WithRole(x, role) == [x EXCEPT !.role = role, !.version = @ + 1]

Write(h) ==
  LET l == local[h] IN
  /\ pc[h] = "write"
  /\ IF ~Active(l.user) THEN UNCHANGED row
     ELSE IF l.command = "delete" THEN row' = [row EXCEPT ![l.user].state = "gone"]
     ELSE /\ row[l.user].version < MaxVersion
          /\ row' = [row EXCEPT ![l.user] =
                       WithRole(@, IF l.command = "promote" THEN "admin" ELSE "user")]
  /\ raced' = (raced \/ IF l.command = "promote" THEN Admins = {}
                         ELSE l.user \in Admins /\ ~l.removes)
  /\ End(h)
  /\ UNCHANGED <<access, script, erased>>

(* The process dies, or the command is rolled back.                        *)
Die(h) ==
  /\ pc[h] # "idle"
  /\ End(h)
  /\ UNCHANGED <<row, access, script, raced, erased>>

(* anonymizeUserById, on a request for the erasure of the user's data.     *)
Erase(u) ==
  /\ row[u].state # "none"
  /\ row' = [row EXCEPT ![u].state = "gone"]
  /\ erased' = (erased \/ u \in Admins)
  /\ UNCHANGED <<access, pc, local, script, raced>>

-----------------------------------------------------------------------------
(* create-initial-admin.js.                                                *)

(* Mutant: the lock is not waited for.                                     *)
LockIgnored(s) == TRUE

(* pg_advisory_xact_lock is kept until the transaction ends.               *)
LockFree(s) == \A r \in Scripts \ {s} : script[r] \notin {"locked", "counted"}

TakeLock(s) ==
  /\ script[s] = "idle"
  /\ LockFree(s)
  /\ script' = [script EXCEPT ![s] = "locked"]
  /\ UNCHANGED <<row, access, pc, local, observers>>

CountNone(s) ==
  /\ script[s] = "locked"
  /\ script' = [script EXCEPT ![s] = IF Admins = {} THEN "counted" ELSE "idle"]
  /\ UNCHANGED <<row, access, pc, local, observers>>

(* createUser and the commit.                                              *)
CreateAdmin(s, u) ==
  /\ script[s] = "counted"
  /\ row[u].state = "none"
  /\ row' = [row EXCEPT ![u] = [@ EXCEPT !.role = "admin", !.state = "active"]]
  /\ script' = [script EXCEPT ![s] = "idle"]
  /\ UNCHANGED <<access, pc, local, observers>>

Abort(s) ==
  /\ script[s] # "idle"
  /\ script' = [script EXCEPT ![s] = "idle"]
  /\ UNCHANGED <<row, access, pc, local, observers>>

Next ==
  \/ \E u \in Users : Erase(u) \/ SignIn(u)
  \/ \E h \in Handlers :
       \/ \E actor, u \in Users, claim \in 1..MaxVersion, command \in Orders :
            Request(h, actor, claim, command, u)
       \/ Pass(h) \/ FindTarget(h) \/ CountAdmins(h) \/ Write(h) \/ Die(h)
  \/ \E s \in Scripts :
       \/ TakeLock(s) \/ CountNone(s) \/ Abort(s)
       \/ \E u \in Users : CreateAdmin(s, u)

Spec == Init /\ [][Next]_vars

-----------------------------------------------------------------------------
TypeOK ==
  /\ row \in [Users -> Rows]
  /\ access \in [Users -> SUBSET (1..MaxVersion)]
  /\ pc \in [Handlers -> Steps]
  /\ local \in [Handlers -> Locals]
  /\ script \in [Scripts -> {"idle", "locked", "counted"}]
  /\ raced \in BOOLEAN /\ erased \in BOOLEAN

(* The administration never loses its last administrator, unless a removal *)
(* overlapped with another one, or with the promotion of whom it removes,  *)
(* or a privacy request had the last one erased.                           *)
AnAdminRemains == Admins # {} /\ Admins' = {} => raced' \/ erased'

(* Whoever passes the gate has, at that moment, the role the gate has      *)
(* seen, if the account still exists: a change of the role between its two *)
(* statements is noticed by the second one.                                *)
GateIsCurrent ==
  \A h \in Handlers :
    pc[h] = "version" /\ pc'[h] = "target" /\ Active(local[h].actor)
      => row[local[h].actor].role = "admin"

(* The script gives the system its first administrator, however many runs  *)
(* of it there are, and not a second one, unless a promotion outlived the  *)
(* administrator who asked for it.                                         *)
ProvisionedOnce ==
  \A u \in Users : row[u].state = "none" /\ u \in Admins' => Admins = {} \/ raced

(* What no step of the administration may do.                              *)
GuardedStep == AnAdminRemains /\ GateIsCurrent /\ ProvisionedOnce

AdministrationIsGuarded == [][GuardedStep]_vars

=============================================================================

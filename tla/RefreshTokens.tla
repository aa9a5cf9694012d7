--------------------------- MODULE RefreshTokens ---------------------------
(***************************************************************************)
(* The sessions of one account: session.service.js, the refresh tokens of  *)
(* auth-token.repository.js, and the operations of the login, password     *)
(* reset, MFA, e-mail change and role services that open or end sessions.  *)
(*                                                                         *)
(* An element of Attempts is one HTTP request.  A login or a refresh       *)
(* inserts at most one row of auth_refresh_tokens, so a row is named by    *)
(* the attempt that inserted it.  Every await of the services is a step.   *)
(* A rotation is a transaction: its insert is seen by nobody before the    *)
(* COMMIT and its UPDATE locks the row it revokes; every other UPDATE is a *)
(* statement of its own that waits for such a lock.                        *)
(***************************************************************************)
EXTENDS Naturals

CONSTANTS
  Attempts,     \* HTTP requests, which also name the rows they insert
  MaxVersion,   \* bound on session_security_version
  NoOne         \* "no attempt": a free row lock, a row without a successor

ASSUME MaxVersionAssumption == MaxVersion \in Nat \ {0}
ASSUME NoAttemptAssumption == NoOne \notin Attempts

VARIABLES
  row,        \* row[t]: the committed row that attempt t inserted
  lock,       \* lock[t]: the rotation whose open transaction revokes row t
  version,    \* users.session_security_version
  pc,         \* pc[a]: how far attempt a is
  want,       \* want[a]: what attempt a asks for
  read,       \* read[a]: what attempt a has read and not yet used
  targets,    \* targets[a]: the live rows a's sweep found in its snapshot
  access,     \* access[a]: the version in the access token a was given, or 0
  ended,      \* observer: the logins that had a row when the version was bumped
  proved      \* observer: the logins whose user has proved a second factor

vars ==
  <<row, lock, version, pc, want, read, targets, access, ended, proved>>

-----------------------------------------------------------------------------
Versions == 1..MaxVersion

(* login stands for the chain of replaced_by_token_id links that leads      *)
(* back to the row a login inserted.                                       *)
Rows == [live: BOOLEAN, version: Versions, login: Attempts,
         next: Attempts \cup {NoOne}, mfa: BOOLEAN]

NoRow == [live |-> FALSE, version |-> 0, login |-> NoOne,
          next |-> NoOne, mfa |-> FALSE]

Committed == {t \in Attempts : row[t] # NoRow}
Live == {t \in Attempts : row[t].live}

(* enroll, change, role and sweep are the account operations: confirming    *)
(* an MFA enrolment; resetting the password, disabling MFA or having it    *)
(* reset; a role change; asking for another e-mail address.                *)
Kinds == {"login", "refresh", "logout", "stepup",
          "enroll", "change", "role", "sweep"}

Wants == [kind: Kinds, token: Attempts, mfa: BOOLEAN]
NoWant == [kind |-> "none", token |-> NoOne, mfa |-> FALSE]

Reads == [version: 0..MaxVersion, mfa: BOOLEAN]
NoRead == [version |-> 0, mfa |-> FALSE]

Steps == {"idle", "read", "insert", "find", "current", "rotate", "commit",
          "revoke", "mark", "bump", "sweep", "sweeping", "done"}

TypeOK ==
  /\ row \in [Attempts -> Rows \cup {NoRow}]
  /\ lock \in [Attempts -> Attempts \cup {NoOne}]
  /\ version \in Versions
  /\ pc \in [Attempts -> Steps]
  /\ want \in [Attempts -> Wants \cup {NoWant}]
  /\ read \in [Attempts -> Reads]
  /\ targets \in [Attempts -> SUBSET Attempts]
  /\ access \in [Attempts -> 0..MaxVersion]
  /\ ended \subseteq Attempts
  /\ proved \subseteq Attempts

Init ==
  /\ row = [t \in Attempts |-> NoRow]
  /\ lock = [t \in Attempts |-> NoOne]
  /\ version = 1
  /\ pc = [a \in Attempts |-> "idle"]
  /\ want = [a \in Attempts |-> NoWant]
  /\ read = [a \in Attempts |-> NoRead]
  /\ targets = [a \in Attempts |-> {}]
  /\ access = [a \in Attempts |-> 0]
  /\ ended = {}
  /\ proved = {}

Goto(a, step) == pc' = [pc EXCEPT ![a] = step]

-----------------------------------------------------------------------------
(* A request arrives.                                                      *)

FirstStep(kind) ==
  CASE kind = "login"                          -> "read"
    [] kind \in {"refresh", "logout"}          -> "find"
    [] kind = "stepup"                         -> "read"
    [] kind \in {"enroll", "change", "role"}   -> "bump"
    [] kind = "sweep"                          -> "sweep"

(* A login arrives here with its password, and its second factor if it     *)
(* needs one, verified.  A refresh or a logout brings any token, current,  *)
(* outdated or unknown (a itself, which names no row yet).  A step-up      *)
(* comes with an access token of session w.token that                      *)
(* getUserFromAccessToken accepts.                                         *)
Begin(a) ==
  /\ pc[a] = "idle"
  /\ \E w \in Wants :
       /\ w.mfa => w.kind \in {"login", "enroll", "stepup"}
       /\ w.kind \in {"enroll", "stepup"} => w.mfa
       /\ w.token \in Committed \cup {a}
       /\ w.kind \notin {"refresh", "logout", "stepup"} => w.token = a
       /\ w.kind = "stepup" => w.token # a /\ access[w.token] = version
       /\ want' = [want EXCEPT ![a] = w]
       /\ Goto(a, FirstStep(w.kind))
  /\ UNCHANGED <<row, lock, version, read, targets, access, ended, proved>>

-----------------------------------------------------------------------------
(* Opening a session, and the step-up of an open one.                      *)

(* getSessionSecurityVersion, after the credentials have been verified.    *)
ReadVersion(a) ==
  /\ pc[a] = "read"
  /\ read' = [read EXCEPT ![a] = [version |-> version, mfa |-> want[a].mfa]]
  /\ Goto(a, IF want[a].kind = "stepup" THEN "mark" ELSE "insert")
  /\ UNCHANGED <<row, lock, version, want, targets, access, ended, proved>>

(* Mutant: the row of a new session is stored without its version.         *)
InsertUnversioned(a) ==
  /\ pc[a] = "insert"
  /\ row' = [row EXCEPT ![a] =
       [live |-> TRUE, version |-> 0, login |-> a,
        next |-> NoOne, mfa |-> read[a].mfa]]
  /\ access' = [access EXCEPT ![a] = read[a].version]
  /\ proved' = IF want[a].mfa THEN proved \cup {a} ELSE proved
  /\ Goto(a, "done")
  /\ UNCHANGED <<lock, version, want, read, targets, ended>>

(* createAuthSession: createRefreshToken and the access token for it.      *)
Insert(a) ==
  /\ pc[a] = "insert"
  /\ row' = [row EXCEPT ![a] =
       [live |-> TRUE, version |-> read[a].version, login |-> a,
        next |-> NoOne, mfa |-> read[a].mfa]]
  /\ access' = [access EXCEPT ![a] = read[a].version]
  /\ proved' = IF want[a].mfa THEN proved \cup {a} ELSE proved
  /\ Goto(a, "done")
  /\ UNCHANGED <<lock, version, want, read, targets, ended>>

(* Mutant: the step-up brings its session back, whatever became of it.     *)
MarkRevives(a) ==
  LET t == want[a].token IN
  /\ pc[a] = "mark"
  /\ lock[t] = NoOne
  /\ row' = [row EXCEPT ![t].mfa = TRUE, ![t].live = TRUE]
  /\ access' = [access EXCEPT ![a] = read[a].version]
  /\ proved' = proved \cup {row[t].login}
  /\ Goto(a, "done")
  /\ UNCHANGED <<lock, version, want, read, targets, ended>>

(* refreshMfaCompletedAt: UPDATE ... WHERE revoked_at IS NULL, then an     *)
(* access token with the version read before.                              *)
Mark(a) ==
  LET t == want[a].token IN
  /\ pc[a] = "mark"
  /\ lock[t] = NoOne
  /\ row[t].live
  /\ row' = [row EXCEPT ![t].mfa = TRUE]
  /\ access' = [access EXCEPT ![a] = read[a].version]
  /\ proved' = proved \cup {row[t].login}
  /\ Goto(a, "done")
  /\ UNCHANGED <<lock, version, want, read, targets, ended>>

MarkRefused(a) ==
  /\ pc[a] = "mark"
  /\ lock[want[a].token] = NoOne
  /\ ~row[want[a].token].live
  /\ Goto(a, "done")
  /\ UNCHANGED <<row, lock, version, want, read, targets, access, ended, proved>>

-----------------------------------------------------------------------------
(* refreshAuthSession and logoutUser.                                      *)

(* findRefreshTokenByHash.  What is read here is used until the rotation.  *)
Find(a) ==
  LET t == want[a].token IN
  /\ pc[a] = "find"
  /\ read' = [read EXCEPT ![a] = [version |-> row[t].version, mfa |-> row[t].mfa]]
  /\ Goto(a, IF t \notin Committed THEN "done"
             ELSE IF want[a].kind = "logout" THEN "revoke"
             ELSE IF row[t].live THEN "current" ELSE "sweep")
  /\ UNCHANGED <<row, lock, version, want, targets, access, ended, proved>>

(* Mutant: the next token gets the user's version whatever the row's is.   *)
CurrentRebased(a) ==
  /\ pc[a] = "current"
  /\ read' = [read EXCEPT ![a].version = version]
  /\ Goto(a, "rotate")
  /\ UNCHANGED <<row, lock, version, want, targets, access, ended, proved>>

(* The row has not expired, the user is active and the version the row     *)
(* carries is still the user's.                                            *)
Current(a) ==
  /\ pc[a] = "current"
  /\ read[a].version = version
  /\ Goto(a, "rotate")
  /\ UNCHANGED <<row, lock, version, want, read, targets, access, ended, proved>>

(* Otherwise 401; expiry and the user's status are the environment's.      *)
NotCurrent(a) ==
  /\ pc[a] = "current"
  /\ Goto(a, "done")
  /\ UNCHANGED <<row, lock, version, want, read, targets, access, ended, proved>>

(* Mutant: the UPDATE lacks AND revoked_at IS NULL.                        *)
RotateUnguarded(a) ==
  /\ pc[a] = "rotate"
  /\ lock[want[a].token] = NoOne
  /\ lock' = [lock EXCEPT ![want[a].token] = a]
  /\ Goto(a, "commit")
  /\ UNCHANGED <<row, version, want, read, targets, access, ended, proved>>

(* rotateRefreshToken: INSERT the next row, then UPDATE the current one    *)
(* WHERE revoked_at IS NULL, which waits for whoever else revokes it.      *)
Rotate(a) ==
  LET t == want[a].token IN
  /\ pc[a] = "rotate"
  /\ lock[t] = NoOne
  /\ row[t].live
  /\ lock' = [lock EXCEPT ![t] = a]
  /\ Goto(a, "commit")
  /\ UNCHANGED <<row, version, want, read, targets, access, ended, proved>>

(* No row was updated: RefreshTokenRotationError rolls the insert back.    *)
RotateLoses(a) ==
  /\ pc[a] = "rotate"
  /\ lock[want[a].token] = NoOne
  /\ ~row[want[a].token].live
  /\ Goto(a, "done")
  /\ UNCHANGED <<row, lock, version, want, read, targets, access, ended, proved>>

(* Mutants: the next row gets rotateRefreshToken's default version; it     *)
(* gets a fresh MFA mark; the client goes back to the pool with the        *)
(* transaction open.                                                       *)
Rotated(a, next) ==
  LET t == want[a].token IN
  /\ pc[a] = "commit"
  /\ row' = [row EXCEPT
       ![t] = [@ EXCEPT !.live = FALSE, !.next = a], ![a] = next]
  /\ access' = [access EXCEPT ![a] = read[a].version]
  /\ Goto(a, "done")
  /\ UNCHANGED <<version, want, read, targets, ended, proved>>

CommitFreshMark(a) ==
  /\ Rotated(a, [live |-> TRUE, version |-> read[a].version, next |-> NoOne,
                 login |-> row[want[a].token].login, mfa |-> TRUE])
  /\ lock' = [lock EXCEPT ![want[a].token] = NoOne]

(* COMMIT makes both rows visible; the response carries the new tokens.    *)
Commit(a) ==
  LET t == want[a].token IN
  /\ pc[a] = "commit"
  /\ row' = [row EXCEPT
       ![t] = [@ EXCEPT !.live = FALSE, !.next = a],
       ![a] = [live |-> TRUE, version |-> read[a].version,
               login |-> row[t].login, next |-> NoOne, mfa |-> read[a].mfa]]
  /\ lock' = [lock EXCEPT ![t] = NoOne]
  /\ access' = [access EXCEPT ![a] = read[a].version]
  /\ Goto(a, "done")
  /\ UNCHANGED <<version, want, read, targets, ended, proved>>

(* Mutant: a logout clears the link to the successor.                      *)
RevokeUnlinks(a) ==
  LET t == want[a].token IN
  /\ pc[a] = "revoke"
  /\ lock[t] = NoOne
  /\ row' = [row EXCEPT ![t] = [@ EXCEPT !.live = FALSE, !.next = NoOne]]
  /\ Goto(a, "done")
  /\ UNCHANGED <<lock, version, want, read, targets, access, ended, proved>>

(* revokeRefreshTokenByHash of a logout.                                   *)
Revoke(a) ==
  LET t == want[a].token IN
  /\ pc[a] = "revoke"
  /\ lock[t] = NoOne
  /\ row' = [row EXCEPT ![t].live = FALSE]
  /\ Goto(a, "done")
  /\ UNCHANGED <<lock, version, want, read, targets, access, ended, proved>>

-----------------------------------------------------------------------------
(* Changes of the account.                                                 *)

(* updateUserPasswordById, bumpSessionSecurityVersion, updateUserRoleById. *)
Bump(a) ==
  /\ pc[a] = "bump"
  /\ version < MaxVersion
  /\ version' = version + 1
  /\ ended' = ended \cup {row[t].login : t \in Committed}
  /\ Goto(a, IF want[a].kind = "role" THEN "done" ELSE "sweep")
  /\ UNCHANGED <<row, lock, want, read, targets, access, proved>>

(* revokeUserRefreshTokens takes its snapshot: the rows it can see.        *)
Sweep(a) ==
  /\ pc[a] = "sweep"
  /\ targets' = [targets EXCEPT ![a] = Live]
  /\ Goto(a, "sweeping")
  /\ UNCHANGED <<row, lock, version, want, read, access, ended, proved>>

(* It revokes them once nobody holds one; a row that was rotated or        *)
(* revoked meanwhile no longer satisfies revoked_at IS NULL.               *)
SweepEnds(a) ==
  /\ pc[a] = "sweeping"
  /\ \A t \in targets[a] : lock[t] = NoOne
  /\ row' = [t \in Attempts |->
       IF t \in targets[a] THEN [row[t] EXCEPT !.live = FALSE] ELSE row[t]]
  /\ Goto(a, IF want[a].kind = "enroll" THEN "read" ELSE "done")
  /\ UNCHANGED <<lock, version, want, read, targets, access, ended, proved>>

(* The process, its connection, a statement or the COMMIT fails.           *)
Die(a) ==
  /\ pc[a] \notin {"idle", "done"}
  /\ lock' = [t \in Attempts |-> IF lock[t] = a THEN NoOne ELSE lock[t]]
  /\ targets' = [targets EXCEPT ![a] = {}]
  /\ Goto(a, "done")
  /\ UNCHANGED <<row, version, want, read, access, ended, proved>>

-----------------------------------------------------------------------------
Proceed(a) ==
  \/ ReadVersion(a)
  \/ Insert(a)
  \/ Mark(a)
  \/ MarkRefused(a)
  \/ Find(a)
  \/ Current(a)
  \/ NotCurrent(a)
  \/ Rotate(a)
  \/ RotateLoses(a)
  \/ Commit(a)
  \/ Revoke(a)
  \/ Bump(a)
  \/ Sweep(a)
  \/ SweepEnds(a)

Next == \E a \in Attempts : Begin(a) \/ Proceed(a) \/ Die(a)

Spec == Init /\ [][Next]_vars

(* The event loop and the database advance every request that has begun.   *)
FairSpec == Spec /\ \A a \in Attempts : WF_vars(Proceed(a))

-----------------------------------------------------------------------------
(* Safety.                                                                 *)

(* A login has at most one live refresh token, however many refreshes,     *)
(* duplicates of a refresh and retries after a lost response race: a token *)
(* cannot be exchanged for two.                                            *)
OneLiveTokenPerLogin ==
  \A s, t \in Live : row[s].login = row[t].login => s = t

(* Rotation is all or nothing: a row with a successor is revoked and its   *)
(* successor exists, in the same chain, at the same version; no two rows   *)
(* share a successor, and every row that no login inserted succeeds one.   *)
ChainsAreLinear ==
  \A t \in Committed :
    /\ row[t].next # NoOne =>
         /\ ~row[t].live
         /\ row[row[t].next].login = row[t].login
         /\ row[row[t].next].version = row[t].version
         /\ \A s \in Committed : row[s].next = row[t].next => s = t
    /\ row[t].login # t => \E s \in Committed : row[s].next = t

(* Sessions from before a password reset, MFA change or role change are    *)
(* over: neither a refresh token of theirs nor an access token they were   *)
(* given by a login or a refresh is accepted again, even if its rotation   *)
(* was on its way during the change and its row escaped the sweep.  (A     *)
(* step-up proves the user's factor anew and is given the version it reads *)
(* then.)                                                                  *)
EndedSessionsStayOver ==
  \A t \in Committed :
    row[t].login \in ended =>
      /\ row[t].live => row[t].version # version
      /\ access[t] # version

(* A session counts as MFA-complete only if its user has proved a second   *)
(* factor at its login or in a step-up: rotation copies the mark and never *)
(* makes one.                                                              *)
MfaMarkIsProved ==
  \A t \in Committed : row[t].mfa => row[t].login \in proved

(* A revoked token is revoked for good and a stored row is never           *)
(* reassigned: neither a late rotation nor a second revocation rewrites    *)
(* its successor, its session or its version.                              *)
RevokedForGood ==
  [][\A t \in Committed :
       /\ row'[t].login = row[t].login
       /\ row'[t].version = row[t].version
       /\ ~row[t].live => ~row'[t].live /\ row'[t].next = row[t].next]_vars

(* Refresh-token rows are the chains of SessionChains.                     *)
HeadOf(l) ==
  IF \E t \in Live : row[t].login = l
  THEN CHOOSE t \in Live : row[t].login = l ELSE NoOne

Chains ==
  INSTANCE SessionChains WITH
    Tokens <- Attempts,
    head   <- [l \in Attempts |-> HeadOf(l)],
    used   <- Committed

(* Seen from outside, every race of refreshes, logouts, sweeps and crashes *)
(* is a sequence of atomic openings, advances and endings of chains.       *)
ImplementsChains == Chains!ChainsSpec

(* Every request that has begun ends: the waits for a rotation's row lock  *)
(* cannot become a deadlock.  A bump is not refused by the code; the       *)
(* bound on the version is the model's.                                    *)
EveryRequestEnds ==
  \A a \in Attempts : pc[a] \in {"find", "read", "sweep"} ~> pc[a] = "done"

-----------------------------------------------------------------------------
(* What the log message and the audit say of reuse detection: presenting a *)
(* token that was revoked revokes all the user's tokens, so that none of   *)
(* the sessions open at that time goes on.                                 *)
ReuseEndsTheFamily ==
  \A a \in Attempts :
    want[a].kind = "refresh" /\ pc[a] = "done" /\ targets[a] # {} =>
      \A t \in Live : \A s \in targets[a] : row[t].login # row[s].login

=============================================================================

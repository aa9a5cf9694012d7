---------------------------- MODULE SecondFactor ----------------------------
(***************************************************************************)
(* The second factor of one privileged account: the handlers of            *)
(* services/mfa.service.js with the challenges of a login, the time-based  *)
(* factors and the recovery codes they read and write.                     *)
(*                                                                         *)
(* A handler reads a row, computes for a while (decryption, scrypt, the    *)
(* code's check) and then writes with an UPDATE that repeats some of what  *)
(* it has read in its WHERE clause.  Each statement is a step, and so is   *)
(* the one transaction, the activation of a factor.                        *)
(*                                                                         *)
(* Left out: audit rows; the account's version and its sessions, which     *)
(* RefreshTokens models (handlers that end sessions do so in further       *)
(* steps, which change nothing here); switching the factor off, which is   *)
(* refused for a privileged account.                                       *)
(***************************************************************************)
EXTENDS Naturals, FiniteSets

CONSTANTS
  Factors,      \* the rows of user_mfa_factors there may be
  Codes,        \* recovery codes; one stands for the ten of a set
  Challenges,   \* the rows of auth_mfa_challenges there may be
  Handlers,     \* requests under way
  MaxActive,    \* bound on how many are under way at a time
  MaxAttempts,  \* MFA_MAX_ATTEMPTS
  MaxStep,      \* bound on the clock
  Inputs,       \* what the requests may ask for
  NoOne         \* not a challenge, a factor or a code

VARIABLES
  factor,       \* factor[f]: the row of a factor
  codes,        \* the recovery codes that are stored and unused
  issued,       \* those that have ever been stored
  challenge,    \* challenge[c]: the row of a challenge
  now,          \* the clock, in periods of a time-based code
  pc,           \* pc[h]: how far handler h is
  want,         \* want[h]: what it was asked for
  local,        \* local[h]: what it has read
  stepUses,     \* observer: how often a period has proved a factor
  codeUses,     \* observer: how often a recovery code has been a proof
  granted,      \* observer: how many sessions a challenge has opened
  refused       \* observer: how many answers to a challenge were refused

store == <<factor, codes, issued, challenge>>
observers == <<stepUses, codeUses, granted, refused>>
vars == <<store, now, pc, want, local, observers>>

-----------------------------------------------------------------------------
Periods == 1..MaxStep

FactorRows ==
  [status: {"none", "pending", "active", "disabled"}, last: 0..MaxStep]

(* used: consumed_at is set.  expired: expires_at has passed.              *)
ChallengeRows ==
  [purpose: {"none", "login", "enrollment"}, used: BOOLEAN, expired: BOOLEAN,
   attempts: Nat]

Wants ==
  [kind: {"login", "regenerate", "reset"}, c: {NoOne}, via: {"none"}]
  \cup [kind: {"verify"}, c: Challenges, via: {"totp", "code"}]
  \cup [kind: {"stepUp"}, c: {NoOne}, via: {"totp", "code"}]
  \cup [kind: {"start", "confirm"}, c: Challenges \cup {NoOne}, via: {"none"}]

ASSUME NoOneAssumption == NoOne \notin Factors \cup Codes \cup Challenges
ASSUME BoundsAssumption == MaxActive \in Nat /\ MaxStep \in Nat \ {0}
ASSUME MaxAttemptsAssumption == MaxAttempts \in Nat \ {0}
ASSUME InputsAssumption == Inputs \subseteq Wants

NoWant == [kind |-> "none", c |-> NoOne, via |-> "none"]

Locals == [f: Factors \cup {NoOne}, last: 0..MaxStep, step: 0..MaxStep,
           code: Codes \cup {NoOne}, purpose: {"none", "login", "enrollment"},
           replay: BOOLEAN]

NoLocal == [f |-> NoOne, last |-> 0, step |-> 0, code |-> NoOne,
            purpose |-> "none", replay |-> FALSE]

Steps == {"idle", "look", "create", "resolve", "factor", "check", "consumeStep",
          "consumeCode", "consume", "count", "countAgain", "invalidate", "bar",
          "drop", "insert", "pending", "activate", "close",
          "delete", "refill", "disable", "closeAll"}

TypeOK ==
  /\ factor \in [Factors -> FactorRows]
  /\ codes \subseteq issued
  /\ issued \subseteq Codes
  /\ challenge \in [Challenges -> ChallengeRows]
  /\ now \in Periods
  /\ pc \in [Handlers -> Steps]
  /\ want \in [Handlers -> Wants \cup {NoWant}]
  /\ local \in [Handlers -> Locals]
  /\ stepUses \in [Factors \X Periods -> Nat]
  /\ codeUses \in [Codes -> Nat]
  /\ granted \in [Challenges -> Nat]
  /\ refused \in [Challenges -> Nat]

Init ==
  /\ factor = [f \in Factors |-> [status |-> "none", last |-> 0]]
  /\ codes = {}
  /\ issued = {}
  /\ challenge = [c \in Challenges |->
       [purpose |-> "none", used |-> FALSE, expired |-> FALSE, attempts |-> 0]]
  /\ now = 1
  /\ pc = [h \in Handlers |-> "idle"]
  /\ want = [h \in Handlers |-> NoWant]
  /\ local = [h \in Handlers |-> NoLocal]
  /\ stepUses = [p \in Factors \X Periods |-> 0]
  /\ codeUses = [k \in Codes |-> 0]
  /\ granted = [c \in Challenges |-> 0]
  /\ refused = [c \in Challenges |-> 0]

-----------------------------------------------------------------------------
(* Steps of a handler.                                                     *)

Goto(h, step, l) ==
  /\ pc' = [pc EXCEPT ![h] = step]
  /\ local' = [local EXCEPT ![h] = l]
  /\ UNCHANGED <<want, now>>

End(h) ==
  /\ pc' = [pc EXCEPT ![h] = "idle"]
  /\ local' = [local EXCEPT ![h] = NoLocal]
  /\ want' = [want EXCEPT ![h] = NoWant]
  /\ UNCHANGED now

(* A new row: which of the unused names it gets does not matter.           *)
NewOf(unused) == CHOOSE x \in unused : TRUE

WithStatus(s) == {f \in Factors : factor[f].status = s}

Open(c) == challenge[c].purpose # "none" /\ ~challenge[c].used

FirstStep(w) ==
  CASE w.kind = "login"                      -> "look"
    [] w.kind \in {"regenerate", "stepUp"}   -> "factor"
    [] w.kind = "reset"                      -> "disable"
    [] w.kind = "verify" \/ w.c # NoOne      -> "resolve"
    [] w.kind = "start" /\ w.c = NoOne       -> "drop"
    [] OTHER                                 -> "pending"

(* Passwords, sessions and roles have been checked.                        *)
Begin(h) ==
  /\ pc[h] = "idle"
  /\ Cardinality({g \in Handlers : pc[g] # "idle"}) < MaxActive
  /\ \E w \in Inputs :
       /\ want' = [want EXCEPT ![h] = w]
       /\ pc' = [pc EXCEPT ![h] = FirstStep(w)]
  /\ UNCHANGED <<store, now, local, observers>>

-----------------------------------------------------------------------------
(* loginUser and createLoginMfaChallenge: look for an active factor, close *)
(* the account's challenges, create one.                                   *)

Look(h) ==
  /\ pc[h] = "look"
  /\ Goto(h, "closeAll", [NoLocal EXCEPT !.purpose =
       IF WithStatus("active") # {} THEN "login" ELSE "enrollment"])
  /\ UNCHANGED <<store, observers>>

(* invalidateUserMfaChallenges, also the end of a reset.                   *)
CloseAll(h) ==
  /\ pc[h] = "closeAll"
  /\ challenge' = [c \in Challenges |->
       IF Open(c) THEN [challenge[c] EXCEPT !.used = TRUE] ELSE challenge[c]]
  /\ IF want[h].kind = "login" THEN Goto(h, "create", local[h]) ELSE End(h)
  /\ UNCHANGED <<factor, codes, issued, observers>>

Unused == {c \in Challenges : challenge[c].purpose = "none"}

Create(h) ==
  /\ pc[h] = "create"
  /\ Unused # {}
  /\ challenge' = [challenge EXCEPT ![NewOf(Unused)].purpose = local[h].purpose]
  /\ End(h)
  /\ UNCHANGED <<factor, codes, issued, observers>>

-----------------------------------------------------------------------------
(* resolveMfaChallenge, which starts a verification and an enrollment      *)
(* without a session, where the controller has made the same checks.       *)

Purpose(w) == IF w.kind = "verify" THEN "login" ELSE "enrollment"

Answerable(w) ==
  /\ challenge[w.c].purpose = Purpose(w)
  /\ ~challenge[w.c].used
  /\ ~challenge[w.c].expired

(* Mutant: the attempts are not looked at.                                 *)
ResolveAnyway(h) ==
  LET w == want[h] IN
  /\ pc[h] = "resolve"
  /\ Answerable(w)
  /\ Goto(h, CASE w.kind = "start"   -> "drop"
               [] w.kind = "confirm" -> "pending"
               [] OTHER -> IF w.via = "totp" THEN "factor" ELSE "check", NoLocal)
  /\ UNCHANGED <<store, observers>>

Resolve(h) ==
  LET w == want[h] IN
  /\ pc[h] = "resolve"
  /\ Answerable(w)
  /\ challenge[w.c].attempts < MaxAttempts
  /\ Goto(h, CASE w.kind = "start"   -> "drop"
               [] w.kind = "confirm" -> "pending"
               [] OTHER -> IF w.via = "totp" THEN "factor" ELSE "check", NoLocal)
  /\ UNCHANGED <<store, observers>>

Unresolved(h) ==
  LET w == want[h] IN
  /\ pc[h] = "resolve"
  /\ ~Answerable(w)
  /\ End(h)
  /\ UNCHANGED <<store, observers>>

TooMany(h) ==
  LET w == want[h] IN
  /\ pc[h] = "resolve"
  /\ Answerable(w)
  /\ challenge[w.c].attempts >= MaxAttempts
  /\ Goto(h, "bar", NoLocal)
  /\ UNCHANGED <<store, observers>>

Bar(h) ==
  /\ pc[h] = "bar"
  /\ challenge' = [challenge EXCEPT ![want[h].c].used = TRUE]
  /\ End(h)
  /\ UNCHANGED <<factor, codes, issued, observers>>

-----------------------------------------------------------------------------
(* verifyMfaLogin and performStepUp: a time-based code or a recovery code. *)

(* findActiveTotpFactorByUserId, which also starts a regeneration.         *)
FindFactor(h) ==
  LET w == want[h] IN
  /\ pc[h] = "factor"
  /\ \E f \in WithStatus("active") :
       Goto(h, IF w.kind = "regenerate" THEN "delete" ELSE "check",
            IF w.via = "totp" THEN [NoLocal EXCEPT !.f = f, !.last = factor[f].last]
            ELSE NoLocal)
  /\ UNCHANGED <<store, observers>>

FindNoFactor(h) ==
  /\ pc[h] = "factor"
  /\ WithStatus("active") = {}
  /\ End(h)
  /\ UNCHANGED <<store, observers>>

(* verifyTotpCode accepts codes of the periods around now that come after  *)
(* the last used one; the period that is to be consumed is the present     *)
(* one, whichever the code was of.                                         *)
RightPeriod(h) ==
  /\ pc[h] = "check"
  /\ want[h].via = "totp"
  /\ now + 1 > local[h].last
  /\ Goto(h, "consumeStep", [local[h] EXCEPT !.step = now])
  /\ UNCHANGED <<store, observers>>

(* verifyAndConsumeRecoveryCode finds the code among the unused ones.      *)
RightCode(h) ==
  /\ pc[h] = "check"
  /\ want[h].via = "code"
  /\ \E k \in codes : Goto(h, "consumeCode", [NoLocal EXCEPT !.code = k])
  /\ UNCHANGED <<store, observers>>

(* A wrong answer to a challenge is counted, ...                           *)
RefuseLogin(h, replay) == Goto(h, "count", [NoLocal EXCEPT !.replay = replay])

(* ... one to a step-up is only refused, however often.                    *)
RefuseStepUp(h) == End(h)

Fail(h, replay) ==
  IF want[h].kind = "verify" THEN RefuseLogin(h, replay) ELSE RefuseStepUp(h)

Wrong(h) ==
  /\ pc[h] = "check"
  /\ Fail(h, FALSE)
  /\ UNCHANGED <<store, observers>>

Proceed(h) ==
  IF want[h].kind = "verify" THEN Goto(h, "consume", NoLocal) ELSE End(h)

(* Mutant: the UPDATE does not compare periods.                            *)
FreshAlways(r, l) == r.status = "active"

(* The WHERE clause of consumeTotpTimestep; an active factor has a period. *)
Fresh(r, l) == r.status = "active" /\ r.last < l.step /\ r.last = l.last

ConsumeStep(h) ==
  LET l == local[h] IN
  /\ pc[h] = "consumeStep"
  /\ Fresh(factor[l.f], l)
  /\ factor' = [factor EXCEPT ![l.f].last = l.step]
  /\ stepUses' = [stepUses EXCEPT ![<<l.f, l.step>>] = @ + 1]
  /\ Proceed(h)
  /\ UNCHANGED <<codes, issued, challenge, codeUses, granted, refused>>

Replay(h) ==
  LET l == local[h] IN
  /\ pc[h] = "consumeStep"
  /\ ~Fresh(factor[l.f], l)
  /\ Fail(h, TRUE)
  /\ UNCHANGED <<store, observers>>

(* consumeRecoveryCode: UPDATE ... WHERE used_at IS NULL.                  *)
ConsumeCode(h) ==
  LET k == local[h].code IN
  /\ pc[h] = "consumeCode"
  /\ k \in codes
  /\ codes' = codes \ {k}
  /\ codeUses' = [codeUses EXCEPT ![k] = @ + 1]
  /\ Proceed(h)
  /\ UNCHANGED <<factor, issued, challenge, stepUses, granted, refused>>

CodeGone(h) ==
  /\ pc[h] = "consumeCode"
  /\ local[h].code \notin codes
  /\ Fail(h, FALSE)
  /\ UNCHANGED <<store, observers>>

(* Mutant: the UPDATE does not look at consumed_at.                        *)
ConsumeAgain(h) ==
  LET c == want[h].c IN
  /\ pc[h] = "consume"
  /\ ~challenge[c].expired
  /\ challenge' = [challenge EXCEPT ![c].used = TRUE]
  /\ granted' = [granted EXCEPT ![c] = @ + 1]
  /\ End(h)
  /\ UNCHANGED <<factor, codes, issued, stepUses, codeUses, refused>>

(* consumeMfaChallenge; a session follows if it returns the row.           *)
Consume(h) ==
  LET c == want[h].c IN
  /\ pc[h] = "consume"
  /\ Open(c) /\ ~challenge[c].expired
  /\ challenge' = [challenge EXCEPT ![c].used = TRUE]
  /\ granted' = [granted EXCEPT ![c] = @ + 1]
  /\ End(h)
  /\ UNCHANGED <<factor, codes, issued, stepUses, codeUses, refused>>

ConsumeLate(h) ==
  LET c == want[h].c IN
  /\ pc[h] = "consume"
  /\ ~(Open(c) /\ ~challenge[c].expired)
  /\ End(h)
  /\ UNCHANGED <<store, observers>>

-----------------------------------------------------------------------------
(* Wrong answers to a challenge.                                           *)

(* incrementMfaChallengeAttempts, of a challenge that is not consumed.     *)
Counted(c) ==
  [challenge EXCEPT ![c].attempts = IF Open(c) THEN @ + 1 ELSE @]

Refuse(h) ==
  /\ End(h)
  /\ refused' = [refused EXCEPT ![want[h].c] = @ + 1]
  /\ UNCHANGED <<stepUses, codeUses, granted>>

(* Where the answer is found to be wrong.  A replay is not counted again.  *)
Count(h) ==
  /\ pc[h] = "count"
  /\ challenge' = Counted(want[h].c)
  /\ IF local[h].replay
     THEN Refuse(h)
     ELSE Goto(h, "countAgain", NoLocal) /\ UNCHANGED observers
  /\ UNCHANGED <<factor, codes, issued>>

(* In the catch block, which closes the challenge at the limit.            *)
CountAgain(h) ==
  LET c == want[h].c IN
  /\ pc[h] = "countAgain"
  /\ challenge' = Counted(c)
  /\ IF Open(c) /\ challenge'[c].attempts >= MaxAttempts
     THEN Goto(h, "invalidate", NoLocal) /\ UNCHANGED observers
     ELSE Refuse(h)
  /\ UNCHANGED <<factor, codes, issued>>

(* invalidateMfaChallenge.                                                 *)
Invalidate(h) ==
  LET c == want[h].c IN
  /\ pc[h] = "invalidate"
  /\ challenge' = [challenge EXCEPT ![c].used = TRUE]
  /\ Refuse(h)
  /\ UNCHANGED <<factor, codes, issued>>

-----------------------------------------------------------------------------
(* startMfaEnrollment: drop the pending factor, insert another one, of     *)
(* which the unique index allows only one.                                 *)

Disabled(which) ==
  [f \in Factors |-> IF f \in which THEN [factor[f] EXCEPT !.status = "disabled"]
                     ELSE factor[f]]

Drop(h) ==
  /\ pc[h] = "drop"
  /\ factor' = Disabled(WithStatus("pending"))
  /\ Goto(h, "insert", NoLocal)
  /\ UNCHANGED <<codes, issued, challenge, observers>>

(* Mutant: there is no such index.                                         *)
InsertAnother(h) ==
  /\ pc[h] = "insert"
  /\ WithStatus("none") # {}
  /\ factor' = [factor EXCEPT ![NewOf(WithStatus("none"))].status = "pending"]
  /\ End(h)
  /\ UNCHANGED <<codes, issued, challenge, observers>>

Insert(h) ==
  /\ pc[h] = "insert"
  /\ WithStatus("none") # {}
  /\ factor' = IF WithStatus("pending") = {}
               THEN [factor EXCEPT ![NewOf(WithStatus("none"))].status = "pending"]
               ELSE factor
  /\ End(h)
  /\ UNCHANGED <<codes, issued, challenge, observers>>

-----------------------------------------------------------------------------
(* confirmMfaEnrollment.                                                   *)

(* findPendingTotpFactorByUserId and the check of the code.                *)
FindPending(h) ==
  /\ pc[h] = "pending"
  /\ \E f \in WithStatus("pending") :
       Goto(h, "activate", [NoLocal EXCEPT !.f = f, !.step = now])
  /\ UNCHANGED <<store, observers>>

NotConfirmed(h) ==
  /\ pc[h] = "pending"
  /\ End(h)
  /\ UNCHANGED <<store, observers>>

Unissued == Codes \ issued

(* activateEnrollmentTransaction disables the other active factor,         *)
(* activates the pending one and replaces the codes.                       *)
Activate(h) ==
  LET l == local[h] IN
  /\ pc[h] = "activate"
  /\ factor[l.f].status = "pending"
  /\ factor' = [Disabled(WithStatus("active")) EXCEPT
                  ![l.f] = [status |-> "active", last |-> l.step]]
  /\ Unissued # {}
  /\ codes' = {NewOf(Unissued)}
  /\ issued' = issued \cup codes'
  /\ IF want[h].c = NoOne THEN End(h) ELSE Goto(h, "close", NoLocal)
  /\ UNCHANGED <<challenge, observers>>

(* The pending factor is gone by now: the function returns early, and the  *)
(* transaction commits what it has done so far.                            *)
ActivateNothing(h) ==
  LET l == local[h] IN
  /\ pc[h] = "activate"
  /\ factor[l.f].status # "pending"
  /\ factor' = Disabled(WithStatus("active") \ {l.f})
  /\ End(h)
  /\ UNCHANGED <<codes, issued, challenge, observers>>

(* The challenge of the enrollment is consumed.                            *)
Close(h) ==
  LET c == want[h].c IN
  /\ pc[h] = "close"
  /\ challenge' = [challenge EXCEPT ![c].used = @ \/ ~challenge[c].expired]
  /\ End(h)
  /\ UNCHANGED <<factor, codes, issued, observers>>

-----------------------------------------------------------------------------
(* regenerateRecoveryCodes and adminResetUserMfa.                          *)

DisableAll(h) ==
  /\ pc[h] = "disable"
  /\ factor' = Disabled(WithStatus("active") \cup WithStatus("pending"))
  /\ Goto(h, "delete", NoLocal)
  /\ UNCHANGED <<codes, issued, challenge, observers>>

Delete(h) ==
  /\ pc[h] = "delete"
  /\ codes' = {}
  /\ Goto(h, IF want[h].kind = "reset" THEN "closeAll" ELSE "refill", NoLocal)
  /\ UNCHANGED <<factor, issued, challenge, observers>>

Refill(h) ==
  /\ pc[h] = "refill"
  /\ Unissued # {}
  /\ codes' = codes \cup {NewOf(Unissued)}
  /\ issued' = issued \cup codes'
  /\ End(h)
  /\ UNCHANGED <<factor, challenge, observers>>

-----------------------------------------------------------------------------
(* A handler fails or its process dies; what it has written stays.         *)
Die(h) ==
  /\ pc[h] # "idle"
  /\ End(h)
  /\ UNCHANGED <<store, observers>>

Tick ==
  /\ now < MaxStep
  /\ now' = now + 1
  /\ UNCHANGED <<store, pc, want, local, observers>>

(* Only of interest while the challenge is not consumed.                   *)
Expire(c) ==
  /\ Open(c)
  /\ ~challenge[c].expired
  /\ challenge' = [challenge EXCEPT ![c].expired = TRUE]
  /\ UNCHANGED <<factor, codes, issued, now, pc, want, local, observers>>

Next ==
  \/ \E h \in Handlers :
       \/ Begin(h) \/ Look(h) \/ CloseAll(h) \/ Create(h)
       \/ Resolve(h) \/ Unresolved(h) \/ TooMany(h) \/ Bar(h)
       \/ FindFactor(h) \/ FindNoFactor(h)
       \/ RightPeriod(h) \/ RightCode(h) \/ Wrong(h)
       \/ ConsumeStep(h) \/ Replay(h) \/ ConsumeCode(h) \/ CodeGone(h)
       \/ Consume(h) \/ ConsumeLate(h)
       \/ Count(h) \/ CountAgain(h) \/ Invalidate(h)
       \/ Drop(h) \/ Insert(h)
       \/ FindPending(h) \/ NotConfirmed(h) \/ Activate(h) \/ ActivateNothing(h)
       \/ Close(h)
       \/ DisableAll(h) \/ Delete(h) \/ Refill(h)
       \/ Die(h)
  \/ Tick
  \/ \E c \in Challenges : Expire(c)

Spec == Init /\ [][Next]_vars

-----------------------------------------------------------------------------
(* Safety, however handlers overlap.                                       *)

(* A proof counts once: of the handlers that accept the same time-based    *)
(* period or the same recovery code, each after checks of its own, only    *)
(* one goes on to a session or a step-up.                                  *)
ProofsCountOnce ==
  /\ \A p \in Factors \X Periods : stepUses[p] <= 1
  /\ \A k \in Codes : codeUses[k] <= 1

(* A challenge opens at most one session, although the proof is consumed   *)
(* before it.                                                              *)
OneSessionPerChallenge == \A c \in Challenges : granted[c] <= 1

(* Requests that answer a challenge together pass the limit before any of  *)
(* them is counted, but no further than their number: counter, limit and   *)
(* the closing of the challenge are read and written in separate           *)
(* statements.                                                             *)
RefusalsAreLimited ==
  \A c \in Challenges : refused[c] <= MaxAttempts - 1 + MaxActive

(* Enrollments, regenerations and resets that overlap never leave two      *)
(* factors that are active, or two that are pending.                       *)
OneFactorEach ==
  \A s \in {"active", "pending"} : \A f, g \in WithStatus(s) : f = g

(* The last period of a factor never goes back, so what has been refused   *)
(* as a replay stays refused, although the period a handler writes was     *)
(* computed some awaits before.                                            *)
PeriodsMoveForward ==
  [][\A f \in Factors : factor[f].last <= factor'[f].last]_vars

=============================================================================

------------------------ MODULE AdministrationProofs ------------------------
(***************************************************************************)
(* Theorems about MCAdministration and its parts: the second factor of an  *)
(* account, for any number of factors, codes, challenges, overlapping      *)
(* handlers and periods, and the settings of the site, for any number of   *)
(* pages and images.                                                       *)
(***************************************************************************)
EXTENDS MCAdministration, FiniteSetTheorems, TLAPS

(* The part of the invariant for each table, with its observers.  A factor *)
(* that is not active yet has no last period, and no period after the last *)
(* one has proved anything.                                                *)
FactorsOk ==
  /\ factor \in [Factors -> FactorRows]
  /\ stepUses \in [Factors \X Periods -> Nat]
  /\ OneFactorEach
  /\ \A f \in Factors : factor[f].status \in {"none", "pending"} => factor[f].last = 0
  /\ \A f \in Factors, s \in Periods :
       /\ s > factor[f].last => stepUses[<<f, s>>] = 0
       /\ stepUses[<<f, s>>] <= 1

(* A code that is stored, or has yet to be, has not been a proof.          *)
CodesOk ==
  /\ codes \subseteq issued
  /\ issued \subseteq Codes
  /\ codeUses \in [Codes -> Nat]
  /\ \A k \in Codes :
       /\ k \in codes \/ k \notin issued => codeUses[k] = 0
       /\ codeUses[k] <= 1

(* A challenge that is not consumed has not opened a session.              *)
ChallengesOk ==
  /\ challenge \in [Challenges -> ChallengeRows]
  /\ granted \in [Challenges -> Nat]
  /\ refused \in [Challenges -> Nat]
  /\ \A c \in Challenges :
       /\ ~challenge[c].used => granted[c] = 0
       /\ granted[c] <= 1

(* What a handler asked for w has at hand at a step: the challenge it      *)
(* answers, the factor and the period, or the code.                        *)
StepOk(step, w, l) ==
  /\ step # "idle" => w \in Wants
  /\ step \in {"resolve", "bar", "consume", "count", "countAgain", "invalidate",
               "close"} => w.c \in Challenges
  /\ step = "check" /\ w.via = "totp" => l.f \in Factors
  /\ step \in {"consumeStep", "activate"} => l.f \in Factors /\ l.step \in Periods
  /\ step = "consumeCode" => l.code \in Codes

HandlersOk ==
  /\ now \in Periods
  /\ pc \in [Handlers -> Steps]
  /\ want \in [Handlers -> Wants \cup {NoWant}]
  /\ local \in [Handlers -> Locals]
  /\ \A h \in Handlers : StepOk(pc[h], want[h], local[h])

IInv == FactorsOk /\ CodesOk /\ ChallengesOk /\ HandlersOk

-----------------------------------------------------------------------------
(* Steps of handlers.                                                      *)

(* Which wants have a challenge.                                           *)
LEMMA WantsAre ==
  ASSUME NEW w \in Wants
  PROVE  /\ w.c \in Challenges \cup {NoOne}
         /\ w.kind = "verify" => w.c \in Challenges
         /\ w.kind \in {"login", "regenerate", "reset", "stepUp", "verify",
                        "start", "confirm"}
BY DEF Wants

(* What handlers keep of what they read is a local state.                  *)
LEMMA LocalTypes ==
  /\ NoLocal \in Locals
  /\ \A p \in {"login", "enrollment"} : [NoLocal EXCEPT !.purpose = p] \in Locals
  /\ \A b \in BOOLEAN : [NoLocal EXCEPT !.replay = b] \in Locals
  /\ \A k \in Codes : /\ [NoLocal EXCEPT !.code = k] \in Locals
                      /\ [NoLocal EXCEPT !.code = k].code = k
  /\ \A f \in Factors, s \in 0..MaxStep :
       /\ [NoLocal EXCEPT !.f = f, !.last = s] \in Locals
       /\ [NoLocal EXCEPT !.f = f, !.last = s].f = f
       /\ [NoLocal EXCEPT !.f = f, !.step = s] \in Locals
       /\ [NoLocal EXCEPT !.f = f, !.step = s].f = f
       /\ [NoLocal EXCEPT !.f = f, !.step = s].step = s
<1>1. 0 \in 0..MaxStep
  BY BoundsAssumption
<1> QED BY <1>1 DEF NoLocal, Locals

(* A handler that goes on with what its next step needs.                   *)
LEMMA GotoOk ==
  ASSUME HandlersOk, NEW h \in Handlers, NEW step \in Steps, NEW l \in Locals,
         Goto(h, step, l), StepOk(step, want[h], l)
  PROVE  HandlersOk'
<1>1. /\ now' \in Periods /\ pc' \in [Handlers -> Steps]
      /\ want' \in [Handlers -> Wants \cup {NoWant}]
      /\ local' \in [Handlers -> Locals]
      /\ pc'[h] = step /\ local'[h] = l /\ want'[h] = want[h]
      /\ \A g \in Handlers \ {h} :
           pc'[g] = pc[g] /\ want'[g] = want[g] /\ local'[g] = local[g]
  BY DEF HandlersOk, Goto
<1>2. ASSUME NEW g \in Handlers PROVE StepOk(pc'[g], want'[g], local'[g])
  <2>1. CASE g = h
    BY <2>1, <1>1
  <2>2. CASE g # h
    <3>1. pc'[g] = pc[g] /\ want'[g] = want[g] /\ local'[g] = local[g]
      BY <2>2, <1>1
    <3> QED BY <3>1 DEF HandlersOk
  <2> QED BY <2>1, <2>2
<1> QED BY <1>1, <1>2 DEF HandlersOk

(* A handler that ends needs nothing.                                      *)
LEMMA EndOk ==
  ASSUME HandlersOk, NEW h \in Handlers, End(h)
  PROVE  HandlersOk'
<1>1. /\ now' \in Periods /\ pc' \in [Handlers -> Steps]
      /\ want' \in [Handlers -> Wants \cup {NoWant}]
      /\ local' \in [Handlers -> Locals]
      /\ pc'[h] = "idle"
      /\ \A g \in Handlers \ {h} :
           pc'[g] = pc[g] /\ want'[g] = want[g] /\ local'[g] = local[g]
  BY LocalTypes DEF HandlersOk, End, Steps
<1>2. ASSUME NEW g \in Handlers PROVE StepOk(pc'[g], want'[g], local'[g])
  <2>1. CASE g = h
    BY <2>1, <1>1 DEF StepOk
  <2>2. CASE g # h
    <3>1. pc'[g] = pc[g] /\ want'[g] = want[g] /\ local'[g] = local[g]
      BY <2>2, <1>1
    <3> QED BY <3>1 DEF HandlersOk
  <2> QED BY <2>1, <2>2
<1> QED BY <1>1, <1>2 DEF HandlersOk

(* The steps that need nothing but a want.                                 *)
Free == {"look", "create", "factor", "drop", "insert", "pending", "delete",
         "refill", "disable", "closeAll"}

(* A handler that is under way may go to any of them.                      *)
LEMMA GotoFree ==
  ASSUME HandlersOk, NEW h \in Handlers, pc[h] # "idle",
         NEW step \in Free, NEW l \in Locals, Goto(h, step, l)
  PROVE  HandlersOk'
<1>1. step \in Steps /\ StepOk(step, want[h], l)
  BY DEF HandlersOk, StepOk, Free, Steps
<1> QED BY <1>1, GotoOk

(* One that has a challenge may go wherever only that is needed.           *)
LEMMA GotoChallenge ==
  ASSUME HandlersOk, NEW h \in Handlers, pc[h] # "idle", want[h].c \in Challenges,
         NEW step \in {"bar", "consume", "count", "countAgain", "invalidate", "close"},
         NEW l \in Locals, Goto(h, step, l)
  PROVE  HandlersOk'
<1>1. step \in Steps /\ StepOk(step, want[h], l)
  BY DEF HandlersOk, StepOk, Steps
<1> QED BY <1>1, GotoOk

(* A wrong answer leads to a count or to the end.                          *)
LEMMA FailOk ==
  ASSUME HandlersOk, NEW h \in Handlers, pc[h] # "idle", NEW b \in BOOLEAN, Fail(h, b)
  PROVE  HandlersOk'
<1>1. CASE want[h].kind = "verify"
  <2>1. Goto(h, "count", [NoLocal EXCEPT !.replay = b])
    BY <1>1 DEF Fail, RefuseLogin
  <2>2. want[h].c \in Challenges
    BY <1>1, WantsAre DEF HandlersOk, StepOk
  <2>3. [NoLocal EXCEPT !.replay = b] \in Locals
    BY LocalTypes
  <2> QED BY <2>1, <2>2, <2>3, GotoChallenge
<1>2. CASE want[h].kind # "verify"
  BY <1>2, EndOk DEF Fail, RefuseStepUp
<1> QED BY <1>1, <1>2

(* A right one leads to the challenge or to the end.                       *)
LEMMA ProceedOk ==
  ASSUME HandlersOk, NEW h \in Handlers, pc[h] # "idle", Proceed(h)
  PROVE  HandlersOk'
<1>1. CASE want[h].kind = "verify"
  <2>1. Goto(h, "consume", NoLocal)
    BY <1>1 DEF Proceed
  <2>2. want[h].c \in Challenges
    BY <1>1, WantsAre DEF HandlersOk, StepOk
  <2> QED BY <2>1, <2>2, LocalTypes, GotoChallenge
<1>2. CASE want[h].kind # "verify"
  BY <1>2, EndOk DEF Proceed
<1> QED BY <1>1, <1>2

-----------------------------------------------------------------------------
(* Steps that change nothing in the tables.                                *)

(* They keep what the invariant says of the tables.                        *)
LEMMA TablesKept ==
  ASSUME IInv, UNCHANGED <<store, observers>>
  PROVE  FactorsOk' /\ CodesOk' /\ ChallengesOk'
<1>1. FactorsOk'
  BY DEF IInv, FactorsOk, OneFactorEach, WithStatus, store, observers
<1>2. CodesOk'
  BY DEF IInv, CodesOk, store, observers
<1>3. ChallengesOk'
  BY DEF IInv, ChallengesOk, store, observers
<1> QED BY <1>1, <1>2, <1>3

(* A handler begins where its want tells it to.                            *)
LEMMA BeginOk ==
  ASSUME IInv, NEW h \in Handlers, Begin(h)
  PROVE  IInv'
<1>1. PICK w \in Inputs : want' = [want EXCEPT ![h] = w]
                         /\ pc' = [pc EXCEPT ![h] = FirstStep(w)]
  BY DEF Begin
<1>2. w \in Wants
  BY InputsAssumption
<1>3. FirstStep(w) \in Steps /\ StepOk(FirstStep(w), w, local[h])
  BY <1>2, WantsAre DEF FirstStep, StepOk, Steps
<1>4. /\ now' \in Periods /\ pc' \in [Handlers -> Steps]
      /\ want' \in [Handlers -> Wants \cup {NoWant}]
      /\ local' \in [Handlers -> Locals]
      /\ pc'[h] = FirstStep(w) /\ local' = local /\ want'[h] = w
      /\ \A g \in Handlers \ {h} : pc'[g] = pc[g] /\ want'[g] = want[g]
  BY <1>1, <1>2, <1>3 DEF IInv, HandlersOk, Begin
<1>5. ASSUME NEW g \in Handlers PROVE StepOk(pc'[g], want'[g], local'[g])
  <2>1. CASE g = h
    BY <2>1, <1>3, <1>4
  <2>2. CASE g # h
    <3>1. pc'[g] = pc[g] /\ want'[g] = want[g] /\ local'[g] = local[g]
      BY <2>2, <1>4
    <3> QED BY <3>1 DEF IInv, HandlersOk
  <2> QED BY <2>1, <2>2
<1>6. HandlersOk'
  BY <1>4, <1>5 DEF HandlersOk
<1> QED BY <1>6, TablesKept DEF IInv, Begin

(* The reads and the checks of what has been read.                         *)
LEMMA ReadsOk ==
  ASSUME IInv, NEW h \in Handlers,
         \/ Look(h) \/ Resolve(h) \/ Unresolved(h) \/ TooMany(h)
         \/ FindFactor(h) \/ FindNoFactor(h)
         \/ RightPeriod(h) \/ RightCode(h) \/ Wrong(h) \/ Replay(h) \/ CodeGone(h)
         \/ ConsumeLate(h) \/ FindPending(h) \/ NotConfirmed(h) \/ Die(h)
  PROVE  IInv'
<1> USE DEF IInv
<1>0. pc[h] # "idle" /\ UNCHANGED <<store, observers>>
  BY DEF Look, Resolve, Unresolved, TooMany, FindFactor, FindNoFactor,
         RightPeriod, RightCode, Wrong, Replay, CodeGone, ConsumeLate, FindPending,
         NotConfirmed, Die
<1>a. want[h] \in Wants /\ local[h] \in Locals
  BY <1>0 DEF HandlersOk, StepOk
<1> SUFFICES HandlersOk'
  BY <1>0, TablesKept
<1>1. CASE Look(h)
  <2>1. PICK l \in Locals : Goto(h, "closeAll", l)
    BY <1>1, LocalTypes DEF Look
  <2> QED BY <2>1, <1>0, GotoFree DEF Free
<1>2. CASE Resolve(h)
  <2>1. want[h].c \in Challenges
    BY <1>2 DEF Resolve, HandlersOk, StepOk
  <2>2. CASE want[h].kind = "start"
    BY <2>2, <1>2, <1>0, LocalTypes, GotoFree DEF Resolve, Free
  <2>3. CASE want[h].kind = "confirm"
    BY <2>3, <1>2, <1>0, LocalTypes, GotoFree DEF Resolve, Free
  <2>4. CASE want[h].kind \notin {"start", "confirm"} /\ want[h].via = "totp"
    BY <2>4, <1>2, <1>0, LocalTypes, GotoFree DEF Resolve, Free
  <2>5. CASE want[h].kind \notin {"start", "confirm"} /\ want[h].via # "totp"
    <3>1. Goto(h, "check", NoLocal)
      BY <2>5, <1>2 DEF Resolve
    <3>2. "check" \in Steps /\ StepOk("check", want[h], NoLocal)
      BY <2>5, <1>a DEF StepOk, Steps
    <3> QED BY <3>1, <3>2, LocalTypes, GotoOk
  <2> QED BY <2>2, <2>3, <2>4, <2>5
<1>3. CASE Unresolved(h) \/ FindNoFactor(h) \/ ConsumeLate(h) \/ NotConfirmed(h) \/ Die(h)
  <2>1. End(h)
    BY <1>3 DEF Unresolved, FindNoFactor, ConsumeLate, NotConfirmed, Die
  <2> QED BY <2>1, EndOk
<1>4. CASE TooMany(h)
  <2>1. Goto(h, "bar", NoLocal) /\ want[h].c \in Challenges
    BY <1>4 DEF TooMany, HandlersOk, StepOk
  <2> QED BY <2>1, <1>0, LocalTypes, GotoChallenge
<1>5. CASE FindFactor(h)
  <2>1. CASE want[h].kind = "regenerate"
    <3>1. PICK l \in Locals : Goto(h, "delete", l)
      <4>1. PICK f \in Factors : Goto(h, "delete",
              IF want[h].via = "totp" THEN [NoLocal EXCEPT !.f = f, !.last = factor[f].last]
              ELSE NoLocal)
        BY <1>5, <2>1 DEF FindFactor, WithStatus
      <4>2. factor[f].last \in 0..MaxStep
        BY <4>1 DEF FactorsOk, FactorRows
      <4> QED BY <4>1, <4>2, LocalTypes
    <3> QED BY <3>1, <1>0, GotoFree DEF Free
  <2>2. CASE want[h].kind # "regenerate"
    <3>1. PICK f \in Factors : Goto(h, "check",
            IF want[h].via = "totp" THEN [NoLocal EXCEPT !.f = f, !.last = factor[f].last]
            ELSE NoLocal)
      BY <1>5, <2>2 DEF FindFactor, WithStatus
    <3>2. factor[f].last \in 0..MaxStep
      BY DEF FactorsOk, FactorRows
    <3> DEFINE l == IF want[h].via = "totp"
                    THEN [NoLocal EXCEPT !.f = f, !.last = factor[f].last] ELSE NoLocal
    <3>3. l \in Locals /\ (want[h].via = "totp" => l.f \in Factors)
      BY <3>2, LocalTypes
    <3> HIDE DEF l
    <3>4. "check" \in Steps /\ StepOk("check", want[h], l)
      BY <3>3, <1>a DEF StepOk, Steps
    <3>5. Goto(h, "check", l)
      BY <3>1 DEF l
    <3> QED BY <3>3, <3>4, <3>5, GotoOk
  <2> QED BY <2>1, <2>2
<1>6. CASE RightPeriod(h)
  <2> DEFINE l == [local[h] EXCEPT !.step = now]
  <2>1. local[h].f \in Factors
    BY <1>6 DEF RightPeriod, HandlersOk, StepOk
  <2>2. now \in Periods /\ now \in 0..MaxStep
    BY BoundsAssumption DEF HandlersOk, Periods
  <2>3. l \in Locals /\ l.f \in Factors /\ l.step \in Periods
    BY <2>1, <2>2, <1>a DEF Locals
  <2>4. Goto(h, "consumeStep", l)
    BY <1>6 DEF RightPeriod
  <2> HIDE DEF l
  <2>5. "consumeStep" \in Steps /\ StepOk("consumeStep", want[h], l)
    BY <2>3, <1>a DEF StepOk, Steps
  <2> QED BY <2>3, <2>4, <2>5, GotoOk
<1>7. CASE RightCode(h)
  <2>1. PICK k \in codes : Goto(h, "consumeCode", [NoLocal EXCEPT !.code = k])
    BY <1>7 DEF RightCode
  <2> DEFINE l == [NoLocal EXCEPT !.code = k]
  <2>2. k \in Codes
    BY DEF CodesOk
  <2>3. l \in Locals /\ l.code \in Codes
    BY <2>2, LocalTypes
  <2>4. Goto(h, "consumeCode", l)
    BY <2>1
  <2> HIDE DEF l
  <2>5. "consumeCode" \in Steps /\ StepOk("consumeCode", want[h], l)
    BY <2>3, <1>a DEF StepOk, Steps
  <2> QED BY <2>3, <2>4, <2>5, GotoOk
<1>8. CASE Wrong(h) \/ Replay(h) \/ CodeGone(h)
  <2>1. PICK b \in BOOLEAN : Fail(h, b)
    BY <1>8 DEF Wrong, Replay, CodeGone
  <2> QED BY <2>1, <1>0, FailOk
<1>9. CASE FindPending(h)
  <2>1. PICK f \in Factors : Goto(h, "activate", [NoLocal EXCEPT !.f = f, !.step = now])
    BY <1>9 DEF FindPending, WithStatus
  <2> DEFINE l == [NoLocal EXCEPT !.f = f, !.step = now]
  <2>2. now \in Periods /\ now \in 0..MaxStep
    BY BoundsAssumption DEF HandlersOk, Periods
  <2>3. l \in Locals /\ l.f \in Factors /\ l.step \in Periods
    BY <2>2, LocalTypes
  <2>4. Goto(h, "activate", l)
    BY <2>1
  <2> HIDE DEF l
  <2>5. "activate" \in Steps /\ StepOk("activate", want[h], l)
    BY <2>3, <1>a DEF StepOk, Steps
  <2> QED BY <2>3, <2>4, <2>5, GotoOk
<1> QED BY <1>1, <1>2, <1>3, <1>4, <1>5, <1>6, <1>7, <1>8, <1>9

-----------------------------------------------------------------------------
(* Steps on the factors.                                                   *)

(* Only factors that are active or pending are ever disabled, which keeps  *)
(* their periods and makes nobody active or pending.                       *)
LEMMA DisabledOk ==
  ASSUME FactorsOk,
         NEW which \in SUBSET (WithStatus("active") \cup WithStatus("pending")),
         factor' = Disabled(which), UNCHANGED stepUses
  PROVE  /\ FactorsOk'
         /\ \A f \in Factors : factor'[f].last = factor[f].last
<1>1. \A f \in Factors :
        /\ factor'[f].status = IF f \in which THEN "disabled" ELSE factor[f].status
        /\ factor'[f].last = factor[f].last
        /\ factor'[f] \in FactorRows
  BY DEF FactorsOk, Disabled, FactorRows
<1>2. factor' \in [Factors -> FactorRows]
  BY <1>1 DEF Disabled
<1>3. OneFactorEach'
  BY <1>1 DEF FactorsOk, OneFactorEach, WithStatus
<1> QED BY <1>1, <1>2, <1>3 DEF FactorsOk

(* A new pending factor, where there is none.                              *)
LEMMA InsertedOk ==
  ASSUME FactorsOk, NEW g \in WithStatus("none"), WithStatus("pending") = {},
         factor' = [factor EXCEPT ![g].status = "pending"], UNCHANGED stepUses
  PROVE  /\ FactorsOk'
         /\ \A f \in Factors : factor'[f].last = factor[f].last
<1>1. g \in Factors
  BY DEF WithStatus
<1>2. \A f \in Factors :
        /\ factor'[f].status = IF f = g THEN "pending" ELSE factor[f].status
        /\ factor'[f].last = factor[f].last
        /\ factor'[f] \in FactorRows
  BY <1>1 DEF FactorsOk, FactorRows
<1>3. factor' \in [Factors -> FactorRows]
  BY <1>1, <1>2 DEF FactorsOk
<1>4. OneFactorEach'
  BY <1>2 DEF FactorsOk, OneFactorEach, WithStatus
<1>5. factor[g].status = "none"
  BY DEF WithStatus
<1>6. \A f \in Factors : factor'[f].status \in {"none", "pending"} => factor'[f].last = 0
  BY <1>2, <1>5 DEF FactorsOk
<1> QED BY <1>2, <1>3, <1>4, <1>6 DEF FactorsOk

(* The one pending factor becomes active and the others are not; it has    *)
(* not proved anything before.                                             *)
LEMMA ActivatedOk ==
  ASSUME FactorsOk, NEW g \in Factors, NEW s \in Periods, factor[g].status = "pending",
         factor' = [Disabled(WithStatus("active")) EXCEPT
                      ![g] = [status |-> "active", last |-> s]],
         UNCHANGED stepUses
  PROVE  /\ FactorsOk'
         /\ \A f \in Factors : factor[f].last <= factor'[f].last
<1>1. s \in 0..MaxStep /\ s \in Nat /\ s >= 0
  BY BoundsAssumption DEF Periods
<1>2. \A f \in Factors :
        /\ factor'[f].status =
             IF f = g THEN "active"
             ELSE IF factor[f].status = "active" THEN "disabled" ELSE factor[f].status
        /\ factor'[f].last = IF f = g THEN s ELSE factor[f].last
        /\ factor'[f] \in FactorRows
  BY <1>1 DEF FactorsOk, Disabled, FactorRows, WithStatus
<1>3. factor' \in [Factors -> FactorRows]
  BY <1>2 DEF Disabled
<1>4. OneFactorEach'
  BY <1>2 DEF FactorsOk, OneFactorEach, WithStatus
<1>5. factor[g].last = 0
  BY DEF FactorsOk
<1>6. \A f \in Factors : factor'[f].status \in {"none", "pending"} => factor'[f].last = 0
  BY <1>2 DEF FactorsOk
<1>7. \A f \in Factors : factor[f].last <= factor'[f].last
  BY <1>1, <1>2, <1>5 DEF FactorsOk, FactorRows
<1>8. ASSUME NEW f \in Factors, NEW t \in Periods, t > factor'[f].last
      PROVE  stepUses[<<f, t>>] = 0
  <2>1. t > factor[f].last
    BY <1>7, <1>8, <1>3, BoundsAssumption DEF FactorsOk, FactorRows, Periods
  <2> QED BY <2>1 DEF FactorsOk
<1> QED BY <1>2, <1>3, <1>4, <1>6, <1>7, <1>8 DEF FactorsOk

(* A period that is consumed comes after the last one, so that it has not  *)
(* proved anything before and nothing after it has.                        *)
LEMMA ConsumedOk ==
  ASSUME FactorsOk, NEW g \in Factors, NEW s \in Periods,
         factor[g].status = "active", factor[g].last < s,
         factor' = [factor EXCEPT ![g].last = s],
         stepUses' = [stepUses EXCEPT ![<<g, s>>] = @ + 1]
  PROVE  /\ FactorsOk'
         /\ \A f \in Factors : factor[f].last <= factor'[f].last
<1>1. s \in 0..MaxStep /\ s \in Nat
  BY BoundsAssumption DEF Periods
<1>2. \A f \in Factors :
        /\ factor'[f].status = factor[f].status
        /\ factor'[f].last = IF f = g THEN s ELSE factor[f].last
        /\ factor'[f] \in FactorRows
  BY <1>1 DEF FactorsOk, FactorRows
<1>3. factor' \in [Factors -> FactorRows]
  BY <1>2 DEF FactorsOk
<1>4. OneFactorEach'
  BY <1>2 DEF FactorsOk, OneFactorEach, WithStatus
<1>5. \A f \in Factors : factor'[f].status \in {"none", "pending"} => factor'[f].last = 0
  BY <1>2 DEF FactorsOk
<1>6. \A f \in Factors : factor[f].last <= factor'[f].last
  BY <1>1, <1>2 DEF FactorsOk, FactorRows
<1>7. stepUses[<<g, s>>] = 0
  BY <1>1 DEF FactorsOk, FactorRows
<1>8. /\ stepUses' \in [Factors \X Periods -> Nat]
      /\ stepUses'[<<g, s>>] = 1
      /\ \A f \in Factors, t \in Periods :
           f # g \/ t # s => stepUses'[<<f, t>>] = stepUses[<<f, t>>]
  BY <1>7 DEF FactorsOk
<1>9. ASSUME NEW f \in Factors, NEW t \in Periods
      PROVE  /\ t > factor'[f].last => stepUses'[<<f, t>>] = 0
             /\ stepUses'[<<f, t>>] <= 1
  <2>1. t \in Nat /\ factor[f].last \in Nat
    BY DEF Periods, FactorsOk, FactorRows
  <2>2. CASE f = g /\ t = s
    BY <2>2, <1>1, <1>2, <1>8
  <2>3. CASE f # g \/ t # s
    <3>1. stepUses'[<<f, t>>] = stepUses[<<f, t>>]
      BY <2>3, <1>8
    <3>2. t > factor'[f].last => t > factor[f].last
      BY <1>1, <1>2, <2>1
    <3> QED BY <3>1, <3>2 DEF FactorsOk
  <2> QED BY <2>2, <2>3
<1> QED BY <1>3, <1>4, <1>5, <1>6, <1>8, <1>9 DEF FactorsOk

-----------------------------------------------------------------------------
(* Steps on the codes and the challenges.                                  *)

(* What a step that stays away from a table leaves of its invariant.       *)
LEMMA PartsKept ==
  /\ FactorsOk /\ UNCHANGED <<factor, stepUses>> => FactorsOk'
  /\ CodesOk /\ UNCHANGED <<codes, issued, codeUses>> => CodesOk'
  /\ ChallengesOk /\ UNCHANGED <<challenge, granted, refused>> => ChallengesOk'
<1>1. FactorsOk /\ UNCHANGED <<factor, stepUses>> => FactorsOk'
  BY DEF FactorsOk, OneFactorEach, WithStatus
<1>2. CodesOk /\ UNCHANGED <<codes, issued, codeUses>> => CodesOk'
  BY DEF CodesOk
<1>3. ChallengesOk /\ UNCHANGED <<challenge, granted, refused>> => ChallengesOk'
  BY DEF ChallengesOk
<1> QED BY <1>1, <1>2, <1>3

(* A set of codes that was never stored joins those that stay.             *)
LEMMA IssuedOk ==
  ASSUME CodesOk, NEW stay \in SUBSET codes, Unissued # {},
         codes' = stay \cup {NewOf(Unissued)}, issued' = issued \cup codes',
         UNCHANGED codeUses
  PROVE  CodesOk'
<1>1. NewOf(Unissued) \in Codes /\ NewOf(Unissued) \notin issued
  BY DEF NewOf, Unissued
<1> QED BY <1>1 DEF CodesOk

(* A challenge that changes as a row, without opening a session, and stays *)
(* consumed if it is.                                                      *)
LEMMA RowOk ==
  ASSUME ChallengesOk,
         challenge' \in [Challenges -> ChallengeRows],
         \A c \in Challenges : challenge[c].used => challenge'[c].used,
         UNCHANGED granted, refused' \in [Challenges -> Nat]
  PROVE  ChallengesOk'
BY DEF ChallengesOk

(* A counted attempt is such a change.                                     *)
LEMMA CountedOk ==
  ASSUME ChallengesOk, NEW c \in Challenges
  PROVE  /\ Counted(c) \in [Challenges -> ChallengeRows]
         /\ \A d \in Challenges : challenge[d].used => Counted(c)[d].used
BY DEF ChallengesOk, Counted, ChallengeRows

(* So is a refusal, to the observers.                                      *)
LEMMA RefuseOk ==
  ASSUME ChallengesOk, HandlersOk, NEW h \in Handlers, want[h].c \in Challenges, Refuse(h)
  PROVE  /\ HandlersOk' /\ refused' \in [Challenges -> Nat]
         /\ UNCHANGED <<stepUses, codeUses, granted>>
BY EndOk DEF Refuse, ChallengesOk

(* And the closing of a challenge.                                         *)
LEMMA UsedOk ==
  ASSUME ChallengesOk, NEW c \in Challenges
  PROVE  /\ [challenge EXCEPT ![c].used = TRUE] \in [Challenges -> ChallengeRows]
         /\ \A d \in Challenges :
              challenge[d].used => [challenge EXCEPT ![c].used = TRUE][d].used
         /\ [challenge EXCEPT ![c].used = TRUE][c].used
BY DEF ChallengesOk, ChallengeRows

-----------------------------------------------------------------------------
(* Every step keeps the invariant, and every step moves periods forward.   *)

(* The step of a handler on the factors.                                   *)
FactorStep(h) ==
  \/ ConsumeStep(h) \/ Drop(h) \/ Insert(h) \/ Activate(h) \/ ActivateNothing(h)
  \/ DisableAll(h)

(* No step on the factors breaks the invariant or takes a period back.     *)
LEMMA FactorStepOk ==
  ASSUME IInv, NEW h \in Handlers, FactorStep(h)
  PROVE  IInv' /\ \A f \in Factors : factor[f].last <= factor'[f].last
<1> USE DEF IInv
<1>0. pc[h] # "idle" /\ want[h] \in Wants
  BY DEF FactorStep, ConsumeStep, Drop, Insert, Activate, ActivateNothing,
         DisableAll, HandlersOk, StepOk
<1>a. \A f \in Factors : factor[f].last \in Nat
  BY DEF FactorsOk, FactorRows
<1>1. CASE ConsumeStep(h)
  <2> DEFINE g == local[h].f
             s == local[h].step
  <2>1. g \in Factors /\ s \in Periods
    BY <1>1 DEF ConsumeStep, HandlersOk, StepOk
  <2>2. factor[g].status = "active" /\ factor[g].last < s
    BY <1>1 DEF ConsumeStep, Fresh
  <2>3. /\ factor' = [factor EXCEPT ![g].last = s]
        /\ stepUses' = [stepUses EXCEPT ![<<g, s>>] = @ + 1]
        /\ Proceed(h)
        /\ UNCHANGED <<codes, issued, challenge, codeUses, granted, refused>>
    BY <1>1 DEF ConsumeStep
  <2> HIDE DEF g, s
  <2>4. FactorsOk' /\ \A f \in Factors : factor[f].last <= factor'[f].last
    BY <2>1, <2>2, <2>3, ConsumedOk
  <2>5. HandlersOk'
    BY <2>3, <1>0, ProceedOk
  <2> QED BY <2>3, <2>4, <2>5, PartsKept
<1>2. CASE Drop(h) \/ DisableAll(h)
  <2>1. PICK which \in SUBSET (WithStatus("active") \cup WithStatus("pending")) :
          factor' = Disabled(which)
    BY <1>2 DEF Drop, DisableAll
  <2>2. UNCHANGED <<codes, issued, challenge, observers>>
    BY <1>2 DEF Drop, DisableAll
  <2>3. FactorsOk' /\ \A f \in Factors : factor'[f].last = factor[f].last
    BY <2>1, <2>2, DisabledOk DEF observers
  <2>4. HandlersOk'
    BY <1>2, <1>0, LocalTypes, GotoFree DEF Drop, DisableAll, Free
  <2> QED BY <2>2, <2>3, <2>4, <1>a, PartsKept DEF observers
<1>3. CASE Insert(h)
  <2>1. UNCHANGED <<codes, issued, challenge, observers>> /\ HandlersOk'
    BY <1>3, EndOk DEF Insert
  <2>2. CASE WithStatus("pending") = {}
    <3> DEFINE g == NewOf(WithStatus("none"))
    <3>1. g \in WithStatus("none")
      BY <1>3 DEF Insert, NewOf
    <3>2. factor' = [factor EXCEPT ![g].status = "pending"]
      BY <1>3, <2>2 DEF Insert
    <3> HIDE DEF g
    <3>3. FactorsOk' /\ \A f \in Factors : factor'[f].last = factor[f].last
      BY <2>1, <2>2, <3>1, <3>2, InsertedOk DEF observers
    <3> QED BY <2>1, <3>3, <1>a, PartsKept DEF observers
  <2>3. CASE WithStatus("pending") # {}
    <3>1. factor' = factor
      BY <1>3, <2>3 DEF Insert
    <3> QED BY <2>1, <3>1, <1>a, PartsKept DEF observers
  <2> QED BY <2>2, <2>3
<1>4. CASE Activate(h)
  <2> DEFINE g == local[h].f
             s == local[h].step
  <2>1. g \in Factors /\ s \in Periods
    BY <1>4 DEF Activate, HandlersOk, StepOk
  <2>2. /\ factor[g].status = "pending"
        /\ factor' = [Disabled(WithStatus("active")) EXCEPT
                        ![g] = [status |-> "active", last |-> s]]
        /\ Unissued # {}
        /\ codes' = {NewOf(Unissued)}
        /\ issued' = issued \cup codes'
        /\ UNCHANGED <<challenge, observers>>
    BY <1>4 DEF Activate
  <2> HIDE DEF g, s
  <2>3. FactorsOk' /\ \A f \in Factors : factor[f].last <= factor'[f].last
    BY <2>1, <2>2, ActivatedOk DEF observers
  <2>4. CodesOk'
    <3>1. {} \in SUBSET codes /\ codes' = {} \cup {NewOf(Unissued)}
      BY <2>2
    <3> QED BY <3>1, <2>2, IssuedOk DEF observers
  <2>5. HandlersOk'
    <3>1. CASE want[h].c = NoOne
      BY <3>1, <1>4, EndOk DEF Activate
    <3>2. CASE want[h].c # NoOne
      <4>1. want[h].c \in Challenges /\ Goto(h, "close", NoLocal)
        BY <3>2, <1>0, <1>4, WantsAre DEF Activate
      <4> QED BY <4>1, <1>0, LocalTypes, GotoChallenge
    <3> QED BY <3>1, <3>2
  <2> QED BY <2>2, <2>3, <2>4, <2>5, PartsKept DEF observers
<1>5. CASE ActivateNothing(h)
  <2>1. WithStatus("active") \ {local[h].f}
          \in SUBSET (WithStatus("active") \cup WithStatus("pending"))
    OBVIOUS
  <2>2. /\ factor' = Disabled(WithStatus("active") \ {local[h].f})
        /\ UNCHANGED <<codes, issued, challenge, observers>> /\ HandlersOk'
    BY <1>5, EndOk DEF ActivateNothing
  <2>3. FactorsOk' /\ \A f \in Factors : factor'[f].last = factor[f].last
    BY <2>1, <2>2, DisabledOk DEF observers
  <2> QED BY <2>2, <2>3, <1>a, PartsKept DEF observers
<1> QED BY <1>1, <1>2, <1>3, <1>4, <1>5 DEF FactorStep

(* The steps of a handler on the codes and on the challenges.              *)
OtherStep(h) ==
  \/ ConsumeCode(h) \/ Delete(h) \/ Refill(h)
  \/ CloseAll(h) \/ Create(h) \/ Bar(h) \/ Consume(h)
  \/ Count(h) \/ CountAgain(h) \/ Invalidate(h) \/ Close(h)

(* None of them breaks the invariant either.                               *)
LEMMA OtherStepOk ==
  ASSUME IInv, NEW h \in Handlers, OtherStep(h)
  PROVE  IInv' /\ UNCHANGED factor
<1> USE DEF IInv
<1>0. pc[h] # "idle" /\ want[h] \in Wants
  BY DEF OtherStep, ConsumeCode, Delete, Refill, CloseAll, Create, Bar, Consume,
         Count, CountAgain, Invalidate, Close, HandlersOk, StepOk
<1>1. CASE ConsumeCode(h)
  <2>1. PICK k \in Codes : /\ k \in codes /\ codes' = codes \ {k}
                          /\ codeUses' = [codeUses EXCEPT ![k] = @ + 1]
    BY <1>1 DEF ConsumeCode, HandlersOk, StepOk
  <2>2. /\ UNCHANGED <<factor, issued, challenge, stepUses, granted, refused>>
        /\ Proceed(h)
    BY <1>1 DEF ConsumeCode
  <2>3. CodesOk'
    BY <2>1, <2>2 DEF CodesOk
  <2> QED BY <2>2, <2>3, <1>0, ProceedOk, PartsKept
<1>2. CASE Delete(h)
  <2>1. codes' = {} /\ UNCHANGED <<factor, issued, challenge, observers>>
    BY <1>2 DEF Delete
  <2>2. CodesOk'
    BY <2>1 DEF CodesOk, observers
  <2>3. HandlersOk'
    <3>1. PICK step \in Free : Goto(h, step, NoLocal)
      BY <1>2 DEF Delete, Free
    <3> QED BY <3>1, <1>0, LocalTypes, GotoFree
  <2> QED BY <2>1, <2>2, <2>3, PartsKept DEF observers
<1>3. CASE Refill(h)
  <2>1. /\ Unissued # {} /\ codes' = codes \cup {NewOf(Unissued)}
        /\ issued' = issued \cup codes' /\ HandlersOk'
        /\ UNCHANGED <<factor, challenge, observers>>
    BY <1>3, EndOk DEF Refill
  <2>2. CodesOk'
    BY <2>1, IssuedOk DEF observers
  <2> QED BY <2>1, <2>2, PartsKept DEF observers
<1>4. CASE CloseAll(h)
  <2>1. /\ UNCHANGED <<factor, codes, issued, observers>>
        /\ challenge' = [c \in Challenges |->
             IF Open(c) THEN [challenge[c] EXCEPT !.used = TRUE] ELSE challenge[c]]
    BY <1>4 DEF CloseAll
  <2>2. /\ challenge' \in [Challenges -> ChallengeRows]
        /\ \A c \in Challenges : challenge[c].used => challenge'[c].used
    BY <2>1 DEF ChallengesOk, ChallengeRows
  <2>3. refused' \in [Challenges -> Nat]
    BY <2>1 DEF ChallengesOk, observers
  <2>4. ChallengesOk'
    BY <2>1, <2>2, <2>3, RowOk DEF observers
  <2>5. HandlersOk'
    <3>1. CASE want[h].kind = "login"
      <4>1. Goto(h, "create", local[h]) /\ local[h] \in Locals
        BY <3>1, <1>4 DEF CloseAll, HandlersOk
      <4> QED BY <4>1, <1>0, GotoFree DEF Free
    <3>2. CASE want[h].kind # "login"
      BY <3>2, <1>4, EndOk DEF CloseAll
    <3> QED BY <3>1, <3>2
  <2> QED BY <2>1, <2>4, <2>5, PartsKept DEF observers
<1>5. CASE Create(h)
  <2> DEFINE d == NewOf(Unused)
  <2>1. d \in Challenges
    BY <1>5 DEF Create, NewOf, Unused
  <2>2. /\ UNCHANGED <<factor, codes, issued, observers>> /\ HandlersOk'
        /\ challenge' = [challenge EXCEPT ![d].purpose = local[h].purpose]
    BY <1>5, EndOk DEF Create
  <2> HIDE DEF d
  <2>3. local[h].purpose \in {"none", "login", "enrollment"}
    BY DEF HandlersOk, Locals
  <2>4. /\ challenge' \in [Challenges -> ChallengeRows]
        /\ \A c \in Challenges : challenge[c].used => challenge'[c].used
    BY <2>1, <2>2, <2>3 DEF ChallengesOk, ChallengeRows
  <2>5. refused' \in [Challenges -> Nat]
    BY <2>2 DEF ChallengesOk, observers
  <2>6. ChallengesOk'
    BY <2>2, <2>4, <2>5, RowOk DEF observers
  <2> QED BY <2>2, <2>6, PartsKept DEF observers
<1>6. CASE Bar(h) \/ Invalidate(h)
  <2>1. want[h].c \in Challenges
    BY <1>6 DEF Bar, Invalidate, HandlersOk, StepOk
  <2>2. /\ challenge' = [challenge EXCEPT ![want[h].c].used = TRUE]
        /\ UNCHANGED <<factor, codes, issued, stepUses, codeUses, granted>>
    BY <1>6 DEF Bar, Invalidate, Refuse, observers
  <2>3. HandlersOk' /\ refused' \in [Challenges -> Nat]
    BY <1>6, <2>1, EndOk, RefuseOk DEF Bar, Invalidate, ChallengesOk, observers
  <2>4. /\ challenge' \in [Challenges -> ChallengeRows]
        /\ \A c \in Challenges : challenge[c].used => challenge'[c].used
    BY <2>1, <2>2, UsedOk
  <2>5. ChallengesOk'
    BY <2>2, <2>3, <2>4, RowOk
  <2> QED BY <2>2, <2>3, <2>5, PartsKept
<1>7. CASE Consume(h)
  <2>1. PICK d \in Challenges :
          /\ ~challenge[d].used
          /\ challenge' = [challenge EXCEPT ![d].used = TRUE]
          /\ granted' = [granted EXCEPT ![d] = @ + 1]
    BY <1>7 DEF Consume, HandlersOk, StepOk, Open
  <2>2. UNCHANGED <<factor, codes, issued, stepUses, codeUses, refused>> /\ HandlersOk'
    BY <1>7, EndOk DEF Consume
  <2>3. /\ challenge' \in [Challenges -> ChallengeRows] /\ challenge'[d].used
        /\ granted' \in [Challenges -> Nat] /\ granted'[d] = 1
    <3>1. granted[d] = 0
      BY <2>1 DEF ChallengesOk
    <3>2. challenge' \in [Challenges -> ChallengeRows] /\ challenge'[d].used
      BY <2>1, UsedOk
    <3>3. granted' \in [Challenges -> Nat] /\ granted'[d] = 1
      BY <2>1, <3>1 DEF ChallengesOk
    <3> QED BY <3>2, <3>3
  <2>4. \A c \in Challenges \ {d} :
          challenge'[c] = challenge[c] /\ granted'[c] = granted[c]
    BY <2>1 DEF ChallengesOk
  <2>5. ChallengesOk'
    BY <2>2, <2>3, <2>4 DEF ChallengesOk
  <2> QED BY <2>2, <2>5, PartsKept
<1>8. CASE Count(h) \/ CountAgain(h)
  <2>1. want[h].c \in Challenges
    BY <1>8 DEF Count, CountAgain, HandlersOk, StepOk
  <2>2. challenge' = Counted(want[h].c) /\ UNCHANGED <<factor, codes, issued>>
    BY <1>8 DEF Count, CountAgain
  <2>3. \/ Refuse(h)
        \/ Goto(h, "countAgain", NoLocal) /\ UNCHANGED observers
        \/ Goto(h, "invalidate", NoLocal) /\ UNCHANGED observers
    BY <1>8 DEF Count, CountAgain
  <2>4. /\ HandlersOk' /\ refused' \in [Challenges -> Nat]
        /\ UNCHANGED <<stepUses, codeUses, granted>>
    <3>1. CASE Refuse(h)
      BY <3>1, <2>1, RefuseOk
    <3>2. CASE Goto(h, "countAgain", NoLocal) /\ UNCHANGED observers
      <4>1. HandlersOk'
        BY <3>2, <2>1, <1>0, LocalTypes, GotoChallenge
      <4> QED BY <4>1, <3>2 DEF observers, ChallengesOk
    <3>3. CASE Goto(h, "invalidate", NoLocal) /\ UNCHANGED observers
      <4>1. HandlersOk'
        BY <3>3, <2>1, <1>0, LocalTypes, GotoChallenge
      <4> QED BY <4>1, <3>3 DEF observers, ChallengesOk
    <3> QED BY <2>3, <3>1, <3>2, <3>3
  <2>5. ChallengesOk'
    BY <2>1, <2>2, <2>4, CountedOk, RowOk
  <2> QED BY <2>2, <2>4, <2>5, PartsKept
<1>9. CASE Close(h)
  <2> DEFINE d == want[h].c
  <2>1. d \in Challenges
    BY <1>9 DEF Close, HandlersOk, StepOk
  <2>2. /\ challenge' = [challenge EXCEPT ![d].used = @ \/ ~challenge[d].expired]
        /\ UNCHANGED <<factor, codes, issued, observers>> /\ HandlersOk'
    BY <1>9, EndOk DEF Close
  <2> HIDE DEF d
  <2>3. /\ challenge' \in [Challenges -> ChallengeRows]
        /\ \A c \in Challenges : challenge[c].used => challenge'[c].used
    BY <2>1, <2>2 DEF ChallengesOk, ChallengeRows
  <2>4. refused' \in [Challenges -> Nat]
    BY <2>2 DEF ChallengesOk, observers
  <2>5. ChallengesOk'
    BY <2>2, <2>3, <2>4, RowOk DEF observers
  <2> QED BY <2>2, <2>5, PartsKept DEF observers
<1> QED BY <1>1, <1>2, <1>3, <1>4, <1>5, <1>6, <1>7, <1>8, <1>9 DEF OtherStep

(* The clock and the expiry of a challenge.                                *)
LEMMA EnvironmentOk ==
  ASSUME IInv, Tick \/ \E c \in Challenges : Expire(c)
  PROVE  IInv' /\ UNCHANGED factor
<1> USE DEF IInv
<1>1. CASE Tick
  <2>1. now' \in Periods /\ UNCHANGED <<store, pc, want, local, observers>>
    BY <1>1, BoundsAssumption DEF Tick, HandlersOk, Periods
  <2>2. HandlersOk'
    BY <2>1 DEF HandlersOk
  <2> QED BY <2>1, <2>2, TablesKept DEF store
<1>2. ASSUME NEW d \in Challenges, Expire(d) PROVE IInv' /\ UNCHANGED factor
  <2>1. /\ challenge' = [challenge EXCEPT ![d].expired = TRUE]
        /\ UNCHANGED <<factor, codes, issued, now, pc, want, local, observers>>
    BY <1>2 DEF Expire
  <2>2. /\ challenge' \in [Challenges -> ChallengeRows]
        /\ \A c \in Challenges : challenge[c].used => challenge'[c].used
    BY <2>1 DEF ChallengesOk, ChallengeRows
  <2>3. refused' \in [Challenges -> Nat]
    BY <2>1 DEF ChallengesOk, observers
  <2>4. ChallengesOk'
    BY <2>1, <2>2, <2>3, RowOk DEF observers
  <2>5. HandlersOk'
    BY <2>1 DEF HandlersOk
  <2> QED BY <2>1, <2>4, <2>5, PartsKept DEF observers
<1> QED BY <1>1, <1>2

(* Nothing has happened to any table, and no handler is under way.         *)
LEMMA InitOk == Init => IInv
<1> SUFFICES ASSUME Init PROVE IInv
  OBVIOUS
<1>1. FactorsOk
  BY BoundsAssumption
     DEF Init, FactorsOk, FactorRows, OneFactorEach, WithStatus, Periods
<1>2. CodesOk
  BY DEF Init, CodesOk
<1>3. ChallengesOk
  BY DEF Init, ChallengesOk, ChallengeRows
<1>4. HandlersOk
  <2>1. now \in Periods
    BY BoundsAssumption DEF Init, Periods
  <2>2. /\ pc \in [Handlers -> Steps]
        /\ want \in [Handlers -> Wants \cup {NoWant}]
        /\ local \in [Handlers -> Locals]
    BY LocalTypes DEF Init, Steps
  <2>3. \A h \in Handlers : StepOk(pc[h], want[h], local[h])
    BY DEF Init, StepOk
  <2> QED BY <2>1, <2>2, <2>3 DEF HandlersOk
<1> QED BY <1>1, <1>2, <1>3, <1>4 DEF IInv

(* The invariant is inductive, and its steps take no period back.          *)
LEMMA NextOk ==
  ASSUME IInv, [Next]_vars
  PROVE  IInv' /\ \A f \in Factors : factor[f].last <= factor'[f].last
<1>a. \A f \in Factors : factor[f].last \in Nat
  BY DEF IInv, FactorsOk, FactorRows
<1>1. CASE UNCHANGED vars
  <2>1. HandlersOk'
    BY <1>1 DEF IInv, HandlersOk, vars
  <2>2. UNCHANGED <<store, observers>> /\ UNCHANGED factor
    BY <1>1 DEF vars, store
  <2> QED BY <2>1, <2>2, <1>a, TablesKept DEF IInv
<1>2. ASSUME NEW h \in Handlers, Begin(h)
      PROVE  IInv' /\ UNCHANGED factor
  BY <1>2, BeginOk DEF Begin, store
<1>3. ASSUME NEW h \in Handlers,
             \/ Look(h) \/ Resolve(h) \/ Unresolved(h) \/ TooMany(h)
             \/ FindFactor(h) \/ FindNoFactor(h)
             \/ RightPeriod(h) \/ RightCode(h) \/ Wrong(h) \/ Replay(h) \/ CodeGone(h)
             \/ ConsumeLate(h) \/ FindPending(h) \/ NotConfirmed(h) \/ Die(h)
      PROVE  IInv' /\ UNCHANGED factor
  <2>1. UNCHANGED factor
    BY <1>3 DEF Look, Resolve, Unresolved, TooMany, FindFactor, FindNoFactor,
         RightPeriod, RightCode, Wrong, Replay, CodeGone, ConsumeLate, FindPending,
         NotConfirmed, Die, store
  <2> QED BY <1>3, <2>1, ReadsOk
<1>4. CASE \E h \in Handlers : FactorStep(h)
  BY <1>4, FactorStepOk
<1>5. CASE \E h \in Handlers : OtherStep(h)
  BY <1>5, <1>a, OtherStepOk
<1>6. CASE Tick \/ \E c \in Challenges : Expire(c)
  BY <1>6, <1>a, EnvironmentOk
<1> QED
  BY <1>1, <1>2, <1>3, <1>4, <1>5, <1>6, <1>a DEF Next, FactorStep, OtherStep

-----------------------------------------------------------------------------
(* The refusals of a challenge.                                            *)

(* The handlers that are under way, of which there are at most MaxActive.  *)
Active == {g \in Handlers : pc[g] # "idle"}

(* The steps after the limit has been looked at, before a refusal.         *)
Late == {"factor", "check", "consumeStep", "consumeCode", "count", "countAgain", "invalidate"}

(* Those that may still refuse an answer to the challenge c.               *)
Answering(c) == {g \in Handlers : pc[g] \in Late /\ want[g].c = c}

(* An answer is refused only after it has been counted, unless the         *)
(* challenge was closed before that; so whoever passes the limit found     *)
(* less than MaxAttempts refused, and is one of MaxActive.                 *)
RefusalsOk(c) ==
  /\ ~challenge[c].used => refused[c] <= challenge[c].attempts
  /\ refused[c] + Cardinality(Answering(c)) <= MaxAttempts - 1 + MaxActive
  /\ Answering(c) # {} => challenge[c].purpose # "none"

Limited ==
  /\ IsFiniteSet(Active) /\ Cardinality(Active) <= MaxActive
  /\ \A c \in Challenges : RefusalsOk(c)

(* They are finitely many, and not more than are under way.                *)
LEMMA AnsweringFinite ==
  ASSUME IsFiniteSet(Active), NEW c
  PROVE  /\ IsFiniteSet(Answering(c)) /\ Cardinality(Answering(c)) \in Nat
         /\ Cardinality(Active) \in Nat
         /\ Cardinality(Answering(c)) <= Cardinality(Active)
<1>1. Answering(c) \subseteq Active
  BY DEF Answering, Active, Late
<1> QED BY <1>1, FS_Subset, FS_CardinalityType

(* Who leaves, or goes on to a step at which an answer may be refused only *)
(* from another such step, does not join them.                             *)
LEMMA MovesOn ==
  ASSUME IInv, NEW h \in Handlers, pc[h] # "idle",
         \/ End(h)
         \/ \E step \in Steps : \E l : Goto(h, step, l) /\ (step \in Late => pc[h] \in Late)
  PROVE  /\ Active' \subseteq Active
         /\ \A c \in Challenges : Answering(c)' \subseteq Answering(c)
<1>1. /\ \A g \in Handlers \ {h} : pc'[g] = pc[g] /\ want'[g] = want[g]
      /\ pc'[h] \in Late => pc[h] \in Late /\ want'[h] = want[h]
  BY DEF IInv, HandlersOk, Goto, End, Late
<1> QED BY <1>1 DEF Active, Answering

(* A step that does not refuse.                                            *)
LEMMA NotRefused ==
  ASSUME IInv, Limited,
         UNCHANGED refused,
         \A c \in Challenges :
           /\ challenge[c].used => challenge'[c].used
           /\ challenge[c].attempts <= challenge'[c].attempts
           /\ challenge'[c].attempts \in Nat
           /\ challenge[c].purpose # "none" => challenge'[c].purpose # "none",
         Active' \subseteq Active,
         \A c \in Challenges : Answering(c)' \subseteq Answering(c)
  PROVE  Limited'
<1>1. IsFiniteSet(Active) /\ Cardinality(Active) \in Nat
  BY FS_CardinalityType DEF Limited
<1>2. IsFiniteSet(Active') /\ Cardinality(Active') \in Nat /\ Cardinality(Active') <= MaxActive
  BY <1>1, FS_Subset, FS_CardinalityType, BoundsAssumption DEF Limited
<1>3. ASSUME NEW c \in Challenges PROVE RefusalsOk(c)'
  <2>1. RefusalsOk(c) /\ refused[c] \in Nat /\ challenge[c].attempts \in Nat
    BY DEF Limited, IInv, ChallengesOk, ChallengeRows
  <2>2. /\ Cardinality(Answering(c)) \in Nat /\ Cardinality(Answering(c)') \in Nat
        /\ Cardinality(Answering(c)') <= Cardinality(Answering(c))
    BY <1>1, AnsweringFinite, FS_Subset, FS_CardinalityType
  <2>3. ~challenge'[c].used => refused'[c] <= challenge'[c].attempts
    BY <2>1 DEF RefusalsOk
  <2>4. refused'[c] + Cardinality(Answering(c)') <= MaxAttempts - 1 + MaxActive
    BY <2>1, <2>2, BoundsAssumption, MaxAttemptsAssumption DEF RefusalsOk
  <2>5. Answering(c)' # {} => challenge'[c].purpose # "none"
    BY <2>1 DEF RefusalsOk
  <2> QED BY <2>3, <2>4, <2>5 DEF RefusalsOk
<1> QED BY <1>2, <1>3 DEF Limited

(* One that does: the handler is no longer among those that may.           *)
LEMMA OneRefused ==
  ASSUME IInv, Limited, NEW h \in Handlers, NEW d \in Challenges,
         want[h].c = d, pc[h] \in Late, End(h),
         refused' = [refused EXCEPT ![d] = @ + 1],
         \A c \in Challenges : /\ challenge[c].used => challenge'[c].used
                               /\ challenge'[c].purpose = challenge[c].purpose
                               /\ challenge'[c].attempts \in Nat,
         \A c \in Challenges \ {d} : challenge'[c] = challenge[c],
         ~challenge'[d].used => challenge'[d].attempts >= challenge[d].attempts + 1
  PROVE  Limited'
<1>1. IsFiniteSet(Active) /\ Cardinality(Active) \in Nat
  BY FS_CardinalityType DEF Limited
<1>2. Active' \subseteq Active /\ \A c \in Challenges : Answering(c)' \subseteq Answering(c)
  BY MovesOn DEF Late
<1>3. IsFiniteSet(Active') /\ Cardinality(Active') \in Nat /\ Cardinality(Active') <= MaxActive
  BY <1>1, <1>2, FS_Subset, FS_CardinalityType, BoundsAssumption DEF Limited
<1>4. ASSUME NEW c \in Challenges PROVE RefusalsOk(c)'
  <2>1. RefusalsOk(c) /\ refused[c] \in Nat /\ challenge[c].attempts \in Nat
    BY DEF Limited, IInv, ChallengesOk, ChallengeRows
  <2>2. IsFiniteSet(Answering(c)) /\ Cardinality(Answering(c)) \in Nat
    BY <1>1, AnsweringFinite
  <2>3. CASE c = d
    <3>1. h \in Answering(c) /\ h \notin Answering(c)'
      BY <2>3 DEF Answering, End, IInv, HandlersOk, Late
    <3>2. Answering(c)' \subseteq Answering(c) \ {h}
      BY <3>1, <1>2
    <3>3. /\ IsFiniteSet(Answering(c) \ {h})
          /\ Cardinality(Answering(c) \ {h}) = Cardinality(Answering(c)) - 1
      BY <2>2, <3>1, FS_RemoveElement
    <3>4. /\ Cardinality(Answering(c)') \in Nat
          /\ Cardinality(Answering(c)') <= Cardinality(Answering(c)) - 1
      BY <3>2, <3>3, FS_Subset, FS_CardinalityType
    <3>5. refused'[c] = refused[c] + 1
      BY <2>3 DEF IInv, ChallengesOk
    <3>6. ~challenge'[c].used => refused'[c] <= challenge'[c].attempts
      BY <2>1, <2>3, <3>5 DEF RefusalsOk
    <3>7. refused'[c] + Cardinality(Answering(c)') <= MaxAttempts - 1 + MaxActive
      BY <2>1, <2>2, <3>4, <3>5, BoundsAssumption, MaxAttemptsAssumption DEF RefusalsOk
    <3>8. challenge'[c].purpose # "none"
      BY <2>1, <3>1 DEF RefusalsOk
    <3> QED BY <3>6, <3>7, <3>8 DEF RefusalsOk
  <2>4. CASE c # d
    <3>1. refused'[c] = refused[c] /\ challenge'[c] = challenge[c]
      BY <2>4 DEF IInv, ChallengesOk
    <3>2. /\ Cardinality(Answering(c)') \in Nat
          /\ Cardinality(Answering(c)') <= Cardinality(Answering(c))
      BY <2>2, <1>2, FS_Subset, FS_CardinalityType
    <3>3. refused'[c] + Cardinality(Answering(c)') <= MaxAttempts - 1 + MaxActive
      BY <2>1, <2>2, <3>1, <3>2, BoundsAssumption, MaxAttemptsAssumption DEF RefusalsOk
    <3> QED BY <2>1, <1>2, <3>1, <3>3 DEF RefusalsOk
  <2> QED BY <2>3, <2>4
<1> QED BY <1>3, <1>4 DEF Limited

(* A request begins: it has not come to the limit yet.                     *)
LEMMA BeginLimited ==
  ASSUME IInv, Limited, NEW h \in Handlers, Begin(h)
  PROVE  Limited'
<1>1. PICK w \in Inputs : want' = [want EXCEPT ![h] = w] /\ pc' = [pc EXCEPT ![h] = FirstStep(w)]
  BY DEF Begin
<1>2. w \in Wants
  BY InputsAssumption
<1>3. FirstStep(w) \in Late => w.c = NoOne
  BY <1>2 DEF Wants, FirstStep, Late
<1>4. FirstStep(w) # "idle" /\ pc[h] = "idle" /\ Cardinality(Active) < MaxActive
  BY <1>2 DEF Wants, FirstStep, Begin, Active
<1>5. /\ pc'[h] = FirstStep(w) /\ want'[h] = w
      /\ \A g \in Handlers \ {h} : pc'[g] = pc[g] /\ want'[g] = want[g]
  BY <1>1 DEF IInv, HandlersOk
<1>6. Active' = Active \cup {h} /\ h \notin Active
  BY <1>4, <1>5 DEF Active
<1>7. /\ IsFiniteSet(Active) /\ Cardinality(Active) \in Nat
      /\ IsFiniteSet(Active') /\ Cardinality(Active') = Cardinality(Active) + 1
  BY <1>6, FS_AddElement, FS_CardinalityType DEF Limited
<1>8. Cardinality(Active') <= MaxActive
  BY <1>4, <1>7, BoundsAssumption
<1>9. ASSUME NEW c \in Challenges PROVE RefusalsOk(c)'
  <2>1. Answering(c)' = Answering(c)
    BY <1>3, <1>4, <1>5, NoOneAssumption DEF Answering, Late
  <2>2. RefusalsOk(c) /\ UNCHANGED <<challenge, refused>>
    BY DEF Begin, store, observers, Limited
  <2> QED BY <2>1, <2>2 DEF RefusalsOk
<1> QED BY <1>7, <1>8, <1>9 DEF Limited

(* resolveMfaChallenge lets a request through that is below the limit: so  *)
(* far less than MaxAttempts have been refused.                            *)
LEMMA ResolveLimited ==
  ASSUME IInv, Limited, NEW h \in Handlers, Resolve(h)
  PROVE  Limited'
<1> DEFINE d == want[h].c
<1>1. d \in Challenges /\ UNCHANGED <<challenge, refused>>
  BY DEF Resolve, IInv, HandlersOk, StepOk, store, observers
<1>2. /\ challenge[d].attempts < MaxAttempts /\ ~challenge[d].used
      /\ challenge[d].purpose # "none"
  BY DEF Resolve, Answerable, Purpose
<1>3. /\ \A g \in Handlers \ {h} : pc'[g] = pc[g] /\ want'[g] = want[g]
      /\ want'[h] = want[h] /\ pc'[h] # "idle" /\ pc[h] # "idle"
  BY DEF Resolve, Goto, IInv, HandlersOk
<1> HIDE DEF d
<1>4. Active' = Active
  BY <1>3 DEF Active
<1>5. IsFiniteSet(Active') /\ Cardinality(Active') <= MaxActive
  BY <1>4 DEF Limited
<1>6. ASSUME NEW c \in Challenges PROVE RefusalsOk(c)'
  <2>1. RefusalsOk(c) /\ refused[c] \in Nat /\ challenge[c].attempts \in Nat
    BY DEF Limited, IInv, ChallengesOk, ChallengeRows
  <2>2. CASE c = d
    <3>1. Answering(c)' \subseteq Active
      BY <1>4 DEF Answering, Active, Late
    <3>2. /\ Cardinality(Answering(c)') \in Nat
          /\ Cardinality(Answering(c)') <= MaxActive
      BY <3>1, FS_Subset, FS_CardinalityType, BoundsAssumption DEF Limited
    <3>3. refused[c] <= MaxAttempts - 1
      BY <2>1, <2>2, <1>2, MaxAttemptsAssumption DEF RefusalsOk
    <3>4. refused'[c] + Cardinality(Answering(c)') <= MaxAttempts - 1 + MaxActive
      BY <2>1, <3>2, <3>3, <1>1, BoundsAssumption, MaxAttemptsAssumption
    <3> QED BY <2>1, <2>2, <1>1, <1>2, <3>4 DEF RefusalsOk
  <2>3. CASE c # d
    <3>1. Answering(c)' = Answering(c)
      BY <2>3, <1>3 DEF Answering, d
    <3> QED BY <3>1, <2>1, <1>1 DEF RefusalsOk
  <2> QED BY <2>2, <2>3
<1> QED BY <1>5, <1>6 DEF Limited

(* The steps of a handler that leave the challenges alone.                 *)
AsideStep(h) ==
  \/ Look(h) \/ Unresolved(h) \/ TooMany(h)
  \/ FindFactor(h) \/ FindNoFactor(h)
  \/ RightPeriod(h) \/ RightCode(h) \/ Wrong(h) \/ Replay(h) \/ CodeGone(h)
  \/ ConsumeLate(h) \/ FindPending(h) \/ NotConfirmed(h) \/ Die(h)
  \/ FactorStep(h) \/ ConsumeCode(h) \/ Delete(h) \/ Refill(h)

(* They bring nobody past the limit and refuse nobody.                     *)
LEMMA AsideLimited ==
  ASSUME IInv, Limited, NEW h \in Handlers, AsideStep(h)
  PROVE  Limited'
<1>1. pc[h] # "idle" /\ UNCHANGED <<challenge, refused>>
  BY DEF AsideStep, Look, Unresolved, TooMany, FindFactor, FindNoFactor,
         RightPeriod, RightCode, Wrong, Replay, CodeGone, ConsumeLate, FindPending,
         NotConfirmed, Die, FactorStep, ConsumeStep, Drop, Insert, Activate,
         ActivateNothing, DisableAll, ConsumeCode, Delete, Refill, store, observers
<1>2. \/ End(h)
      \/ \E step \in Steps : \E l : Goto(h, step, l) /\ (step \in Late => pc[h] \in Late)
  <2>1. CASE \/ Unresolved(h) \/ FindNoFactor(h) \/ ConsumeLate(h) \/ NotConfirmed(h)
             \/ Die(h) \/ Insert(h) \/ ActivateNothing(h) \/ Refill(h)
    BY <2>1 DEF Unresolved, FindNoFactor, ConsumeLate, NotConfirmed, Die, Insert,
                ActivateNothing, Refill
  <2>2. CASE Look(h) \/ TooMany(h) \/ FindPending(h) \/ Drop(h) \/ DisableAll(h) \/ Delete(h)
    BY <2>2 DEF Look, TooMany, FindPending, Drop, DisableAll, Delete, Late, Steps
  <2>3. CASE FindFactor(h) \/ RightPeriod(h) \/ RightCode(h)
    BY <2>3 DEF FindFactor, RightPeriod, RightCode, Late, Steps
  <2>4. CASE Wrong(h) \/ Replay(h) \/ CodeGone(h)
    BY <2>4 DEF Wrong, Replay, CodeGone, Fail, RefuseLogin, RefuseStepUp, Late, Steps
  <2>5. CASE ConsumeStep(h) \/ ConsumeCode(h)
    BY <2>5 DEF ConsumeStep, ConsumeCode, Proceed, Late, Steps
  <2>6. CASE Activate(h)
    BY <2>6 DEF Activate, Late, Steps
  <2> QED BY <2>1, <2>2, <2>3, <2>4, <2>5, <2>6 DEF AsideStep, FactorStep
<1>3. \A c \in Challenges : challenge[c].attempts \in Nat
  BY DEF IInv, ChallengesOk, ChallengeRows
<1> QED BY <1>1, <1>2, <1>3, MovesOn, NotRefused

(* The steps that close or create challenges, without a refusal.           *)
ClosingStep(h) == CloseAll(h) \/ Create(h) \/ Bar(h) \/ Consume(h) \/ Close(h)

(* They bring nobody past the limit either, and take no count back.        *)
LEMMA ClosingLimited ==
  ASSUME IInv, Limited, NEW h \in Handlers, ClosingStep(h)
  PROVE  Limited'
<1>0. /\ challenge \in [Challenges -> ChallengeRows]
      /\ \A c \in Challenges : challenge[c] \in ChallengeRows /\ challenge[c].attempts \in Nat
  BY DEF IInv, ChallengesOk, ChallengeRows
<1>1. pc[h] # "idle" /\ UNCHANGED refused
  BY DEF ClosingStep, CloseAll, Create, Bar, Consume, Close, observers
<1>2. \/ End(h)
      \/ \E step \in Steps : \E l : Goto(h, step, l) /\ (step \in Late => pc[h] \in Late)
  BY DEF ClosingStep, CloseAll, Create, Bar, Consume, Close, Late, Steps
<1>3. ASSUME NEW c \in Challenges
      PROVE  /\ challenge[c].used => challenge'[c].used
             /\ challenge'[c].attempts = challenge[c].attempts
             /\ challenge[c].purpose # "none" => challenge'[c].purpose # "none"
  <2>1. CASE CloseAll(h)
    BY <2>1, <1>0 DEF CloseAll, ChallengeRows
  <2>2. CASE Create(h)
    <3>1. NewOf(Unused) \in Challenges /\ challenge[NewOf(Unused)].purpose = "none"
      BY <2>2 DEF Create, NewOf, Unused
    <3> QED BY <3>1, <2>2, <1>0 DEF Create, ChallengeRows
  <2>3. CASE Bar(h) \/ Consume(h)
    BY <2>3, <1>0 DEF Bar, Consume, ChallengeRows
  <2>4. CASE Close(h)
    BY <2>4, <1>0 DEF Close, ChallengeRows
  <2> QED BY <2>1, <2>2, <2>3, <2>4 DEF ClosingStep
<1>4. \A c \in Challenges : challenge[c].attempts <= challenge'[c].attempts
  BY <1>0, <1>3
<1> QED BY <1>0, <1>1, <1>2, <1>3, <1>4, MovesOn, NotRefused

(* The steps that count a wrong answer and refuse it.                      *)
CountingStep(h) == Count(h) \/ CountAgain(h) \/ Invalidate(h)

(* What is refused has been counted while the challenge was open.          *)
LEMMA CountingLimited ==
  ASSUME IInv, Limited, NEW h \in Handlers, CountingStep(h)
  PROVE  Limited'
<1> DEFINE d == want[h].c
<1>1. d \in Challenges /\ pc[h] \in Late /\ pc[h] # "idle"
  BY DEF CountingStep, Count, CountAgain, Invalidate, IInv, HandlersOk, StepOk, Late
<1>2. /\ challenge \in [Challenges -> ChallengeRows]
      /\ challenge[d] \in ChallengeRows /\ challenge[d].attempts \in Nat
      /\ challenge[d].purpose # "none"
  <2>1. h \in Answering(d)
    BY <1>1 DEF Answering
  <2>2. RefusalsOk(d)
    BY <1>1 DEF Limited
  <2> QED BY <1>1, <2>1, <2>2 DEF RefusalsOk, IInv, ChallengesOk, ChallengeRows
<1>3. ASSUME challenge' = Counted(d)
      PROVE  /\ \A c \in Challenges :
                  /\ challenge[c].used => challenge'[c].used
                  /\ challenge'[c].purpose = challenge[c].purpose
                  /\ challenge'[c].attempts \in Nat
                  /\ challenge[c].attempts <= challenge'[c].attempts
             /\ \A c \in Challenges \ {d} : challenge'[c] = challenge[c]
             /\ ~challenge'[d].used => challenge'[d].attempts >= challenge[d].attempts + 1
  <2>1. /\ \A c \in Challenges \ {d} : challenge'[c] = challenge[c]
        /\ challenge'[d] = [challenge[d] EXCEPT !.attempts = IF Open(d) THEN @ + 1 ELSE @]
    BY <1>1, <1>2, <1>3 DEF Counted
  <2>2. /\ challenge'[d].used = challenge[d].used
        /\ challenge'[d].purpose = challenge[d].purpose
        /\ challenge'[d].attempts =
             IF Open(d) THEN challenge[d].attempts + 1 ELSE challenge[d].attempts
    BY <2>1, <1>2 DEF ChallengeRows
  <2>3. \A c \in Challenges : challenge[c].attempts \in Nat
    BY <1>2 DEF ChallengeRows
  <2>4. ~challenge'[d].used => Open(d)
    BY <2>2, <1>2 DEF Open
  <2>5. ASSUME NEW c \in Challenges
        PROVE  /\ challenge[c].used => challenge'[c].used
               /\ challenge'[c].purpose = challenge[c].purpose
               /\ challenge'[c].attempts \in Nat
               /\ challenge[c].attempts <= challenge'[c].attempts
    <3>1. CASE c = d
      BY <3>1, <2>2, <1>2
    <3>2. CASE c # d
      BY <3>2, <2>1, <2>3
    <3> QED BY <3>1, <3>2
  <2> QED BY <2>1, <2>2, <2>4, <2>5, <1>2
<1>4. ASSUME NEW step \in {"countAgain", "invalidate"}, Goto(h, step, NoLocal),
             challenge' = Counted(d), UNCHANGED observers
      PROVE  Limited'
  <2>1. step \in Steps /\ UNCHANGED refused
    BY <1>4 DEF Steps, observers
  <2>2. /\ Active' \subseteq Active
        /\ \A c \in Challenges : Answering(c)' \subseteq Answering(c)
    BY <2>1, <1>1, <1>4, MovesOn
  <2> QED BY <2>1, <2>2, <1>3, <1>4, NotRefused
<1>5. ASSUME Refuse(h), challenge' = Counted(d) PROVE Limited'
  <2>1. End(h) /\ refused' = [refused EXCEPT ![d] = @ + 1]
    BY <1>5 DEF Refuse
  <2> QED BY <2>1, <1>1, <1>3, <1>5, OneRefused
<1>6. CASE Count(h)
  BY <1>6, <1>4, <1>5 DEF Count
<1>7. CASE CountAgain(h)
  BY <1>7, <1>4, <1>5 DEF CountAgain
<1>8. CASE Invalidate(h)
  <2>1. End(h) /\ refused' = [refused EXCEPT ![d] = @ + 1]
    BY <1>8 DEF Invalidate, Refuse
  <2>2. challenge' = [challenge EXCEPT ![d].used = TRUE]
    BY <1>8 DEF Invalidate
  <2>3. /\ \A c \in Challenges : /\ challenge[c].used => challenge'[c].used
                                /\ challenge'[c].purpose = challenge[c].purpose
                                /\ challenge'[c].attempts \in Nat
        /\ \A c \in Challenges \ {d} : challenge'[c] = challenge[c]
        /\ challenge'[d].used
    BY <2>2, <1>1, <1>2 DEF ChallengeRows
  <2> QED BY <2>1, <2>3, <1>1, OneRefused
<1> QED BY <1>6, <1>7, <1>8 DEF CountingStep

(* Every step keeps the limit.                                             *)
LEMMA NextLimited == IInv /\ Limited /\ [Next]_vars => Limited'
<1> SUFFICES ASSUME IInv, Limited, [Next]_vars PROVE Limited'
  OBVIOUS
<1>0. \A c \in Challenges : challenge[c] \in ChallengeRows /\ challenge[c].attempts \in Nat
  BY DEF IInv, ChallengesOk, ChallengeRows
<1>1. CASE UNCHANGED vars
  BY <1>1 DEF vars, store, observers, Limited, Active, Answering, RefusalsOk
<1>2. CASE Tick
  <2>1. UNCHANGED <<challenge, refused, pc, want>>
    BY <1>2 DEF Tick, store, observers
  <2> QED BY <2>1 DEF Limited, Active, Answering, RefusalsOk
<1>3. ASSUME NEW d \in Challenges, Expire(d) PROVE Limited'
  <2>1. challenge' = [challenge EXCEPT ![d].expired = TRUE] /\ UNCHANGED <<refused, pc, want>>
    BY <1>3 DEF Expire, observers
  <2>2. /\ UNCHANGED Active /\ \A c \in Challenges : UNCHANGED Answering(c)
        /\ \A c \in Challenges : /\ challenge'[c].used = challenge[c].used
                                 /\ challenge'[c].attempts = challenge[c].attempts
                                 /\ challenge'[c].purpose = challenge[c].purpose
    BY <2>1, <1>0 DEF Active, Answering, IInv, ChallengesOk, ChallengeRows
  <2> QED BY <2>1, <2>2, <1>0, NotRefused
<1>4. ASSUME NEW h \in Handlers, AsideStep(h) \/ ClosingStep(h) \/ CountingStep(h)
      PROVE  Limited'
  BY <1>4, AsideLimited, ClosingLimited, CountingLimited
<1> QED
  BY <1>1, <1>2, <1>3, <1>4, BeginLimited, ResolveLimited
     DEF Next, AsideStep, ClosingStep, CountingStep, FactorStep

(* Nobody is under way, and nothing has been refused.                      *)
LEMMA InitLimited == Init => Limited
<1> SUFFICES ASSUME Init PROVE Limited
  OBVIOUS
<1>1. Active = {} /\ \A c \in Challenges : Answering(c) = {}
  BY DEF Init, Active, Answering, Late
<1>2. IsFiniteSet({}) /\ Cardinality({}) = 0
  BY FS_EmptySet
<1>3. ASSUME NEW c \in Challenges PROVE RefusalsOk(c)
  <2>1. Answering(c) = {} /\ Cardinality(Answering(c)) = 0
    BY <1>1, <1>2
  <2>2. refused[c] = 0 /\ challenge[c].attempts = 0
    BY DEF Init
  <2> QED BY <2>1, <2>2, BoundsAssumption, MaxAttemptsAssumption DEF RefusalsOk
<1> QED BY <1>1, <1>2, <1>3, BoundsAssumption DEF Limited

-----------------------------------------------------------------------------
(* The settings of the site.                                               *)

(* The requests there are.                                                 *)
Calls == [op: {"none", "get", "put"}, at: {"find", "create", "update", "answer"},
          with: Site!Settings, result: Site!Settings \cup {NoOne}]

(* What the row, a form or a request has as its image.                     *)
Mentions(i) ==
  \/ row # NoOne /\ row.image = i
  \/ \E q \in Handlers :
       \/ form[q].image = i
       \/ call[q].with.image = i
       \/ call[q].result # NoOne /\ call[q].result.image = i

Fit(i) == Site!Servable(i) /\ Site!Passes(i)

(* An upload under way has an image of its own, which nothing mentions     *)
(* yet and which is as good as the checks it has passed.                   *)
Examined(p) ==
  upload[p].at # "idle" =>
    /\ upload[p].image \in Images
    /\ disk[upload[p].image] # "none"
    /\ ~Mentions(upload[p].image)
    /\ upload[p].at = "scan" => disk[upload[p].image] # "other"
    /\ upload[p].at = "answer" => Fit(upload[p].image)
    /\ \A q \in Handlers \ {p} :
         upload[q].at # "idle" => upload[q].image # upload[p].image

SiteFits ==
  /\ Site!TypeOK
  /\ \A i \in Images : Mentions(i) => Fit(i)
  /\ \A p \in Handlers : Examined(p)

(* Not an image that nothing has mentioned so far.                         *)
Known(x) == x \in Images => Mentions(x)

(* What there is is known.                                                 *)
LEMMA AllKnown ==
  /\ row # NoOne => Known(row.image)
  /\ Known(NoOne)
  /\ \A q \in Handlers :
       /\ Known(form[q].image)
       /\ Known(call[q].with.image)
       /\ call[q].result # NoOne => Known(call[q].result.image)
BY SiteParameters DEF Known, Mentions

(* The values the pages start with.                                        *)
LEMMA SiteValues ==
  /\ \A b \in BOOLEAN : Site!Defaults(b) \in Site!Settings
  /\ \A b \in BOOLEAN : Site!Defaults(b).image = NoOne /\ Site!Defaults(b).keyed = b
  /\ Site!NoCall \in Calls /\ Site!Get \in Calls
  /\ Site!NoCall.with.image = NoOne /\ Site!NoCall.result = NoOne
  /\ Site!Get.with.image = NoOne /\ Site!Get.result = NoOne
<1>1. Default \in Texts
  BY SiteParameters
<1> QED
  BY <1>1 DEF Site!Defaults, Site!Settings, Site!NoCall, Site!Get, Calls

(* A step of the page p that leaves the uploads alone and mentions no      *)
(* image that was not mentioned before.                                    *)
LEMMA NothingNew ==
  ASSUME SiteFits, NEW p \in Handlers, NEW s \in Site!Settings, NEW c \in Calls,
         form' = [form EXCEPT ![p] = s], call' = [call EXCEPT ![p] = c],
         row' \in {NoOne} \cup {r \in Site!Settings : r.keyed},
         loaded' \in [Handlers -> BOOLEAN],
         UNCHANGED <<disk, upload>>,
         row' # NoOne => Known(row'.image),
         Known(s.image), Known(c.with.image),
         c.result # NoOne => Known(c.result.image)
  PROVE  SiteFits'
<1>1. /\ form' \in [Handlers -> Site!Settings] /\ call' \in [Handlers -> Calls]
      /\ form'[p] = s /\ call'[p] = c
      /\ \A q \in Handlers \ {p} : form'[q] = form[q] /\ call'[q] = call[q]
  BY DEF SiteFits, Site!TypeOK, Calls
<1>2. Site!TypeOK'
  BY <1>1 DEF SiteFits, Site!TypeOK, Calls
<1>3. ASSUME NEW i \in Images, Mentions(i)' PROVE Mentions(i)
  <2>1. CASE row' # NoOne /\ row'.image = i
    BY <2>1 DEF Known
  <2>2. ASSUME NEW q \in Handlers,
               \/ form'[q].image = i
               \/ call'[q].with.image = i
               \/ call'[q].result # NoOne /\ call'[q].result.image = i
        PROVE  Mentions(i)
    <3>1. CASE q = p
      <4>1. \/ s.image = i
            \/ c.with.image = i
            \/ c.result # NoOne /\ c.result.image = i
        BY <3>1, <2>2, <1>1
      <4> QED BY <4>1 DEF Known
    <3>2. CASE q # p
      BY <3>2, <2>2, <1>1 DEF Mentions
    <3> QED BY <3>1, <3>2
  <2> QED BY <1>3, <2>1, <2>2 DEF Mentions
<1>4. \A i \in Images : Fit(i)' <=> Fit(i)
  BY DEF Fit, Site!Servable, Site!Passes
<1>5. ASSUME NEW q \in Handlers PROVE Examined(q)'
  <2>1. Examined(q)
    BY DEF SiteFits
  <2> QED BY <2>1, <1>3, <1>4 DEF Examined
<1> QED BY <1>2, <1>3, <1>4, <1>5 DEF SiteFits

(* The steps of a page and of its requests.                                *)
PageStep(p) ==
  \/ \E text \in Texts : Site!Edit(p, text)
  \/ Site!Reload(p) \/ Site!Save(p)
  \/ Site!Find(p) \/ Site!Create(p) \/ Site!Update(p) \/ Site!Receive(p) \/ Site!GiveUp(p)

(* None of them brings an image up that was not there before.              *)
LEMMA PageStepOk ==
  ASSUME SiteFits, NEW p \in Handlers, PageStep(p)
  PROVE  SiteFits'
<1>0. /\ row \in {NoOne} \cup {r \in Site!Settings : r.keyed}
      /\ loaded \in [Handlers -> BOOLEAN]
      /\ form \in [Handlers -> Site!Settings] /\ form[p] \in Site!Settings
      /\ call \in [Handlers -> Calls] /\ call[p] \in Calls
  BY DEF SiteFits, Site!TypeOK, Calls
<1>a. /\ form = [form EXCEPT ![p] = form[p]]
      /\ call = [call EXCEPT ![p] = call[p]]
  BY <1>0
<1>b. UNCHANGED <<disk, upload>>
  BY DEF PageStep, Site!Edit, Site!Reload, Site!Save, Site!Find, Site!Create, Site!Update,
         Site!Receive, Site!GiveUp
<1>c. /\ row # NoOne => Known(row.image)
      /\ Known(form[p].image)
      /\ \A c \in {Site!NoCall, Site!Get} :
           c \in Calls /\ Known(c.with.image) /\ c.result = NoOne
  BY AllKnown, SiteValues
<1>1. ASSUME NEW text \in Texts, Site!Edit(p, text) PROVE SiteFits'
  <2> DEFINE s == [form[p] EXCEPT !.text = text]
  <2>1. s \in Site!Settings /\ s.image = form[p].image
    BY <1>0 DEF Site!Settings
  <2>2. form' = [form EXCEPT ![p] = s] /\ UNCHANGED <<row, loaded, call>>
    BY <1>1 DEF Site!Edit
  <2> HIDE DEF s
  <2> QED BY <2>1, <2>2, <1>0, <1>a, <1>b, AllKnown, NothingNew
<1>2. CASE Site!Reload(p)
  <2>1. /\ form' = [form EXCEPT ![p] = Site!Defaults(FALSE)]
        /\ call' = [call EXCEPT ![p] = Site!Get]
        /\ loaded' \in [Handlers -> BOOLEAN] /\ UNCHANGED row
    BY <1>2, <1>0 DEF Site!Reload
  <2> QED BY <2>1, <1>0, <1>b, AllKnown, SiteValues, NothingNew
<1>3. CASE Site!Save(p)
  <2>1. PICK at \in {"find", "answer"} :
          call' = [call EXCEPT ![p] =
                     [Site!NoCall EXCEPT !.op = "put", !.with = form[p], !.at = at]]
    BY <1>3 DEF Site!Save
  <2> DEFINE c == [Site!NoCall EXCEPT !.op = "put", !.with = form[p], !.at = at]
  <2>2. c \in Calls /\ c.with.image = form[p].image /\ c.result = NoOne
    BY <1>0, SiteValues DEF Calls, Site!NoCall
  <2>3. call' = [call EXCEPT ![p] = c] /\ UNCHANGED <<row, loaded, form>>
    BY <1>3, <2>1 DEF Site!Save
  <2> HIDE DEF c
  <2> QED BY <2>2, <2>3, <1>0, <1>a, <1>b, AllKnown, NothingNew
<1>4. ASSUME NEW r \in Site!Settings, Site!Found(p, r), r.keyed, row' = r, Known(r.image),
             UNCHANGED <<loaded, form>>
      PROVE  SiteFits'
  <2>1. PICK c \in Calls : /\ call' = [call EXCEPT ![p] = c] /\ c.with = call[p].with
                          /\ c.result \in {r, call[p].result}
    <3>1. CASE call[p].op = "get"
      <4> DEFINE c == [call[p] EXCEPT !.at = "answer", !.result = r]
      <4>1. c \in Calls /\ c.with = call[p].with /\ c.result = r
        BY <1>0 DEF Calls
      <4>2. call' = [call EXCEPT ![p] = c]
        BY <1>4, <3>1 DEF Site!Found
      <4> QED BY <4>1, <4>2
    <3>2. CASE call[p].op # "get"
      <4> DEFINE c == [call[p] EXCEPT !.at = "update"]
      <4>1. c \in Calls /\ c.with = call[p].with /\ c.result = call[p].result
        BY <1>0 DEF Calls
      <4>2. call' = [call EXCEPT ![p] = c]
        BY <1>4, <3>2 DEF Site!Found
      <4> QED BY <4>1, <4>2
    <3> QED BY <3>1, <3>2
  <2>2. c.result # NoOne => Known(c.result.image)
    BY <2>1, <1>4, AllKnown
  <2> QED BY <2>1, <2>2, <1>4, <1>0, <1>a, <1>b, AllKnown, NothingNew
<1>5. CASE Site!Find(p)
  <2>1. CASE row = NoOne
    <3> DEFINE c == [call[p] EXCEPT !.at = "create"]
    <3>1. c \in Calls /\ c.with = call[p].with /\ c.result = call[p].result
      BY <1>0 DEF Calls
    <3>2. call' = [call EXCEPT ![p] = c] /\ UNCHANGED <<row, loaded, form>>
      BY <1>5, <2>1 DEF Site!Find
    <3> HIDE DEF c
    <3> QED BY <3>1, <3>2, <1>0, <1>a, <1>b, AllKnown, NothingNew
  <2>2. CASE row # NoOne
    <3>1. Site!Found(p, row) /\ UNCHANGED <<row, loaded, form>>
      BY <1>5, <2>2 DEF Site!Find
    <3> QED BY <3>1, <2>2, <1>0, <1>4, AllKnown
  <2> QED BY <2>1, <2>2
<1>6. CASE Site!Create(p)
  <2> DEFINE r == IF row = NoOne THEN Site!Defaults(TRUE) ELSE row
  <2>1. r \in Site!Settings /\ r.keyed /\ Known(r.image)
    BY <1>0, AllKnown, SiteValues
  <2>2. row' = r /\ Site!Found(p, r) /\ UNCHANGED <<loaded, form>>
    BY <1>6 DEF Site!Create, Site!Found
  <2> HIDE DEF r
  <2> QED BY <2>1, <2>2, <1>4
<1>7. CASE Site!Update(p)
  <2> DEFINE r == [call[p].with EXCEPT !.keyed = TRUE]
             c == [call[p] EXCEPT !.at = "answer", !.result = r]
  <2>1. r \in Site!Settings /\ r.keyed /\ r.image = call[p].with.image
    BY <1>0 DEF Site!Settings, Calls
  <2>2. row' = r /\ call' = [call EXCEPT ![p] = c] /\ UNCHANGED <<loaded, form>>
    BY <1>7 DEF Site!Update, Site!Merged
  <2> HIDE DEF r
  <2>3. c \in Calls /\ c.with = call[p].with /\ c.result = r
    BY <2>1, <1>0 DEF Calls
  <2> HIDE DEF c
  <2> QED BY <2>1, <2>2, <2>3, <1>0, <1>a, <1>b, AllKnown, NothingNew
<1>8. CASE Site!Receive(p)
  <2>0. call[p].result # NoOne /\ call[p].result \in Site!Settings /\ UNCHANGED row
    BY <1>8, <1>0 DEF Site!Receive, Calls
  <2>1. CASE call[p].op = "get"
    <3>1. /\ form' = [form EXCEPT ![p] = call[p].result]
          /\ call' = [call EXCEPT ![p] = Site!NoCall]
          /\ loaded' \in [Handlers -> BOOLEAN]
      BY <1>8, <2>1, <1>0 DEF Site!Receive
    <3> QED BY <3>1, <2>0, <1>0, <1>b, AllKnown, SiteValues, NothingNew
  <2>2. CASE call[p].op # "get"
    <3>1. call' = [call EXCEPT ![p] = Site!Get] /\ form' = [form EXCEPT ![p] = form[p]]
          /\ UNCHANGED loaded
      BY <1>8, <2>2, <1>a DEF Site!Receive
    <3> QED BY <3>1, <2>0, <1>0, <1>b, <1>c, NothingNew
  <2> QED BY <2>1, <2>2
<1>9. CASE Site!GiveUp(p)
  <2>0. call' = [call EXCEPT ![p] = Site!NoCall] /\ UNCHANGED row
    BY <1>9 DEF Site!GiveUp
  <2>1. CASE call[p].op = "get"
    <3> DEFINE s == IF loaded[p] THEN Site!Defaults(FALSE) ELSE form[p]
    <3>1. s \in Site!Settings /\ Known(s.image)
      BY <1>0, AllKnown, SiteValues
    <3>2. form' = [form EXCEPT ![p] = s] /\ loaded' \in [Handlers -> BOOLEAN]
      BY <1>9, <2>1, <1>0 DEF Site!GiveUp
    <3> HIDE DEF s
    <3> QED BY <3>1, <3>2, <2>0, <1>0, <1>b, AllKnown, SiteValues, NothingNew
  <2>2. CASE call[p].op # "get"
    <3>1. form' = [form EXCEPT ![p] = form[p]] /\ UNCHANGED loaded
      BY <1>9, <2>2, <1>a DEF Site!GiveUp
    <3> QED BY <3>1, <2>0, <1>0, <1>b, <1>c, NothingNew
  <2> QED BY <2>1, <2>2
<1> QED BY <1>1, <1>2, <1>3, <1>5, <1>6, <1>7, <1>8, <1>9 DEF PageStep

(* The uploads of a page move to the next check, with a file that is still *)
(* there, or end.                                                          *)
LEMMA UploadMoves ==
  ASSUME SiteFits, NEW p \in Handlers,
         NEW at \in {"idle", "written", "valid", "scan", "answer"},
         NEW i \in Images \cup {NoOne},
         upload' = [upload EXCEPT ![p] = [at |-> at, image |-> i]],
         at # "idle" => i = upload[p].image /\ upload[p].at # "idle",
         at = "scan" => disk[i] # "other",
         at = "answer" => Fit(i),
         UNCHANGED <<row, disk, loaded, form, call>>
  PROVE  SiteFits'
<1>1. /\ upload' \in [Handlers -> [at: {"idle", "written", "valid", "scan", "answer"},
                                   image: Images \cup {NoOne}]]
      /\ upload'[p].at = at /\ upload'[p].image = i
      /\ \A q \in Handlers \ {p} : upload'[q] = upload[q]
  BY DEF SiteFits, Site!TypeOK
<1>2. \A j : (Mentions(j)' <=> Mentions(j)) /\ (Fit(j)' <=> Fit(j))
  BY DEF Mentions, Fit, Site!Servable, Site!Passes
<1>3. ASSUME NEW q \in Handlers PROVE Examined(q)'
  <2>1. Examined(q) /\ Examined(p)
    BY DEF SiteFits
  <2>2. CASE q = p
    BY <2>1, <2>2, <1>1, <1>2 DEF Examined
  <2>3. CASE q # p
    BY <2>1, <2>3, <1>1, <1>2 DEF Examined
  <2> QED BY <2>2, <2>3
<1>4. Site!TypeOK'
  BY <1>1 DEF SiteFits, Site!TypeOK
<1> QED BY <1>2, <1>3, <1>4 DEF SiteFits

(* A file that comes or goes is mentioned nowhere, and is no other         *)
(* upload's.                                                               *)
LEMMA FileChanges ==
  ASSUME SiteFits, NEW p \in Handlers, NEW i \in Images, NEW file \in Site!Files,
         NEW u \in [at: {"idle", "written"}, image: Images \cup {NoOne}],
         upload' = [upload EXCEPT ![p] = u], disk' = [disk EXCEPT ![i] = file],
         ~Mentions(i),
         \A q \in Handlers \ {p} : upload[q].at # "idle" => upload[q].image # i,
         u.at = "written" => u.image = i /\ file # "none",
         UNCHANGED <<row, loaded, form, call>>
  PROVE  SiteFits'
<1>1. /\ upload' \in [Handlers -> [at: {"idle", "written", "valid", "scan", "answer"},
                                   image: Images \cup {NoOne}]]
      /\ upload'[p] = u
      /\ \A q \in Handlers \ {p} : upload'[q] = upload[q]
      /\ disk' \in [Images -> Site!Files] /\ disk'[i] = file
      /\ \A j \in Images \ {i} : disk'[j] = disk[j]
  BY DEF SiteFits, Site!TypeOK
<1>2. \A j : Mentions(j)' <=> Mentions(j)
  BY DEF Mentions
<1>3. \A j \in Images \ {i} : Fit(j)' <=> Fit(j)
  BY <1>1 DEF Fit, Site!Servable, Site!Passes
<1>4. ASSUME NEW q \in Handlers PROVE Examined(q)'
  <2>1. Examined(q)
    BY DEF SiteFits
  <2>2. CASE q = p
    BY <2>2, <1>1, <1>2 DEF Examined
  <2>3. CASE q # p
    <3>1. upload'[q] = upload[q] /\ (upload[q].at # "idle" => upload[q].image \in Images \ {i})
      BY <2>1, <2>3, <1>1 DEF Examined
    <3>2. ASSUME NEW r \in Handlers \ {q}, upload[q].at # "idle", upload'[r].at # "idle"
          PROVE  upload'[r].image # upload[q].image
      <4>1. CASE r = p
        BY <4>1, <3>1, <3>2, <1>1
      <4>2. CASE r # p
        BY <4>2, <3>2, <2>1, <1>1 DEF Examined
      <4> QED BY <4>1, <4>2
    <3> QED BY <3>1, <3>2, <2>1, <1>1, <1>2, <1>3 DEF Examined
  <2> QED BY <2>2, <2>3
<1>5. Site!TypeOK'
  BY <1>1 DEF SiteFits, Site!TypeOK
<1>6. \A j \in Images : Mentions(j)' => Fit(j)'
  BY <1>2, <1>3 DEF SiteFits
<1> QED BY <1>4, <1>5, <1>6 DEF SiteFits

(* The steps of an upload.                                                 *)
UploadStep(p) ==
  \/ \E i \in Images, file \in Site!Files \ {"none"} : Site!Choose(p, i, file)
  \/ Site!Validate(p) \/ Site!Inspect(p) \/ Site!Scan(p) \/ Site!Uploaded(p) \/ Site!Abandon(p)

(* An image is mentioned only after its last check, and no file goes that  *)
(* is mentioned.                                                           *)
LEMMA UploadStepOk ==
  ASSUME SiteFits, NEW p \in Handlers, UploadStep(p)
  PROVE  SiteFits'
<1>0. /\ upload[p] \in [at: {"idle", "written", "valid", "scan", "answer"},
                        image: Images \cup {NoOne}]
      /\ upload \in [Handlers -> [at: {"idle", "written", "valid", "scan", "answer"},
                                  image: Images \cup {NoOne}]]
      /\ disk \in [Images -> Site!Files]
  BY DEF SiteFits, Site!TypeOK
<1>a. Examined(p)
  BY DEF SiteFits
<1> DEFINE j == upload[p].image
<1>b. ASSUME NEW at \in {"valid", "scan", "answer"}, Site!At(p, at), upload[p].at # "idle",
             UNCHANGED <<row, disk, loaded, form, call>>,
             at = "scan" => disk[j] # "other", at = "answer" => Fit(j)
      PROVE  SiteFits'
  <2>0. [upload[p] EXCEPT !.at = at] = [at |-> at, image |-> j]
    BY <1>0
  <2>1. upload' = [upload EXCEPT ![p] = [at |-> at, image |-> j]]
    BY <1>b, <2>0 DEF Site!At
  <2>2. j \in Images \cup {NoOne}
    BY <1>0
  <2> QED BY <2>1, <2>2, <1>b, UploadMoves
<1>c. ASSUME Site!Refused(p), upload[p].at # "idle", UNCHANGED <<row, loaded, form, call>>
      PROVE  SiteFits'
  <2>1. /\ j \in Images /\ ~Mentions(j)
        /\ \A q \in Handlers \ {p} : upload[q].at # "idle" => upload[q].image # j
    BY <1>a, <1>c DEF Examined
  <2>2. /\ disk' = [disk EXCEPT ![j] = "none"]
        /\ upload' = [upload EXCEPT ![p] = Site!NoUpload]
    BY <1>c DEF Site!Refused
  <2>3. /\ Site!NoUpload \in [at: {"idle", "written"}, image: Images \cup {NoOne}]
        /\ Site!NoUpload.at = "idle"
        /\ "none" \in Site!Files
    BY DEF Site!NoUpload, Site!Files
  <2> HIDE DEF j
  <2> QED BY <2>1, <2>2, <2>3, <1>c, FileChanges
<1>1. ASSUME NEW i \in Images, NEW file \in Site!Files \ {"none"}, Site!Choose(p, i, file)
      PROVE  SiteFits'
  <2>1. /\ disk[i] = "none" /\ disk' = [disk EXCEPT ![i] = file]
        /\ upload' = [upload EXCEPT ![p] = [at |-> "written", image |-> i]]
        /\ UNCHANGED <<row, loaded, form, call>>
    BY <1>1 DEF Site!Choose
  <2>2. ~Mentions(i)
    BY <2>1 DEF SiteFits, Fit, Site!Servable
  <2>3. \A q \in Handlers \ {p} : upload[q].at # "idle" => upload[q].image # i
    BY <2>1 DEF SiteFits, Examined
  <2> QED BY <2>1, <2>2, <2>3, FileChanges
<1>2. CASE Site!Validate(p)
  BY <1>2, <1>b, <1>c DEF Site!Validate
<1>3. CASE Site!Inspect(p)
  BY <1>3, <1>b, <1>c DEF Site!Inspect
<1>4. CASE Site!Scan(p)
  <2>1. CASE Site!Passes(j)
    <3>1. Fit(j)
      <4>1. j \in Images /\ disk[j] \in Site!Files /\ disk[j] \notin {"none", "other"}
        BY <1>4, <1>a, <1>0 DEF Site!Scan, Examined
      <4> QED BY <4>1, <2>1 DEF Fit, Site!Servable, Site!Files
    <3> QED BY <3>1, <2>1, <1>4, <1>b DEF Site!Scan
  <2>2. CASE ~Site!Passes(j)
    BY <2>2, <1>4, <1>c DEF Site!Scan
  <2> QED BY <2>1, <2>2
<1>5. CASE Site!Uploaded(p)
  <2> DEFINE s == [form[p] EXCEPT !.image = j]
  <2>1. j \in Images /\ Fit(j) /\ upload[p].at # "idle"
        /\ \A q \in Handlers \ {p} : upload[q].at # "idle" => upload[q].image # j
    BY <1>5, <1>a DEF Site!Uploaded, Examined
  <2>2. /\ form \in [Handlers -> Site!Settings] /\ form[p] \in Site!Settings
        /\ s \in Site!Settings /\ s.image = j
    BY <2>1 DEF SiteFits, Site!TypeOK, Site!Settings
  <2>3. /\ form' = [form EXCEPT ![p] = s]
        /\ upload' = [upload EXCEPT ![p] = Site!NoUpload]
        /\ UNCHANGED <<row, disk, loaded, call>>
    BY <1>5 DEF Site!Uploaded
  <2> HIDE DEF s
  <2>4. /\ form' \in [Handlers -> Site!Settings] /\ form'[p] = s
        /\ \A q \in Handlers \ {p} : form'[q] = form[q] /\ upload'[q] = upload[q]
        /\ upload'[p].at = "idle"
        /\ upload' \in [Handlers -> [at: {"idle", "written", "valid", "scan", "answer"},
                                     image: Images \cup {NoOne}]]
    BY <2>2, <2>3, <1>0 DEF Site!NoUpload
  <2>5. \A i : Fit(i)' <=> Fit(i)
    BY <2>3 DEF Fit, Site!Servable, Site!Passes
  <2>6. \A i : Mentions(i)' => Mentions(i) \/ i = j
    BY <2>2, <2>3, <2>4 DEF Mentions
  <2>7. ASSUME NEW q \in Handlers PROVE Examined(q)'
    <3>1. Examined(q)
      BY DEF SiteFits
    <3>2. CASE q = p
      BY <3>2, <2>4 DEF Examined
    <3>3. CASE q # p
      BY <3>1, <3>3, <2>1, <2>3, <2>4, <2>5, <2>6 DEF Examined
    <3> QED BY <3>2, <3>3
  <2>8. Site!TypeOK'
    BY <2>3, <2>4 DEF SiteFits, Site!TypeOK
  <2> QED BY <2>1, <2>5, <2>6, <2>7, <2>8 DEF SiteFits
<1>6. CASE Site!Abandon(p)
  BY <1>6, UploadMoves DEF Site!Abandon, Site!NoUpload
<1> QED BY <1>1, <1>2, <1>3, <1>4, <1>5, <1>6 DEF UploadStep

(* Nothing is uploaded yet.                                                *)
LEMMA SiteInit == Site!Init => SiteFits
<1> SUFFICES ASSUME Site!Init PROVE SiteFits
  OBVIOUS
<1>1. Site!TypeOK
  BY SiteValues DEF Site!Init, Site!TypeOK, Site!Files, Site!NoUpload, Calls
<1>2. \A i \in Images : ~Mentions(i)
  BY SiteValues, SiteParameters DEF Site!Init, Mentions
<1>3. \A p \in Handlers : Examined(p)
  BY DEF Site!Init, Site!NoUpload, Examined
<1> QED BY <1>1, <1>2, <1>3 DEF SiteFits

(* Every step of the site keeps the invariant.                             *)
LEMMA SiteNext == SiteFits /\ [Site!Next]_siteVars => SiteFits'
<1> SUFFICES ASSUME SiteFits, [Site!Next]_siteVars PROVE SiteFits'
  OBVIOUS
<1>1. CASE UNCHANGED siteVars
  <2>1. \A i : (Mentions(i)' <=> Mentions(i)) /\ (Fit(i)' <=> Fit(i))
    BY <1>1 DEF siteVars, Mentions, Fit, Site!Servable, Site!Passes
  <2>2. \A p \in Handlers : Examined(p)'
    BY <1>1, <2>1 DEF siteVars, SiteFits, Examined
  <2>3. Site!TypeOK'
    BY <1>1 DEF siteVars, SiteFits, Site!TypeOK
  <2> QED BY <2>1, <2>2, <2>3 DEF SiteFits
<1>2. CASE Site!Next
  BY <1>2, PageStepOk, UploadStepOk DEF Site!Next, PageStep, UploadStep
<1> QED BY <1>1, <1>2

-----------------------------------------------------------------------------
(* The theorems.                                                           *)

(* The tables, what has been proved with them and what handlers hold of    *)
(* them agree in every reachable state.                                    *)
THEOREM Invariance == Spec => []IInv
<1>1. IInv /\ [Next]_vars => IInv'
  BY NextOk
<1> QED BY <1>1, InitOk, PTL DEF Spec

(* Every variable keeps its type.                                          *)
THEOREM TypeCorrect == Spec => []TypeOK
<1>1. IInv => TypeOK
  BY DEF IInv, FactorsOk, CodesOk, ChallengesOk, HandlersOk, TypeOK
<1> QED BY <1>1, Invariance, PTL

(* However many requests present the same code, verifyTotpForFactor and    *)
(* verifyAndConsumeRecoveryCode succeed for one of them.                   *)
THEOREM EachProofOnce == Spec => []ProofsCountOnce
<1>1. IInv => ProofsCountOnce
  <2> SUFFICES ASSUME IInv PROVE ProofsCountOnce
    OBVIOUS
  <2>1. ASSUME NEW p \in Factors \X Periods PROVE stepUses[p] <= 1
    <3>1. PICK f \in Factors, s \in Periods : p = <<f, s>>
      OBVIOUS
    <3> QED BY <3>1 DEF IInv, FactorsOk
  <2> QED BY <2>1 DEF IInv, CodesOk, ProofsCountOnce
<1> QED BY <1>1, Invariance, PTL

(* verifyMfaLogin creates at most one session for a challenge.             *)
THEOREM OneSession == Spec => []OneSessionPerChallenge
<1>1. IInv => OneSessionPerChallenge
  BY DEF IInv, ChallengesOk, OneSessionPerChallenge
<1> QED BY <1>1, Invariance, PTL

(* Enrollments and resets that overlap leave at most one active and one    *)
(* pending factor.                                                         *)
THEOREM OneOfEachStatus == Spec => []OneFactorEach
<1>1. IInv => OneFactorEach
  BY DEF IInv, FactorsOk
<1> QED BY <1>1, Invariance, PTL

(* consumeTotpTimestep and the activation never take a period back.        *)
THEOREM NoPeriodBack == Spec => PeriodsMoveForward
<1>1. IInv /\ [Next]_vars => [\A f \in Factors : factor[f].last <= factor'[f].last]_vars
  BY NextOk
<1> QED BY <1>1, Invariance, PTL DEF Spec, PeriodsMoveForward

(* However many requests answer a challenge together, no more of them are  *)
(* refused than the limit lets begin (incrementMfaChallengeAttempts and    *)
(* invalidateMfaChallenge come in statements of their own).                *)
THEOREM RefusalsLimited == Spec => []RefusalsAreLimited
<1>1. IInv /\ Limited /\ [Next]_vars => IInv' /\ Limited'
  BY NextOk, NextLimited
<1>2. IInv /\ Limited => RefusalsAreLimited
  <2> SUFFICES ASSUME IInv, Limited, NEW c \in Challenges
               PROVE  refused[c] <= MaxAttempts - 1 + MaxActive
    BY DEF RefusalsAreLimited
  <2>1. RefusalsOk(c) /\ refused[c] \in Nat /\ Cardinality(Answering(c)) \in Nat
    BY AnsweringFinite DEF Limited, IInv, ChallengesOk
  <2> QED BY <2>1, BoundsAssumption, MaxAttemptsAssumption DEF RefusalsOk
<1> QED BY <1>1, <1>2, InitOk, InitLimited, PTL DEF Spec

(* However uploads, saves and loads of any number of administrators        *)
(* overlap, an image that is stored or in a form can be served and has     *)
(* passed the scan (site-settings.service.js, upload-storage.service.js).  *)
THEOREM StoredImagesServed == MCSpec => []StoredImagesAreServed
<1> DEFINE OnSite == part = "site"
           MCVars == <<part, factorVars, siteVars, serialVars>>
<1>1. MCInit => (OnSite => SiteFits)
  BY SiteInit DEF MCInit
<1>2. (OnSite => SiteFits) /\ [MCNext]_MCVars => (OnSite => SiteFits)'
  <2> SUFFICES ASSUME OnSite => SiteFits, [MCNext]_MCVars, OnSite' PROVE SiteFits'
    OBVIOUS
  <2>1. OnSite /\ [Site!Next]_siteVars
    BY DEF MCNext
  <2> QED BY <2>1, SiteNext
<1>3. SiteFits => Site!TypeOK /\ Site!StoredImagesAreServed
  BY DEF SiteFits, Site!StoredImagesAreServed, Mentions, Fit, Site!Passes
<1>4. (OnSite => SiteFits) => StoredImagesAreServed
  BY <1>3 DEF StoredImagesAreServed
<1> QED BY <1>1, <1>2, <1>4, PTL DEF MCSpec
=============================================================================

-------------------------- MODULE RetentionProofs ---------------------------
(* For any tables, runs and administrators, any limit of the batches and    *)
(* any time: a run takes rows for cause only, misses none that was due,     *)
(* counts none twice and leaves no name of a lead it has anonymized, but    *)
(* for what conflict checks write afterwards.                               *)
(*                                                                          *)
(* A run judges its batch when it reads it and takes the rows later, one    *)
(* statement after the other.  The invariants are about what lies between:  *)
(* a row of a batch that is still kept is as due as it was when it was      *)
(* read, or somebody has changed it, or the lead it is judged by, since     *)
(* then; a row that a run still owes is in its batch or in a category it    *)
(* has not finished; what was counted is not kept; and an anonymization     *)
(* that is under way has the tables behind it done.                         *)
EXTENDS Retention, FiniteSetTheorems, WellFoundedInduction, TLAPS

Numbers == Nat \cup {None}

RowTypes == [fate: Fates, hold: BOOLEAN, since: Nat, until: Numbers, scheduled: Numbers,
             stage: Stages \cup {"approved", None}]

RowsFit == now \in Nat /\ row \in [Records -> RowTypes]

HandlersFit ==
  /\ pc = [h \in Handlers |-> pc[h]]
  /\ touched = [h \in Handlers |-> touched[h]]
  /\ local \in [Handlers -> Locals]

(* What the SELECTs find and the policy allows.                             *)
Due(r) == Found(r) /\ Eligible(r)

RunsFit ==
  \A h \in Handlers :
    /\ pc[h] = "idle" => local[h].batch = {}
    /\ \A r \in Records :
         r \in local[h].batch /\ row[r].fate = "kept" => Due(r) \/ r \in touched[h]

Inv == RowsFit /\ HandlersFit /\ RunsFit

(* A row that stays as it is, with the lead it is judged by, stays due when *)
(* time goes by; that the lead is anonymized makes no difference.           *)
LEMMA DueStays ==
  ASSUME Parameters, RowsFit, NEW r \in Records, Due(r),
         now' \in Nat, now <= now', row'[r] = row[r],
         r \in Documents =>
           /\ row'[LeadOf[r]].hold = row[LeadOf[r]].hold
           /\ row'[LeadOf[r]].stage = row[LeadOf[r]].stage
           /\ row'[LeadOf[r]].fate = "hidden" => row[LeadOf[r]].fate = "hidden"
  PROVE  Due(r)'
<1> DEFINE x == row[r]
<1>1. /\ x.since \in Nat /\ now \in Nat
      /\ x.scheduled # None => x.scheduled \in Nat
      /\ x.until # None => x.until \in Nat
  BY DEF RowsFit, RowTypes, Numbers
<1>2. ScheduleIsDue(x) => (ScheduleIsDue(x))'
  BY <1>1 DEF ScheduleIsDue
<1>3. PeriodIsOver(x) => (PeriodIsOver(x))'
  BY <1>1 DEF PeriodIsOver
<1>4. x.since < now => x.since < now'
  BY <1>1
<1>5. Found(r)'
  <2>1. row'[r].fate = "kept"
    BY DEF Due, Found
  <2>2. r \in Leads => FoundLead(row[r])'
    BY <1>2, <1>3 DEF Due, Found, FoundLead
  <2>3. r \in Documents => FoundDocument(row[r], row[LeadOf[r]])'
    BY <1>2, <1>3 DEF Due, Found, FoundDocument
  <2>4. r \in Audits => row'[r].hold \/ ScheduleIsDue(row[r])' \/ PeriodIsOver(row[r])'
    BY <1>2, <1>3 DEF Due, Found
  <2>5. r \in Logs \cup AdminLogs \cup Sessions => row'[r].since < now'
    BY <1>4 DEF Due, Found
  <2> QED
    BY <2>1, <2>2, <2>3, <2>4, <2>5 DEF Found
<1>6. Eligible(r)'
  <2>1. ~row'[r].hold
    BY DEF Due, Eligible
  <2>2. r \in Leads => LeadEligible(row[r])'
    BY <1>2, <1>3 DEF Due, Eligible, LeadEligible
  <2>3. r \in Documents => DocumentEligible(row[r], row[LeadOf[r]])'
    BY <1>2, <1>3 DEF Due, Eligible, DocumentEligible
  <2> QED
    BY <2>1, <2>2, <2>3 DEF Eligible
<1> QED
  BY <1>5, <1>6 DEF Due

(* A step leaves the batches in order if it adds nothing to them, and notes *)
(* for everybody who is on the way the rows that it makes less due.         *)
LEMMA RunsStay ==
  ASSUME RunsFit,
         \A h \in Handlers : /\ local'[h].batch \subseteq local[h].batch
                             /\ pc'[h] = "idle" => local'[h].batch = {}
                             /\ touched[h] \subseteq touched'[h] \/ local'[h].batch = {},
         \A r \in Records :
           row'[r].fate = "kept" =>
             /\ row[r].fate = "kept"
             /\ Due(r) => \/ Due(r)'
                          \/ \A h \in Handlers : pc[h] # "idle" => r \in touched'[h]
  PROVE  RunsFit'
<1> SUFFICES ASSUME NEW h \in Handlers, NEW r \in Records,
                    r \in local'[h].batch, row'[r].fate = "kept"
             PROVE  Due(r)' \/ r \in touched'[h]
  BY DEF RunsFit
<1>1. r \in local[h].batch /\ pc[h] # "idle"
  BY DEF RunsFit
<1>2. Due(r) \/ r \in touched[h]
  BY <1>1 DEF RunsFit
<1> QED
  BY <1>1, <1>2

(* A handler that goes on keeps what makes it a handler.                    *)
LEMMA GotoFits ==
  ASSUME HandlersFit, NEW h \in Handlers, NEW step, NEW l, l \in Locals, Goto(h, step, l),
         touched' = [g \in Handlers |-> touched'[g]]
  PROVE  /\ HandlersFit'
         /\ pc'[h] = step /\ local'[h] = l
         /\ \A g \in Handlers : g # h => pc'[g] = pc[g] /\ local'[g] = local[g]
<1>1. pc' = [g \in Handlers |-> IF g = h THEN step ELSE pc[g]]
  BY DEF HandlersFit, Goto
<1>2. local' = [g \in Handlers |-> IF g = h THEN l ELSE local[g]]
  BY DEF HandlersFit, Goto
<1>3. pc' = [g \in Handlers |-> pc'[g]] /\ local' \in [Handlers -> Locals]
  BY <1>1, <1>2 DEF HandlersFit
<1> QED
  BY <1>1, <1>2, <1>3 DEF HandlersFit

(* The first of the categories that are left is one of them.                *)
LEMMA FirstIsName ==
  ASSUME NEW todo \in SUBSET Names, todo # {}
  PROVE  First(todo) \in Names
<1> DEFINE P(i) == Categories[i] \in todo /\ \A j \in 1..i - 1 : Categories[j] \notin todo
<1>1. /\ Len(Categories) = 5
      /\ Names = {Categories[i] : i \in 1..5}
  BY DEF Categories, Names
<1>2. PICK k \in 1..5 : Categories[k] \in todo
  BY <1>1
<1>3. \E i \in 1..5 : P(i)
  <2>1. P(1) \/ Categories[1] \notin todo
    OBVIOUS
  <2>2. P(2) \/ Categories[1] \in todo \/ Categories[2] \notin todo
    OBVIOUS
  <2>3. P(3) \/ Categories[1] \in todo \/ Categories[2] \in todo \/ Categories[3] \notin todo
    OBVIOUS
  <2>4. P(4) \/ Categories[1] \in todo \/ Categories[2] \in todo \/ Categories[3] \in todo
        \/ Categories[4] \notin todo
    OBVIOUS
  <2>5. P(5) \/ Categories[1] \in todo \/ Categories[2] \in todo \/ Categories[3] \in todo
        \/ Categories[4] \in todo \/ Categories[5] \notin todo
    OBVIOUS
  <2>6. k \in {1, 2, 3, 4, 5}
    OBVIOUS
  <2> HIDE DEF P
  <2> QED
    BY <1>2, <2>1, <2>2, <2>3, <2>4, <2>5, <2>6
<1>4. First(todo) = Categories[CHOOSE i \in 1..5 : P(i)]
  BY <1>1 DEF First
<1>5. (CHOOSE i \in 1..5 : P(i)) \in 1..5
  <2> HIDE DEF P
  <2> QED
    BY <1>3
<1> QED
  BY <1>1, <1>4, <1>5

(* A batch has rows of its category only, and, once it is judged, rows that *)
(* are due.                                                                 *)
LEMMA BatchIsDue ==
  ASSUME NEW c \in Names
  PROVE  /\ Workable(Batch(c)) \subseteq Records
         /\ \A r \in Workable(Batch(c)) : Due(r)
<1>1. InCategory(c) \subseteq Records
  BY DEF Names, Categories, InCategory, Records
<1>2. \A r \in Batch(c) : r \in InCategory(c) /\ Found(r)
  BY DEF Batch, Oldest
<1> QED
  BY <1>1, <1>2 DEF Workable, Due

(* Rows that lose their names, or are deleted, leave the others as due as   *)
(* they are.                                                                *)
LEMMA StillDue ==
  ASSUME Parameters, RowsFit, now' = now, row' \in [Records -> RowTypes],
         \A r \in Records :
           \/ row'[r] = row[r]
           \/ \E fate \in {"anonymized", "deleted"} : row'[r] = [row[r] EXCEPT !.fate = fate]
  PROVE  \A r \in Records :
           row'[r].fate = "kept" => row[r].fate = "kept" /\ (Due(r) => Due(r)')
<1>1. now \in Nat /\ row \in [Records -> RowTypes]
  BY DEF RowsFit
<1>2. ASSUME NEW r \in Records
      PROVE  /\ row[r] \in RowTypes /\ row'[r] \in RowTypes
             /\ row'[r].hold = row[r].hold /\ row'[r].stage = row[r].stage
             /\ row'[r].fate \in {row[r].fate, "anonymized", "deleted"}
             /\ row'[r].fate = "kept" => row'[r] = row[r]
  BY <1>1 DEF RowTypes
<1>3. ASSUME NEW r \in Records, row'[r].fate = "kept"
      PROVE  row[r].fate = "kept" /\ (Due(r) => Due(r)')
  <2>1. row'[r] = row[r]
    BY <1>2, <1>3
  <2>2. r \in Documents => LeadOf[r] \in Records
    BY DEF Parameters, Records
  <2>3. r \in Documents =>
          /\ row'[LeadOf[r]].hold = row[LeadOf[r]].hold
          /\ row'[LeadOf[r]].stage = row[LeadOf[r]].stage
          /\ row'[LeadOf[r]].fate = "hidden" => row[LeadOf[r]].fate = "hidden"
    BY <1>2, <2>2
  <2>4. now' \in Nat /\ now <= now'
    BY <1>1
  <2> QED
    BY <1>3, <2>1, <2>3, <2>4, DueStays
<1> QED
  BY <1>3

(* After such a step a handler has a part of its batch.                     *)
LEMMA TakeInv ==
  ASSUME Parameters, Inv, NEW h \in Handlers, NEW step, NEW l, l \in Locals, Goto(h, step, l),
         l.batch \subseteq local[h].batch, step = "idle" => l.batch = {},
         touched' = touched \/ (touched' = [touched EXCEPT ![h] = {}] /\ l.batch = {}),
         now' = now, row' \in [Records -> RowTypes],
         \A r \in Records :
           \/ row'[r] = row[r]
           \/ \E fate \in {"anonymized", "deleted"} : row'[r] = [row[r] EXCEPT !.fate = fate]
  PROVE  Inv'
<1>1. RowsFit /\ HandlersFit /\ RunsFit /\ now \in Nat
  BY DEF Inv, RowsFit
<1>2. touched' = [g \in Handlers |-> touched'[g]]
  BY <1>1 DEF HandlersFit
<1>3. /\ HandlersFit'
      /\ pc'[h] = step /\ local'[h] = l
      /\ \A g \in Handlers : g # h => pc'[g] = pc[g] /\ local'[g] = local[g]
  BY <1>1, <1>2, GotoFits
<1>4. RowsFit'
  BY <1>1 DEF RowsFit
<1>5. ASSUME NEW g \in Handlers
      PROVE  /\ local'[g].batch \subseteq local[g].batch
             /\ pc'[g] = "idle" => local'[g].batch = {}
             /\ touched[g] \subseteq touched'[g] \/ local'[g].batch = {}
  <2>1. pc[g] = "idle" => local[g].batch = {}
    BY <1>1 DEF RunsFit
  <2>2. CASE g = h
    BY <1>3, <1>1, <2>2 DEF HandlersFit
  <2>3. CASE g # h
    BY <1>3, <1>1, <2>1, <2>3 DEF HandlersFit
  <2> QED
    BY <2>2, <2>3
<1>6. \A r \in Records : row'[r].fate = "kept" => row[r].fate = "kept" /\ (Due(r) => Due(r)')
  BY <1>1, StillDue
<1>7. RunsFit'
  BY <1>1, <1>5, <1>6, RunsStay
<1> QED
  BY <1>3, <1>4, <1>7 DEF Inv

(* Whoever changes a row notes it, with the documents judged by it, for all *)
(* who are on the way.                                                      *)
LEMMA ChangeInv ==
  ASSUME Parameters, Inv, HandlersFit',
         \A g \in Handlers : /\ local'[g].batch \subseteq local[g].batch
                             /\ pc'[g] = "idle" => local'[g].batch = {},
         NEW target, Touch(With(target)),
         now' = now, row' \in [Records -> RowTypes],
         \A r \in Records : /\ r # target => row'[r] = row[r]
                            /\ row'[r].fate = "kept" => row[r].fate = "kept"
  PROVE  Inv'
<1>1. RowsFit /\ HandlersFit /\ RunsFit /\ now \in Nat
  BY DEF Inv, RowsFit
<1>2. RowsFit'
  BY <1>1 DEF RowsFit
<1>3. \A g \in Handlers :
        touched'[g] = IF pc[g] = "idle" THEN {} ELSE touched[g] \cup With(target)
  BY DEF Touch
<1>4. \A g \in Handlers : pc[g] = "idle" => local[g].batch = {}
  BY <1>1 DEF RunsFit
<1>5. ASSUME NEW g \in Handlers
      PROVE  /\ local'[g].batch \subseteq local[g].batch
             /\ pc'[g] = "idle" => local'[g].batch = {}
             /\ touched[g] \subseteq touched'[g] \/ local'[g].batch = {}
  BY <1>3, <1>4
<1>6. ASSUME NEW r \in Records, row'[r].fate = "kept"
      PROVE  /\ row[r].fate = "kept"
             /\ Due(r) => \/ Due(r)'
                          \/ \A g \in Handlers : pc[g] # "idle" => r \in touched'[g]
  <2>1. CASE r \in With(target)
    BY <1>3, <1>6, <2>1
  <2>2. CASE r \notin With(target)
    <3>1. row'[r] = row[r]
      BY <2>2 DEF With
    <3>2. r \in Documents => LeadOf[r] \in Records /\ LeadOf[r] # target
      BY <2>2 DEF With, Parameters, Records
    <3>3. r \in Documents => row'[LeadOf[r]] = row[LeadOf[r]]
      BY <3>2
    <3>4. now' \in Nat /\ now <= now'
      BY <1>1
    <3>5. Due(r) => Due(r)'
      BY <1>1, <3>1, <3>3, <3>4, DueStays
    <3> QED
      BY <1>6, <3>5
  <2> QED
    BY <2>1, <2>2
<1>7. RunsFit'
  BY <1>1, <1>5, <1>6, RunsStay
<1> QED
  BY <1>2, <1>7 DEF Inv

(* What StartRun, Ask, Consider, Complete and Die leave a handler with.     *)
LEMMA NoLocalFits ==
  ASSUME Parameters
  PROVE  /\ NoLocal \in Locals /\ NoLocal.batch = {}
         /\ \A dry \in BOOLEAN, todo \in SUBSET Names :
              LET l == [NoLocal EXCEPT !.dry = dry, !.todo = todo]
              IN  l \in Locals /\ l.batch = {}
         /\ \A r \in Records, setting \in Settings, date \in Dates \cup {None} :
              LET l == [NoLocal EXCEPT !.target = r, !.setting = setting, !.date = date]
              IN  l \in Locals /\ l.batch = {}
         /\ \A r \in Leads, names \in BOOLEAN, stage \in Stages \cup {None} :
              LET l == [NoLocal EXCEPT !.target = r, !.names = names, !.stage = stage]
              IN  l \in Locals /\ l.batch = {} /\ l.target = r /\ l.stage = stage
<1>1. /\ NoLocal \in Locals /\ NoLocal.batch = {}
      /\ \A dry \in BOOLEAN, todo \in SUBSET Names :
           LET l == [NoLocal EXCEPT !.dry = dry, !.todo = todo]
           IN  l \in Locals /\ l.batch = {}
  BY DEF NoLocal, Locals, Settings
<1>2. ASSUME NEW r \in Records, NEW setting \in Settings, NEW date \in Dates \cup {None}
      PROVE  LET l == [NoLocal EXCEPT !.target = r, !.setting = setting, !.date = date]
             IN  l \in Locals /\ l.batch = {}
  BY DEF NoLocal, Locals, Settings
<1>3. ASSUME NEW r \in Leads, NEW names \in BOOLEAN, NEW stage \in Stages \cup {None}
      PROVE  LET l == [NoLocal EXCEPT !.target = r, !.names = names, !.stage = stage]
             IN  l \in Locals /\ l.batch = {} /\ l.target = r /\ l.stage = stage
  <2>1. r \in Records
    BY DEF Records
  <2> QED
    BY <2>1 DEF NoLocal, Locals, Settings
<1> QED
  BY <1>1, <1>2, <1>3

(* A member of the staff turns to a matter.                                 *)
Considers(h) ==
  \E l \in Leads, stage \in Stages \cup {None} :
    \/ ConsiderMove(h, l, stage)
    \/ \E names \in BOOLEAN : ConsiderCheck(h, l, names, stage)

(* The request has the lead, and the stage if it is one to move it.         *)
LEMMA ConsiderGoes ==
  ASSUME Parameters, NEW h \in Handlers, Considers(h)
  PROVE  /\ \E l \in Locals, step \in {"check", "move"} :
              /\ Goto(h, step, l) /\ l.batch = {} /\ l.target \in Leads
              /\ step = "move" => l.stage \in Stages
         /\ pc[h] = "idle" /\ Forget(h)
         /\ changes < MaxChanges /\ changes' = changes + 1
         /\ UNCHANGED <<now, row, parts, reported, missed, torn, rewritten>>
<1>1. PICK r \in Leads, stage \in Stages \cup {None}, names \in BOOLEAN, step \in {"check", "move"} :
        Consider(h, r, step, names, stage) /\ (step = "move" => stage # None)
  BY DEF Considers, ConsiderMove, ConsiderCheck
<1> DEFINE l == [NoLocal EXCEPT !.target = r, !.names = names, !.stage = stage]
<1>2. l \in Locals /\ l.batch = {} /\ l.target = r /\ l.stage = stage
  BY NoLocalFits DEF NoLocal
<1>3. Goto(h, step, l)
  BY <1>1 DEF Consider
<1> HIDE DEF l
<1>4. \E k \in Locals, to \in {"check", "move"} :
        /\ Goto(h, to, k) /\ k.batch = {} /\ k.target \in Leads
        /\ to = "move" => k.stage \in Stages
  BY <1>1, <1>2, <1>3
<1> QED
  BY <1>1, <1>4 DEF Consider

(* A check that is written lets its request go on to the move, or end.      *)
LEMMA WriteCheckGoes ==
  ASSUME Parameters, NEW h \in Handlers, local[h] \in Locals, WriteCheck(h)
  PROVE  /\ \E l \in Locals, step \in {"idle", "move"} :
              /\ Goto(h, step, l)
              /\ \/ step = "idle" /\ l = NoLocal
                 \/ step = "move" /\ l = local[h] /\ l.stage \in Stages
         /\ pc[h] = "check"
         /\ UNCHANGED <<now, row, changes, reported, touched, owed, missed, torn>>
<1>1. local[h].stage \in Stages \cup {None}
  BY DEF Locals
<1>2. Goto(h, "idle", NoLocal) \/ (Goto(h, "move", local[h]) /\ local[h].stage # None)
  BY DEF WriteCheck
<1>3. \E l \in Locals, step \in {"idle", "move"} :
        /\ Goto(h, step, l)
        /\ \/ step = "idle" /\ l = NoLocal
           \/ step = "move" /\ l = local[h] /\ l.stage \in Stages
  BY <1>1, <1>2, NoLocalFits
<1> QED
  BY <1>3 DEF WriteCheck

(* runRetentionJobs begins.                                                 *)
LEMMA StartRunInv ==
  ASSUME Parameters, Inv, NEW h \in Handlers, NEW dry \in BOOLEAN, NEW selected \in Selections,
         StartRun(h, dry, selected)
  PROVE  Inv'
<1> DEFINE l == [NoLocal EXCEPT !.dry = dry, !.todo = selected]
<1>1. selected \in SUBSET Names
  BY DEF Parameters
<1>2. l \in Locals /\ l.batch = {}
  BY <1>1, NoLocalFits
<1>3. /\ Goto(h, "find", l) /\ touched' = [touched EXCEPT ![h] = {}]
      /\ now' = now /\ row' = row
  BY DEF StartRun
<1>4. row' \in [Records -> RowTypes] /\ \A r \in Records : row'[r] = row[r]
  BY <1>3 DEF Inv, RowsFit
<1> HIDE DEF l
<1> QED
  BY <1>2, <1>3, <1>4, TakeInv

(* The SELECT of a category.                                                *)
LEMMA FindInv ==
  ASSUME Parameters, Inv, NEW h \in Handlers, Find(h)
  PROVE  Inv'
<1> DEFINE c == First(local[h].todo)
           batch == Batch(c)
           step == IF c \in {"lead", "document"} THEN "work" ELSE "purge"
           found == IF local[h].dry THEN {} ELSE Workable(batch)
           l == [local[h] EXCEPT !.batch = found, !.todo = local[h].todo \ {c},
                                 !.full = local[h].full \/ Cardinality(batch) >= Limit]
<1>1. RowsFit /\ HandlersFit /\ RunsFit /\ now \in Nat
  BY DEF Inv, RowsFit
<1>2. local[h] \in Locals /\ local[h].todo # {} /\ local[h].todo \in SUBSET Names
  BY <1>1 DEF Find, HandlersFit, Locals
<1>3. c \in Names
  BY <1>2, FirstIsName
<1>4. found \subseteq Records /\ \A r \in found : Due(r)
  BY <1>3, BatchIsDue
<1>5. /\ Proceed(h, step, l)
      /\ now' = now /\ row' = row /\ touched' = touched
  BY DEF Find, observers
<1>6. l \in Locals /\ l.batch = found
  <2>1. (local[h].full \/ Cardinality(batch) >= Limit) \in BOOLEAN
    BY <1>2 DEF Locals
  <2> HIDE DEF found, batch, c
  <2> QED
    BY <1>2, <1>4, <2>1 DEF Locals
<1>7. Goto(h, IF found = {} THEN "find" ELSE step, l)
  BY <1>5, <1>6 DEF Proceed
<1> DEFINE to == IF found = {} THEN "find" ELSE step
<1>8. to # "idle"
  OBVIOUS
<1> HIDE DEF l, found, step, batch, c, to
<1>9. Goto(h, to, l)
  BY <1>7 DEF to
<1>10. touched' = [g \in Handlers |-> touched'[g]]
  BY <1>1, <1>5 DEF HandlersFit
<1>11. /\ HandlersFit'
       /\ pc'[h] = to /\ local'[h] = l
       /\ \A g \in Handlers : g # h => pc'[g] = pc[g] /\ local'[g] = local[g]
  BY <1>1, <1>6, <1>9, <1>10, GotoFits
<1>12. RowsFit'
  BY <1>1, <1>5 DEF RowsFit
<1>13. \A r \in Records : Due(r) => Due(r)'
  BY <1>1, <1>5, DueStays
<1>14. RunsFit'
  <2> SUFFICES ASSUME NEW g \in Handlers
               PROVE  /\ pc'[g] = "idle" => local'[g].batch = {}
                      /\ \A r \in Records : r \in local'[g].batch /\ row'[r].fate = "kept"
                                              => Due(r)' \/ r \in touched'[g]
    BY DEF RunsFit
  <2>1. CASE g = h
    BY <1>4, <1>6, <1>8, <1>11, <1>13, <2>1
  <2>2. CASE g # h
    BY <1>1, <1>5, <1>11, <1>13, <2>2 DEF RunsFit
  <2> QED
    BY <2>1, <2>2
<1> QED
  BY <1>11, <1>12, <1>14 DEF Inv

(* A handler that goes on with the rest of its batch.                       *)
LEMMA RestFits ==
  ASSUME NEW l \in Locals, NEW S, NEW target \in Records \cup {None}
  PROVE  /\ [l EXCEPT !.batch = @ \ S] \in Locals
         /\ [l EXCEPT !.batch = @ \ S].batch \subseteq l.batch
         /\ [l EXCEPT !.target = target] \in Locals
         /\ [l EXCEPT !.target = target].batch = l.batch
  BY DEF Locals

(* The step of a run that goes on with a part of its batch, to the next row *)
(* or the next category.                                                    *)
LEMMA ProceedInv ==
  ASSUME Parameters, Inv, NEW h \in Handlers, NEW step, step # "idle",
         NEW l \in Locals, l.batch \subseteq local[h].batch,
         Proceed(h, step, l) \/ Goto(h, step, l),
         touched' = touched, now' = now, row' \in [Records -> RowTypes],
         \A r \in Records :
           \/ row'[r] = row[r]
           \/ \E fate \in {"anonymized", "deleted"} : row'[r] = [row[r] EXCEPT !.fate = fate]
  PROVE  Inv'
<1>1. PICK to : to # "idle" /\ Goto(h, to, l)
  BY DEF Proceed
<1> QED
  BY <1>1, TakeInv

(* The statement on a whole batch.                                          *)
LEMMA PurgeInv ==
  ASSUME Parameters, Inv, NEW h \in Handlers, Purge(h)
  PROVE  Inv'
<1> DEFINE S == IF local[h].batch \cap Audits # {} THEN local[h].batch \cap Audits
                ELSE local[h].batch
           done == {r \in S : StillOpen(r)}
           l == [local[h] EXCEPT !.batch = @ \ S]
<1>1. local[h] \in Locals /\ row \in [Records -> RowTypes]
  BY DEF Inv, HandlersFit, RowsFit
<1>2. Proceed(h, "purge", l) /\ touched' = touched /\ now' = now /\ row' = Purged(done)
  BY DEF Purge
<1>3. l \in Locals /\ l.batch \subseteq local[h].batch
  BY <1>1, RestFits
<1>4. \A r \in Records :
        \/ row'[r] = row[r]
        \/ \E fate \in {"anonymized", "deleted"} : row'[r] = [row[r] EXCEPT !.fate = fate]
  BY <1>2 DEF Purged
<1>5. row' \in [Records -> RowTypes]
  BY <1>1, <1>2 DEF Purged, RowTypes, Fates
<1> HIDE DEF l
<1> QED
  BY <1>2, <1>3, <1>4, <1>5, ProceedInv

(* An UPDATE by id changes nothing but the fate of its row.                 *)
LEMMA AnonymizeFits ==
  ASSUME row \in [Records -> RowTypes], NEW r \in Records, Anonymize(r)
  PROVE  /\ row' \in [Records -> RowTypes]
         /\ \A q \in Records :
              \/ row'[q] = row[q]
              \/ \E fate \in {"anonymized", "deleted"} : row'[q] = [row[q] EXCEPT !.fate = fate]
<1>1. CASE row' = [row EXCEPT ![r].fate = "anonymized"]
  BY <1>1 DEF RowTypes, Fates
<1>2. CASE row' = row
  BY <1>2
<1> QED
  BY <1>1, <1>2 DEF Anonymize

(* runLeadRetention, runDocumentRetention and anonymizeLeadById.            *)
LEMMA AnonymizeInv ==
  ASSUME Parameters, Inv, NEW h \in Handlers,
         AnonymizeLead(h) \/ AnonymizeDocument(h) \/ AnonymizeParts(h)
  PROVE  Inv'
<1>1. local[h] \in Locals /\ row \in [Records -> RowTypes]
  BY DEF Inv, HandlersFit, RowsFit
<1>2. CASE AnonymizeLead(h)
  <2>1. PICK r \in NextOf(local[h].batch) \cap Leads :
          LET rest == [local[h] EXCEPT !.batch = @ \ {r}] IN
          /\ Anonymize(r)
          /\ IF StillOpen(r) THEN Goto(h, "intakes", [rest EXCEPT !.target = r])
                             ELSE Proceed(h, "work", rest)
    BY <1>2 DEF AnonymizeLead
  <2> DEFINE rest == [local[h] EXCEPT !.batch = @ \ {r}]
             next == [rest EXCEPT !.target = r]
  <2>2. r \in Records
    BY DEF Records
  <2>3. rest \in Locals /\ rest.batch \subseteq local[h].batch
    BY <1>1, RestFits
  <2>4. next \in Locals /\ next.batch \subseteq local[h].batch
    BY <2>2, <2>3, RestFits
  <2>5. Goto(h, "intakes", next) \/ Proceed(h, "work", rest)
    BY <2>1
  <2>6. /\ row' \in [Records -> RowTypes]
        /\ \A q \in Records :
             \/ row'[q] = row[q]
             \/ \E fate \in {"anonymized", "deleted"} : row'[q] = [row[q] EXCEPT !.fate = fate]
    BY <1>1, <2>1, <2>2, AnonymizeFits
  <2>7. touched' = touched /\ now' = now
    BY <1>2 DEF AnonymizeLead
  <2> HIDE DEF rest, next
  <2> QED
    BY <2>3, <2>4, <2>5, <2>6, <2>7, ProceedInv
<1>3. CASE AnonymizeDocument(h)
  <2>1. PICK r \in NextOf(local[h].batch) \cap Documents :
          Anonymize(r) /\ Proceed(h, "work", [local[h] EXCEPT !.batch = @ \ {r}])
    BY <1>3 DEF AnonymizeDocument
  <2> DEFINE rest == [local[h] EXCEPT !.batch = @ \ {r}]
  <2>2. r \in Records
    BY DEF Records
  <2>3. rest \in Locals /\ rest.batch \subseteq local[h].batch
    BY <1>1, RestFits
  <2>4. Proceed(h, "work", rest)
    BY <2>1
  <2>5. /\ row' \in [Records -> RowTypes]
        /\ \A q \in Records :
             \/ row'[q] = row[q]
             \/ \E fate \in {"anonymized", "deleted"} : row'[q] = [row[q] EXCEPT !.fate = fate]
    BY <1>1, <2>1, <2>2, AnonymizeFits
  <2>6. touched' = touched /\ now' = now
    BY <1>3 DEF AnonymizeDocument
  <2> HIDE DEF rest
  <2> QED
    BY <2>3, <2>4, <2>5, <2>6, ProceedInv
<1>4. CASE AnonymizeParts(h)
  <2> DEFINE next == [local[h] EXCEPT !.target = None]
  <2>1. next \in Locals /\ next.batch \subseteq local[h].batch
    BY <1>1, RestFits
  <2>2. \/ \E table \in {"lead_conflict_checks"} : Goto(h, table, local[h])
        \/ Proceed(h, "work", next)
    BY <1>4 DEF AnonymizeParts, TablesAfter
  <2>3. touched' = touched /\ now' = now /\ row' = row
    BY <1>4 DEF AnonymizeParts, observers
  <2> HIDE DEF next
  <2> QED
    BY <1>1, <2>1, <2>2, <2>3, ProceedInv
<1> QED
  BY <1>2, <1>3, <1>4

(* Errors that are counted, and the ends of runs and requests.              *)
LEMMA EndInv ==
  ASSUME Parameters, Inv, NEW h \in Handlers, FailRow(h) \/ Complete(h) \/ Die(h)
  PROVE  Inv'
<1>1. local[h] \in Locals /\ row \in [Records -> RowTypes]
  BY DEF Inv, HandlersFit, RowsFit
<1>2. CASE FailRow(h)
  <2>1. PICK l \in Locals : l.batch \subseteq local[h].batch /\ Proceed(h, "work", l)
    <3>1. ASSUME NEW r, Proceed(h, "work", [local[h] EXCEPT !.batch = @ \ {r}])
          PROVE  \E l \in Locals : l.batch \subseteq local[h].batch /\ Proceed(h, "work", l)
      <4> DEFINE l == [local[h] EXCEPT !.batch = @ \ {r}]
      <4>1. l \in Locals /\ l.batch \subseteq local[h].batch /\ Proceed(h, "work", l)
        BY <1>1, <3>1, RestFits
      <4> HIDE DEF l
      <4> QED
        BY <4>1
    <3>2. ASSUME Proceed(h, "work", [local[h] EXCEPT !.target = None])
          PROVE  \E l \in Locals : l.batch \subseteq local[h].batch /\ Proceed(h, "work", l)
      <4> DEFINE l == [local[h] EXCEPT !.target = None]
      <4>1. l \in Locals /\ l.batch \subseteq local[h].batch /\ Proceed(h, "work", l)
        BY <1>1, <3>2, RestFits
      <4> HIDE DEF l
      <4> QED
        BY <4>1
    <3> QED
      BY <1>2, <3>1, <3>2 DEF FailRow
  <2>2. touched' = touched /\ now' = now /\ row' = row
    BY <1>2 DEF FailRow
  <2> QED
    BY <1>1, <2>1, <2>2, ProceedInv
<1>3. CASE Complete(h) \/ Die(h)
  <2>1. /\ Goto(h, "idle", NoLocal) /\ touched' = [touched EXCEPT ![h] = {}]
        /\ now' = now /\ row' = row
    BY <1>3 DEF Complete, Die, Forget
  <2> QED
    BY <1>1, <2>1, NoLocalFits, TakeInv
<1> QED
  BY <1>2, <1>3

(* The request of an administrator arrives.                                 *)
LEMMA AskInv ==
  ASSUME Parameters, Inv, NEW h \in Handlers, NEW r \in Records, NEW s \in Settings,
         NEW date \in Dates \cup {None}, Ask(h, r, s, date)
  PROVE  Inv'
<1> DEFINE l == [NoLocal EXCEPT !.target = r, !.setting = s, !.date = date]
<1>1. l \in Locals /\ l.batch = {}
  BY NoLocalFits
<1>2. /\ Goto(h, "write", l) /\ touched' = [touched EXCEPT ![h] = {}]
      /\ now' = now /\ row' = row
  BY DEF Ask, Forget
<1>3. row' \in [Records -> RowTypes]
  BY <1>2 DEF Inv, RowsFit
<1> HIDE DEF l
<1> QED
  BY <1>1, <1>2, <1>3, TakeInv

(* applyRetentionAdminAction writes what was asked for.                     *)
LEMMA WriteInv ==
  ASSUME Parameters, Inv, NEW h \in Handlers, Write(h)
  PROVE  Inv'
<1> DEFINE l == local[h]
<1>1. RowsFit /\ HandlersFit /\ RunsFit /\ l \in Locals
  BY DEF Inv, HandlersFit
<1>2. /\ row' = [row EXCEPT ![l.target] = Patched(row[l.target], l.setting, l.date)]
      /\ Goto(h, "idle", NoLocal) /\ Touch(With(l.target)) /\ now' = now
  BY DEF Write, Overridden
<1>3. l.setting \in Settings /\ l.date \in Numbers
  BY <1>1 DEF Locals, Dates, Numbers, Parameters
<1>4. ASSUME NEW x \in RowTypes
      PROVE  Patched(x, l.setting, l.date) \in RowTypes
             /\ Patched(x, l.setting, l.date).fate = x.fate
  <2> DEFINE y == Patched(x, l.setting, l.date)
  <2>1. \/ y = [x EXCEPT !.scheduled = l.date, !.until = None]
        \/ y = [x EXCEPT !.scheduled = None]
        \/ y = [x EXCEPT !.hold = TRUE]
        \/ y = [x EXCEPT !.hold = FALSE]
        \/ y = [x EXCEPT !.until = l.date, !.scheduled = None]
    BY <1>3 DEF Patched, Settings
  <2>2. None \in Numbers
    BY DEF Numbers
  <2> HIDE DEF y
  <2>3. y \in RowTypes /\ y.fate = x.fate
    BY <1>3, <1>4, <2>1, <2>2 DEF RowTypes
  <2> QED
    BY <2>3 DEF y
<1>5. /\ row' \in [Records -> RowTypes]
      /\ \A r \in Records : /\ r # l.target => row'[r] = row[r]
                            /\ row'[r].fate = "kept" => row[r].fate = "kept"
  BY <1>1, <1>2, <1>4 DEF RowsFit
<1>6. touched' = [g \in Handlers |-> touched'[g]]
  BY <1>2 DEF Touch
<1>7. /\ HandlersFit'
      /\ pc'[h] = "idle" /\ local'[h] = NoLocal
      /\ \A g \in Handlers : g # h => pc'[g] = pc[g] /\ local'[g] = local[g]
  BY <1>1, <1>2, <1>6, NoLocalFits, GotoFits
<1>8. \A g \in Handlers : /\ local'[g].batch \subseteq local[g].batch
                          /\ pc'[g] = "idle" => local'[g].batch = {}
  <2> TAKE g \in Handlers
  <2>1. CASE g = h
    BY <1>7, <2>1, NoLocalFits
  <2>2. CASE g # h
    BY <1>1, <1>7, <2>2 DEF RunsFit
  <2> QED
    BY <2>1, <2>2
<1> QED
  BY <1>2, <1>5, <1>7, <1>8, ChangeInv

(* The staff turns to a matter, and writes its conflict check.              *)
LEMMA MatterInv ==
  ASSUME Parameters, Inv, NEW h \in Handlers, Considers(h) \/ WriteCheck(h)
  PROVE  Inv'
<1>1. local[h] \in Locals /\ row \in [Records -> RowTypes] /\ RunsFit
  BY DEF Inv, HandlersFit, RowsFit
<1>2. CASE Considers(h)
  <2>1. PICK l \in Locals, step \in {"check", "move"} : Goto(h, step, l) /\ l.batch = {}
    BY <1>2, ConsiderGoes
  <2>2. touched' = [touched EXCEPT ![h] = {}] /\ now' = now /\ row' = row
    BY <1>2, ConsiderGoes DEF Forget
  <2> QED
    BY <1>1, <2>1, <2>2, TakeInv
<1>3. CASE WriteCheck(h)
  <2>1. PICK l \in Locals, step \in {"idle", "move"} :
          /\ Goto(h, step, l)
          /\ \/ step = "idle" /\ l = NoLocal
             \/ step = "move" /\ l = local[h]
    BY <1>1, <1>3, WriteCheckGoes
  <2>2. l.batch \subseteq local[h].batch /\ (step = "idle" => l.batch = {})
    BY <2>1, NoLocalFits
  <2>3. touched' = touched /\ now' = now /\ row' = row
    BY <1>1, <1>3, WriteCheckGoes
  <2> QED
    BY <1>1, <2>1, <2>2, <2>3, TakeInv
<1> QED
  BY <1>2, <1>3

(* The rows after a matter has moved, wherever it was.                      *)
LEMMA MovedFits ==
  ASSUME RowsFit, NEW target, NEW stage, stage \in Stages \cup {None},
         row' = Moved(target, stage)
  PROVE  /\ row' \in [Records -> RowTypes]
         /\ \A r \in Records : /\ r # target => row'[r] = row[r]
                               /\ row'[r].fate = row[r].fate
<1>1. row \in [Records -> RowTypes] /\ now \in Nat
  BY DEF RowsFit
<1>2. CASE row' = row
  BY <1>1, <1>2
<1>3. CASE row' = [row EXCEPT ![target] = [[row[target] EXCEPT !.stage = stage] EXCEPT !.since = now]]
  <2>1. ASSUME NEW x \in RowTypes
        PROVE  /\ [[x EXCEPT !.stage = stage] EXCEPT !.since = now] \in RowTypes
               /\ [[x EXCEPT !.stage = stage] EXCEPT !.since = now].fate = x.fate
    BY <1>1 DEF RowTypes
  <2>2. CASE target \in Records
    <3>1. row[target] \in RowTypes
      BY <1>1, <2>2
    <3>2. PICK y \in RowTypes : row' = [row EXCEPT ![target] = y] /\ y.fate = row[target].fate
      BY <1>3, <2>1, <3>1
    <3> QED
      BY <1>1, <3>2
  <2>3. CASE target \notin Records
    BY <1>1, <1>3, <2>3
  <2> QED
    BY <2>2, <2>3
<1> QED
  BY <1>1, <1>2, <1>3 DEF Moved

(* The matter moves.                                                        *)
LEMMA MoveInv ==
  ASSUME Parameters, Inv, NEW h \in Handlers, Move(h)
  PROVE  Inv'
<1> DEFINE l == local[h]
<1>1. RowsFit /\ HandlersFit /\ RunsFit /\ l \in Locals
  BY DEF Inv, HandlersFit
<1>2. /\ row' = Moved(l.target, l.stage)
      /\ Goto(h, "idle", NoLocal) /\ Touch(With(l.target)) /\ now' = now
  BY DEF Move
<1>3. l.stage \in Stages \cup {None}
  BY <1>1 DEF Locals
<1>4. /\ row' \in [Records -> RowTypes]
      /\ \A r \in Records : /\ r # l.target => row'[r] = row[r]
                            /\ row'[r].fate = "kept" => row[r].fate = "kept"
  BY <1>1, <1>2, <1>3, MovedFits
<1>5. touched' = [g \in Handlers |-> touched'[g]]
  BY <1>2 DEF Touch
<1>6. /\ HandlersFit'
      /\ pc'[h] = "idle" /\ local'[h] = NoLocal
      /\ \A g \in Handlers : g # h => pc'[g] = pc[g] /\ local'[g] = local[g]
  BY <1>1, <1>2, <1>5, NoLocalFits, GotoFits
<1>7. \A g \in Handlers : /\ local'[g].batch \subseteq local[g].batch
                          /\ pc'[g] = "idle" => local'[g].batch = {}
  <2> TAKE g \in Handlers
  <2>1. CASE g = h
    BY <1>6, <2>1, NoLocalFits
  <2>2. CASE g # h
    BY <1>1, <1>6, <2>2 DEF RunsFit
  <2> QED
    BY <2>1, <2>2
<1> QED
  BY <1>2, <1>4, <1>6, <1>7, ChangeInv

(* A lead is hidden.                                                        *)
LEMMA HideInv ==
  ASSUME Parameters, Inv, NEW l \in Leads, Hide(l)
  PROVE  Inv'
<1>1. RowsFit /\ HandlersFit /\ RunsFit /\ l \in Records
  BY DEF Inv, Records
<1>2. UNCHANGED <<now, pc, local>> /\ Touch(With(l))
  BY DEF Hide
<1>3. row' = [row EXCEPT ![l] = [row[l] EXCEPT !.fate = "hidden"]]
  BY <1>1 DEF Hide, RowsFit
<1>4. ASSUME NEW x \in RowTypes
      PROVE  /\ [x EXCEPT !.fate = "hidden"] \in RowTypes
             /\ [x EXCEPT !.fate = "hidden"].fate = "hidden"
  BY DEF RowTypes, Fates
<1>5. /\ row' \in [Records -> RowTypes]
      /\ \A r \in Records : /\ r # l => row'[r] = row[r]
                            /\ row'[r].fate = "kept" => row[r].fate = "kept"
  <2>1. row \in [Records -> RowTypes] /\ row[l] \in RowTypes
    BY <1>1 DEF RowsFit
  <2>2. PICK x \in RowTypes : /\ row' = [row EXCEPT ![l] = x]
                              /\ x.fate = "kept" => row[l].fate = "kept"
    BY <1>3, <1>4, <2>1
  <2> QED
    BY <2>1, <2>2
<1>6. HandlersFit'
  BY <1>1, <1>2 DEF HandlersFit, Touch
<1>7. \A g \in Handlers : /\ local'[g].batch \subseteq local[g].batch
                          /\ pc'[g] = "idle" => local'[g].batch = {}
  BY <1>1, <1>2 DEF RunsFit
<1> QED
  BY <1>2, <1>5, <1>6, <1>7, ChangeInv

(* Time goes by.                                                            *)
LEMMA TickInv == ASSUME Parameters, Inv, Tick PROVE Inv'
<1>1. RowsFit /\ HandlersFit /\ RunsFit /\ now \in Nat
  BY DEF Inv, RowsFit
<1>2. now' = now + 1 /\ UNCHANGED <<row, pc, local, touched>>
  BY DEF Tick, observers
<1>3. now' \in Nat /\ now <= now'
  BY <1>1, <1>2
<1>4. RowsFit' /\ HandlersFit'
  BY <1>1, <1>2, <1>3 DEF RowsFit, HandlersFit
<1>5. \A r \in Records : Due(r) => Due(r)'
  BY <1>1, <1>2, <1>3, DueStays
<1>6. RunsFit'
  BY <1>1, <1>2, <1>5 DEF RunsFit
<1> QED
  BY <1>4, <1>6 DEF Inv

(* At first nobody is at work.                                              *)
LEMMA InitInv == ASSUME Parameters, Init PROVE Inv
<1>1. RowsFit
  BY DEF Init, RowsFit, Fresh, RowSet, RowTypes, Dates, Numbers, Parameters, Stages
<1>2. HandlersFit /\ RunsFit
  BY NoLocalFits DEF Init, HandlersFit, RunsFit
<1> QED
  BY <1>1, <1>2 DEF Inv

(* Every step keeps the invariant.                                          *)
LEMMA NextInv == ASSUME Parameters, Inv, [Next]_vars PROVE Inv'
<1>1. CASE UNCHANGED vars
  BY <1>1 DEF vars, observers, Inv, RowsFit, HandlersFit, RunsFit, Due, Found, Eligible,
     FoundLead, FoundDocument, LeadEligible, DocumentEligible, ScheduleIsDue, PeriodIsOver
<1>2. ASSUME NEW h \in Handlers, NEW dry \in BOOLEAN, NEW s \in Selections, StartRun(h, dry, s)
      PROVE  Inv'
  BY <1>2, StartRunInv
<1>3. ASSUME NEW h \in Handlers, Find(h) PROVE Inv'
  BY <1>3, FindInv
<1>4. ASSUME NEW h \in Handlers, Purge(h) PROVE Inv'
  BY <1>4, PurgeInv
<1>5. ASSUME NEW h \in Handlers, AnonymizeLead(h) \/ AnonymizeDocument(h) \/ AnonymizeParts(h)
      PROVE  Inv'
  BY <1>5, AnonymizeInv
<1>6. ASSUME NEW h \in Handlers, FailRow(h) \/ Complete(h) \/ Die(h) PROVE Inv'
  BY <1>6, EndInv
<1>7. ASSUME NEW h \in Handlers, NEW r \in Records, NEW s \in Settings,
             NEW date \in Dates \cup {None}, Ask(h, r, s, date)
      PROVE  Inv'
  BY <1>7, AskInv
<1>8. ASSUME NEW h \in Handlers, Write(h) PROVE Inv'
  BY <1>8, WriteInv
<1>9. ASSUME NEW h \in Handlers, Considers(h) \/ WriteCheck(h) PROVE Inv'
  BY <1>9, MatterInv
<1>10. ASSUME NEW h \in Handlers, Move(h) PROVE Inv'
  BY <1>10, MoveInv
<1>11. ASSUME NEW l \in Leads, Hide(l) PROVE Inv'
  BY <1>11, HideInv
<1>12. CASE Tick
  BY <1>12, TickInv
<1> QED
  BY <1>1, <1>2, <1>3, <1>4, <1>5, <1>6, <1>7, <1>8, <1>9, <1>10, <1>11, <1>12
  DEF Next, Considers

(* A step that takes a row is one of a run that has it in its batch, and    *)
(* finds it without a hold.                                                 *)
LEMMA TakenFromBatch ==
  ASSUME Parameters, Inv, [Next]_vars, NEW r \in Records, Taken(r)
  PROVE  ~row[r].hold /\ \E h \in Handlers : r \in local[h].batch
<1>1. row \in [Records -> RowTypes] /\ row[r].fate = "kept" /\ row'[r].fate # "kept"
      /\ row'[r].fate # "hidden"
  BY DEF Inv, RowsFit, Taken
<1>2. row' # row
  BY <1>1
<1>3. ASSUME NEW h \in Handlers, Purge(h)
      PROVE  ~row[r].hold /\ r \in local[h].batch
  <2>1. PICK S : S \subseteq local[h].batch /\ row' = Purged({q \in S : StillOpen(q)})
    BY <1>3 DEF Purge
  <2>2. r \in S /\ StillOpen(r)
    BY <1>1, <2>1 DEF Purged
  <2> QED
    BY <2>1, <2>2 DEF StillOpen
<1>4. ASSUME NEW q \in Records, Anonymize(q)
      PROVE  q = r /\ ~row[r].hold
  BY <1>1, <1>2, <1>4 DEF Anonymize, StillOpen
<1>5. ASSUME NEW h \in Handlers, AnonymizeLead(h)
      PROVE  ~row[r].hold /\ r \in local[h].batch
  BY <1>4, <1>5 DEF AnonymizeLead, NextOf, Records
<1>6. ASSUME NEW h \in Handlers, AnonymizeDocument(h)
      PROVE  ~row[r].hold /\ r \in local[h].batch
  BY <1>4, <1>6 DEF AnonymizeDocument, NextOf, Records
<1>7. ASSUME NEW h \in Handlers, Write(h) PROVE FALSE
  <2>1. row' = [row EXCEPT ![local[h].target] =
                  Patched(row[local[h].target], local[h].setting, local[h].date)]
    BY <1>7 DEF Write, Overridden
  <2>2. local[h].setting \in Settings
    BY DEF Inv, HandlersFit, Locals
  <2>3. Patched(row[r], local[h].setting, local[h].date).fate = row[r].fate
    BY <1>1, <2>2 DEF Patched, Settings, RowTypes
  <2> QED
    BY <1>1, <2>1, <2>3
<1>8. ASSUME NEW h \in Handlers, Move(h) PROVE FALSE
  <2>1. local[h].stage \in Stages \cup {None} /\ RowsFit
    BY DEF Inv, HandlersFit, Locals
  <2> QED
    BY <1>1, <1>8, <2>1, MovedFits DEF Move
<1>9. ASSUME NEW l \in Leads, Hide(l) PROVE FALSE
  BY <1>1, <1>9 DEF Hide, RowTypes
<1>10. ASSUME NEW h \in Handlers, Considers(h) \/ WriteCheck(h) PROVE row' = row
  BY <1>10, ConsiderGoes DEF WriteCheck
<1>11. ASSUME NEW h \in Handlers,
              \/ \E dry \in BOOLEAN, s \in Selections : StartRun(h, dry, s)
              \/ Find(h) \/ AnonymizeParts(h) \/ FailRow(h) \/ Complete(h) \/ Die(h)
              \/ \E q \in Records, s \in Settings, date \in Dates \cup {None} : Ask(h, q, s, date)
       PROVE  row' = row
  BY <1>11 DEF StartRun, Find, AnonymizeParts, FailRow, Complete, Die, Ask
<1>12. UNCHANGED vars \/ Tick => row' = row
  BY DEF Tick, vars
<1> QED
  BY <1>2, <1>3, <1>5, <1>6, <1>7, <1>8, <1>9, <1>10, <1>11, <1>12 DEF Next, Considers


-----------------------------------------------------------------------------
(* Types.                                                                   *)

(* Who writes has a row to write, and who moves a matter, writes its check  *)
(* or empties its tables has the lead, and the stage.                       *)
Targeted ==
  \A h \in Handlers :
    /\ pc[h] = "write" => local[h].target \in Records
    /\ pc[h] \in {"check", "move"} \cup Tables => local[h].target \in Leads
    /\ pc[h] = "move" => local[h].stage \in Stages

Typed == TypeOK /\ Targeted

(* What a run finds in its next category.                                   *)
LEMMA FindGoes ==
  ASSUME NEW h \in Handlers, local[h] \in Locals, Find(h)
  PROVE  LET c == First(local[h].todo)
             batch == Batch(c)
         IN  /\ c \in Names /\ local[h].todo # {} /\ pc[h] = "find"
             /\ UNCHANGED <<now, row, parts, changes, observers>>
             /\ \E l \in Locals :
                  /\ l.batch = IF local[h].dry THEN {} ELSE Workable(batch)
                  /\ l.todo = local[h].todo \ {c} /\ l.dry = local[h].dry
                  /\ l.full = (local[h].full \/ Cardinality(batch) >= Limit)
                  /\ Goto(h, IF l.batch = {} THEN "find"
                             ELSE IF c \in {"lead", "document"} THEN "work" ELSE "purge", l)
<1> DEFINE c == First(local[h].todo)
           batch == Batch(c)
           step == IF c \in {"lead", "document"} THEN "work" ELSE "purge"
           found == IF local[h].dry THEN {} ELSE Workable(batch)
           full == local[h].full \/ Cardinality(batch) >= Limit
           l == [local[h] EXCEPT !.batch = found, !.todo = local[h].todo \ {c}, !.full = full]
<1>1. local[h].todo # {} /\ local[h].todo \in SUBSET Names /\ pc[h] = "find"
  BY DEF Find, Locals
<1>2. c \in Names
  BY <1>1, FirstIsName
<1>3. found \subseteq Records
  BY <1>2, BatchIsDue
<1>4. Proceed(h, step, l) /\ UNCHANGED <<now, row, parts, changes, observers>>
  BY DEF Find
<1>5. full \in BOOLEAN
  BY DEF Locals
<1>6. /\ l \in Locals /\ l.batch = found /\ l.todo = local[h].todo \ {c}
      /\ l.dry = local[h].dry /\ l.full = full
  <2> HIDE DEF found, batch, c, full
  <2> QED
    BY <1>1, <1>3, <1>5 DEF Locals
<1>7. Goto(h, IF l.batch = {} THEN "find" ELSE step, l)
  BY <1>4 DEF Proceed
<1> HIDE DEF l
<1> QED
  BY <1>1, <1>2, <1>4, <1>6, <1>7

(* A handler that goes on is of its type.                                   *)
LEMMA GotoTyped ==
  ASSUME Typed, NEW h \in Handlers, NEW step \in Steps, NEW l \in Locals, Goto(h, step, l),
         step = "write" => l.target \in Records,
         step \in {"check", "move"} \cup Tables => l.target \in Leads,
         step = "move" => l.stage \in Stages
  PROVE  pc' \in [Handlers -> Steps] /\ local' \in [Handlers -> Locals] /\ Targeted'
<1>1. pc \in [Handlers -> Steps] /\ local \in [Handlers -> Locals] /\ Targeted
  BY DEF Typed, TypeOK
<1>2. pc' = [pc EXCEPT ![h] = step] /\ local' = [local EXCEPT ![h] = l]
  BY DEF Goto
<1>3. pc' \in [Handlers -> Steps] /\ local' \in [Handlers -> Locals]
  BY <1>1, <1>2
<1>4. Targeted'
  BY <1>1, <1>2 DEF Targeted
<1> QED
  BY <1>3, <1>4

(* What an administrator's request or a move of a matter changes.           *)
LEMMA TouchTyped ==
  ASSUME Parameters, Typed, NEW r \in Records, Touch(With(r))
  PROVE  /\ touched' \in [Handlers -> SUBSET Records]
         /\ owed' \in [Handlers -> SUBSET Records]
<1>1. With(r) \subseteq Records
  BY DEF With, Records
<1>2. touched \in [Handlers -> SUBSET Records] /\ owed \in [Handlers -> SUBSET Records]
  BY DEF Typed, TypeOK
<1> HIDE DEF With
<1> QED
  BY <1>1, <1>2 DEF Touch

(* A count of rows is of its type.                                          *)
LEMMA CountTyped ==
  ASSUME reported \in [Records -> Nat], NEW S, Count(S)
  PROVE  reported' \in [Records -> Nat]
  BY DEF Count

(* Steps that only read, and those that end a run or a request.             *)
LEMMA ReadTyped ==
  ASSUME Parameters, Typed, NEW h \in Handlers,
         \/ \E dry \in BOOLEAN, s \in Selections : StartRun(h, dry, s)
         \/ Find(h) \/ FailRow(h) \/ Complete(h) \/ Die(h)
         \/ \E r \in Records, s \in Settings, date \in Dates \cup {None} : Ask(h, r, s, date)
  PROVE  Typed'
<1> USE DEF observers
<1>1. TypeOK /\ Targeted /\ local[h] \in Locals /\ pc[h] \in Steps
  BY DEF Typed, TypeOK
<1>2. ASSUME NEW dry \in BOOLEAN, NEW s \in Selections, StartRun(h, dry, s)
      PROVE  Typed'
  <2> DEFINE l == [NoLocal EXCEPT !.dry = dry, !.todo = s]
  <2>1. s \in SUBSET Names /\ "find" \in Steps /\ "find" \notin Tables
    BY DEF Parameters, Steps, Tables
  <2>2. l \in Locals
    BY <2>1, NoLocalFits
  <2>3. Goto(h, "find", l) /\ UNCHANGED <<now, row, parts, changes, reported, missed, torn, rewritten>>
    BY <1>2 DEF StartRun
  <2> HIDE DEF l
  <2>4. pc' \in [Handlers -> Steps] /\ local' \in [Handlers -> Locals] /\ Targeted'
    BY <2>1, <2>2, <2>3, GotoTyped
  <2>5. {r \in UNION {InCategory(c) : c \in s} : Found(r) /\ Eligible(r)} \subseteq Records
    BY <2>1 DEF InCategory, Names, Categories, Records
  <2>6. /\ touched' \in [Handlers -> SUBSET Records]
        /\ owed' \in [Handlers -> SUBSET Records]
    BY <1>1, <1>2, <2>5 DEF StartRun, TypeOK
  <2> QED
    BY <1>1, <2>3, <2>4, <2>6 DEF Typed, TypeOK
<1>3. CASE Find(h)
  <2> DEFINE c == First(local[h].todo)
  <2>1. /\ UNCHANGED <<now, row, parts, changes, observers>>
        /\ \E l \in Locals :
             Goto(h, IF l.batch = {} THEN "find"
                     ELSE IF c \in {"lead", "document"} THEN "work" ELSE "purge", l)
    BY <1>1, <1>3, FindGoes
  <2>2. PICK l \in Locals, step \in {"find", "work", "purge"} : Goto(h, step, l)
    BY <2>1
  <2>3. step \in Steps /\ step \notin {"write", "check", "move"} \cup Tables
    BY DEF Steps, Tables
  <2>4. pc' \in [Handlers -> Steps] /\ local' \in [Handlers -> Locals] /\ Targeted'
    BY <2>2, <2>3, GotoTyped
  <2> QED
    BY <1>1, <2>1, <2>4 DEF Typed, TypeOK
<1>4. CASE FailRow(h)
  <2>1. PICK l \in Locals : Proceed(h, "work", l)
    <3>1. ASSUME NEW r, Proceed(h, "work", [local[h] EXCEPT !.batch = @ \ {r}])
          PROVE  \E l \in Locals : Proceed(h, "work", l)
      BY <1>1, <3>1, RestFits
    <3>2. ASSUME Proceed(h, "work", [local[h] EXCEPT !.target = None])
          PROVE  \E l \in Locals : Proceed(h, "work", l)
      BY <1>1, <3>2, RestFits
    <3> QED
      BY <1>4, <3>1, <3>2 DEF FailRow
  <2>2. PICK step \in {"find", "work"} : Goto(h, step, l)
    BY <2>1 DEF Proceed
  <2>3. step \in Steps /\ step \notin {"write", "check", "move"} \cup Tables
    BY DEF Steps, Tables
  <2>4. pc' \in [Handlers -> Steps] /\ local' \in [Handlers -> Locals] /\ Targeted'
    BY <2>2, <2>3, GotoTyped
  <2>5. torn' \subseteq Leads /\ owed' \in [Handlers -> SUBSET Records]
    BY <1>1, <1>4 DEF FailRow, Torn, Targeted, TypeOK
  <2>6. UNCHANGED <<now, row, parts, changes, reported, touched, missed, rewritten>>
    BY <1>4 DEF FailRow
  <2> QED
    BY <1>1, <2>4, <2>5, <2>6 DEF Typed, TypeOK
<1>5. CASE Complete(h) \/ Die(h)
  <2>1. Goto(h, "idle", NoLocal) /\ Forget(h) /\ UNCHANGED <<now, row, parts, changes, reported, rewritten>>
    BY <1>5 DEF Complete, Die
  <2>2. "idle" \in Steps /\ "idle" \notin Tables
    BY DEF Steps, Tables
  <2>3. pc' \in [Handlers -> Steps] /\ local' \in [Handlers -> Locals] /\ Targeted'
    BY <2>1, <2>2, NoLocalFits, GotoTyped
  <2>4. missed' \subseteq Records /\ torn' \subseteq Leads
    BY <1>1, <1>5 DEF Complete, Die, Torn, Targeted, TypeOK
  <2>5. /\ touched' \in [Handlers -> SUBSET Records]
        /\ owed' \in [Handlers -> SUBSET Records]
    BY <1>1, <2>1 DEF Forget, TypeOK
  <2> QED
    BY <1>1, <2>1, <2>3, <2>4, <2>5 DEF Typed, TypeOK
<1>6. ASSUME NEW r \in Records, NEW s \in Settings, NEW date \in Dates \cup {None},
             Ask(h, r, s, date)
      PROVE  Typed'
  <2> DEFINE l == [NoLocal EXCEPT !.target = r, !.setting = s, !.date = date]
  <2>1. l \in Locals /\ l.target = r
    BY NoLocalFits DEF NoLocal
  <2>2. /\ Goto(h, "write", l) /\ Forget(h)
        /\ UNCHANGED <<now, row, parts, reported, missed, torn, rewritten>>
    BY <1>6 DEF Ask
  <2>3. "write" \in Steps /\ "write" \notin Tables
    BY DEF Steps, Tables
  <2> HIDE DEF l
  <2>4. pc' \in [Handlers -> Steps] /\ local' \in [Handlers -> Locals] /\ Targeted'
    BY <2>1, <2>2, <2>3, GotoTyped
  <2>5. /\ touched' \in [Handlers -> SUBSET Records]
        /\ owed' \in [Handlers -> SUBSET Records]
    BY <1>1, <2>2 DEF Forget, TypeOK
  <2>6. changes \in 0..MaxChanges /\ changes < MaxChanges /\ changes' = changes + 1
    BY <1>1, <1>6 DEF Ask, TypeOK
  <2>7. changes' \in 0..MaxChanges
    BY <2>6 DEF Parameters
  <2> QED
    BY <1>1, <2>2, <2>4, <2>5, <2>7 DEF Typed, TypeOK
<1> QED
  BY <1>2, <1>3, <1>4, <1>5, <1>6

(* The step of a run after a statement goes to the rest of the batch, and   *)
(* only to a lead's other tables with that lead.                            *)
LEMMA RestTyped ==
  ASSUME Typed, NEW h \in Handlers, NEW l \in Locals, NEW step \in {"purge", "work"},
         Proceed(h, step, l)
  PROVE  pc' \in [Handlers -> Steps] /\ local' \in [Handlers -> Locals] /\ Targeted'
<1>1. PICK to \in {"find", step} : Goto(h, to, l)
  BY DEF Proceed
<1>2. to \in Steps /\ to \notin {"write", "check", "move"} \cup Tables
  BY DEF Steps, Tables
<1> QED
  BY <1>1, <1>2, GotoTyped

(* An UPDATE by id leaves rows and counts of their types.                   *)
LEMMA AnonymizeTyped ==
  ASSUME Typed, NEW r \in Records, Anonymize(r)
  PROVE  row' \in [Records -> RowSet] /\ reported' \in [Records -> Nat]
<1>1. row \in [Records -> RowSet] /\ reported \in [Records -> Nat]
  BY DEF Typed, TypeOK
<1>2. CASE StillOpen(r)
  <2>1. row' = [row EXCEPT ![r].fate = "anonymized"] /\ Count({r})
    BY <1>2 DEF Anonymize
  <2>2. row' \in [Records -> RowSet]
    BY <1>1, <2>1 DEF RowSet, Fates
  <2> QED
    BY <1>1, <2>1, <2>2, CountTyped
<1>3. CASE ~StillOpen(r)
  BY <1>1, <1>3 DEF Anonymize
<1> QED
  BY <1>2, <1>3

(* The statements of runs.                                                  *)
LEMMA WorkTyped ==
  ASSUME Parameters, Typed, NEW h \in Handlers,
         Purge(h) \/ AnonymizeLead(h) \/ AnonymizeDocument(h) \/ AnonymizeParts(h)
  PROVE  Typed'
<1>1. TypeOK /\ Targeted /\ local[h] \in Locals /\ pc[h] \in Steps
  BY DEF Typed, TypeOK
<1>2. CASE Purge(h)
  <2> DEFINE S == IF local[h].batch \cap Audits # {} THEN local[h].batch \cap Audits
                  ELSE local[h].batch
             done == {r \in S : StillOpen(r)}
             l == [local[h] EXCEPT !.batch = @ \ S]
  <2>1. /\ Proceed(h, "purge", l) /\ row' = Purged(done) /\ Count(done)
        /\ UNCHANGED <<now, parts, changes, touched, owed, missed, torn, rewritten>>
    BY <1>2 DEF Purge
  <2>2. l \in Locals
    BY <1>1, RestFits
  <2> HIDE DEF l, done
  <2>3. pc' \in [Handlers -> Steps] /\ local' \in [Handlers -> Locals] /\ Targeted'
    BY <2>1, <2>2, RestTyped
  <2>4. row' \in [Records -> RowSet]
    <3>1. ASSUME NEW x \in RowSet, NEW fate \in {"anonymized", "deleted"}
          PROVE  [x EXCEPT !.fate = fate] \in RowSet
      BY DEF RowSet, Fates
    <3>2. row \in [Records -> RowSet]
      BY <1>1 DEF TypeOK
    <3> QED
      BY <2>1, <3>1, <3>2 DEF Purged
  <2>5. reported' \in [Records -> Nat]
    BY <1>1, <2>1, CountTyped DEF TypeOK
  <2> QED
    BY <1>1, <2>1, <2>3, <2>4, <2>5 DEF Typed, TypeOK
<1>3. CASE AnonymizeLead(h)
  <2>1. PICK r \in NextOf(local[h].batch) \cap Leads :
          LET rest == [local[h] EXCEPT !.batch = @ \ {r}] IN
          /\ Anonymize(r)
          /\ IF StillOpen(r) THEN Goto(h, "intakes", [rest EXCEPT !.target = r])
                             ELSE Proceed(h, "work", rest)
    BY <1>3 DEF AnonymizeLead
  <2> DEFINE rest == [local[h] EXCEPT !.batch = @ \ {r}]
             next == [rest EXCEPT !.target = r]
  <2>2. r \in Records /\ r \in Leads
    BY DEF Records
  <2>3. rest \in Locals
    BY <1>1, RestFits
  <2>4. next \in Locals /\ next.target = r
    BY <2>2, <2>3, RestFits DEF Locals
  <2>5. Goto(h, "intakes", next) \/ Proceed(h, "work", rest)
    BY <2>1
  <2>6. "intakes" \in Steps /\ "intakes" \notin {"write", "move"}
    BY DEF Steps, Tables
  <2> HIDE DEF rest, next
  <2>7. pc' \in [Handlers -> Steps] /\ local' \in [Handlers -> Locals] /\ Targeted'
    BY <2>2, <2>3, <2>4, <2>5, <2>6, RestTyped, GotoTyped
  <2>8. row' \in [Records -> RowSet] /\ reported' \in [Records -> Nat]
    BY <2>1, <2>2, AnonymizeTyped
  <2>9. UNCHANGED <<now, parts, changes, touched, owed, missed, torn, rewritten>>
    BY <1>3 DEF AnonymizeLead
  <2> QED
    BY <1>1, <2>7, <2>8, <2>9 DEF Typed, TypeOK
<1>4. CASE AnonymizeDocument(h)
  <2>1. PICK r \in NextOf(local[h].batch) \cap Documents :
          Anonymize(r) /\ Proceed(h, "work", [local[h] EXCEPT !.batch = @ \ {r}])
    BY <1>4 DEF AnonymizeDocument
  <2> DEFINE rest == [local[h] EXCEPT !.batch = @ \ {r}]
  <2>2. r \in Records
    BY DEF Records
  <2>3. rest \in Locals /\ Proceed(h, "work", rest)
    BY <1>1, <2>1, RestFits
  <2> HIDE DEF rest
  <2>4. pc' \in [Handlers -> Steps] /\ local' \in [Handlers -> Locals] /\ Targeted'
    BY <2>3, RestTyped
  <2>5. row' \in [Records -> RowSet] /\ reported' \in [Records -> Nat]
    BY <2>1, <2>2, AnonymizeTyped
  <2>6. UNCHANGED <<now, parts, changes, touched, owed, missed, torn, rewritten>>
    BY <1>4 DEF AnonymizeDocument
  <2> QED
    BY <1>1, <2>4, <2>5, <2>6 DEF Typed, TypeOK
<1>5. CASE AnonymizeParts(h)
  <2> DEFINE next == [local[h] EXCEPT !.target = None]
  <2>1. next \in Locals
    BY <1>1, RestFits
  <2>2. Goto(h, "lead_conflict_checks", local[h]) \/ Proceed(h, "work", next)
    BY <1>5 DEF AnonymizeParts, TablesAfter
  <2>3. "lead_conflict_checks" \in Steps /\ "lead_conflict_checks" \notin {"write", "move"}
    BY DEF Steps, Tables
  <2>4. local[h].target \in Leads
    BY <1>1, <1>5 DEF AnonymizeParts, Targeted
  <2> HIDE DEF next
  <2>5. pc' \in [Handlers -> Steps] /\ local' \in [Handlers -> Locals] /\ Targeted'
    BY <1>1, <2>1, <2>2, <2>3, <2>4, RestTyped, GotoTyped
  <2>6. parts' \in [Leads -> SUBSET Tables]
    BY <1>1, <1>5 DEF AnonymizeParts, TypeOK
  <2>7. rewritten' \subseteq Leads
    BY <1>1, <1>5 DEF AnonymizeParts, TypeOK
  <2>8. UNCHANGED <<now, row, changes, reported, touched, owed, missed, torn>>
    BY <1>5 DEF AnonymizeParts
  <2> QED
    BY <1>1, <2>5, <2>6, <2>7, <2>8 DEF Typed, TypeOK
<1> QED
  BY <1>2, <1>3, <1>4, <1>5

(* The staff turns to a matter, and writes its conflict check.              *)
LEMMA MatterTyped ==
  ASSUME Parameters, Typed, NEW h \in Handlers, Considers(h) \/ WriteCheck(h)
  PROVE  Typed'
<1>1. TypeOK /\ Targeted /\ local[h] \in Locals
  BY DEF Typed, TypeOK
<1>2. CASE Considers(h)
  <2>1. PICK l \in Locals, step \in {"check", "move"} :
          /\ Goto(h, step, l) /\ l.target \in Leads
          /\ step = "move" => l.stage \in Stages
    BY <1>2, ConsiderGoes
  <2>2. step \in Steps /\ step # "write"
    BY DEF Steps
  <2>3. pc' \in [Handlers -> Steps] /\ local' \in [Handlers -> Locals] /\ Targeted'
    BY <2>1, <2>2, GotoTyped
  <2>4. /\ Forget(h) /\ changes < MaxChanges /\ changes' = changes + 1
        /\ UNCHANGED <<now, row, parts, reported, missed, torn, rewritten>>
    BY <1>2, ConsiderGoes
  <2>5. /\ touched' \in [Handlers -> SUBSET Records]
        /\ owed' \in [Handlers -> SUBSET Records]
    BY <1>1, <2>4 DEF Forget, TypeOK
  <2>6. changes \in 0..MaxChanges /\ MaxChanges \in Nat
    BY <1>1 DEF TypeOK, Parameters
  <2>7. changes' \in 0..MaxChanges
    BY <2>4, <2>6
  <2> QED
    BY <1>1, <2>3, <2>4, <2>5, <2>7 DEF Typed, TypeOK
<1>3. CASE WriteCheck(h)
  <2>1. PICK l \in Locals, step \in {"idle", "move"} :
          /\ Goto(h, step, l)
          /\ \/ step = "idle" /\ l = NoLocal
             \/ step = "move" /\ l = local[h] /\ l.stage \in Stages
    BY <1>1, <1>3, WriteCheckGoes
  <2>2. /\ pc[h] = "check"
        /\ UNCHANGED <<now, row, changes, reported, touched, owed, missed, torn>>
    BY <1>1, <1>3, WriteCheckGoes
  <2>3. local[h].target \in Leads
    BY <1>1, <2>2 DEF Targeted
  <2>4. step \in Steps /\ step # "write" /\ step \notin Tables
    BY DEF Steps, Tables
  <2>5. step = "move" => l.target \in Leads /\ l.stage \in Stages
    BY <2>1, <2>3
  <2>6. pc' \in [Handlers -> Steps] /\ local' \in [Handlers -> Locals] /\ Targeted'
    BY <2>1, <2>4, <2>5, GotoTyped
  <2>7. parts' \in [Leads -> SUBSET Tables] /\ rewritten' \subseteq Leads
    BY <1>1, <1>3, <2>3 DEF WriteCheck, TypeOK, Tables
  <2> QED
    BY <1>1, <2>2, <2>6, <2>7 DEF Typed, TypeOK
<1> QED
  BY <1>2, <1>3

(* Administrators, matters and the clock.                                   *)
LEMMA ChangeTyped ==
  ASSUME Parameters, Typed,
         \/ \E h \in Handlers : Write(h) \/ Move(h)
         \/ \E l \in Leads : Hide(l)
         \/ Tick
  PROVE  Typed'
<1>1. TypeOK /\ Targeted /\ row \in [Records -> RowSet] /\ now \in 1..MaxTime
  BY DEF Typed, TypeOK
<1>2. ASSUME NEW h \in Handlers, Write(h) PROVE Typed'
  <2> DEFINE l == local[h]
  <2>1. /\ row' = [row EXCEPT ![l.target] = Patched(row[l.target], l.setting, l.date)]
        /\ Goto(h, "idle", NoLocal) /\ Touch(With(l.target))
        /\ UNCHANGED <<now, parts, changes, reported, missed, torn, rewritten>>
    BY <1>2 DEF Write, Overridden
  <2>2. l.setting \in Settings /\ l.date \in Dates \cup {None} /\ l.target \in Records
    BY <1>1, <1>2 DEF Write, Targeted, TypeOK, Locals
  <2>3. ASSUME NEW x \in RowSet PROVE Patched(x, l.setting, l.date) \in RowSet
    <3> DEFINE y == Patched(x, l.setting, l.date)
    <3>1. \/ y = [x EXCEPT !.scheduled = l.date, !.until = None]
          \/ y = [x EXCEPT !.scheduled = None]
          \/ y = [x EXCEPT !.hold = TRUE]
          \/ y = [x EXCEPT !.hold = FALSE]
          \/ y = [x EXCEPT !.until = l.date, !.scheduled = None]
      BY <2>2 DEF Patched, Settings
    <3> HIDE DEF y
    <3>2. y \in RowSet
      BY <2>2, <2>3, <3>1 DEF RowSet
    <3> QED
      BY <3>2 DEF y
  <2>4. row' \in [Records -> RowSet]
    BY <1>1, <2>1, <2>2, <2>3
  <2>5. "idle" \in Steps /\ "idle" \notin Tables
    BY DEF Steps, Tables
  <2>6. pc' \in [Handlers -> Steps] /\ local' \in [Handlers -> Locals] /\ Targeted'
    BY <2>1, <2>5, NoLocalFits, GotoTyped
  <2>7. /\ touched' \in [Handlers -> SUBSET Records]
        /\ owed' \in [Handlers -> SUBSET Records]
    BY <2>1, <2>2, TouchTyped
  <2> QED
    BY <1>1, <2>1, <2>4, <2>6, <2>7 DEF Typed, TypeOK
<1>3. ASSUME NEW h \in Handlers, Move(h) PROVE Typed'
  <2> DEFINE l == local[h]
  <2>1. /\ pc[h] = "move" /\ row' = Moved(l.target, l.stage)
        /\ Goto(h, "idle", NoLocal) /\ Touch(With(l.target))
        /\ UNCHANGED <<now, parts, changes, reported, missed, torn, rewritten>>
    BY <1>3 DEF Move
  <2>2. l.target \in Leads /\ l.target \in Records /\ l.stage \in Stages /\ now \in Dates
    BY <1>1, <2>1 DEF Targeted, Records, Dates, Parameters
  <2>3. row' \in [Records -> RowSet]
    <3>1. [row[l.target] EXCEPT !.stage = l.stage, !.since = now] \in RowSet
      BY <1>1, <2>2 DEF RowSet
    <3> QED
      BY <1>1, <2>1, <2>2, <3>1 DEF Moved
  <2>4. "idle" \in Steps /\ "idle" \notin Tables
    BY DEF Steps, Tables
  <2>5. pc' \in [Handlers -> Steps] /\ local' \in [Handlers -> Locals] /\ Targeted'
    BY <2>1, <2>4, NoLocalFits, GotoTyped
  <2>6. /\ touched' \in [Handlers -> SUBSET Records]
        /\ owed' \in [Handlers -> SUBSET Records]
    BY <2>1, <2>2, TouchTyped
  <2> QED
    BY <1>1, <2>1, <2>3, <2>5, <2>6 DEF Typed, TypeOK
<1>4. ASSUME NEW l \in Leads, Hide(l) PROVE Typed'
  <2>1. l \in Records
    BY DEF Records
  <2>2. /\ changes < MaxChanges /\ changes' = changes + 1 /\ Touch(With(l))
        /\ UNCHANGED <<now, parts, pc, local, reported, missed, torn, rewritten>>
        /\ row' = [row EXCEPT ![l].fate = "hidden"]
    BY <1>4 DEF Hide
  <2>3. row' \in [Records -> RowSet]
    BY <1>1, <2>1, <2>2 DEF RowSet, Fates
  <2>4. /\ touched' \in [Handlers -> SUBSET Records]
        /\ owed' \in [Handlers -> SUBSET Records]
    BY <2>1, <2>2, TouchTyped
  <2>5. changes \in 0..MaxChanges /\ MaxChanges \in Nat
    BY <1>1 DEF TypeOK, Parameters
  <2>6. changes' \in 0..MaxChanges
    BY <2>2, <2>5
  <2>7. Targeted'
    BY <1>1, <2>2 DEF Targeted
  <2> QED
    BY <1>1, <2>2, <2>3, <2>4, <2>6, <2>7 DEF Typed, TypeOK
<1>5. CASE Tick
  <2>1. now' = now + 1 /\ now < MaxTime /\ UNCHANGED <<row, parts, pc, local, changes, observers>>
    BY <1>5 DEF Tick
  <2>2. now' \in 1..MaxTime
    BY <1>1, <2>1 DEF Parameters
  <2> QED
    BY <1>1, <2>1, <2>2 DEF Typed, TypeOK, Targeted, observers
<1> QED
  BY <1>2, <1>3, <1>4, <1>5

(* At first nobody is at work, and every step leaves all of their types.    *)
LEMMA TypedInvariance == ASSUME Parameters PROVE Spec => []Typed
<1>1. Init => Typed
  <2> SUFFICES ASSUME Init PROVE Typed
    OBVIOUS
  <2>1. row \in [Records -> RowSet]
    BY DEF Init, Fresh
  <2>2. now \in 1..MaxTime /\ changes \in 0..MaxChanges
    BY DEF Init, Parameters
  <2>3. "idle" \in Steps /\ "idle" \notin Tables
    BY DEF Steps, Tables
  <2>4. pc \in [Handlers -> Steps] /\ local \in [Handlers -> Locals] /\ Targeted
    BY <2>3, NoLocalFits DEF Init, Targeted
  <2>5. /\ parts \in [Leads -> SUBSET Tables] /\ reported \in [Records -> Nat]
        /\ touched \in [Handlers -> SUBSET Records] /\ owed \in [Handlers -> SUBSET Records]
        /\ missed \subseteq Records /\ torn \subseteq Leads /\ rewritten \subseteq Leads
    BY DEF Init
  <2> QED
    BY <2>1, <2>2, <2>4, <2>5 DEF Typed, TypeOK
<1>2. Typed /\ [Next]_vars => Typed'
  <2>1. CASE UNCHANGED vars
    BY <2>1 DEF vars, observers, Typed, TypeOK, Targeted
  <2> QED
    BY <2>1, ReadTyped, WorkTyped, MatterTyped, ChangeTyped DEF Next, Considers
<1> QED
  BY <1>1, <1>2, PTL DEF Spec

-----------------------------------------------------------------------------
(* Counts.                                                                  *)

(* A row that is still kept has not been counted.                           *)
Counted ==
  \A r \in Records :
    reported[r] <= 1 /\ (row[r].fate = "kept" => reported[r] = 0)

(* What is counted is what was open, and it does not stay so.               *)
LEMMA CountStays ==
  ASSUME Typed, Counted, NEW S, Count(S), \A r \in S : row[r].fate = "kept",
         \A r \in Records : row'[r].fate = "kept" => row[r].fate = "kept" /\ r \notin S
  PROVE  Counted'
<1>1. reported \in [Records -> Nat]
  BY DEF Typed, TypeOK
<1>2. \A r \in Records : reported'[r] = reported[r] + (IF r \in S THEN 1 ELSE 0)
  BY DEF Count
<1> QED
  BY <1>1, <1>2 DEF Counted

(* Every step counts a row once at most.                                    *)
LEMMA CountedStays ==
  ASSUME Parameters, Typed, Counted, [Next]_vars
  PROVE  Counted'
<1>1. row \in [Records -> RowSet] /\ reported \in [Records -> Nat]
  BY DEF Typed, TypeOK
<1>2. ASSUME NEW h \in Handlers, Purge(h) PROVE Counted'
  <2>1. PICK S : row' = Purged({r \in S : StillOpen(r)}) /\ Count({r \in S : StillOpen(r)})
    BY <1>2 DEF Purge
  <2> DEFINE done == {r \in S : StillOpen(r)}
  <2>2. \A r \in done : row[r].fate = "kept"
    BY DEF StillOpen
  <2>3. \A r \in Records : row'[r].fate = "kept" => row[r].fate = "kept" /\ r \notin done
    <3>1. ASSUME NEW x \in RowSet, NEW fate \in {"anonymized", "deleted"}
          PROVE  [x EXCEPT !.fate = fate].fate = fate
      BY DEF RowSet
    <3> HIDE DEF done
    <3> QED
      BY <1>1, <2>1, <3>1 DEF Purged, done
  <2> QED
    BY <2>1, <2>2, <2>3, CountStays
<1>3. ASSUME NEW r \in Records, Anonymize(r) PROVE Counted'
  <2>1. CASE StillOpen(r)
    <3>1. /\ row' = [row EXCEPT ![r].fate = "anonymized"] /\ Count({r})
          /\ row[r].fate = "kept"
      BY <2>1, <1>3 DEF Anonymize, StillOpen
    <3>2. \A q \in Records : row'[q].fate = "kept" => row[q].fate = "kept" /\ q \notin {r}
      BY <1>1, <3>1 DEF RowSet
    <3> QED
      BY <3>1, <3>2, CountStays
  <2>2. CASE ~StillOpen(r)
    BY <2>2, <1>3 DEF Anonymize, Counted
  <2> QED
    BY <2>1, <2>2
<1>4. ASSUME NEW h \in Handlers, AnonymizeLead(h) \/ AnonymizeDocument(h) PROVE Counted'
  BY <1>3, <1>4 DEF AnonymizeLead, AnonymizeDocument, Records
<1>5. ASSUME NEW h \in Handlers, Write(h) PROVE Counted'
  <2>1. /\ row' = [row EXCEPT ![local[h].target] =
                     Patched(row[local[h].target], local[h].setting, local[h].date)]
        /\ reported' = reported
    BY <1>5 DEF Write, Overridden
  <2>2. local[h].setting \in Settings
    BY DEF Typed, TypeOK, Locals
  <2>3. \A x \in RowSet : Patched(x, local[h].setting, local[h].date).fate = x.fate
    BY <2>2 DEF Patched, Settings, RowSet
  <2> QED
    BY <1>1, <2>1, <2>3 DEF Counted
<1>6. ASSUME NEW h \in Handlers, Move(h) PROVE Counted'
  <2>1. \A r \in Records : row'[r].fate = row[r].fate
    BY <1>1, <1>6 DEF Move, Moved, RowSet
  <2> QED
    BY <1>6, <2>1 DEF Move, Counted
<1>7. ASSUME NEW l \in Leads, Hide(l) PROVE Counted'
  BY <1>1, <1>7 DEF Hide, Counted, RowSet
<1>8. CASE UNCHANGED <<row, reported>>
  BY <1>8 DEF Counted
<1>9. ASSUME NEW h \in Handlers, Considers(h) \/ WriteCheck(h) PROVE UNCHANGED <<row, reported>>
  <2>1. Parameters /\ local[h] \in Locals
    BY DEF Typed, TypeOK
  <2> QED
    BY <1>9, <2>1, ConsiderGoes, WriteCheckGoes
<1>10. ASSUME NEW h \in Handlers,
              \/ \E dry \in BOOLEAN, s \in Selections : StartRun(h, dry, s)
              \/ Find(h) \/ AnonymizeParts(h) \/ FailRow(h) \/ Complete(h) \/ Die(h)
              \/ \E q \in Records, s \in Settings, date \in Dates \cup {None} : Ask(h, q, s, date)
       PROVE  UNCHANGED <<row, reported>>
  BY <1>10 DEF StartRun, Find, AnonymizeParts, FailRow, Complete, Die, Ask, observers
<1>11. UNCHANGED vars \/ Tick => UNCHANGED <<row, reported>>
  BY DEF Tick, vars, observers
<1> QED
  BY <1>2, <1>4, <1>5, <1>6, <1>7, <1>8, <1>9, <1>10, <1>11 DEF Next, Considers

-----------------------------------------------------------------------------
(* The tables of a lead.                                                    *)

(* The intake comes first: whoever is at the conflict check has emptied it. *)
(* What is deleted or anonymized at once is not of a matter.                *)
InOrder ==
  \A h \in Handlers :
    /\ pc[h] = "lead_conflict_checks" => "intakes" \notin parts[local[h].target]
    /\ pc[h] = "purge" => local[h].batch \cap (Leads \cup Documents) = {}

Whole == AnonymizedWholly /\ InOrder

(* A step that anonymizes no lead, leaves the tables alone and lets nobody  *)
(* go from them leaves every lead whole.                                    *)
LEMMA WholeStays ==
  ASSUME Whole, UNCHANGED parts, InOrder',
         \A l \in Leads : row'[l].fate = "anonymized" => row[l].fate = "anonymized",
         torn \subseteq torn', rewritten' = rewritten,
         \A h \in Handlers : pc[h] \in Tables =>
           \/ pc'[h] \in Tables /\ local'[h].target = local[h].target
           \/ local[h].target \in torn'
  PROVE  Whole'
<1> SUFFICES ASSUME NEW l \in Leads \ torn', row'[l].fate = "anonymized", ~BeingWorked(l)'
             PROVE  parts'[l] \subseteq (IF l \in rewritten' THEN {"lead_conflict_checks"} ELSE {})
  BY DEF Whole, AnonymizedWholly
<1>1. l \in Leads \ torn /\ row[l].fate = "anonymized" /\ ~BeingWorked(l)
  BY DEF BeingWorked
<1> QED
  BY <1>1 DEF Whole, AnonymizedWholly

(* Who goes anywhere but to the conflict check or a purge keeps the order.  *)
LEMMA GotoInOrder ==
  ASSUME Typed, InOrder, UNCHANGED parts, NEW h \in Handlers, NEW step, NEW l, Goto(h, step, l),
         step = "lead_conflict_checks" => "intakes" \notin parts[l.target],
         step = "purge" => l.batch \cap (Leads \cup Documents) = {}
  PROVE  /\ InOrder' /\ pc'[h] = step /\ local'[h] = l
         /\ \A g \in Handlers \ {h} : pc'[g] = pc[g] /\ local'[g] = local[g]
<1>1. pc \in [Handlers -> Steps] /\ local \in [Handlers -> Locals]
  BY DEF Typed, TypeOK
<1>2. /\ pc'[h] = step /\ local'[h] = l
      /\ \A g \in Handlers \ {h} : pc'[g] = pc[g] /\ local'[g] = local[g]
  BY <1>1 DEF Goto
<1> QED
  BY <1>2 DEF InOrder

(* The batch of a category without matters has no rows of matters.          *)
LEMMA BatchOfLogs ==
  ASSUME Parameters, NEW c \in Names, c \notin {"lead", "document"}
  PROVE  Workable(Batch(c)) \cap (Leads \cup Documents) = {}
<1>1. InCategory(c) \subseteq Logs \cup AdminLogs \cup Audits \cup Sessions
  BY DEF InCategory, Names, Categories
<1>2. Workable(Batch(c)) \subseteq InCategory(c)
  BY DEF Workable, Batch, Oldest
<1> QED
  BY <1>1, <1>2 DEF Parameters

(* Steps of runs and requests that leave rows and tables alone.             *)
LEMMA ReadWhole ==
  ASSUME Parameters, Typed, Whole, NEW h \in Handlers,
         \/ \E dry \in BOOLEAN, s \in Selections : StartRun(h, dry, s)
         \/ Find(h) \/ FailRow(h) \/ Complete(h) \/ Die(h)
         \/ \E r \in Records, s \in Settings, date \in Dates \cup {None} : Ask(h, r, s, date)
  PROVE  Whole'
<1>1. InOrder /\ Targeted /\ local[h] \in Locals
  BY DEF Whole, Typed, TypeOK
<1>2. ASSUME NEW step, step # "lead_conflict_checks", NEW l, Goto(h, step, l),
             step = "purge" => l.batch \cap (Leads \cup Documents) = {},
             UNCHANGED <<parts, row, rewritten>>, torn \subseteq torn',
             pc[h] \in Tables => local[h].target \in torn'
      PROVE  Whole'
  <2>1. /\ InOrder'
        /\ \A g \in Handlers \ {h} : pc'[g] = pc[g] /\ local'[g] = local[g]
    BY <1>1, <1>2, GotoInOrder
  <2> QED
    BY <1>2, <2>1, WholeStays
<1>3. ASSUME NEW dry \in BOOLEAN, NEW s \in Selections, StartRun(h, dry, s)
      PROVE  Whole'
  BY <1>2, <1>3 DEF StartRun, Tables
<1>4. CASE Find(h)
  <2> DEFINE c == First(local[h].todo)
  <2>1. /\ c \in Names /\ pc[h] = "find" /\ UNCHANGED <<row, parts, torn, rewritten>>
        /\ \E l \in Locals :
             /\ l.batch = IF local[h].dry THEN {} ELSE Workable(Batch(c))
             /\ Goto(h, IF l.batch = {} THEN "find"
                        ELSE IF c \in {"lead", "document"} THEN "work" ELSE "purge", l)
    BY <1>1, <1>4, FindGoes DEF observers
  <2> HIDE DEF c
  <2>2. PICK l \in Locals, step \in {"find", "work", "purge"} :
          /\ Goto(h, step, l)
          /\ step = "purge" => /\ c \notin {"lead", "document"}
                               /\ l.batch \subseteq Workable(Batch(c))
    BY <2>1
  <2>3. step = "purge" => l.batch \cap (Leads \cup Documents) = {}
    BY <2>1, <2>2, BatchOfLogs
  <2> QED
    BY <1>2, <2>1, <2>2, <2>3 DEF Tables
<1>5. CASE FailRow(h)
  <2>1. PICK l : Proceed(h, "work", l)
    BY <1>5 DEF FailRow
  <2>2. PICK step \in {"find", "work"} : Goto(h, step, l)
    BY <2>1 DEF Proceed
  <2>3. UNCHANGED <<parts, row, rewritten>> /\ torn' = Torn(h)
    BY <1>5 DEF FailRow
  <2>4. torn \subseteq torn' /\ (pc[h] \in Tables => local[h].target \in torn')
    BY <2>3 DEF Torn
  <2> QED
    BY <1>2, <2>2, <2>3, <2>4
<1>6. CASE Complete(h)
  BY <1>2, <1>6 DEF Complete, Tables
<1>7. CASE Die(h)
  <2>1. Goto(h, "idle", NoLocal) /\ UNCHANGED <<parts, row, rewritten>> /\ torn' = Torn(h)
    BY <1>7 DEF Die
  <2>2. torn \subseteq torn' /\ (pc[h] \in Tables => local[h].target \in torn')
    BY <2>1 DEF Torn
  <2> QED
    BY <1>2, <2>1, <2>2
<1>8. ASSUME NEW r \in Records, NEW s \in Settings, NEW date \in Dates \cup {None},
             Ask(h, r, s, date)
      PROVE  Whole'
  BY <1>2, <1>8 DEF Ask, Tables
<1> QED
  BY <1>3, <1>4, <1>5, <1>6, <1>7, <1>8

(* The statements on rows: a lead loses its name on the way to its tables.  *)
LEMMA WorkWhole ==
  ASSUME Parameters, Typed, Whole, NEW h \in Handlers,
         Purge(h) \/ AnonymizeLead(h) \/ AnonymizeDocument(h)
  PROVE  Whole'
<1>1. InOrder /\ Targeted /\ row \in [Records -> RowSet]
  BY DEF Whole, Typed, TypeOK
<1>2. CASE Purge(h)
  <2>1. PICK S : /\ S \subseteq local[h].batch /\ row' = Purged({r \in S : StillOpen(r)})
                 /\ Proceed(h, "purge", [local[h] EXCEPT !.batch = @ \ S])
    BY <1>2 DEF Purge
  <2> DEFINE l == [local[h] EXCEPT !.batch = @ \ S]
  <2>2. pc[h] = "purge" /\ UNCHANGED <<parts, torn, rewritten>>
    BY <1>2 DEF Purge
  <2>3. local[h].batch \cap (Leads \cup Documents) = {}
    BY <1>1, <2>2 DEF InOrder
  <2>4. l.batch \cap (Leads \cup Documents) = {}
    BY <2>3 DEF Typed, TypeOK, Locals
  <2>5. \A q \in Leads : row'[q] = row[q]
    BY <2>1, <2>3 DEF Purged, Records
  <2> HIDE DEF l
  <2>6. PICK step \in {"find", "purge"} : Goto(h, step, l)
    BY <2>1 DEF Proceed, l
  <2>7. /\ InOrder'
        /\ \A g \in Handlers \ {h} : pc'[g] = pc[g] /\ local'[g] = local[g]
    BY <1>1, <2>2, <2>4, <2>6, GotoInOrder
  <2> QED
    BY <2>2, <2>5, <2>7, WholeStays DEF Tables
<1>3. CASE AnonymizeLead(h)
  <2>1. PICK r \in NextOf(local[h].batch) \cap Leads :
          LET rest == [local[h] EXCEPT !.batch = @ \ {r}] IN
          /\ Anonymize(r)
          /\ IF StillOpen(r) THEN Goto(h, "intakes", [rest EXCEPT !.target = r])
                             ELSE Proceed(h, "work", rest)
    BY <1>3 DEF AnonymizeLead
  <2>2. pc[h] = "work" /\ UNCHANGED <<parts, torn, rewritten>>
    BY <1>3 DEF AnonymizeLead
  <2> DEFINE rest == [local[h] EXCEPT !.batch = @ \ {r}]
             next == [rest EXCEPT !.target = r]
  <2>3. next.target = r
    BY DEF Typed, TypeOK, Locals
  <2> HIDE DEF rest, next
  <2>4. CASE StillOpen(r)
    <3>1. Goto(h, "intakes", next) /\ row' = [row EXCEPT ![r].fate = "anonymized"]
      BY <2>1, <2>4 DEF Anonymize, rest, next
    <3>2. /\ InOrder' /\ pc'[h] = "intakes" /\ local'[h] = next
          /\ \A g \in Handlers \ {h} : pc'[g] = pc[g] /\ local'[g] = local[g]
      BY <1>1, <2>2, <3>1, GotoInOrder
    <3>3. \A l \in Leads : l # r => row'[l] = row[l]
      BY <1>1, <3>1 DEF Records
    <3>4. ASSUME NEW l \in Leads \ torn', row'[l].fate = "anonymized", ~BeingWorked(l)'
          PROVE  parts'[l] \subseteq (IF l \in rewritten' THEN {"lead_conflict_checks"} ELSE {})
      <4>1. CASE l = r
        BY <2>3, <3>2, <3>4, <4>1 DEF Tables, BeingWorked
      <4>2. CASE l # r
        <5>1. ~BeingWorked(l)
          BY <2>2, <3>2, <3>4 DEF Tables, BeingWorked
        <5> QED
          BY <2>2, <3>3, <3>4, <4>2, <5>1 DEF Whole, AnonymizedWholly
      <4> QED
        BY <4>1, <4>2
    <3> QED
      BY <3>2, <3>4 DEF Whole, AnonymizedWholly
  <2>5. CASE ~StillOpen(r)
    <3>1. Proceed(h, "work", rest) /\ row' = row
      BY <2>1, <2>5 DEF Anonymize, rest
    <3>2. PICK step \in {"find", "work"} : Goto(h, step, rest)
      BY <3>1 DEF Proceed
    <3>3. /\ InOrder'
          /\ \A g \in Handlers \ {h} : pc'[g] = pc[g] /\ local'[g] = local[g]
      BY <1>1, <2>2, <3>2, GotoInOrder
    <3> QED
      BY <2>2, <3>1, <3>3, WholeStays DEF Tables
  <2> QED
    BY <2>4, <2>5
<1>4. CASE AnonymizeDocument(h)
  <2>1. PICK r \in NextOf(local[h].batch) \cap Documents :
          Anonymize(r) /\ Proceed(h, "work", [local[h] EXCEPT !.batch = @ \ {r}])
    BY <1>4 DEF AnonymizeDocument
  <2>2. pc[h] = "work" /\ UNCHANGED <<parts, torn, rewritten>>
    BY <1>4 DEF AnonymizeDocument
  <2>3. r \in Records /\ r \notin Leads
    BY DEF Records, Parameters
  <2>4. \A l \in Leads : row'[l] = row[l]
    BY <1>1, <2>1, <2>3 DEF Anonymize, Records
  <2> DEFINE rest == [local[h] EXCEPT !.batch = @ \ {r}]
  <2>5. PICK step \in {"find", "work"} : Goto(h, step, rest)
    BY <2>1 DEF Proceed
  <2> HIDE DEF rest
  <2>6. /\ InOrder'
        /\ \A g \in Handlers \ {h} : pc'[g] = pc[g] /\ local'[g] = local[g]
    BY <1>1, <2>2, <2>5, GotoInOrder
  <2> QED
    BY <2>2, <2>4, <2>6, WholeStays DEF Tables
<1> QED
  BY <1>2, <1>3, <1>4

(* The two statements of anonymizeLeadById that empty the lead's tables.    *)
LEMMA PartsWhole ==
  ASSUME Parameters, Typed, Whole, NEW h \in Handlers, AnonymizeParts(h)
  PROVE  Whole'
<1> DEFINE lead == local[h].target
           next == [local[h] EXCEPT !.target = None]
<1>1. /\ InOrder /\ lead \in Leads /\ pc[h] \in Tables
      /\ parts \in [Leads -> SUBSET Tables]
      /\ pc \in [Handlers -> Steps] /\ local \in [Handlers -> Locals]
  BY DEF Whole, Typed, TypeOK, Targeted, AnonymizeParts
<1>2. /\ parts' = [parts EXCEPT ![lead] = parts[lead] \ {pc[h]}]
      /\ UNCHANGED <<row, torn>>
      /\ rewritten' = IF pc[h] = "lead_conflict_checks" THEN rewritten \ {lead} ELSE rewritten
  BY DEF AnonymizeParts
<1>3. CASE pc[h] = "intakes"
  <2>1. Goto(h, "lead_conflict_checks", local[h])
    BY <1>3 DEF AnonymizeParts, TablesAfter
  <2>2. /\ pc'[h] = "lead_conflict_checks" /\ local'[h] = local[h]
        /\ \A g \in Handlers \ {h} : pc'[g] = pc[g] /\ local'[g] = local[g]
    BY <1>1, <2>1 DEF Goto
  <2>3. "intakes" \notin parts'[lead] /\ \A l \in Leads : parts'[l] \subseteq parts[l]
    BY <1>1, <1>2, <1>3
  <2>4. InOrder'
    <3> SUFFICES ASSUME NEW g \in Handlers
                 PROVE  /\ pc'[g] = "lead_conflict_checks"
                             => "intakes" \notin parts'[local'[g].target]
                        /\ pc'[g] = "purge" => local'[g].batch \cap (Leads \cup Documents) = {}
      BY DEF InOrder
    <3>1. CASE g = h
      <4>1. pc'[g] = "lead_conflict_checks" /\ local'[g].target = lead
        BY <2>2, <3>1
      <4> QED
        BY <2>3, <4>1
    <3>2. CASE g # h
      <4>1. pc'[g] = pc[g] /\ local'[g] = local[g]
        BY <2>2, <3>2
      <4>2. pc[g] = "lead_conflict_checks" => local[g].target \in Leads
        BY DEF Typed, Targeted, Tables
      <4> QED
        BY <1>1, <2>3, <4>1, <4>2 DEF InOrder
    <3> QED
      BY <3>1, <3>2
  <2>5. AnonymizedWholly'
    <3> SUFFICES ASSUME NEW l \in Leads \ torn', row'[l].fate = "anonymized", ~BeingWorked(l)'
                 PROVE  parts'[l] \subseteq (IF l \in rewritten' THEN {"lead_conflict_checks"} ELSE {})
      BY DEF AnonymizedWholly
    <3>1. ~BeingWorked(l)
      BY <2>2 DEF Tables, BeingWorked
    <3> QED
      BY <1>2, <1>3, <2>3, <3>1 DEF Whole, AnonymizedWholly
  <2> QED
    BY <2>4, <2>5 DEF Whole
<1>4. CASE pc[h] = "lead_conflict_checks"
  <2>1. Proceed(h, "work", next)
    BY <1>4 DEF AnonymizeParts, TablesAfter
  <2>2. PICK step \in {"find", "work"} : Goto(h, step, next)
    BY <2>1 DEF Proceed
  <2> HIDE DEF next
  <2>3. /\ pc'[h] = step
        /\ \A g \in Handlers \ {h} : pc'[g] = pc[g] /\ local'[g] = local[g]
    BY <1>1, <2>2 DEF Goto
  <2>4. parts'[lead] = {} /\ \A l \in Leads : parts'[l] \subseteq parts[l]
    <3>1. parts[lead] \subseteq {"intakes", "lead_conflict_checks"} /\ "intakes" \notin parts[lead]
      BY <1>1, <1>4 DEF InOrder, Tables
    <3> QED
      BY <1>1, <1>2, <1>4, <3>1
  <2>5. InOrder'
    <3> SUFFICES ASSUME NEW g \in Handlers
                 PROVE  /\ pc'[g] = "lead_conflict_checks"
                             => "intakes" \notin parts'[local'[g].target]
                        /\ pc'[g] = "purge" => local'[g].batch \cap (Leads \cup Documents) = {}
      BY DEF InOrder
    <3>1. CASE g = h
      BY <2>3, <3>1
    <3>2. CASE g # h
      <4>1. pc'[g] = pc[g] /\ local'[g] = local[g]
        BY <2>3, <3>2
      <4>2. pc[g] = "lead_conflict_checks" => local[g].target \in Leads
        BY DEF Typed, Targeted, Tables
      <4> QED
        BY <1>1, <2>4, <4>1, <4>2 DEF InOrder
    <3> QED
      BY <3>1, <3>2
  <2>6. AnonymizedWholly'
    <3> SUFFICES ASSUME NEW l \in Leads \ torn', row'[l].fate = "anonymized", ~BeingWorked(l)'
                 PROVE  parts'[l] \subseteq (IF l \in rewritten' THEN {"lead_conflict_checks"} ELSE {})
      BY DEF AnonymizedWholly
    <3>1. CASE l = lead
      BY <2>4, <3>1
    <3>2. CASE l # lead
      <4>1. ~BeingWorked(l)
        BY <2>3, <3>2 DEF BeingWorked
      <4> QED
        BY <1>2, <2>4, <3>2, <4>1 DEF Whole, AnonymizedWholly
    <3> QED
      BY <3>1, <3>2
  <2> QED
    BY <2>5, <2>6 DEF Whole
<1> QED
  BY <1>1, <1>3, <1>4 DEF Tables

(* The staff turns to a matter; what it writes into the conflict check of   *)
(* an anonymized lead is noted.                                             *)
LEMMA MatterWhole ==
  ASSUME Parameters, Typed, Whole, NEW h \in Handlers, Considers(h) \/ WriteCheck(h)
  PROVE  Whole'
<1>1. /\ InOrder /\ Targeted /\ local[h] \in Locals /\ parts \in [Leads -> SUBSET Tables]
      /\ pc \in [Handlers -> Steps] /\ local \in [Handlers -> Locals]
  BY DEF Whole, Typed, TypeOK
<1>2. CASE Considers(h)
  <2>1. PICK l \in Locals, step \in {"check", "move"} : Goto(h, step, l)
    BY <1>2, ConsiderGoes
  <2>2. pc[h] = "idle" /\ UNCHANGED <<row, parts, torn, rewritten>>
    BY <1>2, ConsiderGoes
  <2>3. /\ InOrder'
        /\ \A g \in Handlers \ {h} : pc'[g] = pc[g] /\ local'[g] = local[g]
    BY <1>1, <2>1, <2>2, GotoInOrder
  <2> QED
    BY <2>2, <2>3, WholeStays DEF Tables
<1>3. CASE WriteCheck(h)
  <2> DEFINE lead == local[h].target
  <2>1. PICK l \in Locals, step \in {"idle", "move"} : Goto(h, step, l)
    BY <1>1, <1>3, WriteCheckGoes
  <2>2. /\ pc[h] = "check" /\ UNCHANGED <<row, torn>>
        /\ parts' = [parts EXCEPT ![lead] =
                       IF local[h].names THEN parts[lead] \cup {"lead_conflict_checks"}
                                         ELSE parts[lead] \ {"lead_conflict_checks"}]
        /\ rewritten' = IF local[h].names /\ row[lead].fate = "anonymized"
                        THEN rewritten \cup {lead} ELSE rewritten
    BY <1>3 DEF WriteCheck
  <2>3. lead \in Leads
    BY <1>1, <2>2 DEF Targeted
  <2>4. /\ pc'[h] = step /\ local'[h] = l
        /\ \A g \in Handlers \ {h} : pc'[g] = pc[g] /\ local'[g] = local[g]
    BY <1>1, <2>1 DEF Goto
  <2>5. \A k \in Leads : /\ k # lead => parts'[k] = parts[k]
                         /\ "intakes" \in parts'[k] <=> "intakes" \in parts[k]
    BY <1>1, <2>2, <2>3
  <2>6. InOrder'
    <3> SUFFICES ASSUME NEW g \in Handlers
                 PROVE  /\ pc'[g] = "lead_conflict_checks"
                             => "intakes" \notin parts'[local'[g].target]
                        /\ pc'[g] = "purge" => local'[g].batch \cap (Leads \cup Documents) = {}
      BY DEF InOrder
    <3>1. CASE g = h
      BY <2>4, <3>1
    <3>2. CASE g # h
      <4>1. pc'[g] = pc[g] /\ local'[g] = local[g]
        BY <2>4, <3>2
      <4>2. pc[g] = "lead_conflict_checks" => local[g].target \in Leads
        BY <1>1 DEF Targeted, Tables
      <4> QED
        BY <1>1, <2>5, <4>1, <4>2 DEF InOrder
    <3> QED
      BY <3>1, <3>2
  <2>7. AnonymizedWholly'
    <3> SUFFICES ASSUME NEW k \in Leads \ torn', row'[k].fate = "anonymized", ~BeingWorked(k)'
                 PROVE  parts'[k] \subseteq (IF k \in rewritten' THEN {"lead_conflict_checks"} ELSE {})
      BY DEF AnonymizedWholly
    <3>1. ~BeingWorked(k)
      BY <2>2, <2>4 DEF BeingWorked, Tables
    <3>2. parts[k] \subseteq (IF k \in rewritten THEN {"lead_conflict_checks"} ELSE {})
      BY <2>2, <3>1 DEF Whole, AnonymizedWholly
    <3>3. CASE k = lead
      BY <1>1, <2>2, <2>3, <3>2, <3>3
    <3>4. CASE k # lead
      BY <2>2, <2>5, <3>2, <3>4
    <3> QED
      BY <3>3, <3>4
  <2> QED
    BY <2>6, <2>7 DEF Whole
<1> QED
  BY <1>2, <1>3

(* Administrators, matters and the clock anonymize nothing.                 *)
LEMMA ChangeWhole ==
  ASSUME Parameters, Typed, Whole,
         \/ \E h \in Handlers : Write(h) \/ Move(h)
         \/ \E l \in Leads : Hide(l)
         \/ Tick
  PROVE  Whole'
<1>1. InOrder /\ Targeted /\ row \in [Records -> RowSet]
  BY DEF Whole, Typed, TypeOK
<1>2. ASSUME NEW h \in Handlers, Write(h) PROVE Whole'
  <2>1. /\ row' = [row EXCEPT ![local[h].target] =
                     Patched(row[local[h].target], local[h].setting, local[h].date)]
        /\ Goto(h, "idle", NoLocal) /\ pc[h] = "write" /\ UNCHANGED <<parts, torn, rewritten>>
    BY <1>2 DEF Write, Overridden
  <2>2. local[h].setting \in Settings
    BY DEF Typed, TypeOK, Locals
  <2>3. \A x \in RowSet : Patched(x, local[h].setting, local[h].date).fate = x.fate
    BY <2>2 DEF Patched, Settings, RowSet
  <2>4. \A l \in Leads : row'[l].fate = row[l].fate
    BY <1>1, <2>1, <2>3 DEF Records
  <2>5. /\ InOrder'
        /\ \A g \in Handlers \ {h} : pc'[g] = pc[g] /\ local'[g] = local[g]
    BY <1>1, <2>1, GotoInOrder
  <2> QED
    BY <2>1, <2>4, <2>5, WholeStays DEF Tables
<1>3. ASSUME UNCHANGED <<parts, pc, local, torn, rewritten>>,
             \A l \in Leads : row'[l].fate = "anonymized" => row[l].fate = "anonymized"
      PROVE  Whole'
  <2>1. InOrder'
    BY <1>1, <1>3 DEF InOrder
  <2> QED
    BY <1>3, <2>1, WholeStays
<1>4. ASSUME NEW h \in Handlers, Move(h) PROVE Whole'
  <2>1. /\ pc[h] = "move" /\ Goto(h, "idle", NoLocal)
        /\ UNCHANGED <<parts, torn, rewritten>>
    BY <1>4 DEF Move
  <2>2. \A q \in Leads : row'[q].fate = row[q].fate
    BY <1>1, <1>4 DEF Move, Moved, Records, RowSet
  <2>3. /\ InOrder'
        /\ \A g \in Handlers \ {h} : pc'[g] = pc[g] /\ local'[g] = local[g]
    BY <1>1, <2>1, GotoInOrder
  <2> QED
    BY <2>1, <2>2, <2>3, WholeStays DEF Tables
<1>5. ASSUME NEW l \in Leads, Hide(l) PROVE Whole'
  <2>1. UNCHANGED <<parts, pc, local, torn, rewritten>>
    BY <1>5 DEF Hide
  <2>2. \A q \in Leads : row'[q].fate = "anonymized" => row[q].fate = "anonymized"
    BY <1>1, <1>5 DEF Hide, Records, RowSet
  <2> QED
    BY <1>3, <2>1, <2>2
<1>6. CASE Tick
  BY <1>3, <1>6 DEF Tick, observers
<1> QED
  BY <1>2, <1>4, <1>5, <1>6

(* Every step leaves the leads whole.                                       *)
LEMMA WholeInv ==
  ASSUME Parameters, Typed, Whole, [Next]_vars
  PROVE  Whole'
<1>1. CASE UNCHANGED vars
  BY <1>1 DEF vars, observers, Whole, AnonymizedWholly, BeingWorked, InOrder
<1> QED
  BY <1>1, ReadWhole, WorkWhole, PartsWhole, MatterWhole, ChangeWhole DEF Next, Considers

-----------------------------------------------------------------------------
(* What a run owes.                                                         *)

(* A set of numbers has a least one.                                        *)
LEMMA LeastNatural ==
  ASSUME NEW T \in SUBSET Nat, T # {}
  PROVE  \E m \in T : \A k \in T : m <= k
<1> DEFINE R == OpToRel(<, Nat)
<1>1. IsWellFoundedOn(R, Nat)
  BY NatLessThanWellFounded
<1>2. \A x, y \in Nat : x < y => <<x, y>> \in R
  BY DEF OpToRel
<1> HIDE DEF R
<1>3. PICK m \in T : \A y \in T : ~(<<y, m>> \in R)
  BY <1>1, WFMin
<1>4. ASSUME NEW k \in T PROVE m <= k
  <2>1. m \in Nat /\ k \in Nat /\ ~(k < m)
    BY <1>2, <1>3
  <2> QED
    BY <2>1
<1> QED
  BY <1>4

(* A query with a limit that comes back with less has left nothing out.     *)
LEMMA OldestOfFew ==
  ASSUME Parameters, NEW S \in SUBSET Records, Cardinality(Oldest(S)) < Limit
  PROVE  Oldest(S) = S
<1>1. IsFiniteSet(S) /\ Rank \in [Records -> Nat] /\ Limit \in Nat
  BY FS_Subset DEF Parameters
<1>2. Oldest(S) \subseteq S /\ IsFiniteSet(Oldest(S)) /\ Cardinality(Oldest(S)) \in Nat
  BY <1>1, FS_Subset, FS_CardinalityType DEF Oldest
<1>3. SUFFICES ASSUME S \ Oldest(S) # {} PROVE FALSE
  BY <1>2
<1> DEFINE left == S \ Oldest(S)
           ranks == {Rank[r] : r \in left}
<1>4. ranks \in SUBSET Nat /\ ranks # {}
  BY <1>1, <1>3
<1>5. PICK m \in ranks : \A k \in ranks : m <= k
  BY <1>4, LeastNatural
<1>6. PICK r \in left : Rank[r] = m
  BY <1>5
<1> DEFINE before == {q \in S : Rank[q] < Rank[r]}
<1>7. before \subseteq Oldest(S)
  <2> SUFFICES ASSUME NEW q \in before, q \notin Oldest(S) PROVE FALSE
    OBVIOUS
  <2>1. q \in left /\ Rank[q] \in Nat /\ Rank[r] \in Nat
    BY <1>1
  <2> QED
    BY <1>5, <1>6, <2>1
<1>8. Cardinality(before) <= Cardinality(Oldest(S)) /\ Cardinality(before) \in Nat
  BY <1>2, <1>7, FS_Subset, FS_CardinalityType
<1>9. Cardinality(before) < Limit
  BY <1>1, <1>2, <1>8
<1> QED
  BY <1>6, <1>9 DEF Oldest

(* A batch that is not full has every row that is due.                      *)
LEMMA BatchOfFew ==
  ASSUME Parameters, NEW c \in Names, ~(Cardinality(Batch(c)) >= Limit),
         NEW r \in InCategory(c), Due(r)
  PROVE  r \in Workable(Batch(c))
<1> DEFINE A == {q \in InCategory(c) \cap AdminLogs : Found(q)}
           B == {q \in InCategory(c) \ AdminLogs : Found(q)}
<1>1. A \in SUBSET Records /\ B \in SUBSET Records
  BY DEF Names, Categories, InCategory, Records
<1>2. Batch(c) = Oldest(A) \cup Oldest(B)
  BY DEF Batch
<1>3. Oldest(A) \subseteq A /\ Oldest(B) \subseteq B
  BY DEF Oldest
<1> HIDE DEF A, B
<1>4. IsFiniteSet(Batch(c)) /\ Limit \in Nat
  BY <1>1, <1>2, <1>3, FS_Subset DEF Parameters
<1>5. /\ Cardinality(Oldest(A)) <= Cardinality(Batch(c)) /\ Cardinality(Oldest(A)) \in Nat
      /\ Cardinality(Oldest(B)) <= Cardinality(Batch(c)) /\ Cardinality(Oldest(B)) \in Nat
      /\ Cardinality(Batch(c)) \in Nat
  BY <1>2, <1>4, FS_Subset, FS_CardinalityType
<1>6. Cardinality(Oldest(A)) < Limit /\ Cardinality(Oldest(B)) < Limit
  BY <1>4, <1>5
<1>7. Oldest(A) = A /\ Oldest(B) = B
  BY <1>1, <1>6, OldestOfFew
<1> QED
  BY <1>2, <1>7 DEF A, B, Workable, Due

(* The steps of those who owe nothing.                                      *)
Elsewhere == {"idle", "write", "check", "move"}

(* What a run owes and is still kept is due, and ahead of it: in its batch, *)
(* or in a category that it has not come to.                                *)
Owing ==
  /\ missed = {}
  /\ \A h \in Handlers :
       /\ pc[h] = "find" => local[h].batch = {}
       /\ pc[h] \in Elsewhere \/ local[h].dry => owed[h] = {}
       /\ \A r \in owed[h] : row[r].fate = "kept" => Due(r)
       /\ ~local[h].full =>
            \A r \in owed[h] : row[r].fate = "kept" =>
              r \in local[h].batch \/ \E c \in local[h].todo : r \in InCategory(c)

(* A handler goes on, and the rows that somebody owes and that are still    *)
(* kept stay due.                                                           *)
LEMMA OwingGoto ==
  ASSUME Typed, Owing, missed' = missed, NEW h \in Handlers, NEW step, NEW l, Goto(h, step, l),
         \A g \in Handlers : owed'[g] \subseteq owed[g],
         step = "find" => l.batch = {},
         step \in Elsewhere \/ l.dry => owed'[h] = {},
         \A g \in Handlers : \A r \in owed'[g] :
           row'[r].fate = "kept" => row[r].fate = "kept" /\ (Due(r) => Due(r)'),
         ~l.full =>
           \A r \in owed'[h] : row'[r].fate = "kept" =>
             r \in l.batch \/ \E c \in l.todo : r \in InCategory(c)
  PROVE  Owing'
<1>1. pc \in [Handlers -> Steps] /\ local \in [Handlers -> Locals]
  BY DEF Typed, TypeOK
<1>2. /\ pc'[h] = step /\ local'[h] = l
      /\ \A g \in Handlers \ {h} : pc'[g] = pc[g] /\ local'[g] = local[g]
  BY <1>1 DEF Goto
<1>3. \A g \in Handlers : \A r \in owed'[g] : row'[r].fate = "kept" => Due(r)'
  BY DEF Owing
<1>4. ASSUME NEW g \in Handlers
      PROVE  /\ pc'[g] = "find" => local'[g].batch = {}
             /\ pc'[g] \in Elsewhere \/ local'[g].dry => owed'[g] = {}
             /\ ~local'[g].full =>
                  \A r \in owed'[g] : row'[r].fate = "kept" =>
                    r \in local'[g].batch \/ \E c \in local'[g].todo : r \in InCategory(c)
  <2>1. CASE g = h
    BY <1>2, <2>1
  <2>2. CASE g # h
    <3>1. pc'[g] = pc[g] /\ local'[g] = local[g] /\ owed'[g] \subseteq owed[g]
      BY <1>2, <2>2
    <3> QED
      BY <3>1 DEF Owing
  <2> QED
    BY <2>1, <2>2
<1>5. missed' = {}
  BY DEF Owing
<1> QED
  BY <1>3, <1>4, <1>5 DEF Owing, InCategory

(* The rows of a category are rows.                                         *)
LEMMA InCategoryIsRows == ASSUME NEW c \in Names PROVE InCategory(c) \subseteq Records
  BY DEF Names, Categories, InCategory, Records

(* A run begins with what is due then, and all of it is ahead.              *)
LEMMA StartRunOwing ==
  ASSUME Parameters, Typed, Owing, NEW h \in Handlers,
         NEW dry \in BOOLEAN, NEW selected \in Selections, StartRun(h, dry, selected)
  PROVE  Owing'
<1> DEFINE l == [NoLocal EXCEPT !.dry = dry, !.todo = selected]
           due == {r \in UNION {InCategory(c) : c \in selected} : Found(r) /\ Eligible(r)}
<1>1. /\ pc \in [Handlers -> Steps] /\ local \in [Handlers -> Locals]
      /\ owed \in [Handlers -> SUBSET Records]
  BY DEF Typed, TypeOK
<1>2. l.batch = {} /\ l.todo = selected /\ l.dry = dry
  BY DEF NoLocal
<1>3. /\ Goto(h, "find", l) /\ UNCHANGED <<now, row, missed>>
      /\ owed' = [owed EXCEPT ![h] = IF dry THEN {} ELSE due]
  BY DEF StartRun
<1>4. \A r \in due : Due(r) /\ \E c \in selected : r \in InCategory(c)
  BY DEF Due
<1>5. \A r : Due(r) => Due(r)'
  BY <1>3 DEF Due, Found, Eligible, FoundLead, FoundDocument, LeadEligible, DocumentEligible,
     ScheduleIsDue, PeriodIsOver
<1> HIDE DEF l, due
<1>6. /\ pc'[h] = "find" /\ local'[h] = l /\ owed'[h] = IF dry THEN {} ELSE due
      /\ \A g \in Handlers \ {h} :
           pc'[g] = pc[g] /\ local'[g] = local[g] /\ owed'[g] = owed[g]
  BY <1>1, <1>3 DEF Goto
<1>7. ASSUME NEW g \in Handlers
      PROVE  /\ pc'[g] = "find" => local'[g].batch = {}
             /\ pc'[g] \in Elsewhere \/ local'[g].dry => owed'[g] = {}
             /\ \A r \in owed'[g] : row'[r].fate = "kept" => Due(r)'
             /\ ~local'[g].full =>
                  \A r \in owed'[g] : row'[r].fate = "kept" =>
                    r \in local'[g].batch \/ \E c \in local'[g].todo : r \in InCategory(c)
  <2>1. CASE g = h
    BY <1>2, <1>4, <1>5, <1>6, <2>1 DEF Elsewhere
  <2>2. CASE g # h
    BY <1>3, <1>5, <1>6, <2>2 DEF Owing
  <2> QED
    BY <2>1, <2>2
<1>8. missed' = {}
  BY <1>3 DEF Owing
<1> QED
  BY <1>7, <1>8 DEF Owing, InCategory

(* The next category: what is owed of it comes into the batch.              *)
LEMMA FindOwing ==
  ASSUME Parameters, Typed, Inv, Owing, NEW h \in Handlers, Find(h)
  PROVE  Owing'
<1> DEFINE c == First(local[h].todo)
           batch == Batch(c)
<1>1. /\ local[h] \in Locals /\ owed \in [Handlers -> SUBSET Records] /\ RowsFit
      /\ row \in [Records -> RowTypes]
  BY DEF Typed, TypeOK, Inv, RowsFit
<1>2. /\ c \in Names /\ local[h].todo # {} /\ pc[h] = "find"
      /\ UNCHANGED <<now, row, parts, changes, observers>>
      /\ \E l \in Locals :
           /\ l.batch = IF local[h].dry THEN {} ELSE Workable(batch)
           /\ l.todo = local[h].todo \ {c} /\ l.dry = local[h].dry
           /\ l.full = (local[h].full \/ Cardinality(batch) >= Limit)
           /\ Goto(h, IF l.batch = {} THEN "find"
                      ELSE IF c \in {"lead", "document"} THEN "work" ELSE "purge", l)
  BY <1>1, FindGoes
<1> HIDE DEF c, batch
<1>3. PICK l \in Locals, step \in {"find", "work", "purge"} :
        /\ l.batch = IF local[h].dry THEN {} ELSE Workable(batch)
        /\ l.todo = local[h].todo \ {c} /\ l.dry = local[h].dry
        /\ l.full = (local[h].full \/ Cardinality(batch) >= Limit)
        /\ Goto(h, step, l) /\ (step = "find" => l.batch = {})
  BY <1>2
<1>4. /\ local[h].batch = {} /\ (local[h].dry => owed[h] = {})
      /\ \A r \in owed[h] : row[r].fate = "kept" => Due(r)
      /\ ~local[h].full =>
           \A r \in owed[h] : row[r].fate = "kept" =>
             \E d \in local[h].todo : r \in InCategory(d)
  BY <1>2 DEF Owing
<1>5. ASSUME ~l.full, NEW r \in owed'[h], row'[r].fate = "kept"
      PROVE  r \in l.batch \/ \E d \in l.todo : r \in InCategory(d)
  <2>1. /\ ~local[h].full /\ ~(Cardinality(batch) >= Limit)
        /\ r \in owed[h] /\ row[r].fate = "kept" /\ ~local[h].dry
    BY <1>2, <1>3, <1>4, <1>5 DEF observers
  <2>2. PICK d \in local[h].todo : r \in InCategory(d)
    BY <1>4, <2>1
  <2>3. CASE d = c
    BY <1>2, <1>3, <1>4, <2>1, <2>2, <2>3, BatchOfFew DEF batch
  <2>4. CASE d # c
    BY <1>3, <2>2, <2>4
  <2> QED
    BY <2>3, <2>4
<1>6. \A r \in Records : row'[r].fate = "kept" => row[r].fate = "kept" /\ (Due(r) => Due(r)')
  BY <1>1, <1>2, StillDue
<1>7. owed' = owed /\ missed' = missed
  BY <1>2 DEF observers
<1>8. \A g \in Handlers : owed'[g] \subseteq owed[g] /\ owed'[g] \subseteq Records
  BY <1>1, <1>7
<1>9. step \in Elsewhere \/ l.dry => owed'[h] = {}
  BY <1>3, <1>4, <1>7 DEF Elsewhere
<1> QED
  BY <1>3, <1>5, <1>6, <1>7, <1>8, <1>9, OwingGoto

(* A statement works what the run owes of its rows: it is due, and so is    *)
(* not on hold.                                                             *)
LEMMA WorkOwing ==
  ASSUME Parameters, Typed, Inv, Owing, NEW h \in Handlers, NEW S,
         NEW l \in Locals, NEW step \in Steps \ Elsewhere, Goto(h, step, l),
         l.batch = local[h].batch \ S, step = "find" => l.batch = {},
         l.todo = local[h].todo, l.dry = local[h].dry, l.full = local[h].full,
         UNCHANGED <<now, owed, missed>>, row' \in [Records -> RowTypes],
         \A r \in Records :
           \/ row'[r] = row[r]
           \/ \E fate \in {"anonymized", "deleted"} : row'[r] = [row[r] EXCEPT !.fate = fate],
         \A r \in S : StillOpen(r) => row'[r].fate # "kept"
  PROVE  Owing'
<1>1. owed \in [Handlers -> SUBSET Records] /\ RowsFit
  BY DEF Typed, TypeOK, Inv
<1>2. \A r \in Records : row'[r].fate = "kept" => row[r].fate = "kept" /\ (Due(r) => Due(r)')
  BY <1>1, StillDue
<1>3. ASSUME ~l.full, NEW r \in owed'[h], row'[r].fate = "kept"
      PROVE  r \in l.batch \/ \E d \in l.todo : r \in InCategory(d)
  <2>1. r \in owed[h] /\ r \in Records /\ row[r].fate = "kept"
    BY <1>1, <1>2, <1>3
  <2>2. Due(r) /\ (r \in local[h].batch \/ \E d \in local[h].todo : r \in InCategory(d))
    BY <1>3, <2>1 DEF Owing
  <2>3. StillOpen(r)
    BY <2>1, <2>2 DEF Due, Eligible, StillOpen
  <2> QED
    BY <1>3, <2>2, <2>3
<1>4. \A g \in Handlers : owed'[g] \subseteq owed[g] /\ owed'[g] \subseteq Records
  BY <1>1
<1>5. pc[h] \in Elsewhere \/ l.dry => owed'[h] = {}
  BY DEF Owing
<1> QED
  BY <1>2, <1>3, <1>4, <1>5, OwingGoto

(* The statements of runs.                                                  *)
LEMMA StatementOwing ==
  ASSUME Parameters, Typed, Inv, Owing, NEW h \in Handlers,
         Purge(h) \/ AnonymizeLead(h) \/ AnonymizeDocument(h) \/ AnonymizeParts(h)
  PROVE  Owing'
<1>1. local[h] \in Locals /\ row \in [Records -> RowTypes]
  BY DEF Typed, TypeOK, Inv, RowsFit
<1>2. /\ "find" \in Steps \ Elsewhere /\ "purge" \in Steps \ Elsewhere
      /\ "work" \in Steps \ Elsewhere /\ Tables \subseteq Steps \ Elsewhere
      /\ "intakes" \in Tables /\ "lead_conflict_checks" \in Tables
  BY DEF Steps, Tables, Elsewhere
<1>3. ASSUME NEW S
      PROVE  LET rest == [local[h] EXCEPT !.batch = @ \ S]
             IN  /\ rest \in Locals /\ rest.batch = local[h].batch \ S
                 /\ rest.todo = local[h].todo /\ rest.dry = local[h].dry
                 /\ rest.full = local[h].full
  BY <1>1 DEF Locals
<1>4. CASE Purge(h)
  <2> DEFINE S == IF local[h].batch \cap Audits # {} THEN local[h].batch \cap Audits
                  ELSE local[h].batch
             done == {r \in S : StillOpen(r)}
             l == [local[h] EXCEPT !.batch = @ \ S]
  <2>1. /\ Proceed(h, "purge", l) /\ row' = Purged(done)
        /\ UNCHANGED <<now, owed, missed>>
    BY <1>4 DEF Purge
  <2>2. S \subseteq local[h].batch /\ local[h].batch \subseteq Records
    BY <1>1 DEF Locals
  <2>3. \A r \in Records :
          \/ row'[r] = row[r]
          \/ \E fate \in {"anonymized", "deleted"} : row'[r] = [row[r] EXCEPT !.fate = fate]
    BY <2>1 DEF Purged
  <2>4. ASSUME NEW x \in RowTypes, NEW fate \in {"anonymized", "deleted"}
        PROVE  [x EXCEPT !.fate = fate] \in RowTypes /\ [x EXCEPT !.fate = fate].fate # "kept"
    BY DEF RowTypes, Fates
  <2>5. row' \in [Records -> RowTypes]
    BY <1>1, <2>1, <2>4 DEF Purged
  <2>6. \A r \in S : StillOpen(r) => row'[r].fate # "kept"
    <3> SUFFICES ASSUME NEW r \in S, StillOpen(r) PROVE row'[r].fate # "kept"
      OBVIOUS
    <3>1. r \in Records /\ r \in done /\ row[r] \in RowTypes
      BY <1>1, <2>2
    <3> HIDE DEF done
    <3> QED
      BY <2>1, <2>4, <3>1 DEF Purged
  <2>7. l \in Locals /\ l.batch = local[h].batch \ S /\ l.todo = local[h].todo
        /\ l.dry = local[h].dry /\ l.full = local[h].full
    BY <1>3
  <2> HIDE DEF l, S, done
  <2>8. PICK step \in {"find", "purge"} : Goto(h, step, l) /\ (step = "find" => l.batch = {})
    BY <2>1 DEF Proceed
  <2> QED
    BY <1>2, <2>1, <2>3, <2>5, <2>6, <2>7, <2>8, WorkOwing
<1>5. CASE AnonymizeLead(h) \/ AnonymizeDocument(h)
  <2>1. PICK r \in Records :
          LET rest == [local[h] EXCEPT !.batch = @ \ {r}] IN
          /\ Anonymize(r)
          /\ \/ Goto(h, "intakes", [rest EXCEPT !.target = r])
             \/ Proceed(h, "work", rest)
    BY <1>5 DEF AnonymizeLead, AnonymizeDocument, Records
  <2> DEFINE rest == [local[h] EXCEPT !.batch = @ \ {r}]
             next == [rest EXCEPT !.target = r]
  <2>2. /\ rest \in Locals /\ rest.batch = local[h].batch \ {r}
        /\ rest.todo = local[h].todo /\ rest.dry = local[h].dry /\ rest.full = local[h].full
    BY <1>3
  <2>3. /\ next \in Locals /\ next.batch = local[h].batch \ {r}
        /\ next.todo = local[h].todo /\ next.dry = local[h].dry /\ next.full = local[h].full
    BY <2>2 DEF Locals
  <2>4. UNCHANGED <<now, owed, missed>>
    BY <1>5 DEF AnonymizeLead, AnonymizeDocument
  <2>5. /\ row' \in [Records -> RowTypes]
        /\ \A q \in Records :
             \/ row'[q] = row[q]
             \/ \E fate \in {"anonymized", "deleted"} : row'[q] = [row[q] EXCEPT !.fate = fate]
    BY <1>1, <2>1, AnonymizeFits
  <2>6. \A q \in {r} : StillOpen(q) => row'[q].fate # "kept"
    BY <1>1, <2>1 DEF Anonymize, RowTypes
  <2> HIDE DEF rest, next
  <2>7. CASE Goto(h, "intakes", next)
    BY <1>2, <2>3, <2>4, <2>5, <2>6, <2>7, WorkOwing
  <2>8. CASE Proceed(h, "work", rest)
    <3>1. PICK step \in {"find", "work"} :
            Goto(h, step, rest) /\ (step = "find" => rest.batch = {})
      BY <2>8 DEF Proceed
    <3> DEFINE S == {r}
    <3>2. /\ step \in Steps \ Elsewhere /\ rest.batch = local[h].batch \ S
          /\ \A q \in S : StillOpen(q) => row'[q].fate # "kept"
      BY <1>2, <2>2, <2>6
    <3> HIDE DEF S
    <3> QED
      BY <2>2, <2>4, <2>5, <3>1, <3>2, WorkOwing
  <2> QED
    BY <2>1, <2>7, <2>8 DEF rest, next
<1>6. CASE AnonymizeParts(h)
  <2> DEFINE next == [local[h] EXCEPT !.target = None]
  <2>1. Goto(h, "lead_conflict_checks", local[h]) \/ Proceed(h, "work", next)
    BY <1>6 DEF AnonymizeParts, TablesAfter
  <2>2. UNCHANGED <<now, owed, missed, row>>
    BY <1>6 DEF AnonymizeParts, observers
  <2>3. /\ next \in Locals /\ next.batch = local[h].batch \ {}
        /\ next.todo = local[h].todo /\ next.dry = local[h].dry /\ next.full = local[h].full
    BY <1>1 DEF Locals
  <2>4. local[h].batch = local[h].batch \ {}
    OBVIOUS
  <2>5. \A r \in {} : StillOpen(r) => row'[r].fate # "kept"
    OBVIOUS
  <2> HIDE DEF next
  <2>6. CASE Goto(h, "lead_conflict_checks", local[h])
    <3> DEFINE step == "lead_conflict_checks"
               l == local[h]
               S == {}
    <3>1. /\ step \in Steps \ Elsewhere /\ step # "find" /\ Goto(h, step, l)
          /\ \A r \in S : StillOpen(r) => row'[r].fate # "kept"
      BY <1>2, <2>6
    <3>2. /\ l \in Locals /\ l.batch = local[h].batch \ S
          /\ l.todo = local[h].todo /\ l.dry = local[h].dry /\ l.full = local[h].full
      BY <1>1
    <3> HIDE DEF step, l, S
    <3> QED
      BY <1>1, <2>2, <3>1, <3>2, WorkOwing
  <2>7. CASE Proceed(h, "work", next)
    <3>1. PICK step \in {"find", "work"} :
            Goto(h, step, next) /\ (step = "find" => next.batch = {})
      BY <2>7 DEF Proceed
    <3> QED
      BY <1>1, <1>2, <2>2, <2>3, <2>5, <3>1, WorkOwing
  <2> QED
    BY <2>1, <2>6, <2>7
<1> QED
  BY <1>4, <1>5, <1>6

(* A failed row is not owed any more; a run that ends has worked the rest.  *)
LEMMA EndOwing ==
  ASSUME Parameters, Typed, Inv, Owing, NEW h \in Handlers,
         FailRow(h) \/ Complete(h) \/ Die(h)
  PROVE  Owing'
<1>1. /\ local[h] \in Locals /\ row \in [Records -> RowTypes] /\ RowsFit
      /\ owed \in [Handlers -> SUBSET Records]
  BY DEF Typed, TypeOK, Inv, RowsFit
<1>2. UNCHANGED <<now, row>>
  BY DEF FailRow, Complete, Die
<1>3. \A r \in Records : row'[r].fate = "kept" => row[r].fate = "kept" /\ (Due(r) => Due(r)')
  BY <1>1, <1>2, StillDue
<1>4. CASE FailRow(h)
  <2>1. PICK l, S :
          /\ l \in Locals
          /\ Proceed(h, "work", l) /\ l.batch = local[h].batch \ S
          /\ l.todo = local[h].todo /\ l.dry = local[h].dry /\ l.full = local[h].full
          /\ owed' = [owed EXCEPT ![h] = owed[h] \ S] /\ pc[h] \in {"work"} \cup Tables
    <3>1. ASSUME NEW r, Proceed(h, "work", [local[h] EXCEPT !.batch = @ \ {r}]),
                 owed' = [owed EXCEPT ![h] = @ \ {r}], pc[h] = "work"
          PROVE  \E l, S :
                   /\ l \in Locals
                   /\ Proceed(h, "work", l) /\ l.batch = local[h].batch \ S
                   /\ l.todo = local[h].todo /\ l.dry = local[h].dry /\ l.full = local[h].full
                   /\ owed' = [owed EXCEPT ![h] = owed[h] \ S] /\ pc[h] \in {"work"} \cup Tables
      <4> DEFINE l == [local[h] EXCEPT !.batch = @ \ {r}]
      <4>1. /\ l \in Locals /\ l.batch = local[h].batch \ {r}
            /\ l.todo = local[h].todo /\ l.dry = local[h].dry /\ l.full = local[h].full
        BY <1>1 DEF Locals
      <4>2. Proceed(h, "work", l) /\ owed' = [owed EXCEPT ![h] = owed[h] \ {r}]
        BY <3>1
      <4> HIDE DEF l
      <4> QED
        BY <3>1, <4>1, <4>2
    <3>2. ASSUME Proceed(h, "work", [local[h] EXCEPT !.target = None]), UNCHANGED owed,
                 pc[h] \in Tables
          PROVE  \E l, S :
                   /\ l \in Locals
                   /\ Proceed(h, "work", l) /\ l.batch = local[h].batch \ S
                   /\ l.todo = local[h].todo /\ l.dry = local[h].dry /\ l.full = local[h].full
                   /\ owed' = [owed EXCEPT ![h] = owed[h] \ S] /\ pc[h] \in {"work"} \cup Tables
      <4> DEFINE l == [local[h] EXCEPT !.target = None]
      <4>1. /\ l \in Locals /\ l.batch = local[h].batch \ {}
            /\ l.todo = local[h].todo /\ l.dry = local[h].dry /\ l.full = local[h].full
        BY <1>1 DEF Locals
      <4>2. Proceed(h, "work", l) /\ owed' = [owed EXCEPT ![h] = owed[h] \ {}]
        BY <1>1, <3>2
      <4> HIDE DEF l
      <4> QED
        BY <3>2, <4>1, <4>2
    <3> QED
      BY <1>4, <3>1, <3>2 DEF FailRow
  <2>2. PICK step \in {"find", "work"} : Goto(h, step, l) /\ (step = "find" => l.batch = {})
    BY <2>1 DEF Proceed
  <2>3. \A g \in Handlers : owed'[g] \subseteq owed[g] /\ owed'[g] \subseteq Records
    BY <1>1, <2>1
  <2>4. ASSUME ~l.full, NEW r \in owed'[h], row'[r].fate = "kept"
        PROVE  r \in l.batch \/ \E c \in l.todo : r \in InCategory(c)
    <3>1. r \in owed[h] /\ r \notin S /\ row[r].fate = "kept"
      BY <1>1, <1>2, <2>1, <2>4
    <3>2. r \in local[h].batch \/ \E c \in local[h].todo : r \in InCategory(c)
      BY <2>1, <2>4, <3>1 DEF Owing
    <3> QED
      BY <2>1, <3>1, <3>2
  <2>5. step \in Elsewhere \/ l.dry => owed'[h] = {}
    BY <2>1, <2>2, <2>3 DEF Owing, Elsewhere
  <2>6. missed' = missed
    BY <1>4 DEF FailRow
  <2> QED
    BY <1>3, <2>2, <2>3, <2>4, <2>5, <2>6, OwingGoto
<1>5. CASE Complete(h) \/ Die(h)
  <2>1. Goto(h, "idle", NoLocal) /\ owed' = [owed EXCEPT ![h] = {}]
    BY <1>5 DEF Complete, Die, Forget
  <2>2. missed' = missed
    <3>1. CASE Complete(h)
      <4>1. /\ pc[h] = "find" /\ local[h].todo = {}
            /\ missed' = IF local[h].full THEN missed
                         ELSE missed \cup {r \in owed[h] : row[r].fate = "kept"}
        BY <3>1 DEF Complete
      <4>2. local[h].batch = {}
        BY <4>1 DEF Owing
      <4>3. ~local[h].full => {r \in owed[h] : row[r].fate = "kept"} = {}
        BY <4>1, <4>2 DEF Owing
      <4> QED
        BY <4>1, <4>3
    <3>2. CASE Die(h)
      BY <3>2 DEF Die
    <3> QED
      BY <1>5, <3>1, <3>2
  <2>3. \A g \in Handlers : owed'[g] \subseteq owed[g] /\ owed'[g] \subseteq Records
    BY <1>1, <2>1
  <2>4. owed'[h] = {}
    BY <1>1, <2>1
  <2> QED
    BY <1>3, <2>1, <2>2, <2>3, <2>4, OwingGoto
<1> QED
  BY <1>4, <1>5

(* An administrator's request owes nothing.                                 *)
LEMMA AskOwing ==
  ASSUME Parameters, Typed, Inv, Owing, NEW h \in Handlers, NEW r \in Records, NEW s \in Settings,
         NEW date \in Dates \cup {None}, Ask(h, r, s, date)
  PROVE  Owing'
<1> DEFINE l == [NoLocal EXCEPT !.target = r, !.setting = s, !.date = date]
<1>1. /\ row \in [Records -> RowTypes] /\ RowsFit /\ owed \in [Handlers -> SUBSET Records]
  BY DEF Typed, TypeOK, Inv, RowsFit
<1>2. /\ Goto(h, "write", l) /\ owed' = [owed EXCEPT ![h] = {}]
      /\ UNCHANGED <<now, row, missed>>
  BY DEF Ask, Forget
<1>3. \A q \in Records : row'[q].fate = "kept" => row[q].fate = "kept" /\ (Due(q) => Due(q)')
  BY <1>1, <1>2, StillDue
<1>4. \A g \in Handlers : owed'[g] \subseteq owed[g] /\ owed'[g] \subseteq Records
  BY <1>1, <1>2
<1>5. owed'[h] = {}
  BY <1>1, <1>2
<1> HIDE DEF l
<1> QED
  BY <1>2, <1>3, <1>4, <1>5, OwingGoto

(* Neither does a request about a matter, before and after its check.       *)
LEMMA MatterOwing ==
  ASSUME Parameters, Typed, Inv, Owing, NEW h \in Handlers, Considers(h) \/ WriteCheck(h)
  PROVE  Owing'
<1>1. /\ row \in [Records -> RowTypes] /\ RowsFit /\ owed \in [Handlers -> SUBSET Records]
      /\ local[h] \in Locals
  BY DEF Typed, TypeOK, Inv, RowsFit
<1>2. UNCHANGED <<now, row, missed>>
  BY <1>1, ConsiderGoes, WriteCheckGoes
<1>3. \A q \in Records : row'[q].fate = "kept" => row[q].fate = "kept" /\ (Due(q) => Due(q)')
  BY <1>1, <1>2, StillDue
<1>4. /\ \E l \in Locals, step \in {"idle", "check", "move"} : Goto(h, step, l)
      /\ owed' = [owed EXCEPT ![h] = {}]
  <2>1. CASE Considers(h)
    BY <2>1, ConsiderGoes DEF Forget
  <2>2. CASE WriteCheck(h)
    <3>1. pc[h] = "check" /\ owed' = owed
      BY <1>1, <2>2, WriteCheckGoes
    <3>2. owed[h] = {}
      BY <3>1 DEF Owing, Elsewhere
    <3> QED
      BY <1>1, <2>2, <3>1, <3>2, WriteCheckGoes
  <2> QED
    BY <2>1, <2>2
<1>5. PICK l \in Locals, step \in {"idle", "check", "move"} : Goto(h, step, l)
  BY <1>4
<1>6. \A g \in Handlers : owed'[g] \subseteq owed[g] /\ owed'[g] \subseteq Records
  BY <1>1, <1>4
<1>7. owed'[h] = {}
  BY <1>1, <1>4
<1> QED
  BY <1>2, <1>3, <1>5, <1>6, <1>7, OwingGoto

(* A row that somebody else changes is not owed any more, and neither are   *)
(* the documents judged by it; the others stay due.                         *)
LEMMA TouchedDue ==
  ASSUME Parameters, Typed, Inv, Owing, NEW target, Touch(With(target)), now' = now,
         \A r \in Records : r # target => row'[r] = row[r]
  PROVE  \A g \in Handlers :
           /\ owed'[g] \subseteq owed[g]
           /\ \A r \in owed'[g] :
                row'[r].fate = "kept" => row[r].fate = "kept" /\ (Due(r) => Due(r)')
<1>1. owed \in [Handlers -> SUBSET Records] /\ RowsFit /\ now \in Nat
  BY DEF Typed, TypeOK, Inv, RowsFit
<1>2. \A g \in Handlers : owed'[g] = owed[g] \ With(target)
  BY DEF Touch
<1>3. ASSUME NEW g \in Handlers, NEW r \in owed'[g], row'[r].fate = "kept"
      PROVE  row[r].fate = "kept" /\ (Due(r) => Due(r)')
  <2>1. r \in Records /\ r \notin With(target)
    BY <1>1, <1>2
  <2>2. row'[r] = row[r]
    BY <2>1 DEF With
  <2>3. r \in Documents => LeadOf[r] \in Records /\ LeadOf[r] # target
    BY <2>1 DEF With, Parameters, Records
  <2>4. r \in Documents => row'[LeadOf[r]] = row[LeadOf[r]]
    BY <2>3
  <2>5. now' \in Nat /\ now <= now'
    BY <1>1
  <2> QED
    BY <1>1, <1>3, <2>1, <2>2, <2>4, <2>5, DueStays
<1> QED
  BY <1>2, <1>3

(* A step that leaves the handlers where they are.                          *)
LEMMA OwingElse ==
  ASSUME Owing, UNCHANGED <<pc, local, missed>>,
         \A g \in Handlers :
           /\ owed'[g] \subseteq owed[g]
           /\ \A r \in owed'[g] :
                row'[r].fate = "kept" => row[r].fate = "kept" /\ (Due(r) => Due(r)')
  PROVE  Owing'
<1>1. \A g \in Handlers : \A r \in owed'[g] : row'[r].fate = "kept" => Due(r)'
  BY DEF Owing
<1>2. ASSUME NEW g \in Handlers
      PROVE  /\ pc'[g] = "find" => local'[g].batch = {}
             /\ pc'[g] \in Elsewhere \/ local'[g].dry => owed'[g] = {}
             /\ ~local'[g].full =>
                  \A r \in owed'[g] : row'[r].fate = "kept" =>
                    r \in local'[g].batch \/ \E c \in local'[g].todo : r \in InCategory(c)
  BY DEF Owing
<1>3. missed' = {}
  BY DEF Owing
<1> QED
  BY <1>1, <1>2, <1>3 DEF Owing, InCategory

(* Administrators, matters and the clock.                                   *)
LEMMA ChangeOwing ==
  ASSUME Parameters, Typed, Inv, Owing,
         \/ \E h \in Handlers : Write(h) \/ Move(h)
         \/ \E l \in Leads : Hide(l)
         \/ Tick
  PROVE  Owing'
<1>1. /\ row \in [Records -> RowTypes] /\ RowsFit /\ now \in Nat
      /\ owed \in [Handlers -> SUBSET Records]
  BY DEF Typed, TypeOK, Inv, RowsFit
<1>2. ASSUME NEW h \in Handlers, Write(h) \/ Move(h) PROVE Owing'
  <2>1. /\ Goto(h, "idle", NoLocal) /\ pc[h] \in Elsewhere /\ Touch(With(local[h].target))
        /\ UNCHANGED <<now, missed>>
        /\ \A r \in Records : r # local[h].target => row'[r] = row[r]
    BY <1>1, <1>2 DEF Write, Overridden, Move, Moved, Elsewhere
  <2>2. \A g \in Handlers :
          /\ owed'[g] \subseteq owed[g]
          /\ \A r \in owed'[g] :
               row'[r].fate = "kept" => row[r].fate = "kept" /\ (Due(r) => Due(r)')
    BY <2>1, TouchedDue
  <2>3. owed'[h] = {}
    BY <2>1, <2>2 DEF Owing
  <2> QED
    BY <2>1, <2>2, <2>3, OwingGoto
<1>3. ASSUME NEW l \in Leads, Hide(l) PROVE Owing'
  <2>1. /\ Touch(With(l)) /\ UNCHANGED <<now, pc, local, missed>>
        /\ \A r \in Records : r # l => row'[r] = row[r]
    BY <1>1, <1>3 DEF Hide
  <2> QED
    BY <2>1, TouchedDue, OwingElse
<1>4. CASE Tick
  <2>1. now' = now + 1 /\ UNCHANGED <<row, pc, local, owed, missed>>
    BY <1>4 DEF Tick, observers
  <2>2. now' \in Nat /\ now <= now'
    BY <1>1, <2>1
  <2>3. \A r \in Records : Due(r) => Due(r)'
    BY <1>1, <2>1, <2>2, DueStays
  <2> QED
    BY <1>1, <2>1, <2>3, OwingElse
<1> QED
  BY <1>2, <1>3, <1>4

(* Every step keeps what runs owe ahead of them.                            *)
LEMMA OwingInv ==
  ASSUME Parameters, Typed, Inv, Owing, [Next]_vars
  PROVE  Owing'
<1>1. CASE UNCHANGED vars
  <2>1. UNCHANGED <<now, row, pc, local, owed, missed>>
    BY <1>1 DEF vars, observers
  <2>2. \A r : Due(r) => Due(r)'
    BY <2>1 DEF Due, Found, Eligible, FoundLead, FoundDocument, LeadEligible, DocumentEligible,
       ScheduleIsDue, PeriodIsOver
  <2> QED
    BY <2>1, <2>2, OwingElse
<1>2. CASE Next
  BY <1>2, StartRunOwing, FindOwing, StatementOwing, EndOwing, AskOwing, MatterOwing, ChangeOwing
  DEF Next, Considers
<1> QED
  BY <1>1, <1>2

(* What is in a batch, and still kept, is due, or has been changed since.   *)
THEOREM Invariance == ASSUME Parameters PROVE Spec => []Inv
<1>1. Init => Inv
  BY InitInv
<1>2. Inv /\ [Next]_vars => Inv'
  BY NextInv
<1> QED
  BY <1>1, <1>2, PTL DEF Spec

(* Every value of the retention is of its type.                             *)
THEOREM TypesFit == ASSUME Parameters PROVE Spec => []TypeOK
<1>1. Typed => TypeOK
  BY DEF Typed
<1> QED
  BY <1>1, TypedInvariance, PTL

(* A run that ends without an error and without a full batch has worked all *)
(* that was due; no row is reported twice; and, unless one of the three     *)
(* statements failed, no name of an anonymized lead is left but what a      *)
(* conflict check has written since (runRetentionJobs, anonymizeLeadById,   *)
(* conflict-check.service.js).                                              *)
THEOREM RunsRight == ASSUME Parameters PROVE Spec => []RunsAreRight
<1>1. Init => Counted /\ Whole /\ Owing
  <2> SUFFICES ASSUME Init PROVE Counted /\ Whole /\ Owing
    OBVIOUS
  <2>1. Counted
    BY DEF Init, Counted
  <2>2. Whole
    <3>1. \A r \in Records : row[r].fate = "kept"
      BY DEF Init, Fresh
    <3>2. \A h \in Handlers : pc[h] = "idle"
      BY DEF Init
    <3> QED
      BY <3>1, <3>2 DEF Whole, AnonymizedWholly, InOrder, Records
  <2>3. Owing
    BY DEF Init, Owing
  <2> QED
    BY <2>1, <2>2, <2>3
<1>2. Typed /\ Inv /\ (Counted /\ Whole /\ Owing) /\ [Next]_vars => (Counted /\ Whole /\ Owing)'
  BY CountedStays, WholeInv, OwingInv
<1>3. Typed /\ Counted /\ Whole /\ Owing => RunsAreRight
  BY DEF RunsAreRight, NothingIsMissed, CountedOnce, Counted, Whole, Owing
<1> QED
  BY <1>1, <1>2, <1>3, Invariance, TypedInvariance, PTL DEF Spec

(* Retention takes no row on hold, and none that is not due unless somebody *)
(* has changed it while the run was on its way (retention.service.js).      *)
THEOREM TakenWithCause == ASSUME Parameters PROVE Spec => TakenForCause
<1>1. Inv /\ [Next]_vars => TakesForCause
  <2> SUFFICES ASSUME Inv, [Next]_vars, NEW r \in Records, Taken(r)
               PROVE  /\ ~row[r].hold
                      /\ (Found(r) /\ Eligible(r)) \/ \E h \in Handlers : r \in touched[h]
    BY DEF TakesForCause
  <2>1. ~row[r].hold /\ \E h \in Handlers : r \in local[h].batch
    BY TakenFromBatch
  <2>2. row[r].fate = "kept" /\ RunsFit
    BY DEF Taken, Inv
  <2> QED
    BY <2>1, <2>2 DEF RunsFit, Due
<1> QED
  BY <1>1, Invariance, PTL DEF Spec, TakenForCause
=============================================================================

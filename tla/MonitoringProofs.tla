--------------------------- MODULE MonitoringProofs ---------------------------
(***************************************************************************)
(* Theorems about Monitoring.tla, for every set of rules, checks, admins   *)
(* and cooldowns, with overlapping checks and edits, failing saves and     *)
(* crashes.                                                                *)
(***************************************************************************)
EXTENDS Monitoring, TLAPS

-----------------------------------------------------------------------------
(* The inductive invariant. *)

\* Who can be at which stage, and that an agent at work holds an object.
HeldOK ==
  \A g \in Agents, r \in Rules :
    /\ stage[g][r] \in Held => entity[g][r].exists /\ r \in born
    /\ stage[g][r] \in {"query", "quiet", "triggered"} => g \in Checks
    /\ stage[g][r] = "remove" => g \in Admins
    /\ g \in Checks /\ stage[g][r] \in Held => g \in running

\* No copy of a rule, stored or held, carries a stamp later than its event.
StampsOK ==
  \A r \in Rules :
    /\ Exists(r) => rows[r].last >= quiet[r]
    /\ \A g \in Agents :
         /\ entity[g][r].exists => entity[g][r].last >= quiet[r]
         /\ loaded[g][r].exists => loaded[g][r].last >= quiet[r]

\* A recent stamp, a check that saves one and a result "triggered" all go
\* back to an event.
AlertedOK ==
  \A r \in Rules :
    /\ quiet[r] < Old => r \in alerted
    /\ \A c \in Checks :
         stage[c][r] \in {"load", "write", "triggered"} => r \in alerted
    /\ lastReport[r] = "triggered" => r \in alerted

\* A rule that exists was created; one that never was has had no event.
BornOK ==
  \A r \in Rules :
    /\ Exists(r) => r \in born
    /\ r \notin born => quiet[r] = Old

Stamping(r) == \E c \in Checks : stage[c][r] \in {"load", "write"}

\* What an undisturbed rule looks like: at most one agent holds it, what is
\* held is what is stored, and the stored stamp is the age of its last event
\* unless a check is about to save it.
UndisturbedRule(r) ==
  /\ Exists(r) /\ ~Stamping(r) => rows[r].last = quiet[r]
  /\ \A g \in Agents : stage[g][r] \in Held =>
       /\ Exists(r)
       /\ ~HeldByOther(g, r)
       /\ stage[g][r] = "query" => entity[g][r] = rows[r] /\ rows[r].active
       /\ stage[g][r] = "write" => loaded[g][r] = rows[r]
       /\ stage[g][r] \in {"load", "write"} =>
            entity[g][r].last = IF g \in Checks THEN quiet[r] ELSE rows[r].last

UndisturbedOK == \A r \in Rules \ disturbed : UndisturbedRule(r)

IInv == TypeOK /\ HeldOK /\ StampsOK /\ AlertedOK /\ BornOK /\ UndisturbedOK

-----------------------------------------------------------------------------
(* Type correctness. *)

USE RulesAssumption, AgentsAssumption, OldAssumption, FaultsAssumption

LEMMA OlderFacts ==
  ASSUME NEW a \in Ages
  PROVE  /\ Older(a) \in Ages
         /\ Older(a) < Old => a < Old
         /\ \A b \in Ages : a <= b => Older(a) <= Older(b)
BY DEF Older, Ages

LEMMA OlderRuleType ==
  ASSUME NEW x \in Rule \cup {NoRule}
  PROVE  /\ OlderRule(x) \in Rule \cup {NoRule}
         /\ OlderRule(x).exists = x.exists
         /\ x.exists => /\ OlderRule(x).last = Older(x.last)
                        /\ OlderRule(x).active = x.active
                        /\ x.last \in Ages
<1>1. CASE x = NoRule
  BY <1>1 DEF OlderRule, NoRule
<1>2. CASE x \in Rule
  <2>1. x.last \in Ages /\ x.exists
    BY <1>2 DEF Rule
  <2>2. Older(x.last) \in Ages
    BY <2>1, OlderFacts
  <2>3. QED
    BY <1>2, <2>1, <2>2 DEF OlderRule, Rule
<1>3. QED
  BY <1>1, <1>2

\* A stamp and an event age together.
LEMMA OlderStamp ==
  ASSUME NEW x \in Rule \cup {NoRule}, NEW b \in Ages,
         x.exists => x.last >= b,
         OlderRule(x).exists
  PROVE  OlderRule(x).last >= Older(b)
<1>1. x.exists /\ x.last \in Ages /\ OlderRule(x).last = Older(x.last)
  BY OlderRuleType
<1>2. b <= x.last
  BY <1>1 DEF Ages
<1>3. Older(b) <= Older(x.last) /\ Older(b) \in Ages /\ Older(x.last) \in Ages
  BY <1>1, <1>2, OlderFacts
<1>4. QED
  BY <1>1, <1>3 DEF Ages

\* What an UPDATE writes is a rule, and each column is one of the two.
LEMMA MergeType ==
  ASSUME NEW a \in Rule, NEW b \in Rule, NEW c \in Rule
  PROVE  Merge(a, b, c) \in Rule
BY DEF Merge, Rule

LEMMA ExistingIsRule ==
  ASSUME NEW x \in Rule \cup {NoRule}
  PROVE  /\ x.exists => x \in Rule
         /\ x \in Rule => x.exists
<1>1. ~NoRule.exists
  BY DEF NoRule
<1>2. x \in Rule => x.exists
  BY DEF Rule
<1>3. QED
  BY <1>1, <1>2

\* A stamp keeps a rule a rule.
LEMMA StampType ==
  ASSUME NEW x \in Rule, NEW a \in Ages
  PROVE  [x EXCEPT !.last = a] \in Rule
BY DEF Rule

LEMMA InitTypeOK == Init => TypeOK
<1> SUFFICES ASSUME Init PROVE TypeOK
  OBVIOUS
<1>1. Old \in Ages
  BY DEF Ages
<1>2. rows \in [Rules -> Rule \cup {NoRule}]
  BY <1>1 DEF Init, Rule
<1>3. QED
  BY <1>1, <1>2 DEF Init, TypeOK, Stages, Results, Readings

LEMMA NextTypeOK == TypeOK /\ HeldOK /\ [Next]_vars => TypeOK'
<1> SUFFICES ASSUME TypeOK, HeldOK, [Next]_vars
             PROVE  TypeOK'
  OBVIOUS
<1> USE DEF TypeOK
<1>1. ASSUME NEW c \in Checks, StartCheck(c) PROVE TypeOK'
  BY <1>1 DEF StartCheck, Stages, Exists
<1>2. ASSUME NEW c \in Checks, FinishCheck(c) PROVE TypeOK'
  <2>1. c \in Agents
    BY DEF Agents
  <2>2. \A r \in Rules : stage[c][r] \in {"none", "quiet", "triggered"}
    BY <1>2, <2>1 DEF FinishCheck, Stages, Held
  <2>3. lastReport' \in [Rules -> Results]
    BY <1>2, <2>2 DEF FinishCheck, Results
  <2>4. QED
    BY <1>2, <2>3 DEF FinishCheck, saves, hist, Stages
<1>3. ASSUME NEW c \in Checks, NEW r \in Rules, Evaluate(c, r) PROVE TypeOK'
  <2>0. c \in Agents
    BY DEF Agents
  <2>1. CASE EvaluateQuiet(c, r)
    BY <2>0, <2>1 DEF EvaluateQuiet, hist, Stages
  <2>2. CASE SkipCooldown(c, r)
    BY <2>0, <2>2 DEF SkipCooldown, hist, Stages
  <2>3. CASE Fire(c, r)
    <3>1. entity[c][r] \in Rule
      BY <2>0, <2>3, ExistingIsRule DEF Fire, HeldOK, Held
    <3>2. [entity[c][r] EXCEPT !.last = 0] \in Rule
      <4>1. 0 \in Ages
        BY DEF Ages
      <4>2. QED
        BY <3>1, <4>1, StampType
    <3>3. entity' = [entity EXCEPT ![c][r] = [entity[c][r] EXCEPT !.last = 0]]
      BY <2>3 DEF Fire
    <3>4. entity' \in [Agents -> [Rules -> Rule \cup {NoRule}]]
      BY <2>0, <3>2, <3>3
    <3>5. quiet' \in [Rules -> Ages]
      BY <2>3 DEF Fire, Ages
    <3>6. QED
      BY <2>0, <2>3, <3>4, <3>5 DEF Fire, Stages
  <2>4. QED
    BY <1>3, <2>1, <2>2, <2>3 DEF Evaluate
<1>4. ASSUME NEW g \in Agents, NEW r \in Rules, Save(g, r) PROVE TypeOK'
  <2>1. CASE LoadForSave(g, r)
    BY <2>1 DEF LoadForSave, hist, Stages
  <2>2. CASE InsertRow(g, r)
    BY <2>2 DEF InsertRow, Release, Ended, hist, Stages
  <2>3. CASE UpdateRow(g, r)
    <3>1. entity[g][r] \in Rule
      BY <2>3, ExistingIsRule DEF UpdateRow, HeldOK, Held
    <3>2. loaded[g][r] \in Rule
      BY <2>3, ExistingIsRule DEF UpdateRow
    <3>3. Exists(r) => Merge(entity[g][r], loaded[g][r], rows[r]) \in Rule
      BY <3>1, <3>2, MergeType, ExistingIsRule DEF Exists
    <3>4. rows' \in [Rules -> Rule \cup {NoRule}]
      BY <2>3, <3>3 DEF UpdateRow
    <3>5. QED
      BY <2>3, <3>4 DEF UpdateRow, Release, Ended, hist, Stages
  <2>4. QED
    BY <1>4, <2>1, <2>2, <2>3 DEF Save
<1>5. ASSUME NEW g \in Agents, NEW r \in Rules, FailSave(g, r) PROVE TypeOK'
  BY <1>5 DEF FailSave, Release, Ended, Stages
<1>6. ASSUME NEW r \in Rules, CreateRule(r) PROVE TypeOK'
  <2>1. \A cd \in Cooldowns :
          [exists |-> TRUE, active |-> TRUE, cooldown |-> cd, last |-> Old] \in Rule
    BY DEF Rule, Ages
  <2>2. QED
    BY <1>6, <2>1 DEF CreateRule, saves
<1>7. ASSUME NEW r \in Rules, ReadingChanges(r) PROVE TypeOK'
  BY <1>7 DEF ReadingChanges, saves, hist
<1>8. ASSUME NEW a \in Admins, NEW r \in Rules, UpdateRule(a, r) PROVE TypeOK'
  <2>1. PICK on \in BOOLEAN, cd \in Cooldowns :
          Find(a, r, "load", [rows[r] EXCEPT !.active = on, !.cooldown = cd])
    BY <1>8 DEF UpdateRule
  <2>2. rows[r] \in Rule
    BY <2>1, ExistingIsRule DEF Find, Exists
  <2>3. [rows[r] EXCEPT !.active = on, !.cooldown = cd] \in Rule
    BY <2>2 DEF Rule
  <2>4. QED
    BY <2>1, <2>3 DEF Find, Stages
<1>9. ASSUME NEW a \in Admins, NEW r \in Rules, DeleteRule(a, r) PROVE TypeOK'
  BY <1>9 DEF DeleteRule, Find, Stages
<1>10. ASSUME NEW a \in Admins, NEW r \in Rules, RemoveRow(a, r) PROVE TypeOK'
  BY <1>10 DEF RemoveRow, hist, Stages
<1>11. CASE Crash
  BY <1>11 DEF Crash, Stages, Results
<1>12. CASE Tick
  BY <1>12, OlderRuleType, OlderFacts DEF Tick
<1>13. CASE UNCHANGED vars
  BY <1>13 DEF vars
<1>14. QED
  BY <1>1, <1>2, <1>3, <1>4, <1>5, <1>6, <1>7, <1>8, <1>9, <1>10, <1>11, <1>12,
     <1>13 DEF Next

-----------------------------------------------------------------------------
(* Each part of the invariant is kept by every step. *)

LEMMA NextHeldOK == TypeOK /\ HeldOK /\ BornOK /\ [Next]_vars => HeldOK'
<1> SUFFICES ASSUME TypeOK, HeldOK, BornOK, [Next]_vars
             PROVE  HeldOK'
  OBVIOUS
<1> USE DEF TypeOK, HeldOK, Held, Agents
<1>1. ASSUME NEW c \in Checks, StartCheck(c) PROVE HeldOK'
  BY <1>1 DEF StartCheck, Exists, BornOK
<1>2. ASSUME NEW c \in Checks, FinishCheck(c) PROVE HeldOK'
  BY <1>2 DEF FinishCheck, saves, hist
<1>3. ASSUME NEW c \in Checks, NEW r \in Rules, Evaluate(c, r) PROVE HeldOK'
  <2>1. CASE EvaluateQuiet(c, r)
    BY <2>1 DEF EvaluateQuiet, hist
  <2>2. CASE SkipCooldown(c, r)
    BY <2>2 DEF SkipCooldown, hist
  <2>3. CASE Fire(c, r)
    <3>1. entity[c][r] \in Rule
      BY <2>3, ExistingIsRule DEF Fire
    <3>2. [entity[c][r] EXCEPT !.last = 0].exists
      BY <3>1 DEF Rule
    <3>3. QED
      BY <2>3, <3>2 DEF Fire
  <2>4. QED
    BY <1>3, <2>1, <2>2, <2>3 DEF Evaluate
<1>4. ASSUME NEW g \in Agents, NEW r \in Rules, Save(g, r) PROVE HeldOK'
  <2>1. CASE LoadForSave(g, r)
    BY <2>1 DEF LoadForSave, hist
  <2>2. CASE InsertRow(g, r)
    BY <2>2 DEF InsertRow, Release, Ended, hist
  <2>3. CASE UpdateRow(g, r)
    BY <2>3 DEF UpdateRow, Release, Ended, hist
  <2>4. QED
    BY <1>4, <2>1, <2>2, <2>3 DEF Save
<1>5. ASSUME NEW g \in Agents, NEW r \in Rules, FailSave(g, r) PROVE HeldOK'
  BY <1>5 DEF FailSave, Release, Ended
<1>6. ASSUME NEW r \in Rules, CreateRule(r) PROVE HeldOK'
  BY <1>6 DEF CreateRule, saves
<1>7. ASSUME NEW r \in Rules, ReadingChanges(r) PROVE HeldOK'
  BY <1>7 DEF ReadingChanges, saves, hist
<1>8. ASSUME NEW a \in Admins, NEW r \in Rules, UpdateRule(a, r) PROVE HeldOK'
  <2>1. PICK on \in BOOLEAN, cd \in Cooldowns :
          Find(a, r, "load", [rows[r] EXCEPT !.active = on, !.cooldown = cd])
    BY <1>8 DEF UpdateRule
  <2>2. rows[r] \in Rule
    BY <2>1, ExistingIsRule DEF Find, Exists
  <2>3. [rows[r] EXCEPT !.active = on, !.cooldown = cd].exists
    BY <2>2 DEF Rule
  <2>4. QED
    BY <2>1, <2>3 DEF Find, BornOK
<1>9. ASSUME NEW a \in Admins, NEW r \in Rules, DeleteRule(a, r) PROVE HeldOK'
  BY <1>9 DEF DeleteRule, Find, Exists, BornOK
<1>10. ASSUME NEW a \in Admins, NEW r \in Rules, RemoveRow(a, r) PROVE HeldOK'
  BY <1>10 DEF RemoveRow, hist
<1>11. CASE Crash
  BY <1>11 DEF Crash
<1>12. CASE Tick
  BY <1>12, OlderRuleType DEF Tick
<1>13. CASE UNCHANGED vars
  BY <1>13 DEF vars
<1>14. QED
  BY <1>1, <1>2, <1>3, <1>4, <1>5, <1>6, <1>7, <1>8, <1>9, <1>10, <1>11, <1>12,
     <1>13 DEF Next

\* Reading a rule and changing only what an admin may change.
LEMMA FindStamps ==
  ASSUME TypeOK, StampsOK, NEW a \in Admins, NEW r \in Rules, NEW next, NEW found,
         found.last = rows[r].last, Find(a, r, next, found)
  PROVE  StampsOK'
BY DEF TypeOK, StampsOK, Find, Exists, Agents

LEMMA NextStampsOK == TypeOK /\ HeldOK /\ BornOK /\ StampsOK /\ [Next]_vars => StampsOK'
<1> SUFFICES ASSUME TypeOK, HeldOK, BornOK, StampsOK, [Next]_vars
             PROVE  StampsOK'
  OBVIOUS
<1>0. ~NoRule.exists
  BY DEF NoRule
<1> USE <1>0 DEF TypeOK, StampsOK, Exists
<1>1. ASSUME NEW c \in Checks, StartCheck(c) PROVE StampsOK'
  BY <1>1 DEF StartCheck
<1>2. ASSUME NEW c \in Checks, FinishCheck(c) PROVE StampsOK'
  BY <1>2 DEF FinishCheck, saves, hist
<1>3. ASSUME NEW c \in Checks, NEW r \in Rules, Evaluate(c, r) PROVE StampsOK'
  <2>0. c \in Agents
    BY DEF Agents
  <2>1. CASE EvaluateQuiet(c, r)
    BY <2>1 DEF EvaluateQuiet, hist
  <2>2. CASE SkipCooldown(c, r)
    BY <2>2 DEF SkipCooldown, hist
  <2>3. CASE Fire(c, r)
    <3>1. entity[c][r] \in Rule
      BY <2>0, <2>3, ExistingIsRule DEF Fire, HeldOK, Held
    <3>2. [entity[c][r] EXCEPT !.last = 0].last = 0
      BY <3>1 DEF Rule
    <3>3. \A x \in Rule \cup {NoRule} : x.exists => x.last >= 0
      <4>1. \A x \in Rule : x.last \in Ages
        BY DEF Rule
      <4>2. QED
        BY <4>1, ExistingIsRule DEF Ages
    <3>4. QED
      BY <2>0, <2>3, <3>2, <3>3 DEF Fire
  <2>4. QED
    BY <1>3, <2>1, <2>2, <2>3 DEF Evaluate
<1>4. ASSUME NEW g \in Agents, NEW r \in Rules, Save(g, r) PROVE StampsOK'
  <2>1. CASE LoadForSave(g, r)
    BY <2>1 DEF LoadForSave, hist
  <2>2. CASE InsertRow(g, r)
    BY <2>2 DEF InsertRow, Release, hist
  <2>3. CASE UpdateRow(g, r)
    <3>1. entity[g][r].exists
      BY <2>3 DEF UpdateRow, HeldOK, Held
    <3>2. Exists(r) => Merge(entity[g][r], loaded[g][r], rows[r]).last >= quiet[r]
      BY <3>1 DEF Merge
    <3>3. QED
      BY <2>3, <3>2 DEF UpdateRow, Release, hist
  <2>4. QED
    BY <1>4, <2>1, <2>2, <2>3 DEF Save
<1>5. ASSUME NEW g \in Agents, NEW r \in Rules, FailSave(g, r) PROVE StampsOK'
  BY <1>5 DEF FailSave, Release
<1>6. ASSUME NEW r \in Rules, CreateRule(r) PROVE StampsOK'
  <2>1. quiet[r] <= Old
    BY DEF Ages
  <2>2. QED
    BY <1>6, <2>1 DEF CreateRule, saves
<1>7. ASSUME NEW r \in Rules, ReadingChanges(r) PROVE StampsOK'
  BY <1>7 DEF ReadingChanges, saves, hist
<1>8. ASSUME NEW a \in Admins, NEW r \in Rules, UpdateRule(a, r) PROVE StampsOK'
  <2>1. PICK on \in BOOLEAN, cd \in Cooldowns :
          Find(a, r, "load", [rows[r] EXCEPT !.active = on, !.cooldown = cd])
    BY <1>8 DEF UpdateRule
  <2>2. rows[r] \in Rule
    BY <2>1, ExistingIsRule DEF Find
  <2>3. [rows[r] EXCEPT !.active = on, !.cooldown = cd].last = rows[r].last
    BY <2>2 DEF Rule
  <2>4. QED
    BY <2>1, <2>3, FindStamps
<1>9. ASSUME NEW a \in Admins, NEW r \in Rules, DeleteRule(a, r) PROVE StampsOK'
  BY <1>9, FindStamps DEF DeleteRule
<1>10. ASSUME NEW a \in Admins, NEW r \in Rules, RemoveRow(a, r) PROVE StampsOK'
  BY <1>10 DEF RemoveRow, hist
<1>11. CASE Crash
  BY <1>11 DEF Crash
<1>12. CASE Tick
  <2>1. ASSUME NEW r \in Rules, Exists(r)' PROVE rows'[r].last >= quiet'[r]
    <3>1. rows'[r] = OlderRule(rows[r]) /\ quiet'[r] = Older(quiet[r])
      BY <1>12 DEF Tick
    <3>2. rows[r] \in Rule \cup {NoRule} /\ quiet[r] \in Ages
      OBVIOUS
    <3>3. QED
      BY <2>1, <3>1, <3>2, OlderStamp
  <2>2. ASSUME NEW r \in Rules, NEW g \in Agents, entity'[g][r].exists
        PROVE  entity'[g][r].last >= quiet'[r]
    <3>1. entity'[g][r] = OlderRule(entity[g][r]) /\ quiet'[r] = Older(quiet[r])
      BY <1>12 DEF Tick
    <3>2. entity[g][r] \in Rule \cup {NoRule} /\ quiet[r] \in Ages
      OBVIOUS
    <3>3. QED
      BY <2>2, <3>1, <3>2, OlderStamp
  <2>3. ASSUME NEW r \in Rules, NEW g \in Agents, loaded'[g][r].exists
        PROVE  loaded'[g][r].last >= quiet'[r]
    <3>1. loaded'[g][r] = OlderRule(loaded[g][r]) /\ quiet'[r] = Older(quiet[r])
      BY <1>12 DEF Tick
    <3>2. loaded[g][r] \in Rule \cup {NoRule} /\ quiet[r] \in Ages
      OBVIOUS
    <3>3. QED
      BY <2>3, <3>1, <3>2, OlderStamp
  <2>4. QED
    BY <2>1, <2>2, <2>3
<1>13. CASE UNCHANGED vars
  BY <1>13 DEF vars
<1>14. QED
  BY <1>1, <1>2, <1>3, <1>4, <1>5, <1>6, <1>7, <1>8, <1>9, <1>10, <1>11, <1>12,
     <1>13 DEF Next

LEMMA NextAlertedOK ==
  TypeOK /\ HeldOK /\ StampsOK /\ AlertedOK /\ [Next]_vars => AlertedOK'
<1> SUFFICES ASSUME TypeOK, HeldOK, StampsOK, AlertedOK, [Next]_vars
             PROVE  AlertedOK'
  OBVIOUS
<1> USE DEF TypeOK, AlertedOK, Agents
<1>1. ASSUME NEW c \in Checks, StartCheck(c) PROVE AlertedOK'
  BY <1>1 DEF StartCheck
<1>2. ASSUME NEW c \in Checks, FinishCheck(c) PROVE AlertedOK'
  BY <1>2 DEF FinishCheck, saves, hist
<1>3. ASSUME NEW c \in Checks, NEW r \in Rules, Evaluate(c, r) PROVE AlertedOK'
  <2>1. CASE EvaluateQuiet(c, r)
    BY <2>1 DEF EvaluateQuiet, hist
  <2>2. CASE SkipCooldown(c, r)
    <3>1. entity[c][r] \in Rule /\ entity[c][r].exists
      BY <2>2, ExistingIsRule DEF SkipCooldown, HeldOK, Held
    <3>2. entity[c][r].last \in Ages /\ entity[c][r].cooldown \in 1..(Old - 1)
      BY <3>1 DEF Rule
    <3>3. entity[c][r].last < Old
      BY <2>2, <3>2 DEF SkipCooldown, CooldownExpired, Ages
    <3>4. entity[c][r].last >= quiet[r] /\ quiet[r] \in Ages
      BY <3>1 DEF StampsOK
    <3>5. r \in alerted
      BY <3>2, <3>3, <3>4 DEF Ages
    <3>6. QED
      BY <2>2, <3>5 DEF SkipCooldown, hist
  <2>3. CASE Fire(c, r)
    BY <2>3 DEF Fire
  <2>4. QED
    BY <1>3, <2>1, <2>2, <2>3 DEF Evaluate
<1>4. ASSUME NEW g \in Agents, NEW r \in Rules, Save(g, r) PROVE AlertedOK'
  <2>1. CASE LoadForSave(g, r)
    BY <2>1 DEF LoadForSave, hist
  <2>2. CASE InsertRow(g, r)
    BY <2>2 DEF InsertRow, Release, Ended, hist
  <2>3. CASE UpdateRow(g, r)
    BY <2>3 DEF UpdateRow, Release, Ended, hist
  <2>4. QED
    BY <1>4, <2>1, <2>2, <2>3 DEF Save
<1>5. ASSUME NEW g \in Agents, NEW r \in Rules, FailSave(g, r) PROVE AlertedOK'
  BY <1>5 DEF FailSave, Release, Ended
<1>6. ASSUME NEW r \in Rules, CreateRule(r) PROVE AlertedOK'
  BY <1>6 DEF CreateRule, saves
<1>7. ASSUME NEW r \in Rules, ReadingChanges(r) PROVE AlertedOK'
  BY <1>7 DEF ReadingChanges, saves, hist
<1>8. ASSUME NEW a \in Admins, NEW r \in Rules, UpdateRule(a, r) PROVE AlertedOK'
  BY <1>8 DEF UpdateRule, Find
<1>9. ASSUME NEW a \in Admins, NEW r \in Rules, DeleteRule(a, r) PROVE AlertedOK'
  BY <1>9 DEF DeleteRule, Find
<1>10. ASSUME NEW a \in Admins, NEW r \in Rules, RemoveRow(a, r) PROVE AlertedOK'
  BY <1>10 DEF RemoveRow, hist
<1>11. CASE Crash
  BY <1>11 DEF Crash
<1>12. CASE Tick
  BY <1>12, OlderFacts DEF Tick
<1>13. CASE UNCHANGED vars
  BY <1>13 DEF vars
<1>14. QED
  BY <1>1, <1>2, <1>3, <1>4, <1>5, <1>6, <1>7, <1>8, <1>9, <1>10, <1>11, <1>12,
     <1>13 DEF Next

LEMMA NextBornOK == TypeOK /\ HeldOK /\ BornOK /\ [Next]_vars => BornOK'
<1> SUFFICES ASSUME TypeOK, HeldOK, BornOK, [Next]_vars
             PROVE  BornOK'
  OBVIOUS
<1>0. ~NoRule.exists
  BY DEF NoRule
<1> USE <1>0 DEF TypeOK, BornOK, Exists
<1>1. ASSUME NEW c \in Checks, StartCheck(c) PROVE BornOK'
  BY <1>1 DEF StartCheck
<1>2. ASSUME NEW c \in Checks, FinishCheck(c) PROVE BornOK'
  BY <1>2 DEF FinishCheck, saves, hist
<1>3. ASSUME NEW c \in Checks, NEW r \in Rules, Evaluate(c, r) PROVE BornOK'
  <2>1. CASE EvaluateQuiet(c, r)
    BY <2>1 DEF EvaluateQuiet, hist
  <2>2. CASE SkipCooldown(c, r)
    BY <2>2 DEF SkipCooldown, hist
  <2>3. CASE Fire(c, r)
    <3>1. r \in born
      BY <2>3 DEF Fire, HeldOK, Held, Agents
    <3>2. QED
      BY <2>3, <3>1 DEF Fire
  <2>4. QED
    BY <1>3, <2>1, <2>2, <2>3 DEF Evaluate
<1>4. ASSUME NEW g \in Agents, NEW r \in Rules, Save(g, r) PROVE BornOK'
  <2>1. CASE LoadForSave(g, r)
    BY <2>1 DEF LoadForSave, hist
  <2>2. CASE InsertRow(g, r)
    <3>1. r \in born
      BY <2>2 DEF InsertRow, HeldOK, Held
    <3>2. QED
      BY <2>2, <3>1 DEF InsertRow, hist
  <2>3. CASE UpdateRow(g, r)
    <3>1. r \in born
      BY <2>3 DEF UpdateRow, HeldOK, Held
    <3>2. QED
      BY <2>3, <3>1 DEF UpdateRow, hist
  <2>4. QED
    BY <1>4, <2>1, <2>2, <2>3 DEF Save
<1>5. ASSUME NEW g \in Agents, NEW r \in Rules, FailSave(g, r) PROVE BornOK'
  BY <1>5 DEF FailSave
<1>6. ASSUME NEW r \in Rules, CreateRule(r) PROVE BornOK'
  BY <1>6 DEF CreateRule, saves
<1>7. ASSUME NEW r \in Rules, ReadingChanges(r) PROVE BornOK'
  BY <1>7 DEF ReadingChanges, saves, hist
<1>8. ASSUME NEW a \in Admins, NEW r \in Rules, UpdateRule(a, r) PROVE BornOK'
  BY <1>8 DEF UpdateRule, Find
<1>9. ASSUME NEW a \in Admins, NEW r \in Rules, DeleteRule(a, r) PROVE BornOK'
  BY <1>9 DEF DeleteRule, Find
<1>10. ASSUME NEW a \in Admins, NEW r \in Rules, RemoveRow(a, r) PROVE BornOK'
  BY <1>10 DEF RemoveRow, hist
<1>11. CASE Crash
  BY <1>11 DEF Crash
<1>12. CASE Tick
  <2>1. \A r \in Rules : rows'[r].exists = rows[r].exists
    BY <1>12, OlderRuleType DEF Tick
  <2>2. Older(Old) = Old
    BY DEF Older
  <2>3. QED
    BY <1>12, <2>1, <2>2 DEF Tick
<1>13. CASE UNCHANGED vars
  BY <1>13 DEF vars
<1>14. QED
  BY <1>1, <1>2, <1>3, <1>4, <1>5, <1>6, <1>7, <1>8, <1>9, <1>10, <1>11, <1>12,
     <1>13 DEF Next

\* An action that touches one rule keeps the others as they are.
LEMMA OthersUndisturbed ==
  ASSUME UndisturbedOK, NEW q \in Rules, q \notin disturbed',
         disturbed \subseteq disturbed', rows'[q] = rows[q], quiet'[q] = quiet[q],
         \A g \in Agents : /\ stage'[g][q] = stage[g][q]
                           /\ entity'[g][q] = entity[g][q]
                           /\ loaded'[g][q] = loaded[g][q]
  PROVE  UndisturbedRule(q)'
BY DEF UndisturbedOK, UndisturbedRule, Stamping, HeldByOther, Exists, Agents

\* An admin who reads a rule that nobody holds.
LEMMA FindUndisturbed ==
  ASSUME TypeOK, UndisturbedOK, NEW a \in Admins, NEW r \in Rules,
         NEW next \in {"load", "remove"}, NEW found, found.last = rows[r].last,
         Find(a, r, next, found), NEW q \in Rules, q \notin disturbed'
  PROVE  UndisturbedRule(q)'
<1>0. a \in Agents /\ a \notin Checks
  BY DEF Agents
<1>1. CASE q # r
  BY <1>0, <1>1, OthersUndisturbed DEF Find, TypeOK
<1>2. CASE q = r
  <2>1. Exists(r) /\ q \notin disturbed /\ stage[a][r] = "none"
    BY <1>2 DEF Find
  <2>2. \A g \in Agents : g # a => stage[g][r] \notin Held
    BY <1>2 DEF Find, HeldByOther
  <2>3. rows[r].last = quiet[r]
    <3>1. ~Stamping(r)
      BY <1>0, <2>2 DEF Stamping, Held, Agents
    <3>2. QED
      BY <1>2, <2>1, <3>1 DEF UndisturbedOK, UndisturbedRule
  <2>4. /\ stage'[a][r] = next /\ entity'[a][r] = found
        /\ \A g \in Agents : g # a => stage'[g][r] = stage[g][r]
        /\ rows' = rows /\ quiet' = quiet
    BY <1>0 DEF Find, TypeOK
  <2>5. QED
    BY <1>0, <1>2, <2>1, <2>2, <2>3, <2>4
    DEF UndisturbedRule, HeldByOther, Exists, Held
<1>3. QED
  BY <1>1, <1>2

LEMMA NextUndisturbedOK ==
  TypeOK /\ HeldOK /\ BornOK /\ UndisturbedOK /\ [Next]_vars => UndisturbedOK'
<1> SUFFICES ASSUME TypeOK, HeldOK, BornOK, UndisturbedOK, [Next]_vars,
                    NEW q \in Rules, q \notin disturbed'
             PROVE  UndisturbedRule(q)'
  BY DEF UndisturbedOK
<1>0. ~NoRule.exists
  BY DEF NoRule
<1> USE <1>0 DEF TypeOK
<1>1. ASSUME NEW c \in Checks, StartCheck(c) PROVE UndisturbedRule(q)'
  <2>0. c \in Agents /\ stage[c][q] \notin Held /\ q \notin disturbed
    BY <1>1 DEF StartCheck, HeldOK, Agents
  <2>1. CASE Exists(q) /\ rows[q].active
    <3>1. \A g \in Agents : g # c => stage[g][q] \notin Held
      BY <1>1, <2>1 DEF StartCheck, HeldByOther
    <3>2. ~Stamping(q)
      BY <2>0, <3>1 DEF Stamping, Held, Agents
    <3>3. rows[q].last = quiet[q]
      BY <2>0, <2>1, <3>2 DEF UndisturbedOK, UndisturbedRule
    <3>4. stage'[c][q] = "query" /\ entity'[c][q] = rows[q]
      BY <1>1, <2>0, <2>1 DEF StartCheck
    <3>5. \A g \in Agents : g # c => stage'[g][q] \notin Held
      BY <1>1, <3>1 DEF StartCheck
    <3>6. rows' = rows /\ quiet' = quiet
      BY <1>1 DEF StartCheck
    <3>7. QED
      BY <2>1, <3>3, <3>4, <3>5, <3>6 DEF UndisturbedRule, HeldByOther, Exists, Held
  <2>2. CASE ~(Exists(q) /\ rows[q].active)
    <3>1. stage'[c][q] = "none"
      BY <1>1, <2>0, <2>2 DEF StartCheck
    <3>2. \A g \in Agents : g # c => /\ stage'[g][q] = stage[g][q]
                                     /\ entity'[g][q] = entity[g][q]
                                     /\ loaded'[g][q] = loaded[g][q]
      BY <1>1 DEF StartCheck
    <3>3. rows' = rows /\ quiet' = quiet
      BY <1>1 DEF StartCheck
    <3>4. UndisturbedRule(q)
      BY <2>0 DEF UndisturbedOK
    <3>5. Exists(q)' => Exists(q)
      BY <3>3 DEF Exists
    <3>6. ~Stamping(q)' => ~Stamping(q)
      BY <2>0, <3>2 DEF Stamping, Held, Agents
    <3>7. \A g \in Agents : HeldByOther(g, q)' => HeldByOther(g, q)
      BY <3>1, <3>2 DEF HeldByOther, Held
    <3>8. ASSUME NEW g \in Agents, stage'[g][q] \in Held
          PROVE  /\ g # c
                 /\ stage[g][q] \in Held
      BY <3>1, <3>2, <3>8 DEF Held
    <3>9. QED
      BY <3>2, <3>3, <3>4, <3>5, <3>6, <3>7, <3>8 DEF UndisturbedRule, Exists
  <2>3. QED
    BY <2>1, <2>2
<1>2. ASSUME NEW c \in Checks, FinishCheck(c) PROVE UndisturbedRule(q)'
  <2>1. stage[c][q] \notin Held /\ stage'[c][q] = "none" /\ c \in Agents
    BY <1>2 DEF FinishCheck, Agents
  <2>2. \A g \in Agents : g # c => stage'[g][q] = stage[g][q]
    BY <1>2 DEF FinishCheck
  <2>3. UndisturbedRule(q) /\ UNCHANGED <<rows, entity, loaded, quiet>>
    BY <1>2 DEF FinishCheck, saves, hist, UndisturbedOK
  <2>4. ~Stamping(q)' => ~Stamping(q)
    BY <2>1, <2>2 DEF Stamping, Held, Agents
  <2>5. QED
    BY <2>1, <2>2, <2>3, <2>4 DEF UndisturbedRule, HeldByOther, Exists, Held
<1>3. ASSUME NEW c \in Checks, NEW r \in Rules, Evaluate(c, r)
      PROVE  UndisturbedRule(q)'
  <2>0. c \in Agents /\ stage[c][r] = "query" /\ disturbed' = disturbed
    BY <1>3 DEF Evaluate, EvaluateQuiet, SkipCooldown, Fire, hist, Agents
  <2>1. CASE q # r
    <3>1. CASE EvaluateQuiet(c, r)
      BY <2>0, <2>1, <3>1, OthersUndisturbed DEF EvaluateQuiet, hist
    <3>2. CASE SkipCooldown(c, r)
      BY <2>0, <2>1, <3>2, OthersUndisturbed DEF SkipCooldown, hist
    <3>3. CASE Fire(c, r)
      BY <2>0, <2>1, <3>3, OthersUndisturbed DEF Fire
    <3>4. QED
      BY <1>3, <3>1, <3>2, <3>3 DEF Evaluate
  <2>2. CASE q = r
    <3>1. /\ UndisturbedRule(r)
          /\ \A g \in Agents : g # c => stage[g][r] \notin Held
      BY <2>0, <2>2 DEF UndisturbedOK, UndisturbedRule, HeldByOther, Held
    <3>2. \A g \in Agents : g # c => stage'[g][r] = stage[g][r]
      BY <1>3, <2>0 DEF Evaluate, EvaluateQuiet, SkipCooldown, Fire
    <3>3. rows' = rows
      BY <1>3 DEF Evaluate, EvaluateQuiet, SkipCooldown, Fire
    <3>4. CASE EvaluateQuiet(c, r) \/ SkipCooldown(c, r)
      <4>1. stage'[c][r] \notin Held /\ quiet' = quiet
        BY <2>0, <3>4 DEF EvaluateQuiet, SkipCooldown, hist, Held
      <4>2. ~Stamping(r)
        BY <2>0, <3>1 DEF Stamping, Held, Agents
      <4>3. QED
        BY <2>2, <3>1, <3>2, <3>3, <4>1, <4>2
        DEF UndisturbedRule, HeldByOther, Exists, Held
    <3>5. CASE Fire(c, r)
      <4>1. entity[c][r] \in Rule
        BY <2>0, ExistingIsRule DEF HeldOK, Held
      <4>2. [entity[c][r] EXCEPT !.last = 0].last = 0
        BY <4>1 DEF Rule
      <4>3. stage'[c][r] = "load" /\ entity'[c][r].last = 0 /\ quiet'[r] = 0
        BY <2>0, <3>5, <4>2 DEF Fire
      <4>4. Stamping(r)'
        BY <4>3 DEF Stamping
      <4>5. QED
        BY <2>0, <2>2, <3>1, <3>2, <3>3, <4>3, <4>4
        DEF UndisturbedRule, HeldByOther, Exists, Held
    <3>6. QED
      BY <1>3, <3>4, <3>5 DEF Evaluate
  <2>3. QED
    BY <2>1, <2>2
<1>4. ASSUME NEW g \in Agents, NEW r \in Rules, Save(g, r)
      PROVE  UndisturbedRule(q)'
  <2>0. disturbed' = disturbed /\ quiet' = quiet /\ stage[g][r] \in {"load", "write"}
    BY <1>4 DEF Save, LoadForSave, InsertRow, UpdateRow, hist
  <2>1. CASE q # r
    <3>1. CASE LoadForSave(g, r)
      BY <2>0, <2>1, <3>1, OthersUndisturbed DEF LoadForSave
    <3>2. CASE InsertRow(g, r)
      BY <2>0, <2>1, <3>2, OthersUndisturbed DEF InsertRow, Release
    <3>3. CASE UpdateRow(g, r)
      BY <2>0, <2>1, <3>3, OthersUndisturbed DEF UpdateRow, Release
    <3>4. QED
      BY <1>4, <3>1, <3>2, <3>3 DEF Save
  <2>2. CASE q = r
    <3>1. /\ UndisturbedRule(r)
          /\ \A h \in Agents : h # g => stage[h][r] \notin Held
          /\ Exists(r)
      BY <2>0, <2>2 DEF UndisturbedOK, UndisturbedRule, HeldByOther, Held
    <3>2. \A h \in Agents : h # g => stage'[h][r] = stage[h][r]
      BY <1>4, <2>0 DEF Save, LoadForSave, InsertRow, UpdateRow, Release
    <3>3. CASE LoadForSave(g, r)
      <4>1. /\ stage'[g][r] = "write" /\ loaded'[g][r] = rows[r]
            /\ entity' = entity /\ rows' = rows /\ stage[g][r] = "load"
        BY <3>3 DEF LoadForSave
      <4>2. ~Stamping(r)' => ~Stamping(r)
        BY <3>2, <4>1 DEF Stamping, Agents
      <4>3. QED
        BY <2>0, <2>2, <3>1, <3>2, <4>1, <4>2
        DEF UndisturbedRule, HeldByOther, Exists, Held
    <3>4. CASE InsertRow(g, r)
      <4>1. loaded[g][r] = rows[r]
        BY <2>2, <3>1, <3>4 DEF InsertRow, UndisturbedRule, Held
      <4>2. QED
        BY <3>1, <3>4, <4>1 DEF InsertRow, Exists
    <3>5. CASE UpdateRow(g, r)
      <4>1. loaded[g][r] = rows[r] /\ stage[g][r] = "write"
        BY <3>1, <3>5 DEF UpdateRow, UndisturbedRule, Held
      <4>2. entity[g][r] \in Rule /\ rows[r] \in Rule
        BY <2>0, <3>1, ExistingIsRule DEF HeldOK, Held, Exists
      <4>3. rows'[r] = Merge(entity[g][r], rows[r], rows[r])
        BY <3>1, <3>5, <4>1 DEF UpdateRow
      <4>4. rows'[r].last = entity[g][r].last
        BY <4>3 DEF Merge
      <4>5. g \notin Checks => rows[r].last = quiet[r]
        <5>1. ASSUME g \notin Checks PROVE ~Stamping(r)
          BY <3>1, <5>1 DEF Stamping, Held, Agents
        <5>2. QED
          BY <3>1, <5>1 DEF UndisturbedRule
      <4>6. rows'[r].last = quiet[r]
        BY <2>0, <3>1, <4>4, <4>5 DEF UndisturbedRule, Held
      <4>7. stage'[g][r] \notin Held
        BY <3>5 DEF UpdateRow, Release, Ended, Held
      <4>8. QED
        BY <2>0, <2>2, <3>1, <3>2, <4>6, <4>7
        DEF UndisturbedRule, HeldByOther, Held
    <3>6. QED
      BY <1>4, <3>3, <3>4, <3>5 DEF Save
  <2>3. QED
    BY <2>1, <2>2
<1>5. ASSUME NEW g \in Agents, NEW r \in Rules, FailSave(g, r)
      PROVE  UndisturbedRule(q)'
  <2>1. q # r
    BY <1>5 DEF FailSave
  <2>2. QED
    BY <1>5, <2>1, OthersUndisturbed DEF FailSave, Release
<1>6. ASSUME NEW r \in Rules, CreateRule(r) PROVE UndisturbedRule(q)'
  <2>1. CASE q # r
    BY <1>6, <2>1, OthersUndisturbed DEF CreateRule, saves
  <2>2. CASE q = r
    <3>1. quiet'[r] = Old /\ \A g \in Agents : stage'[g][r] \notin Held
      BY <1>6 DEF CreateRule, BornOK, HeldOK
    <3>2. rows'[r].last = Old
      BY <1>6 DEF CreateRule
    <3>3. QED
      BY <2>2, <3>1, <3>2 DEF UndisturbedRule
  <2>3. QED
    BY <2>1, <2>2
<1>7. ASSUME NEW r \in Rules, ReadingChanges(r) PROVE UndisturbedRule(q)'
  BY <1>7, OthersUndisturbed DEF ReadingChanges, saves, hist
<1>8. ASSUME NEW a \in Admins, NEW r \in Rules, UpdateRule(a, r)
      PROVE  UndisturbedRule(q)'
  <2>1. PICK on \in BOOLEAN, cd \in Cooldowns :
          Find(a, r, "load", [rows[r] EXCEPT !.active = on, !.cooldown = cd])
    BY <1>8 DEF UpdateRule
  <2>2. rows[r] \in Rule
    BY <2>1, ExistingIsRule DEF Find, Exists
  <2>3. [rows[r] EXCEPT !.active = on, !.cooldown = cd].last = rows[r].last
    BY <2>2 DEF Rule
  <2>4. QED
    BY <2>1, <2>3, FindUndisturbed
<1>9. ASSUME NEW a \in Admins, NEW r \in Rules, DeleteRule(a, r)
      PROVE  UndisturbedRule(q)'
  BY <1>9, FindUndisturbed DEF DeleteRule
<1>10. ASSUME NEW a \in Admins, NEW r \in Rules, RemoveRow(a, r)
       PROVE  UndisturbedRule(q)'
  <2>1. CASE q # r
    BY <1>10, <2>1, OthersUndisturbed DEF RemoveRow, hist
  <2>2. CASE q = r
    <3>1. a \in Agents /\ q \notin disturbed /\ stage[a][r] \in Held
      BY <1>10 DEF RemoveRow, hist, Agents, Held
    <3>2. \A g \in Agents : g # a => stage[g][r] \notin Held
      BY <2>2, <3>1 DEF UndisturbedOK, UndisturbedRule, HeldByOther
    <3>3. ~Exists(r)' /\ \A g \in Agents : stage'[g][r] \notin Held
      BY <1>10, <3>1, <3>2 DEF RemoveRow, Exists, Held
    <3>4. QED
      BY <2>2, <3>3 DEF UndisturbedRule
  <2>3. QED
    BY <2>1, <2>2
<1>11. CASE Crash
  <2>1. \A g \in Agents : stage[g][q] \notin Held /\ stage'[g][q] \notin Held
    BY <1>11 DEF Crash, Held
  <2>2. ~Stamping(q) /\ q \notin disturbed /\ UNCHANGED <<rows, quiet>>
    BY <1>11, <2>1 DEF Crash, Stamping, Held, Agents
  <2>3. QED
    BY <2>1, <2>2 DEF UndisturbedOK, UndisturbedRule, Exists
<1>12. CASE Tick
  <2>1. /\ rows'[q] = OlderRule(rows[q]) /\ quiet'[q] = Older(quiet[q])
        /\ stage' = stage /\ q \notin disturbed
        /\ \A g \in Agents : /\ entity'[g][q] = OlderRule(entity[g][q])
                             /\ loaded'[g][q] = OlderRule(loaded[g][q])
    BY <1>12 DEF Tick
  <2>2. UndisturbedRule(q)
    BY <2>1 DEF UndisturbedOK
  <2>3. Exists(q)' <=> Exists(q)
    BY <2>1, OlderRuleType DEF Exists
  <2>4. Stamping(q)' <=> Stamping(q)
    BY <2>1 DEF Stamping
  <2>5. Exists(q) => /\ rows'[q].last = Older(rows[q].last)
                     /\ rows'[q].active = rows[q].active
    BY <2>1, OlderRuleType DEF Exists
  <2>6. ASSUME NEW g \in Agents, stage'[g][q] \in Held
        PROVE  /\ Exists(q)'
               /\ ~HeldByOther(g, q)'
               /\ stage'[g][q] = "query" => entity'[g][q] = rows'[q] /\ rows'[q].active
               /\ stage'[g][q] = "write" => loaded'[g][q] = rows'[q]
               /\ stage'[g][q] \in {"load", "write"} =>
                    entity'[g][q].last =
                      IF g \in Checks THEN quiet'[q] ELSE rows'[q].last
    <3>1. entity[g][q].exists
      BY <2>1, <2>6 DEF HeldOK
    <3>2. entity'[g][q].last = Older(entity[g][q].last)
      BY <2>1, <3>1, OlderRuleType
    <3>3. QED
      BY <2>1, <2>2, <2>3, <2>5, <2>6, <3>2 DEF UndisturbedRule, HeldByOther
  <2>7. QED
    BY <2>1, <2>2, <2>3, <2>4, <2>5, <2>6 DEF UndisturbedRule
<1>13. CASE UNCHANGED vars
  BY <1>13, OthersUndisturbed DEF vars
<1>14. QED
  BY <1>1, <1>2, <1>3, <1>4, <1>5, <1>6, <1>7, <1>8, <1>9, <1>10, <1>11, <1>12,
     <1>13 DEF Next

-----------------------------------------------------------------------------
(* The invariant. *)

LEMMA InitIInv == Init => IInv
<1> SUFFICES ASSUME Init PROVE IInv
  OBVIOUS
<1>1. TypeOK
  BY InitTypeOK
<1>2. \A r \in Rules : rows[r] = NoRule \/ rows[r].last = Old
  BY DEF Init
<1>3. ~NoRule.exists
  BY DEF NoRule
<1>4. \A g \in Agents, r \in Rules : stage[g][r] = "none" /\ entity[g][r] = NoRule
                                      /\ loaded[g][r] = NoRule
  BY DEF Init
<1>5. HeldOK /\ AlertedOK /\ BornOK
  BY <1>4 DEF Init, HeldOK, AlertedOK, BornOK, Held, Agents
<1>6. StampsOK
  <2>1. \A r \in Rules : quiet[r] = Old
    BY DEF Init
  <2>2. \A r \in Rules : Exists(r) => rows[r].last >= quiet[r]
    <3>1. Old >= Old
      OBVIOUS
    <3>2. QED
      BY <1>2, <1>3, <2>1, <3>1 DEF Exists
  <2>3. QED
    BY <1>3, <1>4, <2>2 DEF StampsOK
<1>7. UndisturbedOK
  BY <1>2, <1>3, <1>4 DEF Init, UndisturbedOK, UndisturbedRule, Held, Exists
<1>8. QED
  BY <1>1, <1>5, <1>6, <1>7 DEF IInv

LEMMA IInvCorrect == Spec => []IInv
<1>1. IInv /\ [Next]_vars => IInv'
  BY NextTypeOK, NextHeldOK, NextStampsOK, NextAlertedOK, NextBornOK,
     NextUndisturbedOK DEF IInv
<1>2. QED
  BY InitIInv, <1>1, PTL DEF Spec

-----------------------------------------------------------------------------
(* The properties. *)

\* Whatever overlaps, fails or crashes, rules, stamps and held objects stay
\* well formed: no save of a vanished or half-read rule writes garbage.
THEOREM TypeCorrect == Spec => []TypeOK
<1>1. IInv => TypeOK
  BY DEF IInv
<1>2. QED
  BY <1>1, IInvCorrect, PTL

\* No race, failure or crash silences a rule beyond the cooldown that follows
\* an event that really was emitted.
THEOREM NoCooldownWithoutEvent == Spec => []NoPhantomCooldown
<1>1. IInv => NoPhantomCooldown
  BY DEF IInv, StampsOK, NoPhantomCooldown
<1>2. QED
  BY <1>1, IInvCorrect, PTL

\* What GET /monitoring/status shows as triggered has raised an event.
THEOREM ReportsAreAlerted == Spec => []ReportedMeansAlerted
<1>1. IInv => ReportedMeansAlerted
  BY DEF IInv, AlertedOK, ReportedMeansAlerted
<1>2. QED
  BY <1>1, IInvCorrect, PTL

\* Events about a rule nobody disturbed are due: the stored rule is active
\* and its stored cooldown has passed since the last event.
THEOREM AlertsAreDue == Spec => AlertIsDueUnlessDisturbed
<1>1. ASSUME IInv, NEW c \in Checks, NEW r \in Rules, Fire(c, r), r \notin disturbed
      PROVE  Exists(r) /\ rows[r].active /\ quiet[r] > rows[r].cooldown
  <2>1. c \in Agents /\ stage[c][r] = "query" /\ UndisturbedRule(r)
    BY <1>1 DEF Fire, IInv, UndisturbedOK, Agents
  <2>2. /\ Exists(r) /\ rows[r].active /\ entity[c][r] = rows[r]
        /\ \A g \in Agents : g # c => stage[g][r] \notin Held
    BY <2>1 DEF UndisturbedRule, HeldByOther, Held
  <2>3. rows[r].last = quiet[r]
    <3>1. ~Stamping(r)
      BY <2>1, <2>2 DEF Stamping, Held, Agents
    <3>2. QED
      BY <2>1, <2>2, <3>1 DEF UndisturbedRule
  <2>4. QED
    BY <1>1, <2>2, <2>3 DEF Fire, CooldownExpired
<1>2. IInv /\ [Next]_vars =>
        [\A c \in Checks, r \in Rules :
           Fire(c, r) /\ r \notin disturbed =>
             Exists(r) /\ rows[r].active /\ quiet[r] > rows[r].cooldown]_vars
  BY <1>1
<1>3. QED
  BY <1>2, IInvCorrect, PTL DEF Spec, AlertIsDueUnlessDisturbed

\* A deleted rule that nobody disturbed never comes back.
THEOREM DeletionsStand == Spec => DeletionStandsUnlessDisturbed
<1>1. ASSUME IInv, [Next]_vars, NEW q \in born \ disturbed, ~Exists(q),
             rows'[q].exists
      PROVE  FALSE
  <2>0. q \in Rules /\ ~NoRule.exists /\ \A g \in Agents : stage[g][q] \notin Held
    BY <1>1 DEF IInv, TypeOK, UndisturbedOK, UndisturbedRule, NoRule
  <2>1. ASSUME NEW r \in Rules, CreateRule(r) PROVE FALSE
    BY <1>1, <2>0, <2>1 DEF CreateRule, IInv, TypeOK, Exists
  <2>2. ASSUME NEW g \in Agents, NEW r \in Rules, Save(g, r) PROVE FALSE
    <3>1. stage[g][r] \in Held
      BY <2>2 DEF Save, LoadForSave, InsertRow, UpdateRow, Held
    <3>2. q # r
      BY <2>0, <3>1
    <3>3. rows'[q] = rows[q]
      <4>1. CASE LoadForSave(g, r)
        BY <4>1 DEF LoadForSave
      <4>2. CASE InsertRow(g, r)
        BY <3>2, <4>2 DEF InsertRow
      <4>3. CASE UpdateRow(g, r)
        BY <3>2, <4>3 DEF UpdateRow
      <4>4. QED
        BY <2>2, <4>1, <4>2, <4>3 DEF Save
    <3>4. QED
      BY <1>1, <3>3 DEF Exists
  <2>3. ASSUME NEW a \in Admins, NEW r \in Rules, RemoveRow(a, r) PROVE FALSE
    BY <1>1, <2>0, <2>3 DEF RemoveRow, IInv, TypeOK, Exists
  <2>4. CASE Tick
    BY <1>1, <2>0, <2>4, OlderRuleType DEF Tick, IInv, TypeOK, Exists
  <2>5. CASE UNCHANGED rows
    BY <1>1, <2>5 DEF Exists
  <2>6. QED
    BY <1>1, <2>1, <2>2, <2>3, <2>4, <2>5
    DEF Next, vars, StartCheck, FinishCheck, Evaluate, EvaluateQuiet, SkipCooldown,
        Fire, FailSave, ReadingChanges, UpdateRule, DeleteRule, Find, Crash
<1>2. IInv /\ [Next]_vars =>
        [\A r \in born \ disturbed : ~Exists(r) => ~rows'[r].exists]_vars
  BY <1>1
<1>3. QED
  BY <1>2, IInvCorrect, PTL DEF Spec, DeletionStandsUnlessDisturbed

=============================================================================

------------------------------ MODULE Monitoring ------------------------------
(***************************************************************************)
(* MonitoringService (gong-core/src/monitoring/monitoring.service.ts): the *)
(* monitoring_rules table, the checks that evaluate its active rules and   *)
(* emit 'monitoring.threshold.exceeded', and the admins' rule requests.    *)
(*                                                                         *)
(* setInterval starts a check whether or not the one before has ended, and *)
(* POST /monitoring/check starts one at any time.  A check works on the    *)
(* rule objects it read at its start, one promise per rule; saving one is  *)
(* TypeORM's SELECT, comparison and UPDATE (or INSERT if no row is found). *)
(*                                                                         *)
(* Times are kept as ages: lastTriggeredAt is the time since then, and an  *)
(* age of Old also stands for "never" (null).                              *)
(***************************************************************************)
EXTENDS Naturals

CONSTANTS
  Rules,        \* rule ids; a deleted id is never used again
  HealthRules,  \* the rules of type UPSTREAM_HEALTH
  Checks,       \* checks that may run at the same time
  Admins,       \* admins that may edit rules at the same time
  Cooldowns,    \* the values of cooldownMinutes
  Old,          \* bound: an age beyond every cooldown
  MayFail,      \* whether saving a rule may fail
  MayCrash      \* whether the process may crash

ASSUME RulesAssumption == HealthRules \subseteq Rules
ASSUME AgentsAssumption == Checks \cap Admins = {}
ASSUME OldAssumption == Old \in Nat /\ Cooldowns \subseteq 1..(Old - 1)
ASSUME FaultsAssumption == MayFail \in BOOLEAN /\ MayCrash \in BOOLEAN

VARIABLES
  rows,       \* table monitoring_rules: rows[r] is a rule or NoRule
  stage,      \* stage[g][r]: what agent g (a check, an admin) does next with r
  entity,     \* entity[g][r]: the MonitoringRuleEntity g holds of r
  loaded,     \* loaded[g][r]: the row save() compares that entity with
  running,    \* the checks in progress
  lastReport, \* lastReport[r]: how the cached report shows rule r
  reading,    \* environment: what Prometheus has to say on rule r's query
  quiet,      \* history: quiet[r] is the age of the last event for r
  born,       \* history: the rules that were ever created
  alerted,    \* history: the rules an event was ever emitted for
  disturbed   \* history: rules two agents held at once, or a save failed on

hist  == <<quiet, born, alerted, disturbed>>
saves == <<entity, loaded>>
vars  == <<rows, stage, entity, loaded, running, lastReport, reading,
           quiet, born, alerted, disturbed>>

-----------------------------------------------------------------------------
(* The values. *)

Agents == Checks \cup Admins

Ages == 0..Old

NoRule == [exists |-> FALSE]

Rule == [exists : {TRUE}, active : BOOLEAN, cooldown : Cooldowns, last : Ages]

\* "quiet" and "triggered" are the ends of a rule's promise in a check.
Stages == {"none", "query", "load", "write", "remove", "quiet", "triggered"}

Held == {"query", "load", "write", "remove"}

Readings == {"within", "beyond", "nothing"}

Results == {"absent", "quiet", "triggered"}

Exists(r) == rows[r].exists

Older(a) == IF a < Old THEN a + 1 ELSE Old

OlderRule(x) == IF x.exists THEN [x EXCEPT !.last = Older(@)] ELSE x

\* Some agent other than g is working with an object of rule r.
HeldByOther(g, r) == \E h \in Agents \ {g} : stage[h][r] \in Held

-----------------------------------------------------------------------------
Init ==
  /\ rows \in [Rules -> {NoRule} \cup [exists : {TRUE}, active : {TRUE},
                                       cooldown : Cooldowns, last : {Old}]]
  /\ stage      = [g \in Agents |-> [r \in Rules |-> "none"]]
  /\ entity     = [g \in Agents |-> [r \in Rules |-> NoRule]]
  /\ loaded     = [g \in Agents |-> [r \in Rules |-> NoRule]]
  /\ running    = {}
  /\ lastReport = [r \in Rules |-> "absent"]
  /\ reading    = [r \in Rules |-> "within"]
  /\ quiet      = [r \in Rules |-> Old]
  /\ born       = {r \in Rules : Exists(r)}
  /\ alerted    = {}
  /\ disturbed  = {}

-----------------------------------------------------------------------------
(* Checks. *)

\* runScheduledCheck: find the active rules; each gets its own promise.
StartCheck(c) ==
  LET active == {r \in Rules : Exists(r) /\ rows[r].active} IN
  /\ c \notin running
  /\ running' = running \cup {c}
  /\ stage'  = [stage EXCEPT ![c] = [r \in Rules |->
                  IF r \in active THEN "query" ELSE "none"]]
  /\ entity' = [entity EXCEPT ![c] = [r \in Rules |->
                  IF r \in active THEN rows[r] ELSE NoRule]]
  /\ disturbed' = disturbed \cup {r \in active : HeldByOther(c, r)}
  /\ UNCHANGED <<rows, loaded, lastReport, reading, quiet, born, alerted>>

\* evaluateRule: without a series, or when the query fails, queryScalar says
\* 0, which exceeds no threshold but is what an unhealthy upstream reports.
Triggered(r) == \/ reading[r] = "beyond"
                \/ reading[r] = "nothing" /\ r \in HealthRules

\* Variant: a rule that was never triggered is compared with a missing date.
CooldownExpiredNeedsDate(rule) == rule.last # Old /\ rule.last > rule.cooldown

\* Variant: the cooldown ends one minute early.
CooldownExpiredTooSoon(rule) == rule.last >= rule.cooldown

\* isCooldownExpired, on the object the check holds.
CooldownExpired(rule) == rule.last > rule.cooldown

\* The metric is not beyond the threshold: a result and nothing else.
EvaluateQuiet(c, r) ==
  /\ stage[c][r] = "query"
  /\ ~Triggered(r)
  /\ stage' = [stage EXCEPT ![c][r] = "quiet"]
  /\ entity' = [entity EXCEPT ![c][r] = NoRule]
  /\ UNCHANGED <<rows, loaded, running, lastReport, reading, hist>>

\* handleTriggeredRule within the cooldown: no event.
SkipCooldown(c, r) ==
  /\ stage[c][r] = "query"
  /\ Triggered(r)
  /\ ~CooldownExpired(entity[c][r])
  /\ stage' = [stage EXCEPT ![c][r] = "triggered"]
  /\ entity' = [entity EXCEPT ![c][r] = NoRule]
  /\ UNCHANGED <<rows, loaded, running, lastReport, reading, hist>>

\* Variant: the rule is stamped and saved, but the event is never emitted.
FireWithoutEvent(c, r) ==
  /\ stage[c][r] = "query"
  /\ Triggered(r)
  /\ CooldownExpired(entity[c][r])
  /\ stage' = [stage EXCEPT ![c][r] = "load"]
  /\ entity' = [entity EXCEPT ![c][r].last = 0]
  /\ UNCHANGED <<rows, loaded, running, lastReport, reading, hist>>

\* handleTriggeredRule: emit the event, stamp the object, start to save it.
Fire(c, r) ==
  /\ stage[c][r] = "query"
  /\ Triggered(r)
  /\ CooldownExpired(entity[c][r])
  /\ stage' = [stage EXCEPT ![c][r] = "load"]
  /\ entity' = [entity EXCEPT ![c][r].last = 0]
  /\ quiet' = [quiet EXCEPT ![r] = 0]
  /\ alerted' = alerted \cup {r}
  /\ UNCHANGED <<rows, loaded, running, lastReport, reading, born, disturbed>>

\* All promises have settled: the report is cached.
FinishCheck(c) ==
  /\ c \in running
  /\ \A r \in Rules : stage[c][r] \notin Held
  /\ running' = running \ {c}
  /\ lastReport' = [r \in Rules |-> IF stage[c][r] = "none"
                                      THEN "absent" ELSE stage[c][r]]
  /\ stage' = [stage EXCEPT ![c] = [r \in Rules |-> "none"]]
  /\ UNCHANGED <<rows, saves, reading, hist>>

-----------------------------------------------------------------------------
(* Admin requests. *)

\* Variant: a new rule starts with a trigger date.
CreateRuleStamped(r) ==
  /\ r \notin born
  /\ \E cd \in Cooldowns :
       rows' = [rows EXCEPT ![r] = [exists |-> TRUE, active |-> TRUE,
                                    cooldown |-> cd, last |-> 0]]
  /\ born' = born \cup {r}
  /\ UNCHANGED <<stage, saves, running, lastReport, reading, quiet, alerted,
                 disturbed>>

\* Variant: cooldownMinutes is not validated.
CreateRuleUnvalidated(r) ==
  /\ r \notin born
  /\ rows' = [rows EXCEPT ![r] = [exists |-> TRUE, active |-> TRUE,
                                  cooldown |-> 0, last |-> Old]]
  /\ born' = born \cup {r}
  /\ UNCHANGED <<stage, saves, running, lastReport, reading, quiet, alerted,
                 disturbed>>

\* createRule: no rule of that name, so the INSERT of an active one.
CreateRule(r) ==
  /\ r \notin born
  /\ \E cd \in Cooldowns :
       rows' = [rows EXCEPT ![r] = [exists |-> TRUE, active |-> TRUE,
                                    cooldown |-> cd, last |-> Old]]
  /\ born' = born \cup {r}
  /\ UNCHANGED <<stage, saves, running, lastReport, reading, quiet, alerted,
                 disturbed>>

\* findRule at the head of updateRule and deleteRule.
Find(a, r, next, found) ==
  /\ \A q \in Rules : stage[a][q] = "none"
  /\ Exists(r)
  /\ stage' = [stage EXCEPT ![a][r] = next]
  /\ entity' = [entity EXCEPT ![a][r] = found]
  /\ disturbed' = IF HeldByOther(a, r) THEN disturbed \cup {r} ELSE disturbed
  /\ UNCHANGED <<rows, loaded, running, lastReport, reading, quiet, born, alerted>>

\* Variant: the dto is saved under the id without reading the rule first.
UpdateRuleUpserts(a, r) ==
  \E on \in BOOLEAN, cd \in Cooldowns :
    /\ \A q \in Rules : stage[a][q] = "none"
    /\ stage' = [stage EXCEPT ![a][r] = "load"]
    /\ entity' = [entity EXCEPT ![a][r] = [exists |-> TRUE, active |-> on,
                                          cooldown |-> cd, last |-> Old]]
    /\ disturbed' = IF HeldByOther(a, r) THEN disturbed \cup {r} ELSE disturbed
    /\ UNCHANGED <<rows, loaded, running, lastReport, reading, quiet, born,
                   alerted>>

\* updateRule: read, assign the dto's fields, start to save.
UpdateRule(a, r) ==
  \E on \in BOOLEAN, cd \in Cooldowns :
    Find(a, r, "load", [rows[r] EXCEPT !.active = on, !.cooldown = cd])

\* deleteRule: read, then remove.
DeleteRule(a, r) == Find(a, r, "remove", rows[r])

RemoveRow(a, r) ==
  /\ stage[a][r] = "remove"
  /\ rows' = [rows EXCEPT ![r] = NoRule]
  /\ stage' = [stage EXCEPT ![a][r] = "none"]
  /\ entity' = [entity EXCEPT ![a][r] = NoRule]
  /\ UNCHANGED <<loaded, running, lastReport, reading, hist>>

-----------------------------------------------------------------------------
(* rulesRepo.save(rule), for checks and admins alike. *)

\* How a promise that held rule r ends: a check keeps its result.
Ended(g) == IF g \in Checks THEN "triggered" ELSE "none"

Release(g, r) ==
  /\ stage'  = [stage EXCEPT ![g][r] = Ended(g)]
  /\ entity' = [entity EXCEPT ![g][r] = NoRule]
  /\ loaded' = [loaded EXCEPT ![g][r] = NoRule]

LoadForSave(g, r) ==
  /\ stage[g][r] = "load"
  /\ stage' = [stage EXCEPT ![g][r] = "write"]
  /\ loaded' = [loaded EXCEPT ![g][r] = rows[r]]
  /\ UNCHANGED <<rows, entity, running, lastReport, reading, hist>>

\* The columns of new that differ from old are written over row.
Merge(new, old, row) ==
  [exists   |-> TRUE,
   active   |-> IF new.active = old.active THEN row.active ELSE new.active,
   cooldown |-> IF new.cooldown = old.cooldown THEN row.cooldown ELSE new.cooldown,
   last     |-> IF new.last = old.last THEN row.last ELSE new.last]

\* No row was found under the id: INSERT the object.
InsertRow(g, r) ==
  /\ stage[g][r] = "write"
  /\ ~loaded[g][r].exists
  /\ rows' = IF Exists(r) THEN rows ELSE [rows EXCEPT ![r] = entity[g][r]]
  /\ Release(g, r)
  /\ UNCHANGED <<running, lastReport, reading, hist>>

\* UPDATE the columns that differ; no row matches when it is gone by now.
UpdateRow(g, r) ==
  /\ stage[g][r] = "write"
  /\ loaded[g][r].exists
  /\ rows' = IF Exists(r)
               THEN [rows EXCEPT ![r] = Merge(entity[g][r], loaded[g][r], @)]
               ELSE rows
  /\ Release(g, r)
  /\ UNCHANGED <<running, lastReport, reading, hist>>

\* The save rejects: a check logs it and goes on, an admin gets an error.
FailSave(g, r) ==
  /\ MayFail
  /\ stage[g][r] \in {"load", "write"}
  /\ Release(g, r)
  /\ disturbed' = disturbed \cup {r}
  /\ UNCHANGED <<rows, running, lastReport, reading, quiet, born, alerted>>

\* The process stops and starts again: the table stays, the rest is gone.
Crash ==
  /\ MayCrash
  /\ stage'  = [g \in Agents |-> [r \in Rules |-> "none"]]
  /\ entity' = [g \in Agents |-> [r \in Rules |-> NoRule]]
  /\ loaded' = [g \in Agents |-> [r \in Rules |-> NoRule]]
  /\ running' = {}
  /\ lastReport' = [r \in Rules |-> "absent"]
  /\ disturbed' = disturbed \cup {r \in Rules : \E g \in Agents : stage[g][r] \in Held}
  /\ UNCHANGED <<rows, reading, quiet, born, alerted>>

-----------------------------------------------------------------------------
(* Time and the world outside. *)

Tick ==
  /\ rows'   = [r \in Rules |-> OlderRule(rows[r])]
  /\ entity' = [g \in Agents |-> [r \in Rules |-> OlderRule(entity[g][r])]]
  /\ loaded' = [g \in Agents |-> [r \in Rules |-> OlderRule(loaded[g][r])]]
  /\ quiet'  = [r \in Rules |-> Older(quiet[r])]
  /\ UNCHANGED <<stage, running, lastReport, reading, born, alerted, disturbed>>

ReadingChanges(r) ==
  /\ \E x \in Readings \ {reading[r]} : reading' = [reading EXCEPT ![r] = x]
  /\ UNCHANGED <<rows, stage, saves, running, lastReport, hist>>

Save(g, r) == LoadForSave(g, r) \/ InsertRow(g, r) \/ UpdateRow(g, r)

Evaluate(c, r) == EvaluateQuiet(c, r) \/ SkipCooldown(c, r) \/ Fire(c, r)

Next ==
  \/ \E c \in Checks : StartCheck(c) \/ FinishCheck(c)
  \/ \E c \in Checks, r \in Rules : Evaluate(c, r)
  \/ \E g \in Agents, r \in Rules : Save(g, r) \/ FailSave(g, r)
  \/ \E r \in Rules : CreateRule(r) \/ ReadingChanges(r)
  \/ \E a \in Admins, r \in Rules :
       UpdateRule(a, r) \/ DeleteRule(a, r) \/ RemoveRow(a, r)
  \/ Crash
  \/ Tick

\* The interval keeps starting checks, queries and saves are answered (the
\* HTTP client has a timeout), promises settle and time passes.  Nothing is
\* assumed of the admins and of the world outside.
Fairness ==
  /\ \A c \in Checks : WF_vars(StartCheck(c)) /\ WF_vars(FinishCheck(c))
  /\ \A c \in Checks, r \in Rules : WF_vars(Evaluate(c, r)) /\ WF_vars(Save(c, r))
  /\ WF_vars(Tick)

Spec == Init /\ [][Next]_vars /\ Fairness

-----------------------------------------------------------------------------
(* Properties. *)

\* Every variable holds a value of its kind.
TypeOK ==
  /\ rows \in [Rules -> Rule \cup {NoRule}]
  /\ stage \in [Agents -> [Rules -> Stages]]
  /\ entity \in [Agents -> [Rules -> Rule \cup {NoRule}]]
  /\ loaded \in [Agents -> [Rules -> Rule \cup {NoRule}]]
  /\ running \subseteq Checks
  /\ lastReport \in [Rules -> Results]
  /\ reading \in [Rules -> Readings]
  /\ quiet \in [Rules -> Ages]
  /\ born \subseteq Rules
  /\ alerted \subseteq Rules
  /\ disturbed \subseteq Rules

(* A stored lastTriggeredAt is never later than the last event that was    *)
(* really emitted, whatever overlaps, fails or crashes: races may repeat   *)
(* an alert, they never silence a rule for longer than its cooldown.       *)
NoPhantomCooldown ==
  \A r \in Rules : Exists(r) => rows[r].last >= quiet[r]

(* A rule the cached report shows as triggered has had its event: the      *)
(* check emitted it, or skipped it for a cooldown that an event started.   *)
ReportedMeansAlerted ==
  \A r \in Rules : lastReport[r] = "triggered" => r \in alerted

(* An event means what threshold-exceeded.event.ts says, "an active rule"  *)
(* whose "cooldown window has passed" since the last event, as the table   *)
(* has it, as long as no two agents held the rule at once and every save   *)
(* succeeded.                                                              *)
AlertIsDueUnlessDisturbed ==
  [][\A c \in Checks, r \in Rules :
       Fire(c, r) /\ r \notin disturbed =>
         Exists(r) /\ rows[r].active /\ quiet[r] > rows[r].cooldown]_vars

(* Under the same condition a deleted rule stays deleted.                  *)
DeletionStandsUnlessDisturbed ==
  [][\A r \in born \ disturbed : ~Exists(r) => ~rows'[r].exists]_vars

(* A breach that lasts keeps raising alerts: if from some time on a rule   *)
(* is stored, active and beyond its threshold, its event is emitted again  *)
(* and again, however checks and edits overlap and saves fail, unless the  *)
(* process crashes again and again.                                        *)
BreachKeepsAlerting ==
  \A r \in Rules :
    /\ <>[](Exists(r) /\ rows[r].active /\ Triggered(r))
    /\ <>[][~Crash]_vars
    => []<><<\E c \in Checks : Fire(c, r)>>_vars

(* monitoring-rule.entity.ts: "Minutes to wait before re-triggering the    *)
(* same rule (prevents flood)".                                            *)
CooldownRespected ==
  [][\A c \in Checks, r \in Rules :
       Fire(c, r) => quiet[r] > entity[c][r].cooldown]_vars

(* DELETE /monitoring/rules/:id answers 204 No Content, and the rule is    *)
(* gone (monitoring.service.spec.ts, "creates, updates, and deletes        *)
(* monitoring rules").                                                     *)
DeletedStaysDeleted ==
  [][\A r \in born : ~Exists(r) => ~rows'[r].exists]_vars

=============================================================================

-------------------------------- MODULE Metrics --------------------------------
(***************************************************************************)
(* MetricsService and MetricsController (gong-core/src/metrics): the polls *)
(* of Prometheus, the cache, the health of services, and the event stream  *)
(* of one subscriber.                                                      *)
(*                                                                         *)
(* pollAll is started every 15 s, whether or not the last one has ended;   *)
(* each poll goes through the scopes it found, one query after the other.  *)
(* A reading is abstracted to a number and to whether a 5xx or 429 series  *)
(* is in it.  PrometheusService answers an error with zeros and no series, *)
(* so a failed query is a reading like any other and pollAll's own error   *)
(* path is never taken.                                                    *)
(***************************************************************************)
EXTENDS Naturals, Sequences

CONSTANTS
  ScopeLists,  \* the lists setScopes is called with
  Polls,       \* polls that can be under way at once
  Amounts,     \* values of the numbers of a reading; 0 among them
  Threshold,   \* error windows in a row that make a service unhealthy
  None         \* no value

ASSUME AmountsAssumption == 0 \in Amounts /\ Amounts \subseteq Nat
ASSUME ThresholdAssumption == Threshold \in Nat \ {0}
ASSUME NoneAssumption == None \notin BOOLEAN

VARIABLES
  scopes,     \* list of scopes to poll
  polls,      \* polls[p]: the scopes poll p has still to query
  cache,      \* cache[s]: last reading of scope s
  errors,     \* errors[v]: errorCounters
  health,     \* health[v]: TRUE, FALSE, or None
  streaming,  \* whether the subscriber is connected
  stream,     \* events on their way to it
  windows     \* history: windows[v]: what the last readings of service v were

metrics == <<scopes, polls, cache, errors, health, stream, windows>>

-----------------------------------------------------------------------------
Global == [consumer |-> "global", service |-> "global"]

AllScopes == {Global} \cup UNION {{L[n] : n \in 1..Len(L)} : L \in ScopeLists}

ASSUME ScopesAssumption == ScopeLists \subseteq Seq(AllScopes)

ServiceIds == {s.service : s \in AllScopes}

Readings == [n : Amounts, bad : BOOLEAN]

\* What PrometheusService makes of an error or of a missing series.
Nothing == [n |-> 0, bad |-> FALSE]

\* Variant: the status codes are not compared.
AmountsChanged(prev, next) == prev.n # next.n

HasMetricsChanged(prev, next) == prev # next

\* The last readings of a service, as many as the threshold asks for.
Latest(w) == IF Len(w) > Threshold THEN Tail(w) ELSE w

MetricsInit ==
  /\ scopes = <<Global>>
  /\ polls = [p \in Polls |-> <<>>]
  /\ cache = [s \in AllScopes |-> None]
  /\ errors = [v \in ServiceIds |-> 0]
  /\ health = [v \in ServiceIds |-> None]
  /\ streaming = FALSE
  /\ stream = <<>>
  /\ windows = [v \in ServiceIds |-> <<>>]

-----------------------------------------------------------------------------
\* Variant: the list as it was given.
SetScopesAsGiven ==
  /\ \E L \in ScopeLists : scopes' = L
  /\ UNCHANGED <<polls, cache, errors, health, streaming, stream, windows>>

\* An empty list stands for the global scope.
SetScopes ==
  /\ \E L \in ScopeLists : scopes' = IF L = <<>> THEN <<Global>> ELSE L
  /\ UNCHANGED <<polls, cache, errors, health, streaming, stream, windows>>

\* The timer fires: a poll of the scopes as they are now.
StartPoll(p) ==
  /\ polls[p] = <<>>
  /\ polls' = [polls EXCEPT ![p] = scopes]
  /\ UNCHANGED <<scopes, cache, errors, health, streaming, stream, windows>>

\* Variant: a window without errors does not start the count again.
CountAllErrors(v, bad) ==
  LET count == IF bad THEN errors[v] + 1 ELSE errors[v]
      flips == IF bad THEN count >= Threshold /\ health[v] # FALSE
                      ELSE health[v] # TRUE IN
  [count |-> count, flips |-> flips, health |-> IF flips THEN ~bad ELSE health[v]]

\* The counter and the health that a window leaves.
CountWindow(v, bad) ==
  LET count == IF bad THEN errors[v] + 1 ELSE 0
      flips == IF bad THEN count >= Threshold /\ health[v] # FALSE
                      ELSE health[v] # TRUE IN
  [count |-> count, flips |-> flips, health |-> IF flips THEN ~bad ELSE health[v]]

\* updateServiceHealth ignores 'global'; the counter is capped for TLC where
\* more errors change nothing.
UpdateServiceHealth(v, bad) ==
  LET w == CountWindow(v, bad) IN
  IF v = "global" THEN UNCHANGED <<errors, health, windows>>
  ELSE /\ errors' = [errors EXCEPT ![v] = IF w.count > Threshold THEN Threshold ELSE w.count]
       /\ health' = [health EXCEPT ![v] = w.health]
       /\ windows' = [windows EXCEPT ![v] = Latest(Append(@, bad))]

\* The events of a reading, in the order they are emitted.
EventsOf(s, m) ==
  LET v == s.service
      flip == v # "global" /\ CountWindow(v, m.bad).flips
      changed == cache[s] = None \/ HasMetricsChanged(cache[s], m) IN
  (IF flip THEN <<[type |-> "health.changed", scope |-> s, m |-> m]>> ELSE <<>>)
    \o (IF changed THEN <<[type |-> "metrics.updated", scope |-> s, m |-> m]>> ELSE <<>>)

\* A query of poll p has ended, with whatever Prometheus said when it read.
Answer(p, m) ==
  LET s == Head(polls[p]) IN
  /\ polls[p] # <<>>
  /\ polls' = [polls EXCEPT ![p] = Tail(@)]
  /\ cache' = [cache EXCEPT ![s] = m]
  /\ UpdateServiceHealth(s.service, m.bad)
  /\ stream' = IF streaming THEN stream \o EventsOf(s, m) ELSE stream
  /\ UNCHANGED <<scopes, streaming>>

\* The global reading was streamed, to whoever listened.
Updates(p, m) ==
  \E n \in 1..Len(EventsOf(Head(polls[p]), m)) :
    LET e == EventsOf(Head(polls[p]), m)[n] IN
    e.type = "metrics.updated" /\ e.scope = Global

-----------------------------------------------------------------------------
\* A service is unhealthy exactly while its last Threshold windows all had
\* errors, and healthy only once one had none, whichever polls and scopes of
\* it the windows come from (updateServiceHealth).
HealthIsEarned ==
  \A v \in ServiceIds :
    LET w == windows[v]
        bad == {n \in 1..Len(w) : w[n]} IN
    /\ (health[v] = FALSE) <=> (Len(w) = Threshold /\ bad = 1..Threshold)
    /\ health[v] = TRUE => bad # 1..Len(w)

=============================================================================

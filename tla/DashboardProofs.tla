---------------------------- MODULE DashboardProofs ----------------------------
(***************************************************************************)
(* Theorems about Dashboard, Metrics and Messenger, for all lists of       *)
(* scopes, polls, amounts, users, views, senders and messages, and any     *)
(* threshold and number of inputs.                                         *)
(***************************************************************************)
EXTENDS Dashboard, SequenceTheorems, FiniteSetTheorems, WellFoundedInduction, TLAPS

-----------------------------------------------------------------------------
(* The inductive invariant. *)

StreamEvents == [type : {"health.changed", "metrics.updated"}, scope : AllScopes, m : Readings]

Flows ==
  [at : {"login", "me", "load", "submit"}, user : Users \cup {None},
   view : Views \cup {None}, own : BOOLEAN, read : BOOLEAN, denied : BOOLEAN,
   m : Readings \cup {None}, old : BOOLEAN]

MetricsOK ==
  /\ scopes \in Seq(AllScopes) /\ scopes # <<>>
  /\ polls \in [Polls -> Seq(AllScopes)]
  /\ cache \in [AllScopes -> Readings \cup {None}]
  /\ errors \in [ServiceIds -> 0..Threshold]
  /\ health \in [ServiceIds -> BOOLEAN \cup {None}]
  /\ windows \in [ServiceIds -> Seq(BOOLEAN)]

\* k of the windows w, the latest, had errors, the one before them none, and
\* h is what they make of the service.
Counts(w, k, h) ==
  /\ k <= Len(w) /\ Len(w) <= Threshold
  /\ \A n \in 1..Len(w) : n > Len(w) - k => w[n]
  /\ k < Len(w) => ~w[Len(w) - k]
  /\ (h = FALSE) <=> (k = Threshold)
  /\ k = Len(w) /\ k < Threshold => h = None

HealthOK == \A v \in ServiceIds : Counts(windows[v], errors[v], health[v])

StreamOK ==
  /\ stream \in Seq(StreamEvents) /\ streaming \in BOOLEAN
  /\ streaming \/ stream = <<>>

TabOK ==
  /\ path \in {"/login", "/register", "/dashboard"}
  /\ {token, me} \subseteq Users \cup {None}
  /\ {title, drawn} \subseteq Views \cup {None} /\ view \in Views
  /\ shown \in Readings \cup {None}
  /\ {behind, misled, strayed} \subseteq BOOLEAN

FlowsOK == flows \in Seq(Flows)

\* The flows without their order.
Waiting == Range(flows)

\* The page knows whose session it is, or a flow that asks is under way.
KnowsItsUser ==
  path = "/dashboard" /\ token # None =>
    me = token \/ misled \/ \E f \in Waiting : f.at = "me"

\* A flow that will draw the view chosen last, whatever becomes of it.
Coming(f) == f.at = "me" \/ (f.at = "load" /\ ~f.own)

ChosenIsComing ==
  \/ path # "/dashboard"
  \/ drawn = view /\ title = view
  \/ strayed
  \/ \E f \in Waiting : Coming(f)

\* What was read is what is cached, unless an update passed by.
ReadsAreLatest ==
  \A f \in Waiting : f.read /\ f.view = "metrics" /\ ~f.old => f.m = cache[Global]

\* The positions of the updates in the stream.
Updating == {k \in 1..Len(stream) : stream[k].type = "metrics.updated"}

\* What is shown is what is cached, or the last update in the stream will.
LatestIsComing ==
  /\ Updating = {} => shown = cache[Global] \/ behind
  /\ \A n \in Updating :
       (\A k \in Updating : k <= n) /\ stream[n].scope = Global => stream[n].m = cache[Global]

MetricsInv == MetricsOK /\ HealthOK
PageInv    == StreamOK /\ TabOK /\ FlowsOK /\ StreamNeedsSession
ReachInv   == KnowsItsUser /\ ChosenIsComing /\ ReadsAreLatest /\ LatestIsComing
IInv       == MetricsInv /\ PageInv /\ ReachInv

-----------------------------------------------------------------------------
(* Sequences, flows and the events of a reading. *)

Others(s, n) == {s[m] : m \in (1..Len(s)) \ {n}}

\* What taking n out of a sequence, with f in its place, leaves of its elements.
LEMMA Replacing ==
  ASSUME NEW S, NEW s \in Seq(S), NEW n \in 1..Len(s), NEW f \in Seq(S)
  PROVE  /\ SubSeq(s, 1, n - 1) \o f \o SubSeq(s, n + 1, Len(s)) \in Seq(S)
         /\ Range(SubSeq(s, 1, n - 1) \o f \o SubSeq(s, n + 1, Len(s))) =
              Others(s, n) \cup Range(f)
         /\ Range(s) = Others(s, n) \cup {s[n]}
<1> DEFINE a == SubSeq(s, 1, n - 1)
           b == SubSeq(s, n + 1, Len(s))
           rest == Others(s, n)
<1>1. \A m \in 1..Len(s) : s[m] \in S
  BY ElementOfSeq
<1>2. Len(s) \in Nat /\ n \in Int /\ n - 1 \in Int /\ n + 1 \in Int /\ Len(s) \in Int
  BY LenProperties
<1>3. a \in Seq(S) /\ Len(a) = n - 1 /\ \A m \in 1..(n - 1) : a[m] = s[m]
  <2>1. \A m \in 1..(n - 1) : s[m] \in S
    BY <1>1, <1>2
  <2> QED
    BY <1>2, <2>1, SubSeqProperties
<1>4. b \in Seq(S) /\ Len(b) = Len(s) - n /\ \A m \in 1..(Len(s) - n) : b[m] = s[n + m]
  <2>1. \A m \in (n + 1)..Len(s) : s[m] \in S
    BY <1>1, <1>2
  <2>2. /\ b \in Seq(S) /\ Len(b) = IF n + 1 <= Len(s) THEN Len(s) - (n + 1) + 1 ELSE 0
        /\ \A m \in 1..(Len(s) - (n + 1) + 1) : b[m] = s[n + 1 + m - 1]
    BY <1>2, <2>1, SubSeqProperties
  <2> HIDE DEF b
  <2> QED
    BY <1>2, <2>2
<1> HIDE DEF a, b
<1>5. a \o f \in Seq(S) /\ Range(a \o f) = Range(a) \cup Range(f)
  BY <1>3, ConcatProperties, RangeConcatenation
<1>6. (a \o f) \o b \in Seq(S) /\ Range((a \o f) \o b) = Range(a \o f) \cup Range(b)
  <2> DEFINE c == a \o f
  <2>1. c \in Seq(S)
    BY <1>5
  <2> HIDE DEF c
  <2>2. c \o b \in Seq(S) /\ Range(c \o b) = Range(c) \cup Range(b)
    BY <1>4, <2>1, ConcatProperties, RangeConcatenation
  <2> QED
    BY <2>2 DEF c
<1>7. Range(a) = {a[m] : m \in 1..(n - 1)} /\ Range(b) = {b[m] : m \in 1..(Len(s) - n)}
  BY <1>3, <1>4, RangeEquality
<1>8. Range(s) = {s[m] : m \in 1..Len(s)}
  BY RangeEquality
<1>9. rest = Range(a) \cup Range(b)
  <2> USE DEF Others
  <2>1. ASSUME NEW m \in (1..Len(s)) \ {n}
        PROVE  s[m] \in Range(a) \cup Range(b)
    <3>1. CASE m < n
      BY <1>2, <1>3, <1>7, <3>1
    <3>2. CASE m > n
      <4>1. m - n \in 1..(Len(s) - n) /\ b[m - n] = s[m]
        BY <1>2, <1>4, <3>2
      <4> QED
        BY <1>7, <4>1
    <3> QED
      BY <1>2, <3>1, <3>2
  <2>2. \A m \in 1..(n - 1) : a[m] \in rest
    BY <1>2, <1>3
  <2>3. ASSUME NEW m \in 1..(Len(s) - n)
        PROVE  b[m] \in rest
    <3>1. n + m \in (1..Len(s)) \ {n}
      BY <1>2
    <3> QED
      BY <1>4, <3>1
  <2> QED
    BY <1>7, <2>1, <2>2, <2>3
<1>10. /\ Range((a \o f) \o b) = rest \cup Range(f)
       /\ Range(s) = rest \cup {s[n]}
  <2>1. Range(s) = rest \cup {s[n]}
    BY <1>8 DEF Others
  <2> QED
    BY <1>5, <1>6, <1>9, <2>1
<1> HIDE DEF rest
<1> QED
  BY <1>6, <1>10 DEF a, b, rest

LEMMA Singles ==
  ASSUME NEW S, NEW e \in S
  PROVE  /\ <<e>> \in Seq(S) /\ Range(<<e>>) = {e} /\ Len(<<e>>) = 1
         /\ <<>> \in Seq(S) /\ Range(<<>>) = {}
<1>1. <<e>> \in Seq(S) /\ Len(<<e>>) = 1 /\ <<e>>[1] = e
  OBVIOUS
<1>2. <<>> \in Seq(S) /\ Len(<<>>) = 0
  BY EmptySeq
<1>3. Range(<<e>>) = {<<e>>[m] : m \in 1..1} /\ Range(<<>>) = {<<>>[m] : m \in 1..0}
  BY <1>1, <1>2, RangeEquality
<1> QED
  BY <1>1, <1>2, <1>3

\* One more element at the end.
LEMMA Adding ==
  ASSUME NEW S, NEW s \in Seq(S), NEW e \in S
  PROVE  Append(s, e) \in Seq(S) /\ Range(Append(s, e)) = Range(s) \cup {e}
<1> DEFINE l == <<e>>
<1>1. Append(s, e) = s \o l /\ l \in Seq(S) /\ Range(l) = {e}
  BY AppendIsConcat, Singles
<1> HIDE DEF l
<1>2. s \o l \in Seq(S) /\ Range(s \o l) = Range(s) \cup Range(l)
  BY <1>1, ConcatProperties, RangeConcatenation
<1> QED
  BY <1>1, <1>2

LEMMA FlowIsFlow ==
  ASSUME NEW at \in {"login", "me", "load", "submit"}, NEW u \in Users \cup {None},
         NEW v \in Views \cup {None}, NEW own \in BOOLEAN
  PROVE  /\ Flow(at, u, v, own) \in Flows
         /\ Flow(at, u, v, own).at = at /\ Flow(at, u, v, own).own = own
         /\ ~Flow(at, u, v, own).read
BY DEF Flow, Flows

\* The flows that wait, by position.
LEMMA WaitingByPosition ==
  FlowsOK => /\ Waiting = {flows[m] : m \in 1..Len(flows)}
             /\ Waiting \subseteq Flows /\ Len(flows) \in Nat
BY RangeEquality, RangeOfSeq, LenProperties DEF FlowsOK, Waiting

\* The latest windows after one more.
LEMMA LatestProperties ==
  ASSUME NEW w \in Seq(BOOLEAN), NEW b \in BOOLEAN, Len(w) <= Threshold
  PROVE  LET l == Latest(Append(w, b))
             d == IF Len(w) = Threshold THEN 1 ELSE 0 IN
         /\ l \in Seq(BOOLEAN)
         /\ Len(l) = Len(w) + 1 - d
         /\ \A n \in 1..Len(l) : l[n] = IF n = Len(l) THEN b ELSE w[n + d]
<1> DEFINE a == Append(w, b)
<1>1. /\ a \in Seq(BOOLEAN) /\ Len(a) = Len(w) + 1 /\ a # <<>>
      /\ (\A n \in 1..Len(w) : a[n] = w[n]) /\ a[Len(w) + 1] = b
  BY AppendProperties
<1>2. /\ Tail(a) \in Seq(BOOLEAN) /\ Len(Tail(a)) = Len(a) - 1
      /\ \A n \in 1..Len(Tail(a)) : Tail(a)[n] = a[n + 1]
  BY <1>1, HeadTailProperties
<1>3. Len(w) \in Nat /\ Threshold \in Nat
  BY LenProperties, ThresholdAssumption
<1>4. Latest(a) = IF Len(a) > Threshold THEN Tail(a) ELSE a
  BY DEF Latest
<1> HIDE DEF a
<1>5. CASE Len(w) = Threshold
  <2>1. Latest(a) = Tail(a)
    BY <1>1, <1>3, <1>4, <1>5
  <2> QED
    BY <1>1, <1>2, <1>3, <1>5, <2>1 DEF a
<1>6. CASE Len(w) # Threshold
  <2>1. Latest(a) = a
    BY <1>1, <1>3, <1>4, <1>6
  <2> QED
    BY <1>1, <1>3, <1>6, <2>1 DEF a
<1> QED
  BY <1>5, <1>6

\* One more window keeps the count.
LEMMA WindowCounts ==
  ASSUME NEW w \in Seq(BOOLEAN), NEW k \in 0..Threshold, NEW h \in BOOLEAN \cup {None},
         NEW b \in BOOLEAN, Counts(w, k, h)
  PROVE  LET count == IF b THEN k + 1 ELSE 0
             flips == IF b THEN count >= Threshold /\ h # FALSE ELSE h # TRUE IN
         Counts(Latest(Append(w, b)), IF count > Threshold THEN Threshold ELSE count,
                IF flips THEN ~b ELSE h)
<1> DEFINE l == Latest(Append(w, b))
           d == IF Len(w) = Threshold THEN 1 ELSE 0
<1>1. /\ l \in Seq(BOOLEAN)
      /\ Len(l) = Len(w) + 1 - d
      /\ \A n \in 1..Len(l) : l[n] = IF n = Len(l) THEN b ELSE w[n + d]
  BY LatestProperties DEF Counts
<1>2. Len(w) \in Nat /\ Threshold \in Nat \ {0} /\ Len(w) <= Threshold /\ k <= Len(w)
  BY LenProperties, ThresholdAssumption DEF Counts
<1> HIDE DEF l
<1>3. CASE b = FALSE
  <2>1. Counts(l, 0, TRUE)
    BY <1>1, <1>2, <1>3 DEF Counts
  <2>2. (IF h # TRUE THEN ~b ELSE h) = TRUE
    BY <1>3
  <2>3. ~(0 > Threshold)
    BY <1>2
  <2> QED
    BY <1>3, <2>1, <2>2, <2>3, Zenon DEF l
<1>4. CASE b = TRUE

  <2> DEFINE c == IF k + 1 > Threshold THEN Threshold ELSE k + 1
  <2>1. c <= Len(l) /\ Len(l) <= Threshold
    BY <1>1, <1>2
  <2>2. \A n \in 1..Len(l) : n > Len(l) - c => l[n]
    <3>1. SUFFICES ASSUME NEW n \in 1..Len(l), n > Len(l) - c, n # Len(l)
                   PROVE  l[n]
      BY <1>1, <1>4
    <3>2. n + d \in 1..Len(w) /\ n + d > Len(w) - k
      BY <1>1, <1>2, <3>1
    <3> QED
      BY <1>1, <3>1, <3>2 DEF Counts
  <2>3. c < Len(l) => ~l[Len(l) - c]
    <3>1. SUFFICES ASSUME c < Len(l)
                   PROVE  ~l[Len(l) - c]
      OBVIOUS
    <3>2. c = k + 1 /\ k < Len(w) /\ Len(l) - c + d = Len(w) - k
      BY <1>1, <1>2, <3>1
    <3>3. Len(l) - c \in 1..Len(l) /\ Len(l) - c # Len(l)
      BY <1>1, <1>2, <3>1, <3>2
    <3>4. l[Len(l) - c] = w[Len(l) - c + d]
      BY <1>1, <3>3, Zenon
    <3>5. l[Len(l) - c] = w[Len(w) - k]
      BY <3>2, <3>4, Zenon
    <3> QED
      BY <3>2, <3>5 DEF Counts
  <2>4. CASE k + 1 >= Threshold
    <3>1. c = Threshold
      BY <1>2, <2>4
    <3>2. Counts(l, c, FALSE)
      BY <1>2, <2>1, <2>2, <2>3, <3>1 DEF Counts
    <3> QED
      BY <1>2, <1>4, <2>4, <3>1, <3>2, NoneAssumption DEF l
  <2>5. CASE k + 1 < Threshold
    <3>1. c = k + 1 /\ c # Threshold /\ k # Threshold
      BY <1>2, <2>5
    <3>2. c = Len(l) => k = Len(w)
      BY <1>1, <1>2, <3>1
    <3>3. Counts(l, c, h)
      BY <1>2, <2>1, <2>2, <2>3, <2>5, <3>1, <3>2 DEF Counts
    <3>4. ~(k + 1 >= Threshold) /\ ~(k + 1 > Threshold)
      BY <1>2, <2>5
    <3> QED
      BY <1>4, <3>1, <3>3, <3>4, Zenon DEF l
  <2>6. k + 1 >= Threshold \/ k + 1 < Threshold
    BY <1>2
  <2> QED
    BY <2>4, <2>5, <2>6, Zenon

<1> QED
  BY <1>3, <1>4

\* Up to two events, the first of one kind and the second of the other.
LEMMA TwoEvents ==
  ASSUME NEW S, NEW x \in S, NEW y \in S, NEW p \in BOOLEAN, NEW q \in BOOLEAN
  PROVE  LET l == (IF p THEN <<x>> ELSE <<>>) \o (IF q THEN <<y>> ELSE <<>>) IN
         /\ l \in Seq(S) /\ Len(l) \in Nat
         /\ q => Len(l) >= 1 /\ l[Len(l)] = y
         /\ \A k \in 1..Len(l) : (p /\ l[k] = x) \/ (q /\ l[k] = y)
<1>1. /\ <<x>> \in Seq(S) /\ Len(<<x>>) = 1 /\ <<x>>[1] = x
      /\ <<y>> \in Seq(S) /\ Len(<<y>>) = 1 /\ <<y>>[1] = y
      /\ <<>> \in Seq(S) /\ Len(<<>>) = 0
  BY Singles
<1> DEFINE e == <<>>
           a == <<x>>
           b == <<y>>
<1> HIDE DEF e, a, b
<1>2. /\ a \in Seq(S) /\ Len(a) = 1 /\ a[1] = x
      /\ b \in Seq(S) /\ Len(b) = 1 /\ b[1] = y
      /\ e \in Seq(S) /\ Len(e) = 0
  BY <1>1 DEF a, b, e
<1>3. ASSUME NEW s \in Seq(S), NEW t \in Seq(S)
      PROVE  /\ s \o t \in Seq(S)
             /\ Len(s \o t) = Len(s) + Len(t)
             /\ \A i \in 1..(Len(s) + Len(t)) :
                  (s \o t)[i] = IF i <= Len(s) THEN s[i] ELSE t[i - Len(s)]
  BY ConcatProperties
<1>4. CASE p /\ q
  <2>1. /\ a \o b \in Seq(S)
        /\ Len(a \o b) = Len(a) + Len(b)
        /\ \A i \in 1..(Len(a) + Len(b)) :
             (a \o b)[i] = IF i <= Len(a) THEN a[i] ELSE b[i - Len(a)]
    BY <1>2, <1>3
  <2> DEFINE ab == a \o b
  <2> HIDE DEF ab
  <2>2. ab \in Seq(S) /\ Len(ab) = 2 /\ ab[1] = x /\ ab[2] = y
    BY <1>2, <2>1 DEF ab
  <2>3. \A k \in 1..Len(ab) : k = 1 \/ k = 2
    BY <2>2
  <2> QED
    BY <1>4, <2>2, <2>3 DEF a, b, ab
<1>5. CASE p /\ ~q
  <2>1. a \o e \in Seq(S) /\ Len(a \o e) = 1 /\ (a \o e)[1] = x
    BY <1>2, <1>3
  <2> QED
    BY <1>5, <2>1 DEF a, e
<1>6. CASE ~p /\ q
  <2>1. e \o b \in Seq(S) /\ Len(e \o b) = 1 /\ (e \o b)[1] = y
    BY <1>2, <1>3
  <2> QED
    BY <1>6, <2>1 DEF b, e
<1>7. CASE ~p /\ ~q
  <2>1. e \o e \in Seq(S) /\ Len(e \o e) = 0
    BY <1>2, <1>3
  <2> QED
    BY <1>7, <2>1 DEF e
<1> QED
  BY <1>4, <1>5, <1>6, <1>7

\* A reading that differs from the cached one ends its events with its
\* update; another has no update.
LEMMA EventsProperties ==
  ASSUME NEW s \in AllScopes, NEW m \in Readings
  PROVE  /\ EventsOf(s, m) \in Seq(StreamEvents) /\ Len(EventsOf(s, m)) \in Nat
         /\ \A k \in 1..Len(EventsOf(s, m)) : EventsOf(s, m)[k].scope = s
         /\ cache[s] = None \/ cache[s] # m =>
              /\ Len(EventsOf(s, m)) >= 1
              /\ EventsOf(s, m)[Len(EventsOf(s, m))].type = "metrics.updated"
              /\ EventsOf(s, m)[Len(EventsOf(s, m))].m = m
         /\ ~(cache[s] = None \/ cache[s] # m) =>
              \A k \in 1..Len(EventsOf(s, m)) : EventsOf(s, m)[k].type # "metrics.updated"
<1> DEFINE x == [type |-> "health.changed", scope |-> s, m |-> m]
           y == [type |-> "metrics.updated", scope |-> s, m |-> m]
           flip == s.service # "global" /\ CountWindow(s.service, m.bad).flips
           changed == cache[s] = None \/ HasMetricsChanged(cache[s], m)
           p == IF flip THEN TRUE ELSE FALSE
           q == IF changed THEN TRUE ELSE FALSE
           l == (IF p THEN <<x>> ELSE <<>>) \o (IF q THEN <<y>> ELSE <<>>)
<1>1. EventsOf(s, m) = l
  BY DEF EventsOf
<1>2. x \in StreamEvents /\ y \in StreamEvents
  BY DEF StreamEvents
<1>3. p \in BOOLEAN /\ q \in BOOLEAN /\ (q <=> (cache[s] = None \/ cache[s] # m))
  BY DEF HasMetricsChanged
<1>4. /\ x.type = "health.changed" /\ x.scope = s
      /\ y.type = "metrics.updated" /\ y.scope = s /\ y.m = m
  OBVIOUS
<1> HIDE DEF x, y, p, q
<1>5. /\ l \in Seq(StreamEvents) /\ Len(l) \in Nat
      /\ q => Len(l) >= 1 /\ l[Len(l)] = y
      /\ \A k \in 1..Len(l) : (p /\ l[k] = x) \/ (q /\ l[k] = y)
  BY <1>2, <1>3, TwoEvents
<1> HIDE DEF l
<1> QED
  BY <1>1, <1>3, <1>4, <1>5

-----------------------------------------------------------------------------
(* The metrics. *)

LEMMA ScopeProperties ==
  /\ Global \in AllScopes
  /\ \A s \in AllScopes : s.service \in ServiceIds
BY DEF AllScopes, ServiceIds

LEMMA MetricsInitially == MetricsInit => MetricsInv
<1> SUFFICES ASSUME MetricsInit
             PROVE  MetricsInv
  OBVIOUS
<1>1. scopes \in Seq(AllScopes) /\ scopes # <<>>
  BY ScopeProperties, Singles DEF MetricsInit
<1>2. <<>> \in Seq(AllScopes) /\ <<>> \in Seq(BOOLEAN) /\ Len(<<>>) = 0
  BY EmptySeq
<1>3. MetricsOK
  BY <1>1, <1>2, ThresholdAssumption DEF MetricsInit, MetricsOK
<1>4. Counts(<<>>, 0, None)
  <2>1. None # FALSE
    BY NoneAssumption, Zenon
  <2> DEFINE w
 == <<>>
  <2>3. Len(w) = 0
    BY <1>2
  <2> HIDE DEF w
  <2>4. /\ 0 # Threshold /\ 0 <= Len(w) /\ Len(w) <= Threshold /\ ~(0 < Len(w))
        /\ 1..Len(w) = {}
    BY <2>3, ThresholdAssumption
  <2>5. Counts(w, 0, None)
    BY <2>1, <2>4, Zenon DEF Counts
  <2> QED
    BY <2>5 DEF w

<1> QED
  BY <1>3, <1>4 DEF MetricsInit, MetricsInv, HealthOK

LEMMA UpdateKeepsMetrics ==
  ASSUME MetricsInv, NEW v \in ServiceIds, NEW b \in BOOLEAN, UpdateServiceHealth(v, b)
  PROVE  /\ errors' \in [ServiceIds -> 0..Threshold]
         /\ health' \in [ServiceIds -> BOOLEAN \cup {None}]
         /\ windows' \in [ServiceIds -> Seq(BOOLEAN)]
         /\ HealthOK'
<1>1. CASE v = "global"
  BY <1>1 DEF UpdateServiceHealth, MetricsInv, MetricsOK, HealthOK
<1>2. CASE v # "global"
  <2> DEFINE count == IF b THEN errors[v] + 1 ELSE 0
             flips == IF b THEN count >= Threshold /\ health[v] # FALSE ELSE health[v] # TRUE
             e == IF count > Threshold THEN Threshold ELSE count
             h == IF flips THEN ~b ELSE health[v]
             w == Latest(Append(windows[v], b))
  <2>1. /\ errors' = [errors EXCEPT ![v] = e]
        /\ health' = [health EXCEPT ![v] = h]
        /\ windows' = [windows EXCEPT ![v] = w]
    BY <1>2 DEF UpdateServiceHealth, CountWindow
  <2>2. /\ windows[v] \in Seq(BOOLEAN) /\ errors[v] \in 0..Threshold
        /\ health[v] \in BOOLEAN \cup {None} /\ Counts(windows[v], errors[v], health[v])
    BY DEF MetricsInv, MetricsOK, HealthOK
  <2>3. Counts(w, e, h)
    BY <2>2, WindowCounts
  <2>4. w \in Seq(BOOLEAN) /\ e \in 0..Threshold /\ h \in BOOLEAN \cup {None}
    <3>1. w \in Seq(BOOLEAN)
      BY <2>2, LatestProperties DEF Counts
    <3>2. e \in 0..Threshold
      BY <2>2, ThresholdAssumption
    <3>3. h \in BOOLEAN \cup {None}
      BY <2>2
    <3> QED
      BY <3>1, <3>2, <3>3
  <2> HIDE DEF w, e, h
  <2>5. /\ errors' \in [ServiceIds -> 0..Threshold]
        /\ health' \in [ServiceIds -> BOOLEAN \cup {None}]
        /\ windows' \in [ServiceIds -> Seq(BOOLEAN)]
    BY <2>1, <2>4 DEF MetricsInv, MetricsOK
  <2>6. ASSUME NEW u \in ServiceIds
        PROVE  Counts(windows'[u], errors'[u], health'[u])
    BY <2>1, <2>3 DEF MetricsInv, MetricsOK, HealthOK
  <2> QED
    BY <2>5, <2>6 DEF HealthOK
<1> QED
  BY <1>1, <1>2

LEMMA AnswerKeepsMetrics ==
  ASSUME MetricsInv, NEW p \in Polls, NEW m \in Readings, Answer(p, m)
  PROVE  MetricsInv' /\ Head(polls[p]) \in AllScopes
<1> DEFINE s == Head(polls[p])
<1>1. s \in AllScopes /\ Tail(polls[p]) \in Seq(AllScopes)
  BY HeadTailProperties DEF MetricsInv, MetricsOK, Answer
<1>2. s.service \in ServiceIds /\ m.bad \in BOOLEAN
  BY <1>1, ScopeProperties DEF Readings
<1>3. UpdateServiceHealth(s.service, m.bad)
  BY DEF Answer
<1> HIDE DEF s
<1>4. /\ errors' \in [ServiceIds -> 0..Threshold]
      /\ health' \in [ServiceIds -> BOOLEAN \cup {None}]
      /\ windows' \in [ServiceIds -> Seq(BOOLEAN)]
      /\ HealthOK'
  BY <1>2, <1>3, UpdateKeepsMetrics
<1>5. /\ scopes' = scopes /\ polls' = [polls EXCEPT ![p] = Tail(@)]
      /\ cache' = [cache EXCEPT ![s] = m]
  BY DEF Answer, s
<1>6. polls' \in [Polls -> Seq(AllScopes)] /\ cache' \in [AllScopes -> Readings \cup {None}]
  BY <1>1, <1>5 DEF MetricsInv, MetricsOK
<1> QED
  BY <1>1, <1>4, <1>5, <1>6 DEF MetricsInv, MetricsOK, s

LEMMA ScopesKeepMetrics ==
  ASSUME MetricsInv, SetScopes \/ \E p \in Polls : StartPoll(p)
  PROVE  MetricsInv'
<1>1. CASE SetScopes
  <2>1. PICK L \in ScopeLists : scopes' = IF L = <<>> THEN <<Global>> ELSE L
    BY <1>1 DEF SetScopes
  <2>2. scopes' \in Seq(AllScopes) /\ scopes' # <<>>
    <3>1. <<Global>> \in Seq(AllScopes) /\ <<Global>> # <<>>
      BY ScopeProperties, Singles
    <3> QED
      BY <2>1, <3>1, ScopesAssumption
  <2> QED
    BY <1>1, <2>2 DEF SetScopes, MetricsInv, MetricsOK, HealthOK
<1>2. ASSUME NEW p \in Polls, StartPoll(p)
      PROVE  MetricsInv'
  BY <1>2 DEF StartPoll, MetricsInv, MetricsOK, HealthOK
<1> QED
  BY <1>1, <1>2

-----------------------------------------------------------------------------
(* Parts of the steps of the page. *)

LEMMA MetricsKept ==
  ASSUME MetricsInv, UNCHANGED <<scopes, polls, cache, errors, health, windows>>
  PROVE  MetricsInv'
BY DEF MetricsInv, MetricsOK, HealthOK

\* What is on its way is lost: the page falls behind if there was something.
LEMMA StreamLost ==
  ASSUME StreamOK, LatestIsComing, stream' = <<>>, streaming' \in BOOLEAN,
         cache' = cache, shown' = shown, stream # <<>> => behind' = TRUE,
         stream = <<>> => behind' = behind
  PROVE  StreamOK' /\ LatestIsComing'
<1>1. <<>> \in Seq(StreamEvents) /\ Len(<<>>) = 0
  BY EmptySeq
<1>2. StreamOK' /\ Updating' = {}
  BY <1>1 DEF StreamOK, Updating
<1>3. stream = <<>> => Updating = {}
  BY <1>1 DEF Updating
<1> QED
  BY <1>2, <1>3 DEF LatestIsComing

LEMMA StreamClosed ==
  ASSUME StreamOK, TabOK, LatestIsComing, StopMetricsSse, cache' = cache, shown' = shown
  PROVE  /\ StreamOK' /\ LatestIsComing'
         /\ streaming' = FALSE /\ behind' \in BOOLEAN
<1>1. streaming' = FALSE /\ stream' = <<>> /\ behind' = (behind \/ stream # <<>>)
  BY DEF StopMetricsSse
<1>2. behind \in BOOLEAN
  BY DEF TabOK
<1>3. stream # <<>> => behind' = TRUE
  BY <1>1
<1>4. stream = <<>> => behind' = behind
  BY <1>1, <1>2
<1> QED
  BY <1>1, <1>2, <1>3, <1>4, StreamLost

LEMMA Rendered ==
  ASSUME StreamOK, TabOK, LatestIsComing,
         NEW p \in {"/login", "/register", "/dashboard"}, Render(p),
         cache' = cache, shown' = shown
  PROVE  /\ path' \in {"/login", "/register", "/dashboard"}
         /\ p # "/dashboard" => path' # "/dashboard"
         /\ title' = None /\ drawn' = None /\ behind' \in BOOLEAN
         /\ StreamOK' /\ StreamNeedsSession' /\ LatestIsComing'
         /\ \/ path' # "/dashboard" /\ BootFlow(p) = <<>>
            \/ path' = "/dashboard" /\ BootFlow(p) = <<Flow("me", token', None, FALSE)>>
<1>1. /\ path' = Shows(p) /\ path' \in {"/login", "/register", "/dashboard"}
      /\ p # "/dashboard" => path' # "/dashboard"
      /\ path' = "/dashboard" => token' # None
      /\ title' = None /\ drawn' = None
  BY DEF Render, Shows
<1>2. CASE path' = "/dashboard"
  <2>1. streaming' = TRUE /\ stream' = stream /\ behind' = behind
    BY <1>1, <1>2 DEF Render
  <2>2. StreamOK' /\ LatestIsComing'
    BY <2>1 DEF StreamOK, LatestIsComing, Updating
  <2>3. BootFlow(p) = <<Flow("me", token', None, FALSE)>>
    BY <1>1, <1>2 DEF BootFlow
  <2> QED
    BY <1>1, <1>2, <2>1, <2>2, <2>3 DEF TabOK, StreamNeedsSession
<1>3. CASE path' # "/dashboard"
  <2>1. StopMetricsSse
    BY <1>1, <1>3 DEF Render
  <2>2. BootFlow(p) = <<>>
    BY <1>1, <1>3 DEF BootFlow
  <2> QED
    BY <1>1, <1>3, <2>1, <2>2, StreamClosed DEF StreamNeedsSession
<1> QED
  BY <1>2, <1>3

\* A handler that ends leaves the view chosen last, or a history of strayed.
LEMMA Drawn ==
  ASSUME TabOK, \E f \in Flows : Draw(f), path' = path, view' = view
  PROVE  /\ {title', drawn'} \subseteq Views \cup {None} /\ strayed' \in BOOLEAN
         /\ ChosenIsComing'
<1>1. PICK f \in Flows : Draw(f)
  OBVIOUS
<1>2. f.own \in BOOLEAN /\ f.view \in Views \cup {None}
  BY DEF Flows
<1>3. CASE path # "/dashboard"
  BY <1>1, <1>3 DEF Draw, TabOK, ChosenIsComing
<1>4. CASE path = "/dashboard" /\ f.own
  <2>1. /\ drawn' = f.view /\ title' = title
        /\ strayed' = (f.view # view \/ title # view)
    BY <1>1, <1>4 DEF Draw
  <2> QED
    BY <1>2, <2>1 DEF TabOK, ChosenIsComing
<1>5. CASE path = "/dashboard" /\ ~f.own
  <2>1. drawn' = view /\ title' = view /\ strayed' = FALSE
    BY <1>1, <1>5 DEF Draw
  <2> QED
    BY <2>1 DEF TabOK, ChosenIsComing
<1> QED
  BY <1>3, <1>4, <1>5

\* Where only the flows change, a flow that draws what was chosen goes on
\* waiting, and what is read is what is cached.
LEMMA OnlyFlows ==
  ASSUME IInv, FlowsOK', UNCHANGED <<metrics, streaming, tab, histories>>,
         \A f \in Waiting : f.at \in {"me", "load"} =>
            \E g \in Waiting' : g.at = f.at /\ g.own = f.own,
         \A g \in Waiting' : g.read /\ g.view = "metrics" =>
            g \in Waiting \/ g.m = cache[Global]
  PROVE  IInv'
<1> USE DEF metrics, tab, histories
<1>1. MetricsInv'
  BY MetricsKept DEF IInv
<1>2. PageInv'
  BY DEF IInv, PageInv, StreamOK, TabOK, StreamNeedsSession
<1>3. KnowsItsUser'
  BY DEF IInv, ReachInv, KnowsItsUser
<1>4. ChosenIsComing'
  BY DEF IInv, ReachInv, ChosenIsComing, Coming
<1>5. ReadsAreLatest'
  BY DEF IInv, ReachInv, ReadsAreLatest
<1>6. LatestIsComing'
  BY DEF IInv, ReachInv, LatestIsComing, Updating
<1> QED
  BY <1>1, <1>2, <1>3, <1>4, <1>5, <1>6 DEF IInv, ReachInv

\* Flow n is gone, and in its place are those of f.
LEMMA FlowGoesOn ==
  ASSUME FlowsOK, NEW n \in 1..Len(flows), NEW f \in Seq(Flows)
  PROVE  GoOn(n, f) =>
           /\ FlowsOK'
           /\ \E rest : Waiting = rest \cup {flows[n]} /\ Waiting' = rest \cup Range(f)
<1>1. SUFFICES ASSUME GoOn(n, f)
               PROVE  /\ FlowsOK'
                      /\ \E rest : Waiting = rest \cup {flows[n]}
                                   /\ Waiting' = rest \cup Range(f)
  OBVIOUS
<1> DEFINE t == SubSeq(flows, 1, n - 1) \o f \o SubSeq(flows, n + 1, Len(flows))
<1>2. /\ t \in Seq(Flows)
      /\ \E rest : Range(t) = rest \cup Range(f) /\ Range(flows) = rest \cup {flows[n]}
  <2>1. flows \in Seq(Flows)
    BY DEF FlowsOK
  <2>2. t \in Seq(Flows)
    BY <2>1, Replacing
  <2>3. /\ Range(t) = Others(flows, n) \cup Range(f)
        /\ Range(flows) = Others(flows, n) \cup {flows[n]}
    BY <2>1, Replacing
  <2> QED
    BY <2>2, <2>3
<1>3. flows' = t
  BY <1>1 DEF GoOn
<1> HIDE DEF t
<1>4. \E rest : Waiting = rest \cup {flows[n]} /\ Waiting' = rest \cup Range(f)
  BY <1>2, <1>3 DEF Waiting
<1> QED
  BY <1>2, <1>3, <1>4 DEF FlowsOK

-----------------------------------------------------------------------------
(* What the user does. *)

LEMMA LoginIsSent ==
  ASSUME IInv, \E u \in Users : SubmitLogin(u) \/ SubmitRegister(u)
  PROVE  IInv'
<1>1. PICK u \in Users : SubmitLogin(u) \/ SubmitRegister(u)
  OBVIOUS
<1> DEFINE f == Flow("login", u, None, FALSE)
<1>2. f \in Flows /\ f.at = "login" /\ ~f.read
  BY FlowIsFlow
<1>3. /\ flows' = Append(flows, f)
      /\ UNCHANGED <<metrics, streaming, tab, histories>>
  BY <1>1 DEF SubmitLogin, SubmitRegister, Begin
<1> HIDE DEF f
<1>4. FlowsOK' /\ Waiting' = Waiting \cup {f}
  BY <1>2, <1>3, Adding DEF IInv, PageInv, FlowsOK, Waiting
<1> QED
  BY <1>2, <1>3, <1>4, OnlyFlows

LEMMA FormIsSent ==
  ASSUME IInv, \E v \in FormViews : SubmitForm(v)
  PROVE  IInv'
<1>1. PICK v \in FormViews : SubmitForm(v)
  OBVIOUS
<1> DEFINE f == Flow("submit", token, v, TRUE)
<1>2. f \in Flows /\ f.at = "submit" /\ ~f.read
  <2>1. token \in Users \cup {None} /\ v \in Views \cup {None}
    BY ViewsAssumption DEF IInv, PageInv, TabOK
  <2> QED
    BY <2>1, FlowIsFlow
<1>3. /\ flows' = Append(flows, f)
      /\ UNCHANGED <<metrics, streaming, tab, histories>>
  BY <1>1 DEF SubmitForm, Begin
<1> HIDE DEF f
<1>4. FlowsOK' /\ Waiting' = Waiting \cup {f}
  BY <1>2, <1>3, Adding DEF IInv, PageInv, FlowsOK, Waiting
<1> QED
  BY <1>2, <1>3, <1>4, OnlyFlows

\* The chosen view is another, and a flow comes that draws it.
LEMMA ViewIsChosen ==
  ASSUME IInv, \E v \in Views : ClickView(v)
  PROVE  IInv'
<1>1. PICK v \in Views : ClickView(v)
  OBVIOUS
<1> DEFINE f == Flow("load", token, v, FALSE)
<1>2. f \in Flows /\ f.at = "load" /\ ~f.own /\ ~f.read
  <2>1. token \in Users \cup {None} /\ v \in Views \cup {None}
    BY DEF IInv, PageInv, TabOK
  <2> QED
    BY <2>1, FlowIsFlow
<1>3. /\ flows' = Append(flows, f) /\ view' = v
      /\ UNCHANGED <<metrics, streaming, path, token, me, title, drawn, shown, histories>>
  BY <1>1 DEF ClickView, Begin
<1> HIDE DEF f
<1>4. FlowsOK' /\ Waiting' = Waiting \cup {f}
  BY <1>2, <1>3, Adding DEF IInv, PageInv, FlowsOK, Waiting
<1>5. MetricsInv'
  BY <1>3, MetricsKept DEF IInv, metrics
<1>6. PageInv'
  BY <1>3, <1>4 DEF IInv, PageInv, StreamOK, TabOK, StreamNeedsSession, metrics, histories
<1>7. KnowsItsUser'
  BY <1>3, <1>4 DEF IInv, ReachInv, KnowsItsUser, histories
<1>8. ChosenIsComing'
  BY <1>2, <1>4 DEF ChosenIsComing, Coming
<1>9. ReadsAreLatest'
  BY <1>2, <1>3, <1>4 DEF IInv, ReachInv, ReadsAreLatest, metrics
<1>10. LatestIsComing'
  BY <1>3 DEF IInv, ReachInv, LatestIsComing, Updating, metrics, histories
<1> QED
  BY <1>5, <1>6, <1>7, <1>8, <1>9, <1>10 DEF IInv, ReachInv

\* What is common to the steps that render another path: b flows are added
\* or take the place of another, so that the dashboard asks who is signed in.
LEMMA AnotherPath ==
  ASSUME IInv, UNCHANGED <<scopes, polls, cache, errors, health, windows>>,
         UNCHANGED <<view, shown, misled>>, strayed' = strayed, me' = me,
         token' \in Users \cup {None}, FlowsOK',
         \E p \in {"/login", "/register", "/dashboard"} : Render(p),
         path' = "/dashboard" => \E f \in Waiting' : f.at = "me",
         \A f \in Waiting' : f.read => f \in Waiting
  PROVE  IInv'
<1>1. PICK p \in {"/login", "/register", "/dashboard"} : Render(p)
  OBVIOUS
<1>2. StreamOK /\ TabOK /\ LatestIsComing
  BY DEF IInv, PageInv, ReachInv
<1>3. /\ path' \in {"/login", "/register", "/dashboard"}
      /\ title' = None /\ drawn' = None /\ behind' \in BOOLEAN
      /\ StreamOK' /\ StreamNeedsSession' /\ LatestIsComing'
  BY <1>1, <1>2, Rendered
<1>4. MetricsInv'
  BY MetricsKept DEF IInv
<1>5. PageInv'
  BY <1>2, <1>3 DEF PageInv, TabOK
<1>6. KnowsItsUser' /\ ChosenIsComing'
  BY DEF KnowsItsUser, ChosenIsComing, Coming
<1>7. ReadsAreLatest'
  BY DEF IInv, ReachInv, ReadsAreLatest
<1> QED
  BY <1>3, <1>4, <1>5, <1>6, <1>7 DEF IInv, ReachInv

LEMMA PathIsChosen ==
  ASSUME IInv, \E p \in {"/login", "/register", "/dashboard"} : GoTo(p)
  PROVE  IInv'
<1>1. PICK p \in {"/login", "/register", "/dashboard"} : GoTo(p)
  OBVIOUS
<1>2. /\ UNCHANGED <<token, me, view, shown>> /\ Render(p)
      /\ flows' = flows \o BootFlow(p)
      /\ UNCHANGED <<scopes, polls, cache, errors, health, windows, misled, strayed>>
  BY <1>1 DEF GoTo
<1>3. StreamOK /\ TabOK /\ LatestIsComing /\ FlowsOK
  BY DEF IInv, PageInv, ReachInv
<1>4. \/ path' # "/dashboard" /\ BootFlow(p) = <<>>
      \/ path' = "/dashboard" /\ BootFlow(p) = <<Flow("me", token', None, FALSE)>>
  BY <1>2, <1>3, Rendered
<1>5. token' \in Users \cup {None}
  BY <1>2, <1>3 DEF TabOK
<1>6. /\ FlowsOK'
      /\ path' = "/dashboard" => \E f \in Waiting' : f.at = "me"
      /\ \A f \in Waiting' : f.read => f \in Waiting
  <2> DEFINE f == Flow("me", token', None, FALSE)
             b == BootFlow(p)
  <2>1. f \in Flows /\ f.at = "me" /\ ~f.read
    BY <1>5, FlowIsFlow
  <2> HIDE DEF f
  <2>2. /\ <<f>> \in Seq(Flows) /\ Range(<<f>>) = {f}
        /\ <<>> \in Seq(Flows) /\ Range(<<>>) = {}
    BY <2>1, Singles
  <2>3. /\ b \in Seq(Flows)
        /\ path' # "/dashboard" => Range(b) = {}
        /\ path' = "/dashboard" => Range(b) = {f}
    BY <1>4, <2>2 DEF f
  <2> HIDE DEF b
  <2>4. flows' = flows \o b
    BY <1>2 DEF b
  <2>5. flows \o b \in Seq(Flows) /\ Range(flows \o b) = Range(flows) \cup Range(b)
    BY <1>3, <2>3, ConcatProperties, RangeConcatenation DEF FlowsOK
  <2>6. FlowsOK' /\ Waiting' = Waiting \cup Range(b)
    BY <2>4, <2>5 DEF FlowsOK, Waiting
  <2> QED
    BY <2>1, <2>3, <2>6
<1> QED
  BY <1>2, <1>5, <1>6, AnotherPath

LEMMA LoggedOut ==
  ASSUME IInv, ClickLogout
  PROVE  IInv'
<1>1. /\ token' = None /\ Render("/login")
      /\ UNCHANGED <<scopes, polls, cache, errors, health, windows, me, view, shown,
                     flows, misled, strayed>>
  BY DEF ClickLogout
<1>2. path' # "/dashboard"
  BY <1>1, Rendered DEF IInv, PageInv, ReachInv
<1>3. FlowsOK' /\ Waiting' = Waiting
  BY <1>1 DEF IInv, PageInv, FlowsOK, Waiting
<1> QED
  BY <1>1, <1>2, <1>3, AnotherPath

LEMMA UserActs ==
  ASSUME IInv, User
  PROVE  IInv'
<1>1. CASE \E u \in Users : SubmitLogin(u) \/ SubmitRegister(u)
  BY <1>1, LoginIsSent
<1>2. CASE \E p \in {"/login", "/register", "/dashboard"} : GoTo(p)
  BY <1>2, PathIsChosen
<1>3. CASE (\E v \in Views : ClickView(v)) \/ ClickRefresh
  <2>1. view \in Views
    BY DEF IInv, PageInv, TabOK
  <2>2. ClickRefresh => \E v \in Views : ClickView(v)
    BY <2>1 DEF ClickRefresh
  <2> QED
    BY <1>3, <2>2, ViewIsChosen
<1>4. CASE ClickLogout
  BY <1>4, LoggedOut
<1>5. CASE \E v \in FormViews : SubmitForm(v)
  BY <1>5, FormIsSent
<1> QED
  BY <1>1, <1>2, <1>3, <1>4, <1>5 DEF User

-----------------------------------------------------------------------------
(* Answers. *)

\* Flow n is another one now.
LEMMA FlowChanges ==
  ASSUME NEW s \in Seq(Flows), NEW n \in 1..Len(s), NEW g \in Flows
  PROVE  /\ [s EXCEPT ![n] = g] \in Seq(Flows)
         /\ Range([s EXCEPT ![n] = g]) = Others(s, n) \cup {g}
         /\ Range(s) = Others(s, n) \cup {s[n]}
<1> DEFINE t == [s EXCEPT ![n] = g]
<1>1. s \in [1..Len(s) -> Flows] /\ Len(s) \in Nat
  BY LenProperties
<1>2. /\ t \in Seq(Flows) /\ Len(t) = Len(s)
      /\ t[n] = g /\ \A m \in (1..Len(s)) \ {n} : t[m] = s[m]
  BY <1>1
<1> HIDE DEF t
<1>3. Range(t) = {t[m] : m \in 1..Len(s)} /\ Range(s) = {s[m] : m \in 1..Len(s)}
  BY <1>2, RangeEquality
<1> QED
  BY <1>2, <1>3 DEF Others, t

LEMMA FlowN ==
  ASSUME FlowsOK, NEW n \in 1..Len(flows)
  PROVE  flows[n] \in Flows /\ flows[n] \in Waiting
BY WaitingByPosition DEF FlowsOK

LEMMA RequestIsRead ==
  ASSUME IInv, NEW n \in 1..Len(flows), Serve(n)
  PROVE  IInv'
<1> DEFINE f == flows[n]
           d == IF f.at # "login" /\ f.user \in expired \cup {None} THEN TRUE ELSE FALSE
           g == [f EXCEPT !.read = TRUE, !.denied = d,
                          !.m = IF f.view = "metrics" THEN cache[Global] ELSE None]
<1>1. FlowsOK /\ cache[Global] \in Readings \cup {None}
  BY ScopeProperties DEF IInv, MetricsInv, MetricsOK, PageInv
<1>2. f \in Flows /\ f \in Waiting
  BY <1>1, FlowN
<1>3. /\ g \in Flows /\ g.at = f.at /\ g.own = f.own
      /\ g.view = "metrics" => g.m = cache[Global]
  BY <1>1, <1>2 DEF Flows
<1>4. /\ flows' = [flows EXCEPT ![n] = g]
      /\ UNCHANGED <<metrics, streaming, tab, histories>>
  <2>1. d = (f.at # "login" /\ f.user \in expired \cup {None})
    OBVIOUS
  <2> QED
    BY <2>1, <1>2 DEF Serve, Flows
<1> HIDE DEF g
<1>5. FlowsOK' /\ Waiting' = Others(flows, n) \cup {g} /\ Waiting = Others(flows, n) \cup {f}
  <2> DEFINE t == [flows EXCEPT ![n] = g]
  <2>1. flows \in Seq(Flows) /\ g \in Flows
    BY <1>1, <1>3 DEF FlowsOK
  <2>2. /\ t \in Seq(Flows) /\ Range(t) = Others(flows, n) \cup {g}
        /\ Range(flows) = Others(flows, n) \cup {flows[n]}
    BY <2>1, FlowChanges
  <2>3. flows' = t
    BY <1>4
  <2> HIDE DEF t
  <2> QED
    BY <2>2, <2>3 DEF FlowsOK, Waiting
<1> HIDE DEF f
<1> QED
  BY <1>3, <1>4, <1>5, OnlyFlows

LEMMA LoginIsAnswered ==
  ASSUME IInv, NEW n \in 1..Len(flows), LoggedIn(n)
  PROVE  IInv'
<1> DEFINE b == BootFlow("/dashboard")
           f == Flow("me", token', None, FALSE)
<1>1. /\ token' = flows[n].user /\ Render("/dashboard") /\ GoOn(n, b)
      /\ UNCHANGED <<scopes, polls, cache, errors, health, windows, me, view, shown,
                     misled, strayed>>
  BY DEF LoggedIn
<1>2. StreamOK /\ TabOK /\ LatestIsComing /\ FlowsOK
  BY DEF IInv, PageInv, ReachInv
<1>3. token' \in Users \cup {None}
  BY <1>1, <1>2, FlowN DEF Flows
<1>4. \/ path' # "/dashboard" /\ b = <<>>
      \/ path' = "/dashboard" /\ b = <<f>>
  BY <1>1, <1>2, Rendered
<1>5. f \in Flows /\ f.at = "me" /\ ~f.read
  BY <1>3, FlowIsFlow
<1> HIDE DEF f
<1>6. /\ b \in Seq(Flows)
      /\ path' # "/dashboard" => Range(b) = {}
      /\ path' = "/dashboard" => Range(b) = {f}
  BY <1>4, <1>5, Singles
<1>7. FlowsOK' /\ Waiting' = Others(flows, n) \cup Range(b)
               /\ Waiting = Others(flows, n) \cup {flows[n]}
  <2> DEFINE t == SubSeq(flows, 1, n - 1) \o b \o SubSeq(flows, n + 1, Len(flows))
  <2>1. flows' = t
    BY <1>1 DEF GoOn
  <2> HIDE DEF b
  <2>2. /\ t \in Seq(Flows) /\ Range(t) = Others(flows, n) \cup Range(b)
        /\ Range(flows) = Others(flows, n) \cup {flows[n]}
    BY <1>2, <1>6, Replacing DEF FlowsOK
  <2> QED
    BY <2>1, <2>2 DEF FlowsOK, Waiting
<1> HIDE DEF b
<1>8. /\ path' = "/dashboard" => \E g \in Waiting' : g.at = "me"
      /\ \A g \in Waiting' : g.read => g \in Waiting
  BY <1>5, <1>6, <1>7
<1> QED
  BY <1>1, <1>3, <1>7, <1>8, AnotherPath

\* Flow n loads the current view next, and nothing else is drawn.
LEMMA CurrentIsLoaded ==
  ASSUME IInv, NEW n \in 1..Len(flows), GoOn(n, LoadCurrent),
         UNCHANGED <<metrics, streaming, path, token, view, title, drawn, shown>>,
         UNCHANGED <<behind, strayed>>, me' \in Users \cup {None},
         misled' \in BOOLEAN, me' = token \/ misled'
  PROVE  IInv'
<1> DEFINE f == Flow("load", token, view, FALSE)
<1>1. FlowsOK /\ token \in Users \cup {None} /\ view \in Views \cup {None}
  BY DEF IInv, PageInv, TabOK
<1>2. f \in Flows /\ f.at = "load" /\ ~f.own /\ ~f.read
  BY <1>1, FlowIsFlow
<1>3. LoadCurrent = <<f>>
  BY DEF LoadCurrent
<1> HIDE DEF f
<1>4. <<f>> \in Seq(Flows) /\ Range(<<f>>) = {f}
  BY <1>2, Singles
<1>5. FlowsOK' /\ \E rest : Waiting = rest \cup {flows[n]} /\ Waiting' = rest \cup {f}
  BY <1>1, <1>3, <1>4, FlowGoesOn
<1>6. MetricsInv'
  BY MetricsKept DEF IInv, metrics
<1>7. PageInv'
  BY <1>5 DEF IInv, PageInv, StreamOK, TabOK, StreamNeedsSession, metrics
<1>8. KnowsItsUser'
  BY DEF KnowsItsUser
<1>9. ChosenIsComing'
  BY <1>2, <1>5 DEF ChosenIsComing, Coming
<1>10. ReadsAreLatest'
  BY <1>2, <1>5 DEF IInv, ReachInv, ReadsAreLatest, metrics
<1>11. LatestIsComing'
  BY DEF IInv, ReachInv, LatestIsComing, Updating, metrics
<1> QED
  BY <1>6, <1>7, <1>8, <1>9, <1>10, <1>11 DEF IInv, ReachInv

LEMMA MeIsAnswered ==
  ASSUME IInv, NEW n \in 1..Len(flows), MeAnswered(n)
  PROVE  IInv'
<1>1. /\ me' = flows[n].user /\ misled' = (flows[n].user # token)
      /\ GoOn(n, LoadCurrent)
      /\ UNCHANGED <<metrics, streaming, path, token, view, title, drawn, shown>>
      /\ UNCHANGED <<behind, strayed>>
  BY DEF MeAnswered
<1>2. me' \in Users \cup {None}
  BY <1>1, FlowN DEF IInv, PageInv, Flows
<1>3. misled' \in BOOLEAN /\ (me' = token \/ misled')
  BY <1>1
<1> QED
  BY <1>1, <1>2, <1>3, CurrentIsLoaded

\* Flow n is gone, and the others wait.
LEMMA FlowEnds ==
  ASSUME FlowsOK, NEW n \in 1..Len(flows), GoOn(n, <<>>)
  PROVE  FlowsOK' /\ \E rest : Waiting = rest \cup {flows[n]} /\ Waiting' = rest
<1>1. <<>> \in Seq(Flows) /\ Range(<<>>) = {}
  <2> DEFINE e == <<>>
  <2>1. e \in Seq(Flows) /\ Len(e) = 0
    BY EmptySeq
  <2> HIDE DEF e
  <2>2. Range(e) = {e[m] : m \in 1..Len(e)}
    BY <2>1, RangeEquality
  <2> QED
    BY <2>1, <2>2 DEF e
<1>2. FlowsOK' /\ \E rest : Waiting = rest \cup {flows[n]} /\ Waiting' = rest \cup {}
  BY <1>1, FlowGoesOn
<1> QED
  BY <1>2

\* A view was loaded, or could not be: the flow that loaded it draws one.
LEMMA LoadEnds ==
  ASSUME IInv, NEW n \in 1..Len(flows), flows[n].at = "load", GoOn(n, <<>>),
         \E f \in Flows : Draw(f),
         UNCHANGED <<scopes, polls, cache, errors, health, windows, path, view, me, misled>>,
         token' = token \/ token' = None,
         StreamOK', StreamNeedsSession', LatestIsComing', behind' \in BOOLEAN,
         shown' \in Readings \cup {None}
  PROVE  IInv'
<1>1. FlowsOK /\ TabOK
  BY DEF IInv, PageInv
<1>2. FlowsOK' /\ \E rest : Waiting = rest \cup {flows[n]} /\ Waiting' = rest
  BY <1>1, FlowEnds
<1>3. /\ {title', drawn'} \subseteq Views \cup {None} /\ strayed' \in BOOLEAN
      /\ ChosenIsComing'
  BY <1>1, Drawn
<1>4. MetricsInv'
  BY MetricsKept DEF IInv
<1>5. PageInv'
  BY <1>1, <1>2, <1>3 DEF PageInv, TabOK
<1>6. KnowsItsUser'
  BY <1>2 DEF IInv, ReachInv, KnowsItsUser
<1>7. ReadsAreLatest'
  BY <1>2 DEF IInv, ReachInv, ReadsAreLatest
<1> QED
  BY <1>3, <1>4, <1>5, <1>6, <1>7 DEF IInv, ReachInv

LEMMA LoadIsAnswered ==
  ASSUME IInv, NEW n \in 1..Len(flows), Loaded(n)
  PROVE  IInv'
<1> DEFINE f == flows[n]
<1>1. /\ f.at = "load" /\ f.read
      /\ IF f.view = "metrics" THEN shown' = f.m /\ behind' = f.old
                               ELSE UNCHANGED <<shown, behind>>
      /\ Draw(f) /\ GoOn(n, <<>>)
      /\ UNCHANGED <<metrics, streaming, path, token, me, view, misled>>
  BY DEF Loaded
<1>2. f \in Flows /\ f \in Waiting
  BY FlowN DEF IInv, PageInv
<1>3. /\ f.m \in Readings \cup {None} /\ f.old \in BOOLEAN
      /\ f.view = "metrics" => f.m = cache[Global] \/ f.old
  BY <1>1, <1>2 DEF IInv, ReachInv, ReadsAreLatest, Flows
<1>4. \E g \in Flows : Draw(g)
  BY <1>1, <1>2
<1> HIDE DEF f
<1>5. shown' \in Readings \cup {None} /\ behind' \in BOOLEAN
  BY <1>1, <1>3 DEF IInv, PageInv, TabOK
<1>6. StreamOK' /\ StreamNeedsSession'
  BY <1>1 DEF IInv, PageInv, StreamOK, StreamNeedsSession, metrics
<1>7. LatestIsComing'
  BY <1>1, <1>3 DEF IInv, ReachInv, LatestIsComing, Updating, metrics
<1>8. /\ UNCHANGED <<scopes, polls, cache, errors, health, windows, path, view, me, misled>>
      /\ token' = token
  BY <1>1 DEF metrics
<1> QED
  BY <1>1, <1>4, <1>5, <1>6, <1>7, <1>8, LoadEnds DEF f

LEMMA FormIsAnswered ==
  ASSUME IInv, NEW n \in 1..Len(flows), Submitted(n)
  PROVE  IInv'
<1> DEFINE f == Flow("load", token, flows[n].view, TRUE)
<1>1. /\ flows[n].at = "submit" /\ GoOn(n, <<f>>)
      /\ UNCHANGED <<metrics, streaming, tab, histories>>
  BY DEF Submitted
<1>2. FlowsOK /\ token \in Users \cup {None}
  BY DEF IInv, PageInv, TabOK
<1>3. flows[n].view \in Views \cup {None}
  BY <1>2, FlowN DEF Flows
<1>4. f \in Flows /\ ~f.read
  BY <1>2, <1>3, FlowIsFlow
<1> HIDE DEF f
<1>5. <<f>> \in Seq(Flows) /\ Range(<<f>>) = {f}
  BY <1>4, Singles
<1>6. FlowsOK' /\ \E rest : Waiting = rest \cup {flows[n]} /\ Waiting' = rest \cup {f}
  BY <1>1, <1>2, <1>5, FlowGoesOn
<1>7. /\ \A g \in Waiting : g.at \in {"me", "load"} =>
            \E h \in Waiting' : h.at = g.at /\ h.own = g.own
      /\ \A g \in Waiting' : g.read => g \in Waiting
  BY <1>1, <1>4, <1>6
<1> QED
  BY <1>1, <1>6, <1>7, OnlyFlows

LEMMA RequestIsDenied ==
  ASSUME IInv, NEW n \in 1..Len(flows), Denied(n)
  PROVE  IInv'
<1>1. /\ token' = None /\ GoOn(n, <<>>)
      /\ UNCHANGED <<scopes, polls, cache, errors, health, windows>>
      /\ UNCHANGED <<me, view, shown, misled>>
  BY DEF Denied
<1>2. StreamOK /\ TabOK /\ LatestIsComing /\ FlowsOK
  BY DEF IInv, PageInv, ReachInv
<1>3. FlowsOK' /\ \E rest : Waiting = rest \cup {flows[n]} /\ Waiting' = rest
  BY <1>1, <1>2, FlowEnds
<1>4. CASE flows[n].at = "me"
  <2>1. Render("/login") /\ strayed' = strayed
    BY <1>4 DEF Denied
  <2>2. path' # "/dashboard"
    BY <1>1, <1>2, <2>1, Rendered
  <2>3. \A f \in Waiting' : f.read => f \in Waiting
    BY <1>3
  <2> QED
    BY <1>1, <1>3, <2>1, <2>2, <2>3, AnotherPath
<1>5. CASE flows[n].at = "load"
  <2>1. StopMetricsSse /\ Draw(flows[n]) /\ path' = path
    BY <1>5 DEF Denied
  <2>2. /\ StreamOK' /\ LatestIsComing'
        /\ streaming' = FALSE /\ behind' \in BOOLEAN
    BY <1>1, <1>2, <2>1, StreamClosed
  <2>3. StreamNeedsSession' /\ shown' \in Readings \cup {None}
    BY <1>1, <1>2, <2>2 DEF StreamNeedsSession, TabOK
  <2>4. \E f \in Flows : Draw(f)
    BY <1>2, <2>1, FlowN
  <2> QED
    BY <1>1, <1>5, <2>1, <2>2, <2>3, <2>4, LoadEnds
<1>6. CASE flows[n].at \notin {"me", "load"}
  <2>1. StopMetricsSse /\ UNCHANGED <<path, title, drawn, strayed>>
    BY <1>6 DEF Denied
  <2>2. /\ StreamOK' /\ LatestIsComing'
        /\ streaming' = FALSE /\ behind' \in BOOLEAN
    BY <1>1, <1>2, <2>1, StreamClosed
  <2>3. MetricsInv'
    BY <1>1, MetricsKept DEF IInv
  <2>4. PageInv'
    BY <1>1, <1>2, <1>3, <2>1, <2>2 DEF PageInv, TabOK, StreamNeedsSession
  <2>5. KnowsItsUser'
    BY <1>1 DEF KnowsItsUser
  <2>6. ChosenIsComing'
    BY <1>1, <1>3, <1>6, <2>1 DEF IInv, ReachInv, ChosenIsComing, Coming
  <2>7. ReadsAreLatest'
    BY <1>1, <1>3 DEF IInv, ReachInv, ReadsAreLatest
  <2> QED
    BY <2>2, <2>3, <2>4, <2>5, <2>6, <2>7 DEF IInv, ReachInv
<1> QED
  BY <1>4, <1>5, <1>6

LEMMA RequestFails ==
  ASSUME IInv, NEW n \in 1..Len(flows), Failed(n)
  PROVE  IInv'
<1>1. /\ UNCHANGED <<metrics, streaming, path, token, me>>
      /\ UNCHANGED <<view, shown, behind>>
  BY DEF Failed
<1>2. StreamOK /\ TabOK /\ LatestIsComing /\ FlowsOK /\ StreamNeedsSession
  BY DEF IInv, PageInv, ReachInv
<1>3. CASE flows[n].at = "me"
  <2>1. GoOn(n, LoadCurrent) /\ misled' = TRUE /\ UNCHANGED <<title, drawn, strayed>>
    BY <1>3 DEF Failed
  <2>2. me' \in Users \cup {None} /\ misled' \in BOOLEAN
    BY <1>1, <1>2, <2>1 DEF TabOK
  <2>3. /\ UNCHANGED <<metrics, streaming, path, token, view, title, drawn, shown>>
        /\ UNCHANGED <<behind, strayed>>
    BY <1>1, <2>1
  <2> QED
    BY <2>1, <2>2, <2>3, CurrentIsLoaded
<1>4. CASE flows[n].at = "load"
  <2>1. GoOn(n, <<>>) /\ Draw(flows[n]) /\ misled' = misled
    BY <1>4 DEF Failed
  <2>2. StreamOK' /\ StreamNeedsSession' /\ LatestIsComing'
    BY <1>1, <1>2 DEF StreamOK, StreamNeedsSession, LatestIsComing, Updating, metrics
  <2>3. shown' \in Readings \cup {None} /\ behind' \in BOOLEAN
    BY <1>1, <1>2 DEF TabOK
  <2>4. \E f \in Flows : Draw(f)
    BY <1>2, <2>1, FlowN
  <2>5. /\ UNCHANGED <<scopes, polls, cache, errors, health, windows, path, view, me, misled>>
        /\ token' = token
    BY <1>1, <2>1 DEF metrics
  <2> QED
    BY <1>4, <2>1, <2>2, <2>3, <2>4, <2>5, LoadEnds
<1>5. CASE flows[n].at \notin {"me", "load"}
  <2>1. GoOn(n, <<>>) /\ UNCHANGED <<misled, title, drawn, strayed>>
    BY <1>5 DEF Failed
  <2>2. FlowsOK' /\ \E rest : Waiting = rest \cup {flows[n]} /\ Waiting' = rest
    BY <1>2, <2>1, FlowEnds
  <2>3. /\ \A f \in Waiting : f.at \in {"me", "load"} =>
              \E g \in Waiting' : g.at = f.at /\ g.own = f.own
        /\ \A g \in Waiting' : g.read => g \in Waiting
    BY <1>5, <2>2
  <2>4. UNCHANGED <<metrics, streaming, tab, histories>>
    BY <1>1, <2>1 DEF tab, histories
  <2> QED
    BY <2>2, <2>3, <2>4, OnlyFlows
<1> QED
  BY <1>3, <1>4, <1>5

-----------------------------------------------------------------------------
(* The stream. *)

LEMMA EventIsShown ==
  ASSUME IInv, PushSseEvent
  PROVE  IInv'
<1>1. /\ stream # <<>> /\ stream' = Tail(stream)
      /\ IF Head(stream).type = "metrics.updated"
         THEN shown' = Head(stream).m /\ behind' = (Head(stream).scope # Global)
         ELSE UNCHANGED <<shown, behind>>
      /\ drawn' = IF view = "metrics" THEN "metrics" ELSE drawn
      /\ strayed' = (strayed /\ (view # "metrics" \/ title # "metrics"))
      /\ UNCHANGED <<scopes, polls, cache, errors, health, windows, streaming>>
      /\ UNCHANGED <<path, token, me, view, title, flows, misled>>
  BY DEF PushSseEvent
<1>2. StreamOK /\ TabOK /\ LatestIsComing /\ FlowsOK /\ StreamNeedsSession
  BY DEF IInv, PageInv, ReachInv
<1>3. /\ stream \in Seq(StreamEvents) /\ Len(stream) \in Nat \ {0}
      /\ Head(stream) = stream[1] /\ stream[1] \in StreamEvents
      /\ stream' \in Seq(StreamEvents) /\ Len(stream') = Len(stream) - 1
      /\ \A k \in 1..Len(stream') : stream'[k] = stream[k + 1]
  BY <1>1, <1>2, HeadTailProperties, EmptySeq, ElementOfSeq DEF StreamOK
<1>4. MetricsInv'
  BY <1>1, MetricsKept DEF IInv
<1>5. FlowsOK' /\ Waiting' = Waiting
  BY <1>1, <1>2 DEF FlowsOK, Waiting
<1>6. shown' \in Readings \cup {None} /\ behind' \in BOOLEAN /\ strayed' \in BOOLEAN
  BY <1>1, <1>2, <1>3 DEF TabOK, StreamEvents
<1>7. streaming = TRUE
  BY <1>1, <1>2 DEF StreamOK
<1>8. PageInv'
  BY <1>1, <1>2, <1>3, <1>5, <1>6, <1>7, ViewsAssumption
  DEF PageInv, StreamOK, TabOK, StreamNeedsSession
<1>9. KnowsItsUser' /\ ReadsAreLatest'
  BY <1>1, <1>5 DEF IInv, ReachInv, KnowsItsUser, ReadsAreLatest
<1>10. ChosenIsComing'
  BY <1>1, <1>5 DEF IInv, ReachInv, ChosenIsComing
<1>11. LatestIsComing'
  <2>1. \A k \in 1..Len(stream) : k = 1 \/ (k - 1 \in 1..Len(stream') /\ k = (k - 1) + 1)
    BY <1>3
  <2>2. ASSUME NEW k \in Updating'
        PROVE  k \in Nat /\ k + 1 \in Updating /\ stream'[k] = stream[k + 1]
    BY <1>3 DEF Updating
  <2>3. ASSUME NEW k \in Updating, k # 1
        PROVE  k - 1 \in Updating'
    BY <1>3, <2>1, <2>3 DEF Updating
  <2>4. ASSUME NEW k \in Updating', \A j \in Updating' : j <= k,
               stream'[k].scope = Global
        PROVE  stream'[k].m = cache'[Global]
    <3>1. k + 1 \in Updating /\ k \in Nat /\ stream'[k] = stream[k + 1]
      BY <2>2
    <3>2. \A j \in Updating : j \in Nat
      BY <1>3 DEF Updating
    <3>3. ASSUME NEW j \in Updating
          PROVE  j <= k + 1
      <4>1. CASE j = 1
        BY <3>1, <4>1
      <4>2. CASE j # 1
        <5>1. j - 1 <= k
          BY <2>3, <2>4, <4>2
        <5> QED
          BY <3>1, <3>2, <5>1
      <4> QED
        BY <4>1, <4>2
    <3> QED
      BY <1>1, <1>2, <2>4, <3>1, <3>3 DEF LatestIsComing
  <2>5. ASSUME Updating' = {}
        PROVE  shown' = cache'[Global] \/ behind'
    <3>1. \A k \in Updating : k = 1
      BY <2>3, <2>5
    <3>2. CASE 1 \in Updating
      <4>1. shown' = stream[1].m /\ behind' = (stream[1].scope # Global)
        BY <1>1, <1>3, <3>2 DEF Updating
      <4>2. \A k \in Updating : k <= 1
        BY <3>1
      <4> QED
        BY <1>1, <1>2, <3>2, <4>1, <4>2 DEF LatestIsComing
    <3>3. CASE 1 \notin Updating
      <4>1. Updating = {} /\ Head(stream).type # "metrics.updated"
        BY <1>3, <3>1, <3>3 DEF Updating
      <4> QED
        BY <1>1, <1>2, <4>1 DEF LatestIsComing
    <3> QED
      BY <3>2, <3>3
  <2> QED
    BY <2>4, <2>5 DEF LatestIsComing
<1> QED
  BY <1>4, <1>8, <1>9, <1>10, <1>11 DEF IInv, ReachInv

LEMMA StreamBreaks ==
  ASSUME IInv, BreakStream
  PROVE  IInv'
<1>1. /\ stream # <<>> /\ stream' = <<>> /\ behind' = TRUE
      /\ UNCHANGED <<scopes, polls, cache, errors, health, windows, streaming>>
      /\ UNCHANGED <<tab, flows, misled, strayed>>
  BY DEF BreakStream
<1> USE DEF tab
<1>2. StreamOK /\ TabOK /\ LatestIsComing /\ FlowsOK /\ StreamNeedsSession
  BY DEF IInv, PageInv, ReachInv
<1>3. streaming' \in BOOLEAN /\ cache' = cache /\ shown' = shown
  BY <1>1, <1>2 DEF StreamOK
<1>4. StreamOK' /\ LatestIsComing'
  BY <1>1, <1>2, <1>3, StreamLost
<1>5. MetricsInv'
  BY <1>1, MetricsKept DEF IInv
<1>6. FlowsOK' /\ Waiting' = Waiting
  BY <1>1, <1>2 DEF FlowsOK, Waiting
<1>7. PageInv'
  BY <1>1, <1>2, <1>4, <1>6 DEF PageInv, TabOK, StreamNeedsSession
<1>8. KnowsItsUser' /\ ReadsAreLatest' /\ ChosenIsComing'
  BY <1>1, <1>6 DEF IInv, ReachInv, KnowsItsUser, ReadsAreLatest, ChosenIsComing
<1> QED
  BY <1>4, <1>5, <1>7, <1>8 DEF IInv, ReachInv

\* What an answer of Prometheus does to the cache, and whether it is an update.
LEMMA AnswerUpdates ==
  ASSUME MetricsInv, NEW p \in Polls, NEW m \in Readings, Answer(p, m)
  PROVE  /\ cache'[Global] # cache[Global] => Updates(p, m)
         /\ cache'[Head(polls[p])] = m
         /\ cache' = cache \/ ~(cache[Head(polls[p])] = m)
<1> DEFINE s == Head(polls[p])
           e == EventsOf(s, m)
<1>1. s \in AllScopes
  BY AnswerKeepsMetrics
<1>2. cache \in [AllScopes -> Readings \cup {None}]
  BY DEF MetricsInv, MetricsOK
<1>3. cache' = [cache EXCEPT ![s] = m]
  BY DEF Answer
<1>4. Updates(p, m) <=> \E n \in 1..Len(e) : e[n].type = "metrics.updated" /\ e[n].scope = Global
  BY DEF Updates
<1> HIDE DEF s
<1>5. /\ Len(e) \in Nat
      /\ \A k \in 1..Len(e) : e[k].scope = s
      /\ cache[s] = None \/ cache[s] # m =>
           Len(e) >= 1 /\ e[Len(e)].type = "metrics.updated"
  BY <1>1, EventsProperties
<1> HIDE DEF e
<1>6. cache'[s] = m /\ (cache' = cache \/ ~(cache[s] = m))
  BY <1>1, <1>2, <1>3
<1>7. ASSUME cache'[Global] # cache[Global]
      PROVE  Updates(p, m)
  <2>1. s = Global /\ cache[s] # m
    BY <1>1, <1>2, <1>3, <1>7, ScopeProperties
  <2>2. Len(e) \in 1..Len(e)
    BY <1>5, <2>1
  <2> QED
    BY <1>4, <1>5, <2>1, <2>2
<1> QED
  BY <1>6, <1>7 DEF s

\* The flows after an answer: those that were read are old if it is an update.
LEMMA AnswerMarksFlows ==
  ASSUME FlowsOK, NEW b \in BOOLEAN,
         flows' = [n \in 1..Len(flows) |->
                     [flows[n] EXCEPT !.old = @ \/ (flows[n].read /\ b)]]
  PROVE  /\ FlowsOK'
         /\ \A f \in Waiting : \E g \in Waiting' : g.at = f.at /\ g.own = f.own
         /\ \A g \in Waiting' : \E f \in Waiting :
              /\ g.at = f.at /\ g.read = f.read /\ g.view = f.view /\ g.m = f.m
              /\ f.old => g.old
              /\ f.read /\ b => g.old
<1> DEFINE new(n) == [flows[n] EXCEPT !.old = @ \/ (flows[n].read /\ b)]
<1>1. /\ Waiting = {flows[m] : m \in 1..Len(flows)}
      /\ Waiting \subseteq Flows /\ Len(flows) \in Nat
  BY WaitingByPosition
<1>2. ASSUME NEW n \in 1..Len(flows)
      PROVE  /\ new(n) \in Flows
             /\ new(n).at = flows[n].at /\ new(n).own = flows[n].own
             /\ new(n).read = flows[n].read /\ new(n).view = flows[n].view
             /\ new(n).m = flows[n].m
             /\ flows[n].old => new(n).old
             /\ flows[n].read /\ b => new(n).old
  <2>1. flows[n] \in Flows
    BY <1>1
  <2> QED
    BY <2>1 DEF Flows
<1> DEFINE t == [n \in 1..Len(flows) |-> new(n)]
<1>3. flows' = t
  OBVIOUS
<1> HIDE DEF new
<1>4. t \in Seq(Flows) /\ Len(t) = Len(flows) /\ \A n \in 1..Len(flows) : t[n] = new(n)
  BY <1>1, <1>2
<1> HIDE DEF t
<1>5. FlowsOK'
  BY <1>3, <1>4 DEF FlowsOK
<1>6. Waiting' = {new(n) : n \in 1..Len(flows)}
  <2>1. Range(t) = {t[n] : n \in 1..Len(t)}
    BY <1>4, RangeEquality
  <2>2. Range(t) = {new(n) : n \in 1..Len(flows)}
    BY <1>4, <2>1
  <2> QED
    BY <1>3, <2>2 DEF Waiting
<1> QED
  BY <1>1, <1>2, <1>5, <1>6

\* The events of an answer end with its update, if there is one.
LEMMA AnswerStreams ==
  ASSUME MetricsInv, StreamOK, LatestIsComing, TabOK,
         NEW p \in Polls, NEW m \in Readings, Answer(p, m), shown' = shown,
         behind' = (behind \/ (Updates(p, m) /\ ~streaming))
  PROVE  StreamOK' /\ LatestIsComing'
<1> DEFINE s == Head(polls[p])
           e == EventsOf(s, m)
<1>1. s \in AllScopes
  BY AnswerKeepsMetrics
<1>2. /\ cache' = [cache EXCEPT ![s] = m] /\ streaming' = streaming
      /\ stream' = IF streaming THEN stream \o e ELSE stream
  BY DEF Answer
<1>3. /\ cache \in [AllScopes -> Readings \cup {None}]
      /\ stream \in Seq(StreamEvents) /\ Len(stream) \in Nat /\ streaming \in BOOLEAN
      /\ behind \in BOOLEAN
  BY LenProperties DEF MetricsInv, MetricsOK, StreamOK, TabOK
<1>4. cache'[Global] # cache[Global] => Updates(p, m)
  BY AnswerUpdates
<1> HIDE DEF s
<1>5. /\ e \in Seq(StreamEvents) /\ Len(e) \in Nat
      /\ \A k \in 1..Len(e) : e[k].scope = s
      /\ cache[s] = None \/ cache[s] # m =>
           /\ Len(e) >= 1 /\ e[Len(e)].type = "metrics.updated" /\ e[Len(e)].m = m
      /\ ~(cache[s] = None \/ cache[s] # m) =>
           \A k \in 1..Len(e) : e[k].type # "metrics.updated"
  BY <1>1, EventsProperties
<1> HIDE DEF e
<1>6. CASE ~streaming
  <2>1. stream' = stream /\ stream = <<>> /\ Len(stream) = 0
    BY <1>2, <1>6, EmptySeq DEF StreamOK
  <2>2. Updating = {} /\ Updating' = {}
    BY <2>1 DEF Updating
  <2>3. shown' = cache'[Global] \/ behind'
    BY <1>4, <1>6, <2>2 DEF LatestIsComing
  <2> QED
    BY <1>2, <2>1, <2>2, <2>3 DEF LatestIsComing, StreamOK
<1>7. CASE streaming
  <2>1. /\ stream' \in Seq(StreamEvents) /\ Len(stream') = Len(stream) + Len(e)
        /\ \A i \in 1..Len(stream') :
             stream'[i] = IF i <= Len(stream) THEN stream[i] ELSE e[i - Len(stream)]
    BY <1>2, <1>3, <1>5, <1>7, ConcatProperties
  <2>2. StreamOK'
    BY <1>2, <1>3, <1>7, <2>1 DEF StreamOK
  <2>3. CASE cache[s] = None \/ cache[s] # m
    <3> DEFINE last == Len(stream) + Len(e)
    <3>1. /\ last \in 1..Len(stream') /\ stream'[last] = e[Len(e)]
          /\ \A k \in Updating' : k <= last
      BY <1>3, <1>5, <2>1, <2>3 DEF Updating
    <3>2. last \in Updating'
      BY <1>5, <2>3, <3>1 DEF Updating
    <3>3. ASSUME NEW k \in Updating', \A j \in Updating' : j <= k,
                 stream'[k].scope = Global
          PROVE  stream'[k].m = cache'[Global]
      <4>1. k \in Nat /\ last \in Nat
        BY <1>3, <1>5, <2>1 DEF Updating
      <4>2. k = last
        BY <3>1, <3>2, <3>3, <4>1
      <4>3. Len(e) \in 1..Len(e)
        BY <1>5, <2>3
      <4>4. s = Global /\ stream'[k].m = m
        BY <1>5, <2>3, <3>1, <3>3, <4>2, <4>3
      <4> QED
        BY <1>1, <1>2, <1>3, <4>4
    <3> QED
      BY <2>2, <3>2, <3>3 DEF LatestIsComing
  <2>4. CASE ~(cache[s] = None \/ cache[s] # m)
    <3>1. cache' = cache
      BY <1>1, <1>2, <1>3, <2>4
    <3>2. Updating' = Updating /\ \A k \in Updating : stream'[k] = stream[k]
      <4>1. ASSUME NEW k \in 1..Len(stream'), k > Len(stream)
            PROVE  stream'[k].type # "metrics.updated"
        <5>1. k - Len(stream) \in 1..Len(e) /\ stream'[k] = e[k - Len(stream)]
          BY <1>3, <1>5, <2>1, <4>1
        <5> QED
          BY <1>5, <2>4, <5>1
      <4> QED
        BY <1>3, <1>5, <2>1, <4>1 DEF Updating
    <3>3. behind' = behind
      BY <1>3, <1>7
    <3> QED
      BY <2>2, <3>1, <3>2, <3>3 DEF LatestIsComing
  <2> QED
    BY <2>3, <2>4
<1> QED
  BY <1>6, <1>7

LEMMA PollIsAnswered ==
  ASSUME IInv, NEW p \in Polls, PollAnswers(p)
  PROVE  IInv'
<1>1. PICK m \in Readings :
        /\ Answer(p, m)
        /\ behind' = (behind \/ (Updates(p, m) /\ ~streaming))
        /\ flows' = [n \in 1..Len(flows) |->
             [flows[n] EXCEPT !.old = @ \/ (flows[n].read /\ Updates(p, m))]]
  BY DEF PollAnswers
<1>2. UNCHANGED <<tab, misled, strayed>>
  BY DEF PollAnswers
<1> USE DEF tab
<1>3. MetricsInv /\ StreamOK /\ TabOK /\ LatestIsComing /\ FlowsOK /\ StreamNeedsSession
  BY DEF IInv, PageInv, ReachInv
<1>4. MetricsInv'
  BY <1>1, <1>3, AnswerKeepsMetrics
<1>5. StreamOK' /\ LatestIsComing'
  BY <1>1, <1>2, <1>3, AnswerStreams
<1> DEFINE b == IF Updates(p, m) THEN TRUE ELSE FALSE
<1>6. /\ b \in BOOLEAN
      /\ flows' = [n \in 1..Len(flows) |->
             [flows[n] EXCEPT !.old = @ \/ (flows[n].read /\ b)]]
      /\ cache'[Global] # cache[Global] => b
  BY <1>1, <1>3, AnswerUpdates
<1> HIDE DEF b
<1>7. /\ FlowsOK'
      /\ \A f \in Waiting : \E g \in Waiting' : g.at = f.at /\ g.own = f.own
      /\ \A g \in Waiting' : \E f \in Waiting :
           /\ g.at = f.at /\ g.read = f.read /\ g.view = f.view /\ g.m = f.m
           /\ f.old => g.old
           /\ f.read /\ b => g.old
  BY <1>3, <1>6, AnswerMarksFlows
<1>8. streaming' = streaming /\ behind' \in BOOLEAN
  BY <1>1 DEF Answer
<1>9. PageInv'
  BY <1>2, <1>3, <1>5, <1>7, <1>8 DEF PageInv, TabOK, StreamNeedsSession
<1>10. KnowsItsUser' /\ ChosenIsComing'
  BY <1>2, <1>7 DEF IInv, ReachInv, KnowsItsUser, ChosenIsComing, Coming
<1>11. ReadsAreLatest'
  BY <1>6, <1>7 DEF IInv, ReachInv, ReadsAreLatest
<1> QED
  BY <1>4, <1>5, <1>9, <1>10, <1>11 DEF IInv, ReachInv

LEMMA AnswersAct ==
  ASSUME IInv, Answers
  PROVE  IInv'
<1>1. ASSUME NEW n \in 1..Len(flows),
             Serve(n) \/ LoggedIn(n) \/ MeAnswered(n) \/ Loaded(n) \/ Submitted(n)
               \/ Denied(n) \/ Failed(n)
      PROVE  IInv'
  BY <1>1, RequestIsRead, LoginIsAnswered, MeIsAnswered, LoadIsAnswered, FormIsAnswered,
     RequestIsDenied, RequestFails
<1>2. CASE PushSseEvent
  BY <1>2, EventIsShown
<1>3. CASE BreakStream
  BY <1>3, StreamBreaks
<1>4. ASSUME NEW p \in Polls, PollAnswers(p)
      PROVE  IInv'
  BY <1>4, PollIsAnswered
<1> QED
  BY <1>1, <1>2, <1>3, <1>4 DEF Answers

-----------------------------------------------------------------------------
(* The invariant. *)

\* Nothing of the page or of what it is told changes.
LEMMA PageKept ==
  ASSUME IInv, MetricsInv', UNCHANGED <<cache, streaming, stream, tab, flows, histories>>
  PROVE  IInv'
<1> USE DEF tab, histories
<1>1. PageInv' /\ Waiting' = Waiting
  BY DEF IInv, PageInv, StreamOK, TabOK, FlowsOK, StreamNeedsSession, Waiting
<1>2. ReachInv'
  BY <1>1 DEF IInv, ReachInv, KnowsItsUser, ChosenIsComing, ReadsAreLatest,
    LatestIsComing, Updating
<1> QED
  BY <1>1, <1>2 DEF IInv

LEMMA Initially == DashboardInit => IInv
<1> SUFFICES ASSUME DashboardInit
             PROVE  IInv
  OBVIOUS
<1>1. MetricsInv
  BY MetricsInitially DEF DashboardInit
<1>2. /\ streaming = FALSE /\ stream = <<>> /\ path = "/login" /\ token = None /\ me = None
      /\ view = CHOOSE v \in Views : v # "metrics"
      /\ title = None /\ drawn = None /\ shown = None /\ flows = <<>>
      /\ behind = TRUE /\ misled = FALSE /\ strayed = FALSE
  BY DEF DashboardInit, MetricsInit
<1>3. view \in Views
  BY <1>2, ViewsAssumption
<1>4. /\ <<>> \in Seq(StreamEvents) /\ <<>> \in Seq(Flows) /\ Len(<<>>) = 0
  BY EmptySeq
<1>5. FlowsOK /\ StreamOK
  BY <1>2, <1>4 DEF FlowsOK, StreamOK
<1>6. PageInv
  BY <1>2, <1>3, <1>5 DEF PageInv, TabOK, StreamNeedsSession
<1>7. Waiting = {} /\ Updating = {}
  <2>1. Len(flows) = 0 /\ Len(stream) = 0
    BY <1>2, <1>4
  <2> QED
    BY <1>5, <2>1, WaitingByPosition DEF Updating
<1>8. ReachInv
  BY <1>2, <1>7 DEF ReachInv, KnowsItsUser, ChosenIsComing, ReadsAreLatest, LatestIsComing
<1> QED
  BY <1>1, <1>6, <1>8 DEF IInv

LEMMA Preservation == IInv /\ [Next]_vars => IInv'
<1> SUFFICES ASSUME IInv, [Next]_vars
             PROVE  IInv'
  OBVIOUS
<1>1. CASE User
  BY <1>1, UserActs
<1>2. CASE Outside /\ UNCHANGED <<tab, flows, histories>>
  <2>1. MetricsInv' /\ UNCHANGED <<cache, streaming, stream>>
    <3>1. CASE SetScopes \/ \E p \in Polls : StartPoll(p)
      <4>1. UNCHANGED <<cache, streaming, stream>>
        BY <3>1 DEF SetScopes, StartPoll
      <4> QED
        BY <3>1, <4>1, ScopesKeepMetrics DEF IInv
    <3>2. CASE UNCHANGED <<metrics, streaming>>
      BY <3>2, MetricsKept DEF IInv, metrics
    <3> QED
      BY <1>2, <3>1, <3>2 DEF Outside
  <2> QED
    BY <1>2, <2>1, PageKept
<1>3. CASE UNCHANGED <<metrics, streaming, tab, flows, histories>>
  <2>1. MetricsInv' /\ UNCHANGED <<cache, streaming, stream>>
    BY <1>3, MetricsKept DEF IInv, metrics
  <2> QED
    BY <1>3, <2>1, PageKept
<1>4. CASE Answers
  BY <1>4, AnswersAct
<1>5. UNCHANGED vars => UNCHANGED <<metrics, streaming, tab, flows, histories>>
  BY DEF vars
<1> QED
  BY <1>1, <1>2, <1>3, <1>4, <1>5 DEF Next

\* The metrics count the windows of each service, the page knows whose session
\* it is, what was chosen is drawn or under way, and what is shown is cached
\* or in the stream.
THEOREM Invariance == Spec => []IInv
<1>1. DashboardInit => IInv
  BY Initially
<1>2. IInv /\ [Next]_vars => IInv'
  BY Preservation
<1> QED
  BY <1>1, <1>2, PTL DEF Spec

-----------------------------------------------------------------------------
(* What follows from it. *)

LEMMA HealthFollows ==
  ASSUME MetricsInv
  PROVE  HealthIsEarned
<1>1. SUFFICES ASSUME NEW v \in ServiceIds
               PROVE  LET w == windows[v]
                          bad == {n \in 1..Len(w) : w[n]} IN
                      /\ (health[v] = FALSE) <=> (Len(w) = Threshold /\ bad = 1..Threshold)
                      /\ health[v] = TRUE => bad # 1..Len(w)
  BY DEF HealthIsEarned
<1> DEFINE w == windows[v]
           k == errors[v]
           h == health[v]
           bad == {n \in 1..Len(w) : w[n]}
<1>2. w \in Seq(BOOLEAN) /\ k \in 0..Threshold /\ Counts(w, k, h)
  BY DEF MetricsInv, MetricsOK, HealthOK
<1>3. Len(w) \in Nat /\ Threshold \in Nat \ {0}
  BY <1>2, LenProperties, ThresholdAssumption
<1> HIDE DEF w, k, h
<1>4. bad = 1..Len(w) => k = Len(w)
  <2>1. SUFFICES ASSUME bad = 1..Len(w), k # Len(w)
                 PROVE  FALSE
    OBVIOUS
  <2>2. k < Len(w) /\ Len(w) - k \in 1..Len(w) /\ ~w[Len(w) - k]
    BY <1>2, <1>3, <2>1 DEF Counts
  <2> QED
    BY <2>1, <2>2
<1>5. k = Threshold => Len(w) = Threshold /\ bad = 1..Threshold
  BY <1>2, <1>3 DEF Counts
<1>6. (h = FALSE) <=> (k = Threshold)
  BY <1>2 DEF Counts
<1>7. (h = FALSE) <=> (Len(w) = Threshold /\ bad = 1..Threshold)
  BY <1>4, <1>5, <1>6
<1>8. ASSUME h = TRUE, bad = 1..Len(w)
      PROVE  FALSE
  <2>1. k = Len(w) /\ k # Threshold
    BY <1>4, <1>6, <1>8
  <2>2. k < Threshold
    BY <1>2, <1>3, <2>1
  <2>3. h = None
    BY <1>2, <2>1, <2>2 DEF Counts
  <2>4. None = TRUE
    BY <1>8, <2>3, Zenon
  <2> QED
    BY <2>4, NoneAssumption, Zenon
<1> QED
  BY <1>7, <1>8 DEF w, h

\* Every value is of its kind, and there is always a scope to poll: every
\* step of MetricsService and of the page keeps it so.
THEOREM TypeCorrect == Spec => []TypeOK
<1>1. IInv => TypeOK
  <2> SUFFICES ASSUME IInv
               PROVE  TypeOK
    OBVIOUS
  <2>1. \A n \in 1..Len(flows) : flows[n].user \in Users \cup {None}
    <3>1. \A n \in 1..Len(flows) : flows[n] \in Flows
      BY FlowN DEF IInv, PageInv
    <3> QED
      BY <3>1 DEF Flows
  <2>2. /\ scopes # <<>> /\ \A n \in 1..Len(scopes) : scopes[n] \in AllScopes
        /\ \A p \in Polls : \A n \in 1..Len(polls[p]) : polls[p][n] \in AllScopes
    BY ElementOfSeq DEF IInv, MetricsInv, MetricsOK
  <2>3. /\ \A s \in AllScopes : cache[s] \in Readings \cup {None}
        /\ \A v \in ServiceIds :
             errors[v] \in 0..Threshold /\ health[v] \in BOOLEAN \cup {None}
    BY DEF IInv, MetricsInv, MetricsOK
  <2> QED
    BY <2>1, <2>2, <2>3 DEF TypeOK, IInv, PageInv, TabOK
<1> QED
  BY <1>1, Invariance, PTL

\* A service is unhealthy exactly while its last Threshold windows all had
\* errors, and healthy only once one had none, for polls that overlap and
\* scopes that share the service (updateServiceHealth).
THEOREM HealthFollowsWindows == Spec => []HealthIsEarned
<1>1. IInv => HealthIsEarned
  BY HealthFollows DEF IInv
<1> QED
  BY <1>1, Invariance, PTL

\* The stream is open only for a session, the dashboard works under the name
\* of who is signed in, and at rest it shows the view chosen last: for answers
\* in any order and sessions that change while they are under way.
THEOREM PageStaysCurrent == Spec => []PageIsCurrent
<1>1. IInv => PageIsCurrent
  <2> SUFFICES ASSUME IInv
               PROVE  PageIsCurrent
    OBVIOUS
  <2>1. FlowsOK
    BY DEF IInv, PageInv
  <2>2. ActsAsSignedIn
    <3>1. (\E f \in Waiting : f.at = "me") => Waits("me")
      BY <2>1, WaitingByPosition DEF Waits
    <3> QED
      BY <3>1 DEF IInv, ReachInv, KnowsItsUser, ActsAsSignedIn
  <2>3. ShowsChosenView
    <3>1. flows = <<>> => Waiting = {}
      <4>1. flows = <<>> => Len(flows) = 0
        BY EmptySeq
      <4> QED
        BY <2>1, <4>1, WaitingByPosition
    <3> QED
      BY <3>1 DEF IInv, ReachInv, ChosenIsComing, ShowsChosenView
  <2> QED
    BY <2>2, <2>3 DEF IInv, PageInv, PageIsCurrent
<1> QED
  BY <1>1, Invariance, PTL

\* A page whose stream is drained shows what MetricsService has cached for the
\* gateway, unless it is told that it is behind: whatever order the answers of
\* the API, the polls and the events come in.
THEOREM MetricsStayLatest == Spec => []ShowsLatestMetrics
<1>1. IInv => ShowsLatestMetrics
  <2> SUFFICES ASSUME IInv, stream = <<>>
               PROVE  shown = cache[Global] \/ behind
    BY DEF ShowsLatestMetrics
  <2>1. Updating = {}
    BY EmptySeq DEF Updating
  <2> QED
    BY <2>1 DEF IInv, ReachInv, LatestIsComing
<1> QED
  BY <1>1, Invariance, PTL

-----------------------------------------------------------------------------
(* The messenger.  Its two recursive functions are loops: what holds before *)
(* the first turn and is kept by each holds after the last, which follows   *)
(* from every set of numbers having a least one.                            *)

\* What extractEvents makes.
Inbound == [sender : Senders \cup {NoSender}, text : Messages, at : Nat]

\* There is a least number in every set of some.
LEMMA LeastNumber ==
  ASSUME NEW T \in SUBSET Nat, T # {}
  PROVE  \E m \in T : \A n \in T : m <= n
<1> DEFINE R == OpToRel(<, Nat)
<1>1. IsWellFoundedOn(R, Nat)
  BY NatLessThanWellFounded
<1>2. \A x, y \in Nat : x < y => <<x, y>> \in R
  BY DEF OpToRel
<1> HIDE DEF R
<1>3. PICK x \in T : \A y \in T : ~ (<<y, x>> \in R)
  BY <1>1, WFMin
<1>4. \A y \in T : ~(y < x)
  BY <1>2, <1>3
<1> QED
  BY <1>4

\* Induction over the numbers, for sets of them.
LEMMA InductionOnSet ==
  ASSUME NEW T \in SUBSET Nat, 0 \in T, \A n \in T : n + 1 \in T
  PROVE  T = Nat
<1>1. SUFFICES ASSUME Nat \ T # {}
               PROVE  FALSE
  OBVIOUS
<1>2. PICK m \in Nat \ T : \A n \in Nat \ T : m <= n
  BY <1>1, LeastNumber
<1>3. m - 1 \in T
  BY <1>2
<1> QED
  BY <1>2, <1>3

\* A loop of N turns, each a step F from what the last one left: it has results.
Loop(g, N, A, b, F) ==
  /\ g \in [0..N -> A]
  /\ g[0] = b
  /\ \A m \in 1..N : g[m] = F[<<g[m - 1], m>>]

LEMMA LoopExists ==
  ASSUME NEW N \in Nat, NEW A, NEW b \in A, NEW F \in [A \X (1..N) -> A]
  PROVE  \E g : Loop(g, N, A, b, F)
<1> DEFINE T == {n \in Nat : n <= N => \E g : Loop(g, n, A, b, F)}
<1>1. 0 \in T
  <2>1. Loop([m \in 0..0 |-> b], 0, A, b, F)
    BY DEF Loop
  <2> QED
    BY <2>1
<1>2. ASSUME NEW n \in T
      PROVE  n + 1 \in T
  <2>1. SUFFICES ASSUME n + 1 <= N
                 PROVE  \E g : Loop(g, n + 1, A, b, F)
    OBVIOUS
  <2>2. PICK g : Loop(g, n, A, b, F)
    BY <2>1
  <2> DEFINE h == [m \in 0..(n + 1) |-> IF m = n + 1 THEN F[<<g[n], n + 1>>] ELSE g[m]]
  <2>3. g[n] \in A /\ n + 1 \in 1..N
    BY <2>1, <2>2 DEF Loop
  <2>4. F[<<g[n], n + 1>>] \in A
    BY <2>3
  <2>5. h \in [0..(n + 1) -> A]
    BY <2>2, <2>4 DEF Loop
  <2>6. \A m \in 1..(n + 1) : h[m] = F[<<h[m - 1], m>>]
    <3> TAKE m \in 1..(n + 1)
    <3>1. m - 1 \in 0..n /\ h[m - 1] = g[m - 1]
      OBVIOUS
    <3>2. CASE m = n + 1
      <4>1. m - 1 = n /\ h[m] = F[<<g[n], n + 1>>]
        BY <3>2
      <4>2. h[m] = F[<<g[m - 1], m>>]
        BY <3>2, <4>1
      <4> QED
        BY <3>1, <4>2
    <3>3. CASE m # n + 1
      <4>1. m \in 1..n /\ h[m] = g[m]
        BY <3>3
      <4> QED
        BY <2>2, <3>1, <4>1 DEF Loop
    <3> QED
      BY <3>2, <3>3
  <2>7. h[0] = b
    BY <2>2 DEF Loop
  <2>8. Loop(h, n + 1, A, b, F)
    BY <2>5, <2>6, <2>7 DEF Loop
  <2> QED
    BY <2>8
<1> HIDE DEF T
<1>3. T \in SUBSET Nat
  BY DEF T
<1>4. N \in T
  BY <1>1, <1>2, <1>3, InductionOnSet
<1> QED
  BY <1>4 DEF T

LEMMA LoopTyped ==
  ASSUME NEW N \in Nat, NEW A, NEW g, g[0] \in A,
         \A m \in 1..N : g[m - 1] \in A => g[m] \in A
  PROVE  \A m \in 0..N : g[m] \in A
<1> DEFINE T == {n \in Nat : n <= N => g[n] \in A}
<1>1. 0 \in T
  OBVIOUS
<1>2. ASSUME NEW n \in T
      PROVE  n + 1 \in T
  <2>1. SUFFICES ASSUME n + 1 <= N
                 PROVE  g[n + 1] \in A
    OBVIOUS
  <2>2. n + 1 \in 1..N /\ (n + 1) - 1 = n /\ g[n] \in A
    BY <2>1
  <2> QED
    BY <2>2
<1> HIDE DEF T
<1>3. T = Nat
  <2>1. T \in SUBSET Nat
    BY DEF T
  <2> QED
    BY <1>1, <1>2, <2>1, InductionOnSet
<1> QED
  BY <1>3 DEF T

\* A step of either loop makes of what it has one more of its kind.
LEMMA FoundType ==
  ASSUME NEW f \in Seq(Inbound), NEW e \in Inbound, NEW S
  PROVE  Found(f, e, S) \in Seq(Inbound)
BY DEF Found

LEMMA SeenType ==
  ASSUME NEW f \in [Senders -> Seq(Inbound)], NEW e \in Inbound
  PROVE  Seen(f, e) \in [Senders -> Seq(Inbound)]
<1>1. e.sender # NoSender => e.sender \in Senders
  BY DEF Inbound
<1>2. <<e>> \in Seq(Inbound)
  OBVIOUS
<1> DEFINE new == <<e>>
<1> HIDE DEF new
<1>3. e.sender \in Senders => [f EXCEPT ![e.sender] = new] \in [Senders -> Seq(Inbound)]
  BY <1>2 DEF new
<1> QED
  BY <1>1, <1>3 DEF Seen, new

LEMMA NewestLoop ==
  ASSUME NEW es \in Seq(Inbound), NEW S
  PROVE  /\ Newest(es, S) \in [0..Len(es) -> Seq(Inbound)]
         /\ Newest(es, S)[0] = <<>>
         /\ \A n \in 1..Len(es) :
              Newest(es, S)[n] = Found(Newest(es, S)[n - 1], es[n], S)
<1> DEFINE N == Len(es)
           F == [p \in Seq(Inbound) \X (1..N) |-> Found(p[1], es[p[2]], S)]
           found == Newest(es, S)
<1>1. N \in Nat /\ <<>> \in Seq(Inbound) /\ \A n \in 1..N : es[n] \in Inbound
  OBVIOUS
<1> HIDE DEF N
<1>2. F \in [Seq(Inbound) \X (1..N) -> Seq(Inbound)]
  BY <1>1, FoundType
<1>3. \A f \in Seq(Inbound), n \in 1..N : F[<<f, n>>] = Found(f, es[n], S)
  OBVIOUS
<1> HIDE DEF F
<1>4. PICK g : Loop(g, N, Seq(Inbound), <<>>, F)
  BY <1>1, <1>2, LoopExists
<1>5. \A n \in 1..N : g[n] = Found(g[n - 1], es[n], S)
  <2> TAKE n \in 1..N
  <2>1. n - 1 \in 0..N
    BY <1>1
  <2>2. g[n - 1] \in Seq(Inbound) /\ g[n] = F[<<g[n - 1], n>>]
    BY <1>4, <2>1 DEF Loop
  <2> QED
    BY <1>3, <2>2
<1>6. g = [n \in 0..N |-> IF n = 0 THEN <<>> ELSE Found(g[n - 1], es[n], S)]
  BY <1>1, <1>4, <1>5 DEF Loop
<1>7. found = [n \in 0..N |-> IF n = 0 THEN <<>> ELSE Found(found[n - 1], es[n], S)]
  BY <1>6 DEF Newest, N
<1> HIDE DEF found
<1>8. found[0] = <<>> /\ \A n \in 1..N : found[n] = Found(found[n - 1], es[n], S)
  BY <1>1, <1>7
<1>9. \A n \in 1..N : found[n - 1] \in Seq(Inbound) => found[n] \in Seq(Inbound)
  BY <1>1, <1>8, FoundType
<1>10. \A n \in 0..N : found[n] \in Seq(Inbound)
  BY <1>1, <1>8, <1>9, LoopTyped
<1>11. found \in [0..N -> Seq(Inbound)]
  BY <1>7, <1>10
<1> QED
  BY <1>8, <1>11 DEF found, N

LEMMA SummaryLoop ==
  ASSUME NEW es \in Seq(Inbound)
  PROVE  /\ Summaries(es) \in [0..Len(es) -> [Senders -> Seq(Inbound)]]
         /\ Summaries(es)[0] = [s \in Senders |-> <<>>]
         /\ \A n \in 1..Len(es) : Summaries(es)[n] = Seen(Summaries(es)[n - 1], es[n])
<1> DEFINE N == Len(es)
           A == [Senders -> Seq(Inbound)]
           none == [s \in Senders |-> <<>>]
           F == [p \in A \X (1..N) |-> Seen(p[1], es[p[2]])]
           summary == Summaries(es)
<1>1. N \in Nat /\ none \in A /\ \A n \in 1..N : es[n] \in Inbound
  OBVIOUS
<1> HIDE DEF N
<1>2. \A f \in A, e \in Inbound : Seen(f, e) \in A
  BY SeenType
<1> HIDE DEF A, none
<1>3. F \in [A \X (1..N) -> A] /\ \A f \in A, n \in 1..N : F[<<f, n>>] = Seen(f, es[n])
  BY <1>1, <1>2
<1> HIDE DEF F
<1>4. PICK g : Loop(g, N, A, none, F)
  BY <1>1, <1>3, LoopExists
<1>5. \A n \in 1..N : g[n] = Seen(g[n - 1], es[n])
  <2> TAKE n \in 1..N
  <2>1. n - 1 \in 0..N
    BY <1>1
  <2>2. g[n - 1] \in A /\ g[n] = F[<<g[n - 1], n>>]
    BY <1>4, <2>1 DEF Loop
  <2> QED
    BY <1>3, <2>2
<1>6. g = [n \in 0..N |-> IF n = 0 THEN none ELSE Seen(g[n - 1], es[n])]
  BY <1>1, <1>4, <1>5 DEF Loop
<1>7. summary = [n \in 0..N |-> IF n = 0 THEN none ELSE Seen(summary[n - 1], es[n])]
  BY <1>6 DEF Summaries, N, none
<1> HIDE DEF summary
<1>8. summary[0] = none /\ \A n \in 1..N : summary[n] = Seen(summary[n - 1], es[n])
  BY <1>1, <1>7
<1>9. \A n \in 1..N : summary[n - 1] \in A => summary[n] \in A
  BY <1>1, <1>2, <1>8
<1>10. \A n \in 0..N : summary[n] \in A
  BY <1>1, <1>8, <1>9, LoopTyped
<1>11. summary \in [0..N -> A]
  BY <1>7, <1>10
<1> QED
  BY <1>8, <1>11 DEF summary, N, A, none

\* What findRecipients makes of the events own of a sender, the newest first:
\* its entry is the earliest of those that have the time of the newest.
Matches(own, entry) ==
  IF own = <<>> THEN entry = <<>>
  ELSE /\ \A k \in 1..Len(own) : own[k].at <= own[1].at
       /\ \E c \in 1..Len(own) :
            /\ entry = <<own[c]>>
            /\ \A k \in 1..Len(own) : own[k].at = own[1].at <=> k <= c

LEMMA OneMore ==
  ASSUME NEW own \in Seq(Inbound), NEW entry, Matches(own, entry),
         NEW e \in Inbound, \A k \in 1..Len(own) : own[k].at <= e.at
  PROVE  Matches(<<e>> \o own,
                 IF entry = <<>> \/ e.at > entry[1].at THEN <<e>> ELSE entry)
<1> DEFINE new == <<e>> \o own
<1>1. /\ Len(own) \in Nat /\ Len(new) = Len(own) + 1 /\ new[1] = e
      /\ \A k \in 1..Len(own) : own[k] \in Inbound /\ new[k + 1] = own[k]
      /\ \A k \in 2..Len(new) : k - 1 \in 1..Len(own) /\ new[k] = own[k - 1]
  OBVIOUS
<1>2. /\ e.at \in Nat /\ \A k \in 1..Len(own) : own[k].at \in Nat
      /\ new # <<>>
  BY <1>1 DEF Inbound
<1> HIDE DEF new
<1>3. \A k \in 1..Len(new) : new[k].at <= new[1].at
  <2> TAKE k \in 1..Len(new)
  <2>1. CASE k = 1
    BY <1>1, <1>2, <2>1
  <2>2. CASE k # 1
    <3>1. k \in 2..Len(new)
      BY <1>1, <2>2
    <3>2. new[k] = own[k - 1] /\ k - 1 \in 1..Len(own)
      BY <1>1, <3>1
    <3> QED
      BY <1>1, <3>2
  <2> QED
    BY <2>1, <2>2
<1>4. CASE own = <<>>
  <2>1. Len(new) = 1 /\ entry = <<>>
    BY <1>1, <1>4 DEF Matches
  <2>2. \A k \in 1..Len(new) : new[k].at = new[1].at <=> k <= 1
    BY <2>1
  <2>3. Matches(new, <<e>>)
    BY <1>1, <1>2, <1>3, <2>1, <2>2 DEF Matches
  <2> QED
    BY <2>1, <2>3 DEF new
<1>5. CASE own # <<>>
  <2>1. PICK c \in 1..Len(own) :
          /\ entry = <<own[c]>>
          /\ \A k \in 1..Len(own) : own[k].at = own[1].at <=> k <= c
    BY <1>5 DEF Matches
  <2>2. entry # <<>> /\ entry[1] = own[c] /\ own[c].at = own[1].at /\ 1 \in 1..Len(own)
    BY <2>1
  <2>3. \A k \in 1..Len(own) : own[k].at <= own[1].at
    BY <1>5 DEF Matches
  <2>4. CASE e.at > own[c].at
    <3>1. \A k \in 1..Len(new) : new[k].at = new[1].at <=> k <= 1
      <4> TAKE k \in 1..Len(new)
      <4>1. CASE k = 1
        BY <4>1
      <4>2. CASE k # 1
        <5>1. k - 1 \in 1..Len(own) /\ new[k] = own[k - 1] /\ ~(k <= 1)
          BY <1>1, <4>2
        <5>2. own[k - 1].at <= own[c].at /\ own[c].at < e.at
          BY <2>2, <2>3, <2>4, <1>2, <5>1
        <5>3. new[k].at # e.at
          BY <1>2, <5>1, <5>2
        <5> QED
          BY <1>1, <5>1, <5>3
      <4> QED
        BY <4>1, <4>2
    <3>2. 1 \in 1..Len(new)
      BY <1>1
    <3>3. Matches(new, <<e>>)
      BY <1>1, <1>2, <1>3, <3>1, <3>2 DEF Matches
    <3> QED
      BY <2>2, <2>4, <3>3 DEF new
  <2>5. CASE ~(e.at > own[c].at)
    <3>1. own[1].at = e.at
      BY <1>2, <2>1, <2>2, <2>5
    <3>2. \A k \in 1..Len(new) : new[k].at = new[1].at <=> k <= c + 1
      <4> TAKE k \in 1..Len(new)
      <4>1. CASE k = 1
        BY <4>1
      <4>2. CASE k # 1
        <5>1. k - 1 \in 1..Len(own) /\ new[k] = own[k - 1]
          BY <1>1, <4>2
        <5>2. new[k].at = new[1].at <=> k - 1 <= c
          BY <1>1, <2>1, <3>1, <5>1
        <5> QED
          BY <5>2
      <4> QED
        BY <4>1, <4>2
    <3>3. c + 1 \in 1..Len(new) /\ new[c + 1] = own[c]
      BY <1>1
    <3>4. Matches(new, entry)
      BY <1>2, <1>3, <2>1, <3>2, <3>3 DEF Matches
    <3> QED
      BY <2>2, <2>5, <3>4 DEF new
  <2> QED
    BY <2>4, <2>5
<1> QED
  BY <1>4, <1>5

InOrder(es) == \A m, n \in 1..Len(es) : m <= n => es[m].at <= es[n].at

\* Event by event, list and summary agree on each sender.
LEMMA LoopsMatch ==
  ASSUME NEW es \in Seq(Inbound), InOrder(es), NEW s \in Senders
  PROVE  Matches(Newest(es, {s})[Len(es)], Summaries(es)[Len(es)][s])
<1> DEFINE N == Len(es)
           own == Newest(es, {s})
           sum == Summaries(es)
           Agree(n) == /\ Matches(own[n], sum[n][s])
                       /\ \A k \in 1..Len(own[n]), m \in (n + 1)..N : own[n][k].at <= es[m].at
           T == {n \in Nat : n <= N => Agree(n)}
<1>1. /\ N \in Nat /\ \A n \in 1..N : es[n] \in Inbound
      /\ \A m, n \in 1..N : m <= n => es[m].at <= es[n].at
  BY DEF InOrder
<1>2. /\ own \in [0..N -> Seq(Inbound)] /\ own[0] = <<>>
      /\ \A n \in 1..N : own[n] = Found(own[n - 1], es[n], {s})
  BY NewestLoop
<1>3. /\ sum \in [0..N -> [Senders -> Seq(Inbound)]] /\ sum[0] = [q \in Senders |-> <<>>]
      /\ \A n \in 1..N : sum[n] = Seen(sum[n - 1], es[n])
  BY SummaryLoop
<1> HIDE DEF N, own, sum
<1>4. Agree(0)
  BY <1>2, <1>3 DEF Matches
<1>5. ASSUME NEW n \in 1..N, Agree(n - 1)
      PROVE  Agree(n)
  <2> DEFINE e == es[n]
  <2>1. /\ n - 1 \in 0..N /\ n \in (n - 1 + 1)..N /\ e \in Inbound
        /\ own[n - 1] \in Seq(Inbound) /\ sum[n - 1] \in [Senders -> Seq(Inbound)]
    <3>1. n - 1 \in 0..N /\ n \in (n - 1 + 1)..N
      BY <1>1
    <3>2. e \in Inbound
      BY <1>1
    <3> QED
      BY <1>2, <1>3, <3>1, <3>2
  <2>2. \A k \in 1..Len(own[n - 1]) : own[n - 1][k].at <= e.at
    BY <1>5, <2>1
  <2>3. \A m \in (n + 1)..N : m \in (n - 1 + 1)..N /\ m \in 1..N /\ n <= m
    BY <1>1
  <2>4. CASE e.sender = s
    <3>1. own[n] = <<e>> \o own[n - 1]
      BY <1>2, <2>4 DEF Found
    <3>2. sum[n][s] = IF sum[n - 1][s] = <<>> \/ e.at > sum[n - 1][s][1].at
                      THEN <<e>> ELSE sum[n - 1][s]
      BY <1>3, <2>1, <2>4, SendersAssumption DEF Seen
    <3>3. Matches(own[n], sum[n][s])
      BY <1>5, <2>1, <2>2, <3>1, <3>2, OneMore
    <3>4. \A k \in 1..Len(own[n]) : own[n][k] = e \/ \E j \in 1..Len(own[n - 1]) : own[n][k] = own[n - 1][j]
      <4> DEFINE before == own[n - 1]
                 after  == <<e>> \o before
      <4>1. before \in Seq(Inbound) /\ Len(before) \in Nat
        BY <2>1
      <4> HIDE DEF before, e
      <4>2. /\ Len(after) = Len(before) + 1 /\ after[1] = e
            /\ \A k \in 2..Len(after) : k - 1 \in 1..Len(before) /\ after[k] = before[k - 1]
        BY <4>1
      <4> HIDE DEF after
      <4>3. \A k \in 1..Len(after) : k = 1 \/ k \in 2..Len(after)
        BY <4>1, <4>2
      <4>4. \A k \in 1..Len(after) : after[k] = e \/ \E j \in 1..Len(before) : after[k] = before[j]
        BY <4>2, <4>3
      <4> QED
        BY <3>1, <4>4 DEF after, before
    <3>5. \A k \in 1..Len(own[n]), m \in (n + 1)..N : own[n][k].at <= es[m].at
      BY <1>1, <1>5, <2>3, <3>4
    <3> QED
      BY <3>3, <3>5
  <2>5. CASE e.sender # s
    <3>1. own[n] = own[n - 1] /\ sum[n][s] = sum[n - 1][s]
      BY <1>2, <1>3, <2>1, <2>5 DEF Found, Seen
    <3> QED
      BY <1>5, <2>3, <3>1
  <2> QED
    BY <2>4, <2>5
<1> HIDE DEF Agree
<1>6. 0 \in T
  BY <1>4
<1>7. ASSUME NEW n \in T
      PROVE  n + 1 \in T
  <2>1. CASE n + 1 <= N
    <3>1. n + 1 \in 1..N /\ (n + 1) - 1 = n /\ Agree(n)
      BY <1>1, <2>1
    <3> QED
      BY <1>5, <3>1
  <2>2. CASE ~(n + 1 <= N)
    BY <2>2
  <2> QED
    BY <2>1, <2>2
<1> HIDE DEF T
<1>8. T = Nat
  <2>1. T \in SUBSET Nat
    BY DEF T
  <2> QED
    BY <1>6, <1>7, <2>1, InductionOnSet
<1>9. Agree(N)
  BY <1>1, <1>8 DEF T
<1>10. Matches(own[N], sum[N][s])
  BY <1>9 DEF Agree
<1> QED
  BY <1>10 DEF N, own, sum

\* ... and what Matches says is what the property says.
LEMMA MatchesSays ==
  ASSUME events \in Seq(Inbound), InOrder(events)
  PROVE  SummaryMatchesEvents
<1> SUFFICES ASSUME NEW s \in Senders
             PROVE  LET own == FindAll({s}, 0)
                        last == {n \in 1..Len(own) : own[n].at = own[1].at} IN
                    IF own = <<>> THEN FindRecipients[s] = <<>>
                    ELSE /\ FindRecipients[s] = <<own[Cardinality(last)]>>
                         /\ last = {1} => FindRecipients[s] = FindAll({s}, 1)
  BY DEF SummaryMatchesEvents
<1> DEFINE own == Newest(events, {s})[Len(events)]
           entry == FindRecipients[s]
           last == {n \in 1..Len(own) : own[n].at = own[1].at}
<1>1. Matches(own, entry)
  BY LoopsMatch DEF FindRecipients
<1>2. own \in Seq(Inbound)
  BY NewestLoop
<1>3. FindAll({s}, 0) = own
  BY LimitAssumption DEF FindAll, ParseLimit
<1>4. FindAll({s}, 1) = IF 1 > Len(own) THEN own ELSE SubSeq(own, 1, 1)
  BY LimitAssumption DEF FindAll, ParseLimit
<1> HIDE DEF own, entry
<1>5. ASSUME own # <<>>
      PROVE  entry = <<own[Cardinality(last)]>> /\ (last = {1} => entry = FindAll({s}, 1))
  <2>1. PICK c \in 1..Len(own) :
          /\ entry = <<own[c]>>
          /\ \A k \in 1..Len(own) : own[k].at = own[1].at <=> k <= c
    BY <1>1, <1>5 DEF Matches
  <2>2. last = 1..c
    BY <1>2, <2>1
  <2>3. Cardinality(last) = c
    <3>1. c \in Int /\ 1 \in Int /\ ~(1 > c) /\ c - 1 + 1 = c
      OBVIOUS
    <3> HIDE DEF last
    <3>2. Cardinality(1..c) = c
      BY <3>1, FS_Interval
    <3> QED
      BY <2>2, <3>2
  <2>4. ASSUME last = {1}
        PROVE  entry = FindAll({s}, 1)
    <3>1. c = 1
      BY <2>2, <2>4
    <3>2. SubSeq(own, 1, 1) = <<own[1]>> /\ ~(1 > Len(own))
      <4>1. Len(own) \in Nat /\ 1 \in 1..Len(own)
        BY <1>2, <1>5
      <4> DEFINE one == SubSeq(own, 1, 1)
      <4>2. one \in Seq(Inbound) /\ Len(one) = 1 /\ one[1] = own[1]
        BY <1>2, <4>1
      <4> HIDE DEF one
      <4>3. one = <<own[1]>>
        BY <4>2
      <4> QED
        BY <4>1, <4>3 DEF one
    <3> QED
      BY <1>4, <2>1, <3>1, <3>2
  <2> QED
    BY <2>1, <2>3, <2>4
<1> QED
  BY <1>1, <1>3, <1>5 DEF Matches, entry

\* The events of the messenger are in the order of their times: a call has the
\* time of the last one, or a later one.
EventsOK == events \in Seq(Inbound) /\ InOrder(events)

LEMMA CallKeepsOrder ==
  ASSUME EventsOK, HandleIncomingWebhook
  PROVE  EventsOK'
<1>1. PICK now \in {Now, Now + 1} :
        \E items \in BoundedSeq((Senders \cup {NoSender}) \X Messages, 2) :
          events' = events \o ExtractEvents(items, now)
  BY DEF HandleIncomingWebhook
<1>2. PICK items \in BoundedSeq((Senders \cup {NoSender}) \X Messages, 2) :
        events' = events \o ExtractEvents(items, now)
  BY <1>1
<1> DEFINE old == events
           new == ExtractEvents(items, now)
           both == old \o new
<1>3. old \in Seq(Inbound) /\ InOrder(old) /\ Len(old) \in Nat
  BY DEF EventsOK
<1>4. /\ now \in Nat
      /\ \A n \in 1..Len(old) : old[n] \in Inbound /\ old[n].at \in Nat /\ old[n].at <= now
  <2>1. \A n \in 1..Len(old) : old[n] \in Inbound /\ old[n].at \in Nat
    <3>1. \A n \in 1..Len(old) : old[n] \in Inbound
      BY <1>3
    <3> QED
      BY <3>1 DEF Inbound
  <2>2. CASE old = <<>>
    <3>1. Now = 0 /\ Len(old) = 0
      BY <2>2 DEF Now
    <3> QED
      BY <2>1, <3>1
  <2>3. CASE old # <<>>
    <3>1. Now = old[Len(old)].at /\ Len(old) \in 1..Len(old)
      BY <1>3, <2>3 DEF Now, Last
    <3>2. \A n \in 1..Len(old) : old[n].at <= Now
      BY <1>3, <3>1 DEF InOrder
    <3>3. Now \in Nat
      BY <2>1, <3>1
    <3> QED
      BY <2>1, <3>2, <3>3
  <2> QED
    BY <2>2, <2>3
<1>5. items \in Seq((Senders \cup {NoSender}) \X Messages)
  <2>1. PICK l \in 0..2 : items \in [1..l -> (Senders \cup {NoSender}) \X Messages]
    BY DEF BoundedSeq, SeqOf
  <2> QED
    BY <2>1, SeqDef
<1>6. /\ new \in Seq(Inbound) /\ Len(new) \in Nat
      /\ \A n \in 1..Len(new) : new[n].at = now
  <2> DEFINE l == Len(items)
  <2>1. l \in Nat /\ \A n \in 1..l : items[n] \in (Senders \cup {NoSender}) \X Messages
    BY <1>5
  <2>2. new = [n \in 1..l |-> [sender |-> items[n][1], text |-> items[n][2], at |-> now]]
    BY DEF ExtractEvents
  <2> HIDE DEF l, new
  <2>3. new \in [1..l -> Inbound] /\ \A n \in 1..l : new[n].at = now
    BY <1>4, <2>1, <2>2 DEF Inbound
  <2>4. new \in Seq(Inbound) /\ Len(new) = l
    BY <2>1, <2>3
  <2> QED
    BY <2>1, <2>3, <2>4
<1> HIDE DEF old, new, both
<1>7. /\ both \in Seq(Inbound) /\ Len(both) = Len(old) + Len(new)
      /\ \A n \in 1..Len(both) :
           both[n] = IF n <= Len(old) THEN old[n] ELSE new[n - Len(old)]
  BY <1>3, <1>6, ConcatProperties DEF both
<1>8. InOrder(both)
  <2>1. SUFFICES ASSUME NEW m \in 1..Len(both), NEW n \in 1..Len(both), m <= n
                 PROVE  both[m].at <= both[n].at
    BY DEF InOrder
  <2>2. CASE n <= Len(old)
    <3>1. n \in 1..Len(old) /\ m \in 1..Len(old) /\ both[m] = old[m] /\ both[n] = old[n]
      BY <1>3, <1>7, <2>1, <2>2
    <3> QED
      BY <1>3, <2>1, <3>1 DEF InOrder
  <2>3. CASE ~(n <= Len(old))
    <3>1. n - Len(old) \in 1..Len(new) /\ both[n] = new[n - Len(old)]
      BY <1>3, <1>6, <1>7, <2>3
    <3>2. both[n].at = now
      BY <1>6, <3>1
    <3>3. CASE m <= Len(old)
      <4>1. m \in 1..Len(old) /\ both[m] = old[m]
        BY <1>3, <1>7, <3>3
      <4> QED
        BY <1>4, <3>2, <4>1
    <3>4. CASE ~(m <= Len(old))
      <4>1. m - Len(old) \in 1..Len(new) /\ both[m] = new[m - Len(old)]
        BY <1>3, <1>6, <1>7, <3>4
      <4> QED
        BY <1>4, <1>6, <3>2, <4>1
    <3> QED
      BY <3>3, <3>4
  <2> QED
    BY <2>2, <2>3
<1> QED
  BY <1>2, <1>7, <1>8 DEF EventsOK, old, new, both

\* After any calls, with any number of messages without a sender, of a sender
\* or of several, the summary of the senders and the list of events agree:
\* each entry is the first message of its sender's last millisecond
\* (findRecipients' strict comparison against findAll's reversed order).
THEOREM SummariesMatchEvents == Spec => []SummaryMatchesEvents
<1>1. DashboardInit => EventsOK
  <2> SUFFICES ASSUME DashboardInit
               PROVE  EventsOK
    OBVIOUS
  <2>1. events = <<>>
    BY DEF DashboardInit, MessengerInit
  <2>2. Len(events) = 0 /\ events \in Seq(Inbound)
    BY <2>1
  <2> QED
    BY <2>2 DEF EventsOK, InOrder
<1>2. EventsOK /\ [Next]_vars => EventsOK'
  <2> SUFFICES ASSUME EventsOK, [Next]_vars
               PROVE  EventsOK'
    OBVIOUS
  <2>1. HandleIncomingWebhook \/ UNCHANGED events
    BY DEF Next, vars
  <2>2. CASE UNCHANGED events
    BY <2>2 DEF EventsOK, InOrder
  <2> QED
    BY <2>1, <2>2, CallKeepsOrder
<1>3. EventsOK => SummaryMatchesEvents
  BY MatchesSays DEF EventsOK
<1> QED
  BY <1>1, <1>2, <1>3, PTL DEF Spec

=============================================================================

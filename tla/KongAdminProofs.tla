---------------------------- MODULE KongAdminProofs ----------------------------
(***************************************************************************)
(* Theorems about KongAdmin, for all sets of accounts, addresses, calls,   *)
(* services, routes and consumers and any bound on the requests: what a    *)
(* deactivation guarantees, whichever calls to Kong run or fail around it. *)
(***************************************************************************)
EXTENDS KongAdmin, SequenceTheorems, TLAPS

-----------------------------------------------------------------------------
(* The inductive invariant. *)

\* Accounts and calls are records; what they hold does not matter here.
RecordsOK ==
  /\ users = [u \in Users |-> [email |-> users[u].email, status |-> users[u].status]]
  /\ calls = [c \in Calls |->
       [user |-> calls[c].user, plan |-> calls[c].plan, key |-> calls[c].key,
        other |-> calls[c].other, late |-> calls[c].late]]

\* What the plans of the calls are made of.
Steps ==
  {"guard", "exists", "insert", "find", "compare", "users", "load", "save",
   "GET all", "GET service", "POST service", "PATCH service", "DELETE service",
   "POST transformer", "GET route", "POST route", "PATCH route", "DELETE route",
   "GET plugins", "POST acl", "POST member", "GET members", "DELETE member",
   "GET consumer", "GET consumers", "GET each", "POST consumer", "PATCH consumer",
   "DELETE consumer", "POST key"}

\* Account k is another than author u, or the request spells it otherwise.
Another(u, k, o) == k # u \/ o = "respelled"

\* In plan p of author u with key k and other value o, account k is looked up
\* and compared with u before it is saved.
Checked(p, u, k, o) ==
  /\ p \in Seq(Steps)
  /\ \A n \in 1..Len(p) : p[n] = "save" =>
       /\ u # None /\ n <= 3
       /\ IF n = 1 THEN Another(u, k, o) ELSE p[n - 1] = "load"
       /\ n = 3 => p[1] = "guard"

SavesAreChecked ==
  \A c \in Calls : Checked(calls[c].plan, calls[c].user, calls[c].key, calls[c].other)

IInv == RecordsOK /\ ActsOnlyWhileActive /\ SavesAreChecked

-----------------------------------------------------------------------------
(* Plans. *)

LEMMA EmptyPlan == \A u, k, o : Checked(<<>>, u, k, o)
  BY DEF Checked

\* The rest of a plan is checked, but for what the first step was to check,
\* and with any other value unless that was the check.
LEMMA RestOfPlan ==
  ASSUME NEW p, NEW u, NEW k, NEW o, NEW v, Checked(p, u, k, o), p # <<>>,
         Head(p) = "load" => Another(u, k, v)
  PROVE  Checked(Tail(p), u, k, v)
<1> DEFINE q == Tail(p)
<1>1. /\ q \in Seq(Steps) /\ Len(q) = Len(p) - 1
      /\ \A n \in 1..Len(q) : q[n] = p[n + 1]
  BY DEF Checked
<1>2. ASSUME NEW n \in 1..Len(q), q[n] = "save"
      PROVE  /\ u # None /\ n <= 2
             /\ IF n = 1 THEN Another(u, k, v) ELSE q[n - 1] = "load"
  <2>1. /\ n + 1 \in 1..Len(p) /\ p[n + 1] = "save"
        /\ u # None /\ n <= 2 /\ p[n] = "load"
    BY <1>1, <1>2 DEF Checked
  <2>2. CASE n = 1
    BY <2>1, <2>2 DEF Checked
  <2>3. CASE n # 1
    <3>1. n - 1 \in 1..Len(q)
      BY <2>3
    <3>2. q[n - 1] = p[n]
      BY <1>1, <3>1
    <3> QED BY <2>1, <2>3, <3>2
  <2> QED BY <2>2, <2>3
<1> QED BY <1>1, <1>2 DEF Checked

\* A plan whose first step is not to save is checked with any other value.
LEMMA OtherValue ==
  ASSUME NEW p, NEW u, NEW k, NEW o, NEW v, Checked(p, u, k, o), p # <<>>,
         Head(p) # "save"
  PROVE  Checked(p, u, k, v)
<1>1. p[1] # "save"
  BY DEF Checked
<1> QED BY <1>1 DEF Checked

\* Two steps on, there is nothing left to save.
LEMMA PlanWithoutTwo ==
  ASSUME NEW p, NEW u, NEW k, NEW o, NEW n \in {2, 3}, Checked(p, u, k, o), p # <<>>,
         Head(p) \notin {"guard", "load"}
  PROVE  Checked(SubSeq(p, n, Len(p)), u, k, o)
<1> DEFINE q == SubSeq(p, n, Len(p))
<1>1. /\ q \in Seq(Steps)
      /\ \A m \in 1..Len(q) : m + n - 1 \in 1..Len(p) /\ q[m] = p[m + n - 1]
  BY DEF Checked
<1>2. ASSUME NEW m \in 1..Len(q), q[m] = "save"
      PROVE  FALSE
  <2>1. p[1] \notin {"guard", "load"}
    BY DEF Checked
  <2>2. /\ m + n - 1 \in 1..Len(p) /\ p[m + n - 1] = "save"
        /\ m + n - 1 \in {2, 3}
    BY <1>1, <1>2 DEF Checked
  <2>3. CASE m + n - 1 = 2
    BY <2>1, <2>2, <2>3 DEF Checked
  <2>4. CASE m + n - 1 = 3
    BY <2>1, <2>2, <2>4 DEF Checked
  <2> QED BY <2>2, <2>3, <2>4
<1> QED BY <1>1, <1>2 DEF Checked

\* Behind the guard comes a plan of Kong's, which saves no account.
LEMMA GuardedPlan ==
  ASSUME NEW p \in Seq(Steps), \A n \in 1..Len(p) : p[n] # "save",
         NEW u, NEW k, NEW o
  PROVE  /\ Checked(<<"guard">> \o p, u, k, o)
         /\ <<"guard">> \o p # <<>>
         /\ Head(<<"guard">> \o p) = "guard"
<1> DEFINE q == <<"guard">> \o p
<1>1. /\ q \in Seq(Steps) /\ Len(q) = Len(p) + 1
      /\ q[1] = "guard"
      /\ \A n \in 2..Len(q) : q[n] = p[n - 1]
  <2> DEFINE g == <<"guard">>
  <2>1. g \in Seq(Steps) /\ Len(g) = 1 /\ g[1] = "guard"
    <3>1. "guard" \in Steps
      BY DEF Steps
    <3> QED BY <3>1
  <2> HIDE DEF g
  <2>2. /\ g \o p \in Seq(Steps) /\ Len(g \o p) = Len(p) + 1
        /\ \A n \in 1..Len(g) + Len(p) :
             (g \o p)[n] = IF n <= Len(g) THEN g[n] ELSE p[n - Len(g)]
    BY <2>1, ConcatProperties
  <2>3. 1 \in 1..Len(g \o p) /\ 2..Len(g \o p) \subseteq 1..Len(g \o p)
    BY <2>2
  <2> QED BY <2>1, <2>2, <2>3 DEF g
<1>2. \A n \in 1..Len(q) : q[n] # "save"
  <2> TAKE n \in 1..Len(q)
  <2>1. CASE n = 1
    BY <1>1, <2>1
  <2>2. CASE n # 1
    <3>1. n - 1 \in 1..Len(p) /\ n \in 2..Len(q)
      BY <1>1, <2>2
    <3> QED BY <1>1, <3>1
  <2> QED BY <2>1, <2>2
<1>3. q # <<>> /\ Head(q) = "guard"
  BY <1>1
<1> QED BY <1>1, <1>2, <1>3 DEF Checked

-----------------------------------------------------------------------------
(* What a step does to the calls, whichever step it is. *)

\* A call ends, and nothing becomes of the accounts.
LEMMA EndedKeeps ==
  ASSUME IInv, NEW c \in Calls, users' = users, calls' = Ended(c)
  PROVE  IInv'
<1>1. /\ calls'[c] = Idle
      /\ \A d \in Calls : d # c => calls'[d] = calls[d]
  BY DEF IInv, RecordsOK, Ended
<1>2. RecordsOK'
  <2>1. calls' = [d \in Calls |-> IF d = c THEN Idle ELSE calls[d]]
    BY DEF IInv, RecordsOK, Ended
  <2>2. \A d \in Calls : calls'[d] =
          [user |-> calls'[d].user, plan |-> calls'[d].plan, key |-> calls'[d].key,
           other |-> calls'[d].other, late |-> calls'[d].late]
    BY <1>1 DEF IInv, RecordsOK, Idle
  <2> QED BY <2>1, <2>2 DEF IInv, RecordsOK
<1>3. ActsOnlyWhileActive'
  <2> SUFFICES ASSUME NEW d \in Calls, Admitted(d)'
               PROVE  calls'[d].user \in Active' \/ calls'[d].late
    BY DEF ActsOnlyWhileActive
  <2>1. d # c
    <3>1. calls'[c].user = None
      BY <1>1 DEF Idle
    <3> QED BY <3>1 DEF Admitted
  <2> QED BY <1>1, <2>1 DEF IInv, ActsOnlyWhileActive, Admitted, Due, Active
<1>4. SavesAreChecked'
  BY <1>1, EmptyPlan DEF IInv, SavesAreChecked, Idle
<1> QED BY <1>2, <1>3, <1>4 DEF IInv

\* A field of a call changes.
LEMMA CallUpdate ==
  ASSUME NEW x, NEW v,
         x = [user |-> x.user, plan |-> x.plan, key |-> x.key, other |-> x.other,
              late |-> x.late]
  PROVE  /\ [x EXCEPT !.plan = v] =
              [user |-> x.user, plan |-> v, key |-> x.key, other |-> x.other,
               late |-> x.late]
         /\ [x EXCEPT !.other = v] =
              [user |-> x.user, plan |-> x.plan, key |-> x.key, other |-> v,
               late |-> x.late]
         /\ [x EXCEPT !.late = v] =
              [user |-> x.user, plan |-> x.plan, key |-> x.key, other |-> x.other,
               late |-> v]
  OBVIOUS

\* A call past the guard goes on with a checked plan.
LEMMA MoveKeeps ==
  ASSUME IInv, NEW c \in Calls, Due(c) \notin {"", "guard"}, users' = users,
         NEW p, NEW o, Checked(p, calls[c].user, calls[c].key, o),
         calls' = [calls EXCEPT ![c] =
           [user |-> calls[c].user, plan |-> p, key |-> calls[c].key,
            other |-> o, late |-> calls[c].late]]
  PROVE  IInv'
<1>1. /\ calls'[c] = [user |-> calls[c].user, plan |-> p, key |-> calls[c].key,
                      other |-> o, late |-> calls[c].late]
      /\ \A d \in Calls : d # c => calls'[d] = calls[d]
  BY DEF IInv, RecordsOK
<1>2. RecordsOK'
  <2>1. calls' = [d \in Calls |-> calls'[d]]
    BY DEF IInv, RecordsOK
  <2>2. \A d \in Calls : calls'[d] =
          [user |-> calls'[d].user, plan |-> calls'[d].plan, key |-> calls'[d].key,
           other |-> calls'[d].other, late |-> calls'[d].late]
    BY <1>1 DEF IInv, RecordsOK
  <2> QED BY <2>1, <2>2 DEF IInv, RecordsOK
<1>3. ActsOnlyWhileActive'
  <2> SUFFICES ASSUME NEW d \in Calls, Admitted(d)'
               PROVE  calls'[d].user \in Active' \/ calls'[d].late
    BY DEF ActsOnlyWhileActive
  <2>1. /\ calls'[d].user = calls[d].user /\ calls'[d].late = calls[d].late
        /\ d # c => calls'[d] = calls[d]
    <3>1. calls'[c].user = calls[c].user /\ calls'[c].late = calls[c].late
      BY ONLY <1>1
    <3> QED BY <1>1, <3>1
  <2>2. Admitted(d)
    BY <2>1 DEF Admitted, Due
  <2> QED BY <2>1, <2>2 DEF IInv, ActsOnlyWhileActive, Active
<1>4. SavesAreChecked'
  <2>1. /\ calls'[c].plan = p /\ calls'[c].user = calls[c].user
        /\ calls'[c].key = calls[c].key /\ calls'[c].other = o
    BY ONLY <1>1
  <2> QED BY <1>1, <2>1 DEF IInv, SavesAreChecked
<1> QED BY <1>2, <1>3, <1>4 DEF IInv

\* A call past the guard is done with what was due; after a lookup, when
\* the account it is to save is another's.
LEMMA AdvanceKeeps ==
  ASSUME IInv, NEW c \in Calls, Due(c) \notin {"", "guard"}, users' = users,
         Due(c) = "load" => Another(calls[c].user, calls[c].key, calls[c].other),
         Advance(c)
  PROVE  IInv'
<1>1. Checked(Tail(calls[c].plan), calls[c].user, calls[c].key, calls[c].other)
  BY RestOfPlan DEF IInv, SavesAreChecked, Due
<1>2. CASE calls' = Ended(c)
  BY <1>2, EndedKeeps
<1>3. CASE calls' = [calls EXCEPT ![c].plan = Tail(calls[c].plan)]
  <2>1. calls' = [calls EXCEPT ![c] = [calls[c] EXCEPT !.plan = Tail(calls[c].plan)]]
    BY <1>3
  <2>2. calls[c] = [user |-> calls[c].user, plan |-> calls[c].plan, key |-> calls[c].key,
                    other |-> calls[c].other, late |-> calls[c].late]
    BY DEF IInv, RecordsOK
  <2>3. calls' = [calls EXCEPT ![c] =
          [user |-> calls[c].user, plan |-> Tail(calls[c].plan), key |-> calls[c].key,
           other |-> calls[c].other, late |-> calls[c].late]]
    BY <2>1, <2>2, CallUpdate
  <2> QED BY <1>1, <2>3, MoveKeeps
<1> QED BY <1>2, <1>3 DEF Advance, Continue

LEMMA DoneKeeps ==
  ASSUME IInv, NEW c \in Calls, Due(c) \notin {"", "guard", "load"}, users' = users,
         Done(c)
  PROVE  IInv'
  BY AdvanceKeeps, EndedKeeps DEF Done

\* A request begins with the guard, unless nobody is signed in for it.
LEMMA AskKeeps ==
  ASSUME IInv, NEW c \in Calls, NEW u, NEW p, NEW k, NEW o, users' = users,
         Ask(c, u, p, k, o), Checked(p, u, k, o),
         u = None \/ (p # <<>> /\ Head(p) = "guard")
  PROVE  IInv'
<1>1. /\ calls'[c] = [user |-> u, plan |-> p, key |-> k, other |-> o, late |-> FALSE]
      /\ \A d \in Calls : d # c => calls'[d] = calls[d]
  BY DEF IInv, RecordsOK, Ask
<1>2. RecordsOK'
  <2>1. calls' = [d \in Calls |-> calls'[d]]
    BY DEF IInv, RecordsOK, Ask
  <2>2. \A d \in Calls : calls'[d] =
          [user |-> calls'[d].user, plan |-> calls'[d].plan, key |-> calls'[d].key,
           other |-> calls'[d].other, late |-> calls'[d].late]
    BY <1>1 DEF IInv, RecordsOK
  <2> QED BY <2>1, <2>2 DEF IInv, RecordsOK
<1>3. ActsOnlyWhileActive'
  <2> SUFFICES ASSUME NEW d \in Calls, Admitted(d)'
               PROVE  calls'[d].user \in Active' \/ calls'[d].late
    BY DEF ActsOnlyWhileActive
  <2>1. d # c
    <3>1. calls'[c].user = u /\ calls'[c].plan = p
      BY <1>1
    <3> QED BY <3>1 DEF Admitted, Due
  <2> QED BY <1>1, <2>1 DEF IInv, ActsOnlyWhileActive, Admitted, Due, Active
<1>4. SavesAreChecked'
  BY <1>1 DEF IInv, SavesAreChecked
<1> QED BY <1>2, <1>3, <1>4 DEF IInv

-----------------------------------------------------------------------------
(* The steps of the accounts. *)

LEMMA ValidateInv ==
  ASSUME IInv, NEW c \in Calls, Validate(c)
  PROVE  IInv'
<1>1. users' = users
  BY DEF Validate
<1>2. CASE calls' = Ended(c)
  BY <1>1, <1>2, EndedKeeps
<1>3. CASE calls[c].user \in Active /\ Advance(c) /\ calls' # Ended(c)
  <2> DEFINE p == Tail(calls[c].plan)
  <2>1. calls' = [calls EXCEPT ![c].plan = p]
    BY <1>3 DEF Advance, Continue
  <2>2. calls[c] = [user |-> calls[c].user, plan |-> calls[c].plan, key |-> calls[c].key,
                    other |-> calls[c].other, late |-> calls[c].late]
    BY DEF IInv, RecordsOK
  <2>3. calls' = [calls EXCEPT ![c] =
          [user |-> calls[c].user, plan |-> p, key |-> calls[c].key,
           other |-> calls[c].other, late |-> calls[c].late]]
    BY <2>1, <2>2, CallUpdate
  <2>4. /\ calls'[c] = [user |-> calls[c].user, plan |-> p, key |-> calls[c].key,
                        other |-> calls[c].other, late |-> calls[c].late]
        /\ \A d \in Calls : d # c => calls'[d] = calls[d]
        /\ calls' = [d \in Calls |-> calls'[d]]
    BY <2>3 DEF IInv, RecordsOK
  <2>5. /\ calls'[c].plan = p /\ calls'[c].user = calls[c].user
        /\ calls'[c].key = calls[c].key /\ calls'[c].other = calls[c].other
    BY ONLY <2>4
  <2>6. RecordsOK'
    <3>1. \A d \in Calls : calls'[d] =
            [user |-> calls'[d].user, plan |-> calls'[d].plan, key |-> calls'[d].key,
             other |-> calls'[d].other, late |-> calls'[d].late]
      BY <2>4 DEF IInv, RecordsOK
    <3> QED BY <1>1, <2>4, <3>1 DEF IInv, RecordsOK
  <2>7. ActsOnlyWhileActive'
    <3> SUFFICES ASSUME NEW d \in Calls, Admitted(d)'
                 PROVE  calls'[d].user \in Active' \/ calls'[d].late
      BY DEF ActsOnlyWhileActive
    <3>1. CASE d = c
      BY <1>1, <1>3, <2>5, <3>1 DEF Active
    <3>2. CASE d # c
      BY <1>1, <2>4, <3>2 DEF IInv, ActsOnlyWhileActive, Admitted, Due, Active
    <3> QED BY <3>1, <3>2
  <2>8. Checked(p, calls[c].user, calls[c].key, calls[c].other)
    BY RestOfPlan DEF IInv, SavesAreChecked, Validate, Due
  <2>9. SavesAreChecked'
    BY <2>4, <2>5, <2>8 DEF IInv, SavesAreChecked
  <2> QED BY <2>6, <2>7, <2>9 DEF IInv
<1> QED BY <1>2, <1>3 DEF Validate

\* A new account takes none of the ids there are.
LEMMA InsertUserInv ==
  ASSUME IInv, NEW c \in Calls, InsertUser(c)
  PROVE  IInv'
<1>1. CASE users' = users
  BY <1>1, EndedKeeps DEF InsertUser
<1>2. CASE \E u \in Users \ Stored :
             users' = [users EXCEPT ![u] = [email |-> calls[c].key, status |-> "ACTIVE"]]
  <2>1. PICK u \in Users \ Stored :
          users' = [users EXCEPT ![u] = [email |-> calls[c].key, status |-> "ACTIVE"]]
    BY <1>2
  <2>2. /\ calls' = [d \in Calls |-> IF d = c THEN Idle ELSE calls[d]]
    BY DEF InsertUser, Ended, IInv, RecordsOK
  <2>3. RecordsOK'
    <3>1. users' = [v \in Users |-> [email |-> users'[v].email, status |-> users'[v].status]]
      BY <2>1 DEF IInv, RecordsOK
    <3>2. \A d \in Calls : calls'[d] =
            [user |-> calls'[d].user, plan |-> calls'[d].plan, key |-> calls'[d].key,
             other |-> calls'[d].other, late |-> calls'[d].late]
      BY <2>2 DEF IInv, RecordsOK, Idle
    <3> QED BY <2>2, <3>1, <3>2 DEF RecordsOK
  <2>4. Active \subseteq Active'
    <3>1. \A v \in Users : v # u => users'[v] = users[v]
      BY <2>1 DEF IInv, RecordsOK
    <3>2. users'[u].status = "ACTIVE"
      BY <2>1 DEF IInv, RecordsOK
    <3> QED BY <3>1, <3>2 DEF Active
  <2>5. ActsOnlyWhileActive'
    <3> SUFFICES ASSUME NEW d \in Calls, Admitted(d)'
                 PROVE  calls'[d].user \in Active' \/ calls'[d].late
      BY DEF ActsOnlyWhileActive
    <3>1. d # c
      <4>1. calls'[c].user = None
        BY <2>2 DEF Idle
      <4> QED BY <4>1 DEF Admitted
    <3> QED BY <2>2, <2>4, <3>1 DEF IInv, ActsOnlyWhileActive, Admitted, Due
  <2>6. SavesAreChecked'
    BY <2>2, EmptyPlan DEF IInv, SavesAreChecked, Idle
  <2> QED BY <2>3, <2>5, <2>6 DEF IInv
<1> QED BY <1>1, <1>2 DEF InsertUser

\* Whoever is deactivated is past the guard late from now on.
LEMMA SaveInactiveInv ==
  ASSUME IInv, NEW c \in Calls, SaveInactive(c)
  PROVE  IInv'
<1> DEFINE v == calls[c].key
           late(d) == calls[d].user = v /\ Admitted(d)
<1>1. users' = [users EXCEPT ![v].status = "INACTIVE"]
  BY DEF SaveInactive
<1>2. calls' = [d \in Calls |->
        IF d = c THEN Idle
        ELSE IF late(d) THEN [calls[d] EXCEPT !.late = TRUE] ELSE calls[d]]
  BY DEF SaveInactive
<1>3. \A d \in Calls : late(d) => [calls[d] EXCEPT !.late = TRUE] =
        [user |-> calls[d].user, plan |-> calls[d].plan, key |-> calls[d].key,
         other |-> calls[d].other, late |-> TRUE]
  <2> TAKE d \in Calls
  <2>1. calls[d] = [user |-> calls[d].user, plan |-> calls[d].plan, key |-> calls[d].key,
                    other |-> calls[d].other, late |-> calls[d].late]
    BY DEF IInv, RecordsOK
  <2> QED BY <2>1, CallUpdate
<1>4. /\ calls'[c] = Idle
      /\ \A d \in Calls : d # c =>
           /\ calls'[d].user = calls[d].user /\ calls'[d].plan = calls[d].plan
           /\ calls'[d].key = calls[d].key /\ calls'[d].other = calls[d].other
           /\ late(d) => calls'[d].late
           /\ ~late(d) => calls'[d] = calls[d]
           /\ calls'[d] =
                [user |-> calls'[d].user, plan |-> calls'[d].plan, key |-> calls'[d].key,
                 other |-> calls'[d].other, late |-> calls'[d].late]
  <2>1. calls'[c] = Idle
    BY <1>2
  <2>2. ASSUME NEW d \in Calls, d # c, late(d)
        PROVE  calls'[d] = [user |-> calls[d].user, plan |-> calls[d].plan,
                            key |-> calls[d].key, other |-> calls[d].other, late |-> TRUE]
    BY <1>2, <1>3, <2>2
  <2>3. ASSUME NEW d \in Calls, d # c, ~late(d)
        PROVE  calls'[d] = calls[d]
    BY <1>2, <2>3
  <2>4. \A d \in Calls : calls[d] =
          [user |-> calls[d].user, plan |-> calls[d].plan, key |-> calls[d].key,
           other |-> calls[d].other, late |-> calls[d].late]
    BY DEF IInv, RecordsOK
  <2> HIDE DEF late
  <2>5. ASSUME NEW d \in Calls, d # c, late(d)
        PROVE  /\ calls'[d].user = calls[d].user /\ calls'[d].plan = calls[d].plan
               /\ calls'[d].key = calls[d].key /\ calls'[d].other = calls[d].other
               /\ calls'[d].late
               /\ calls'[d] =
                    [user |-> calls'[d].user, plan |-> calls'[d].plan,
                     key |-> calls'[d].key, other |-> calls'[d].other,
                     late |-> calls'[d].late]
    <3>1. calls'[d] = [user |-> calls[d].user, plan |-> calls[d].plan,
                       key |-> calls[d].key, other |-> calls[d].other, late |-> TRUE]
      BY <2>2, <2>5
    <3> QED BY ONLY <3>1
  <2> QED BY <2>1, <2>3, <2>4, <2>5
<1> HIDE DEF late
<1>5. RecordsOK'
  <2>1. users' = [u \in Users |-> [email |-> users'[u].email, status |-> users'[u].status]]
    <3>1. \A u \in Users : users[u] = [email |-> users[u].email, status |-> users[u].status]
      BY DEF IInv, RecordsOK
    <3>2. \A u \in Users : users'[u] =
            IF u = v THEN [users[u] EXCEPT !.status = "INACTIVE"] ELSE users[u]
      BY <1>1 DEF IInv, RecordsOK
    <3>3. \A u \in Users :
            users'[u] = [email |-> users'[u].email, status |-> users'[u].status]
      BY <3>1, <3>2
    <3>4. users' = [u \in Users |-> users'[u]]
      BY <1>1 DEF IInv, RecordsOK
    <3> QED BY <3>3, <3>4
  <2>2. calls'[c] = [user |-> calls'[c].user, plan |-> calls'[c].plan, key |-> calls'[c].key,
                     other |-> calls'[c].other, late |-> calls'[c].late]
    BY <1>4 DEF Idle
  <2>3. calls' = [d \in Calls |-> calls'[d]]
    BY <1>2
  <2> QED BY <1>4, <2>1, <2>2, <2>3 DEF RecordsOK
<1>6. ActsOnlyWhileActive'
  <2> SUFFICES ASSUME NEW d \in Calls, Admitted(d)'
               PROVE  calls'[d].user \in Active' \/ calls'[d].late
    BY DEF ActsOnlyWhileActive
  <2>1. d # c
    <3>1. calls'[c].user = None
      BY <1>4 DEF Idle
    <3> QED BY <3>1 DEF Admitted
  <2>2. Admitted(d)
    BY <1>4, <2>1 DEF Admitted, Due
  <2>3. CASE calls[d].user = v
    BY <1>4, <2>1, <2>2, <2>3 DEF late
  <2>4. CASE calls[d].user # v
    <3>1. calls'[d] = calls[d]
      BY <1>4, <2>1, <2>4 DEF late
    <3>2. Active \ {v} \subseteq Active'
      BY <1>1 DEF Active, IInv, RecordsOK
    <3> QED BY <2>2, <2>4, <3>1, <3>2 DEF IInv, ActsOnlyWhileActive
  <2> QED BY <2>3, <2>4
<1>7. SavesAreChecked'
  <2>1. Checked(calls'[c].plan, calls'[c].user, calls'[c].key, calls'[c].other)
    BY <1>4, EmptyPlan DEF Idle
  <2> QED BY <1>4, <2>1 DEF IInv, SavesAreChecked
<1> QED BY <1>5, <1>6, <1>7 DEF IInv

LEMMA AccountStepInv ==
  ASSUME IInv, NEW c \in Calls, AccountStep(c)
  PROVE  IInv'
<1>1. CASE Validate(c)
  BY <1>1, ValidateInv
<1>2. CASE LookUpEmail(c)
  BY <1>2, AdvanceKeeps, EndedKeeps DEF LookUpEmail
<1>3. CASE InsertUser(c)
  BY <1>3, InsertUserInv
<1>4. CASE FindUser(c)
  BY <1>4, AdvanceKeeps, EndedKeeps DEF FindUser
<1>5. CASE SignToken(c)
  BY <1>5, EndedKeeps DEF SignToken
<1>6. CASE ListAll(c)
  BY <1>6, AdvanceKeeps DEF ListAll
<1>7. CASE LoadAdmin(c)
  BY <1>7, AdvanceKeeps, EndedKeeps DEF LoadAdmin, RespellsAuthor, Another
<1>8. CASE SaveInactive(c)
  BY <1>8, SaveInactiveInv
<1> QED BY <1>1, <1>2, <1>3, <1>4, <1>5, <1>6, <1>7, <1>8 DEF AccountStep

-----------------------------------------------------------------------------
(* Requests. *)

\* The plans of the requests about accounts.
LEMMA AccountPlans ==
  /\ \A u, k, o : /\ Checked(<<"exists", "insert">>, u, k, o)
                  /\ Checked(<<"find", "compare">>, u, k, o)
                  /\ Checked(<<"guard">>, u, k, o)
                  /\ Checked(<<"guard", "users">>, u, k, o)
  /\ \A u \in Users : \A k, o : Checked(<<"guard", "load", "save">>, u, k, o)
<1>1. {"guard", "exists", "insert", "find", "compare", "users", "load", "save"}
        \subseteq Steps
  BY DEF Steps
<1>2. /\ <<"exists", "insert">> \in Seq(Steps) /\ <<"find", "compare">> \in Seq(Steps)
      /\ <<"guard">> \in Seq(Steps) /\ <<"guard", "users">> \in Seq(Steps)
      /\ <<"guard", "load", "save">> \in Seq(Steps)
  BY <1>1
<1>3. \A u \in Users : u # None
  BY NoneAssumption
<1> QED BY <1>2, <1>3 DEF Checked

LEMMA AccountRequestInv ==
  ASSUME IInv, NEW c \in Calls, AccountRequest(c)
  PROVE  IInv'
<1>1. users' = users
  BY DEF AccountRequest
<1>2. CASE \E e \in Emails : Register(c, e) \/ Login(c, e)
  BY <1>1, <1>2, AskKeeps, AccountPlans DEF Register, Login
<1>3. CASE \E u \in Users : Me(c, u) \/ ListUsers(c, u)
  <2>1. /\ <<"guard">> # <<>> /\ Head(<<"guard">>) = "guard"
        /\ <<"guard", "users">> # <<>> /\ Head(<<"guard", "users">>) = "guard"
    OBVIOUS
  <2> QED BY <1>1, <1>3, <2>1, AskKeeps, AccountPlans DEF Me, ListUsers
<1>4. CASE \E u, v \in Users : DeleteAdmin(c, u, v)
  <2>1. /\ <<"guard", "load", "save">> # <<>>
        /\ Head(<<"guard", "load", "save">>) = "guard"
    OBVIOUS
  <2> QED BY <1>1, <1>4, <2>1, AskKeeps, AccountPlans DEF DeleteAdmin
<1> QED BY <1>2, <1>3, <1>4 DEF AccountRequest

\* A plan that Kong is asked to do: it saves no account.
KongPlan(p) == p \in Seq(Steps) /\ \A n \in 1..Len(p) : p[n] # "save"

LEMMA RequestKeeps ==
  ASSUME IInv, NEW c \in Calls, NEW u, NEW p, NEW k, NEW o, users' = users,
         Request(c, u, p, k, o), KongPlan(p)
  PROVE  IInv'
  BY GuardedPlan, AskKeeps DEF Request, KongPlan

LEMMA OneStepPlan ==
  ASSUME NEW a \in Steps, a # "save"
  PROVE  KongPlan(<<a>>)
  BY DEF KongPlan

LEMMA TwoStepPlan ==
  ASSUME NEW a \in Steps, NEW b \in Steps, "save" \notin {a, b}
  PROVE  KongPlan(<<a, b>>)
  BY DEF KongPlan

LEMMA ThreeStepPlan ==
  ASSUME NEW a \in Steps, NEW b \in Steps, NEW d \in Steps, "save" \notin {a, b, d}
  PROVE  KongPlan(<<a, b, d>>)
  BY DEF KongPlan

LEMMA JoinedPlan ==
  ASSUME NEW p, NEW q, KongPlan(p), KongPlan(q)
  PROVE  KongPlan(p \o q)
<1>1. /\ p \o q \in Seq(Steps) /\ Len(p \o q) = Len(p) + Len(q)
      /\ \A n \in 1..Len(p) + Len(q) :
           (p \o q)[n] = IF n <= Len(p) THEN p[n] ELSE q[n - Len(p)]
  BY ConcatProperties DEF KongPlan
<1>2. Len(p) \in Nat /\ Len(q) \in Nat
  BY DEF KongPlan
<1>3. ASSUME NEW n \in 1..Len(p) + Len(q)
      PROVE  (p \o q)[n] # "save"
  <2>1. CASE n <= Len(p)
    BY <1>1, <1>2, <2>1 DEF KongPlan
  <2>2. CASE n > Len(p)
    <3>1. n - Len(p) \in 1..Len(q)
      BY <1>2, <2>2
    <3> QED BY <1>1, <1>2, <2>2, <3>1 DEF KongPlan
  <2> QED BY <1>2, <2>1, <2>2
<1> QED BY <1>1, <1>3 DEF KongPlan

LEMMA ServiceRequestInv ==
  ASSUME IInv, NEW c \in Calls, NEW u \in Users, ServiceRequest(c, u), users' = users
  PROVE  IInv'
<1>1. /\ KongPlan(<<"GET all">>) /\ KongPlan(<<"POST service">>)
      /\ KongPlan(<<"GET service">>) /\ KongPlan(<<"PATCH service">>)
      /\ KongPlan(<<"DELETE service">>) /\ KongPlan(<<"POST transformer">>)
  BY OneStepPlan DEF Steps
<1>2. KongPlan(<<"POST service", "POST route">>)
  BY TwoStepPlan DEF Steps
<1> QED BY <1>1, <1>2, RequestKeeps
        DEF ServiceRequest, ListServices, CreateService, GetService, UpdateService,
            DeleteService, AddHeader

LEMMA RouteRequestInv ==
  ASSUME IInv, NEW c \in Calls, NEW u \in Users, RouteRequest(c, u), users' = users
  PROVE  IInv'
<1>1. /\ KongPlan(<<"GET all">>) /\ KongPlan(<<"POST route">>)
      /\ KongPlan(<<"GET route">>) /\ KongPlan(<<"PATCH route">>)
      /\ KongPlan(<<"DELETE route">>)
  BY OneStepPlan DEF Steps
<1> QED BY <1>1, RequestKeeps
        DEF RouteRequest, ListRoutes, CreateRoute, GetRoute, UpdateRoute, DeleteRoute

LEMMA ConsumerRequestInv ==
  ASSUME IInv, NEW c \in Calls, NEW u \in Users, ConsumerRequest(c, u), users' = users
  PROVE  IInv'
<1>1. KongPlan(<<"DELETE consumer">>)
  BY OneStepPlan DEF Steps
<1>2. /\ KongPlan(<<"POST consumer", "POST key">>)
      /\ KongPlan(<<"GET consumer", "GET consumer">>)
      /\ KongPlan(<<"GET consumers", "GET each">>)
  BY TwoStepPlan DEF Steps
<1>3. KongPlan(<<"PATCH consumer", "GET consumer", "GET consumer">>)
  BY ThreeStepPlan DEF Steps
<1> QED BY <1>1, <1>2, <1>3, RequestKeeps
        DEF ConsumerRequest, ListConsumers, CreateConsumer, GetConsumer,
            UpdateConsumer, DeleteConsumer

LEMMA GatewayRequestInv ==
  ASSUME IInv, NEW c \in Calls, NEW u \in Users, users' = users,
         GatewayRequest(c, u) \/ DashboardOverview(c, u)
  PROVE  IInv'
<1>1. CASE ServiceRequest(c, u) \/ RouteRequest(c, u) \/ ConsumerRequest(c, u)
  BY <1>1, ServiceRequestInv, RouteRequestInv, ConsumerRequestInv
<1>2. CASE \E k \in Keys, x \in ConsumerKeys : AddConsumerToRoute(c, u, k, x)
  <2>1. KongPlan(ProtectRoute) /\ KongPlan(<<"POST member">>)
    BY TwoStepPlan, OneStepPlan DEF ProtectRoute, Steps
  <2>2. KongPlan(ProtectRoute \o <<"POST member">>)
    BY <2>1, JoinedPlan
  <2> QED BY <1>2, <2>2, RequestKeeps DEF AddConsumerToRoute
<1>3. CASE \E k \in Keys, x \in ConsumerKeys : RemoveConsumerFromRoute(c, u, k, x)
  <2>1. KongPlan(<<"GET members", "DELETE member">>)
    BY TwoStepPlan DEF Steps
  <2> QED BY <1>3, <2>1, RequestKeeps DEF RemoveConsumerFromRoute
<1>4. CASE DashboardOverview(c, u)
  <2>1. KongPlan(<<"GET all">>)
    BY OneStepPlan DEF Steps
  <2> QED BY <1>4, <2>1, RequestKeeps DEF DashboardOverview
<1> QED BY <1>1, <1>2, <1>3, <1>4 DEF GatewayRequest

-----------------------------------------------------------------------------
(* Calls to Kong, and the theorems. *)

\* Kong's calls go on, end, or go on with what they have read: they leave
\* the accounts alone, and none of them is the lookup of an account.
LEMMA KongStepInv ==
  ASSUME IInv, NEW c \in Calls, KongStep(c)
  PROVE  IInv'
<1>1. CASE Read(c)
  BY <1>1, AdvanceKeeps DEF Read, rest
<1>2. CASE ReadConsumers(c)
  <2>1. users' = users /\ Due(c) \in {"GET consumers", "GET each"}
    BY <1>2 DEF ReadConsumers, rest
  <2>2. CASE DoneWith(c, StoredConsumers)
    <3>1. Checked(Tail(calls[c].plan), calls[c].user, calls[c].key, StoredConsumers)
      BY <2>1, RestOfPlan DEF IInv, SavesAreChecked, Due
    <3> QED BY <2>1, <2>2, <3>1, MoveKeeps DEF DoneWith
  <2>3. CASE Advance(c)
    BY <2>1, <2>3, AdvanceKeeps
  <2>4. CASE \E x \in calls[c].other : calls' = [calls EXCEPT ![c].other = @ \ {x}]
    <3>1. PICK x \in calls[c].other :
            calls' = [calls EXCEPT ![c] = [calls[c] EXCEPT !.other = calls[c].other \ {x}]]
      BY <2>4
    <3>2. calls[c] = [user |-> calls[c].user, plan |-> calls[c].plan, key |-> calls[c].key,
                      other |-> calls[c].other, late |-> calls[c].late]
      BY DEF IInv, RecordsOK
    <3>3. calls' = [calls EXCEPT ![c] =
            [user |-> calls[c].user, plan |-> calls[c].plan, key |-> calls[c].key,
             other |-> calls[c].other \ {x}, late |-> calls[c].late]]
      BY <3>1, <3>2, CallUpdate
    <3>4. Checked(calls[c].plan, calls[c].user, calls[c].key, calls[c].other \ {x})
      <4>1. /\ Checked(calls[c].plan, calls[c].user, calls[c].key, calls[c].other)
            /\ calls[c].plan # <<>> /\ Head(calls[c].plan) # "save"
        BY <2>1 DEF IInv, SavesAreChecked, Due
      <4> QED BY <4>1, OtherValue
    <3> QED BY <2>1, <3>3, <3>4, MoveKeeps
  <2>5. CASE calls' = Ended(c)
    BY <2>1, <2>5, EndedKeeps
  <2> QED BY <1>2, <2>2, <2>3, <2>4, <2>5 DEF ReadConsumers
<1>3. CASE \/ PostService(c) \/ PatchService(c) \/ RemoveService(c) \/ PostTransformer(c)
           \/ PostRoute(c) \/ PatchRoute(c) \/ RemoveRoute(c)
  BY <1>3, DoneKeeps
     DEF PostService, PatchService, RemoveService, PostTransformer, PostRoute, PatchRoute,
         RemoveRoute, rest
<1>4. CASE FindPlugin(c)
  <2>1. users' = users /\ Due(c) = "GET plugins"
    BY <1>4 DEF FindPlugin, rest
  <2>2. calls[c].plan # <<>> /\ Head(calls[c].plan) = "GET plugins"
    BY <2>1 DEF Due
  <2>3. PICK n \in {2, 3} : Continue(c, SubSeq(calls[c].plan, n, Len(calls[c].plan)))
    BY <1>4 DEF FindPlugin
  <2> DEFINE p == SubSeq(calls[c].plan, n, Len(calls[c].plan))
  <2>4. Checked(p, calls[c].user, calls[c].key, calls[c].other)
    BY <2>2, PlanWithoutTwo DEF IInv, SavesAreChecked
  <2> HIDE DEF p
  <2>5. CASE calls' = Ended(c)
    BY <2>1, <2>5, EndedKeeps
  <2>6. CASE calls' = [calls EXCEPT ![c].plan = p]
    <3>1. calls' = [calls EXCEPT ![c] = [calls[c] EXCEPT !.plan = p]]
      BY <2>6
    <3>2. calls[c] = [user |-> calls[c].user, plan |-> calls[c].plan, key |-> calls[c].key,
                      other |-> calls[c].other, late |-> calls[c].late]
      BY DEF IInv, RecordsOK
    <3>3. calls' = [calls EXCEPT ![c] =
            [user |-> calls[c].user, plan |-> p, key |-> calls[c].key,
             other |-> calls[c].other, late |-> calls[c].late]]
      BY <3>1, <3>2, CallUpdate
    <3> QED BY <2>1, <2>4, <3>3, MoveKeeps
  <2> QED BY <2>3, <2>5, <2>6 DEF Continue, p
<1>5. CASE PostAcl(c) \/ PostMember(c) \/ RemoveMember(c) \/ PostKey(c)
           \/ PatchConsumer(c) \/ RemoveConsumer(c)
  BY <1>5, DoneKeeps
     DEF PostAcl, PostMember, RemoveMember, PostKey, PatchConsumer, RemoveConsumer, rest
<1>6. CASE FindMember(c)
  <2>1. users' = users /\ Due(c) = "GET members"
    BY <1>6 DEF FindMember, rest
  <2>2. ASSUME NEW v PROVE Checked(Tail(calls[c].plan), calls[c].user, calls[c].key, v)
    BY <2>1, RestOfPlan DEF IInv, SavesAreChecked, Due
  <2>3. ASSUME NEW v, DoneWith(c, v) PROVE IInv'
    BY <2>1, <2>2, <2>3, MoveKeeps DEF DoneWith
  <2>4. CASE calls' = Ended(c)
    BY <2>1, <2>4, EndedKeeps
  <2> QED BY <1>6, <2>3, <2>4 DEF FindMember
<1>7. CASE PostConsumer(c)
  BY <1>7, AdvanceKeeps, EndedKeeps DEF PostConsumer, rest
<1>8. CASE FailKong(c)
  BY <1>8, EndedKeeps DEF FailKong, Fail
<1> QED BY <1>1, <1>2, <1>3, <1>4, <1>5, <1>6, <1>7, <1>8 DEF KongStep

LEMMA InitInv == Init => IInv
<1> SUFFICES ASSUME Init PROVE IInv
  OBVIOUS
<1>1. calls = [c \in Calls |-> Idle]
  BY DEF Init, AccountInit
<1>2. RecordsOK
  <2>1. PICK S \in SUBSET Users, owner \in [Users -> Emails] :
          users = [u \in Users |-> IF u \in S
                     THEN [email |-> owner[u], status |-> "ACTIVE"]
                     ELSE [email |-> None, status |-> None]]
    BY DEF Init, AccountInit
  <2>2. \A u \in Users : users[u] = [email |-> users[u].email, status |-> users[u].status]
    BY <2>1
  <2>3. users = [u \in Users |-> users[u]]
    BY <2>1
  <2>4. \A c \in Calls : calls[c] =
          [user |-> calls[c].user, plan |-> calls[c].plan, key |-> calls[c].key,
           other |-> calls[c].other, late |-> calls[c].late]
    BY <1>1 DEF Idle
  <2> QED BY <1>1, <2>2, <2>3, <2>4 DEF RecordsOK
<1>3. ActsOnlyWhileActive
  <2>1. \A c \in Calls : calls[c].user = None
    BY <1>1 DEF Idle
  <2> QED BY <2>1 DEF ActsOnlyWhileActive, Admitted
<1>4. SavesAreChecked
  BY <1>1, EmptyPlan DEF SavesAreChecked, Idle
<1> QED BY <1>2, <1>3, <1>4 DEF IInv

LEMMA NextInv == IInv /\ [Next]_vars => IInv'
<1> SUFFICES ASSUME IInv, [Next]_vars PROVE IInv'
  OBVIOUS
<1>1. CASE UNCHANGED vars
  BY <1>1 DEF vars, IInv, RecordsOK, ActsOnlyWhileActive, SavesAreChecked, Admitted,
              Due, Active
<1>2. ASSUME NEW c \in Calls, AccountRequest(c) PROVE IInv'
  BY <1>2, AccountRequestInv
<1>3. ASSUME NEW c \in Calls, AccountStep(c) PROVE IInv'
  BY <1>3, AccountStepInv
<1>4. ASSUME NEW c \in Calls, NEW u \in Users, users' = users,
             GatewayRequest(c, u) \/ DashboardOverview(c, u)
      PROVE  IInv'
  BY <1>4, GatewayRequestInv
<1>5. ASSUME NEW c \in Calls, KongStep(c) PROVE IInv'
  BY <1>5, KongStepInv
<1> QED BY <1>1, <1>2, <1>3, <1>4, <1>5 DEF Next

THEOREM Invariance == Spec => []IInv
  BY InitInv, NextInv, PTL DEF Spec

\* A call past the guard belongs to an active administrator, or to one who
\* was deactivated while it ran (JwtStrategy.validate), whatever it asks of
\* Kong and however that fails.
THEOREM OnlyTheActiveAct == Spec => []ActsOnlyWhileActive
  BY Invariance, PTL DEF IInv

-----------------------------------------------------------------------------
(* Who may deactivate the last active administrator. *)

\* Accounts change by an insertion or by a deactivation.
LEMMA OnlySavesDeactivate ==
  ASSUME IInv, Next, NEW u \in Users, u \in Active, u \notin Active'
  PROVE  \E c \in Calls : SaveInactive(c) /\ calls[c].key = u
<1>1. users' # users
  BY DEF Active
<1>2. PICK c \in Calls : AccountStep(c)
  <2>1. ASSUME NEW d \in Calls, AccountRequest(d) PROVE FALSE
    BY <1>1, <2>1 DEF AccountRequest
  <2>2. ASSUME NEW d \in Calls, KongStep(d) PROVE FALSE
    BY <1>1, <2>2
       DEF KongStep, Read, ReadConsumers, PostService, RemoveService, PostTransformer,
           PatchService, PostRoute, PatchRoute, RemoveRoute, FindPlugin, PostAcl,
           PostMember, FindMember, RemoveMember, PostConsumer, PostKey, PatchConsumer,
           RemoveConsumer, FailKong, Fail, rest
  <2> QED BY <1>1, <2>1, <2>2 DEF Next
<1>3. CASE InsertUser(c)
  <2>1. PICK v \in Users \ Stored :
          users' = [users EXCEPT ![v] = [email |-> calls[c].key, status |-> "ACTIVE"]]
    BY <1>1, <1>3 DEF InsertUser
  <2>2. \A w \in Users : w # v => users'[w] = users[w]
    BY <2>1 DEF IInv, RecordsOK
  <2>3. users'[v].status = "ACTIVE"
    BY <2>1 DEF IInv, RecordsOK
  <2> QED BY <2>2, <2>3 DEF Active
<1>4. CASE SaveInactive(c)
  <2>1. \A w \in Users : w # calls[c].key => users'[w] = users[w]
    BY <1>4 DEF SaveInactive, IInv, RecordsOK
  <2> QED BY <1>4, <2>1 DEF Active
<1> QED
  BY <1>1, <1>2, <1>3, <1>4
     DEF AccountStep, Validate, LookUpEmail, FindUser, SignToken, ListAll, LoadAdmin

\* A call that may save the last active administrator, and ends.
LastSave(c) ==
  /\ Due(c) = "save" /\ calls'[c] = Idle
  /\ calls[c].late \/ RespellsAuthor(c)

\* One step of the system.
LEMMA SomeoneStaysOrActsLate ==
  ASSUME IInv, Next, Active # {}, Active' = {}
  PROVE  \E c \in Calls : LastSave(c)
<1>1. PICK u \in Users : u \in Active /\ u \notin Active'
  BY DEF Active
<1>2. PICK c \in Calls : SaveInactive(c) /\ calls[c].key = u
  BY <1>1, OnlySavesDeactivate
<1>3. calls[c].user # None /\ Another(calls[c].user, calls[c].key, calls[c].other)
  <2>1. /\ calls[c].plan # <<>> /\ Head(calls[c].plan) = "save"
        /\ Checked(calls[c].plan, calls[c].user, calls[c].key, calls[c].other)
    BY <1>2 DEF SaveInactive, Due, IInv, SavesAreChecked
  <2>2. 1 \in 1..Len(calls[c].plan) /\ calls[c].plan[1] = "save"
    BY <2>1 DEF Checked
  <2> QED BY <2>1, <2>2 DEF Checked
<1>4. Due(c) = "save" /\ calls'[c] = Idle
  BY <1>2 DEF SaveInactive
<1>5. CASE calls[c].key = calls[c].user
  BY <1>3, <1>4, <1>5 DEF Another, RespellsAuthor, LastSave
<1>6. CASE calls[c].key # calls[c].user
  <2>1. calls[c].user \in Active \/ calls[c].late
    BY <1>3, <1>4 DEF IInv, ActsOnlyWhileActive, Admitted
  <2>2. calls[c].user \notin Active
    <3>1. \A w \in Users : w # u => users'[w] = users[w]
      BY <1>2 DEF SaveInactive, IInv, RecordsOK
    <3> QED BY <1>2, <1>6, <3>1 DEF Active
  <2> QED BY <1>4, <2>1, <2>2 DEF LastSave
<1> QED BY <1>5, <1>6

\* The last active administrator goes only by a request whose author was
\* deactivated after its guard, or by one of his own that spells his id
\* otherwise than the API does (deleteAdmin compares strings).
THEOREM LastGoesOnlyLate == Spec => SomeoneStaysActive
<1>1. IInv /\ [Next]_vars =>
        [Active # {} /\ Active' = {} =>
           \E c \in Calls : /\ Due(c) = "save" /\ calls'[c] = Idle
                            /\ calls[c].late \/ RespellsAuthor(c) ]_accountVars
  <2> SUFFICES ASSUME IInv, [Next]_vars, Active # {}, Active' = {}
               PROVE  \E c \in Calls : LastSave(c)
    BY DEF LastSave
  <2>1. CASE UNCHANGED vars
    BY <2>1 DEF vars, Active
  <2>2. CASE Next
    BY <2>2, SomeoneStaysOrActsLate
  <2> QED BY <2>1, <2>2
<1> QED BY <1>1, Invariance, PTL DEF Spec, SomeoneStaysActive

-----------------------------------------------------------------------------
(* What Kong stores: a second inductive invariant, on top of the first.    *)

\* The addresses whose group may have members: the plugin of its route allows
\* it, or the address is no longer what it was when the plugin did.
Protected ==
  {k \in Keys : \/ k \in moved
                \/ k \in RouteIds /\ k \in spent \ Live
                \/ \E r \in Route(k) : acl[r] = k}

\* Kong's tables, with the values its entries hold.
ServicesOK ==
  /\ services \in [ServiceIds -> ServiceNames \cup {None}] /\ OneName(services)
  /\ StoredServices \subseteq spent
  /\ transformed \subseteq StoredServices

RoutesOK ==
  /\ routes \in [RouteIds -> [service : ServiceIds \cup {None}, name : RouteNames \cup {None}]]
  /\ acl \in [RouteIds -> Keys \cup {None}]
  /\ Live \subseteq spent
  /\ \A r \in Live : routes[r].service \in StoredServices
  /\ \A r \in RouteIds : acl[r] # None => r \in Live
  /\ \A q, r \in Live : routes[q].name = routes[r].name /\ q # r => routes[q].name = None

ConsumersOK ==
  /\ consumers \in [ConsumerIds -> Usernames \cup {None}] /\ OneName(consumers)
  /\ StoredConsumers \subseteq spent
  /\ keyed \subseteq StoredConsumers

KongOK ==
  /\ ServicesOK /\ RoutesOK /\ ConsumersOK
  /\ members \in [ConsumerIds -> [Keys -> Nat]] /\ granted \in Nat

MembersProtected ==
  \A x \in ConsumerIds, k \in Keys :
    Member(x, k) => x \in StoredConsumers /\ k \in Protected

UsersOK ==
  /\ users \in [Users -> [email : Emails \cup {None}, status : {"ACTIVE", "INACTIVE", None}]]
  /\ OneAccountPerAddress
  /\ tokens \subseteq Stored


\* Which step comes after which, behind the guard and without it.
Follows(a, b) ==
  \/ a = "guard" /\ b \notin {"guard", "save", "POST acl", "POST member"}
  \/ <<a, b>> \in {<<"exists", "insert">>, <<"find", "compare">>, <<"load", "save">>,
       <<"POST service", "POST route">>, <<"POST consumer", "POST key">>,
       <<"GET consumer", "GET consumer">>, <<"PATCH consumer", "GET consumer">>,
       <<"GET consumers", "GET each">>, <<"GET members", "DELETE member">>,
       <<"GET plugins", "POST acl">>, <<"POST acl", "POST member">>}

\* A plan does not end with a step that is to be followed by another.
Ends(a) == a \notin {"GET plugins", "POST acl", "POST consumer"}

\* What a step takes for its key k and its other value o.
Needs(a, k, o) ==
  /\ a = "insert" => k \in Emails
  /\ a = "POST service" => k \in ServiceNames
  /\ a = "POST consumer" => k \in Usernames
  /\ a \in {"GET plugins", "POST acl", "POST member"} => k \in Keys
  /\ a \in {"POST route", "PATCH route"} => o \in RouteNames \cup {None}
  /\ a = "PATCH service" => o \in ServiceNames \cup {None}
  /\ a = "PATCH consumer" => o \in Usernames \cup {None}

\* A plan has at most four steps, each after its like and with its needs.
Fits(p, k, o) ==
  \/ p = <<>>
  \/ \E a : /\ p = <<a>>
            /\ Ends(a) /\ Needs(a, k, o)
  \/ \E a, b : /\ p = <<a, b>>
               /\ Follows(a, b) /\ Ends(b)
               /\ Needs(a, k, o) /\ Needs(b, k, o)
  \/ \E a, b, d : /\ p = <<a, b, d>>
                  /\ Follows(a, b) /\ Follows(b, d) /\ Ends(d)
                  /\ Needs(a, k, o) /\ Needs(b, k, o) /\ Needs(d, k, o)
  \/ \E a, b, d, e : /\ p = <<a, b, d, e>>
                     /\ Follows(a, b) /\ Follows(b, d) /\ Follows(d, e) /\ Ends(e)
                     /\ Needs(a, k, o) /\ Needs(b, k, o) /\ Needs(d, k, o) /\ Needs(e, k, o)

PlansFit == \A c \in Calls : Fits(calls[c].plan, calls[c].key, calls[c].other)

\* What the step that is due may rely on.
DueIsReady ==
  \A c \in Calls :
    /\ Due(c) = "POST member" => calls[c].key \in Protected
    /\ Due(c) = "save" => calls[c].key \in Stored

KInv ==
  /\ IInv
  /\ KongOK
  /\ MembersProtected
  /\ UsersOK
  /\ PlansFit
  /\ DueIsReady
  /\ KeyedUnlessHalfDone

-----------------------------------------------------------------------------
(* Plans again. *)

\* The rest of a plan of up to four steps.
LEMMA ShortPlans ==
  /\ \A a : <<a>> # <<>> /\ Head(<<a>>) = a /\ Tail(<<a>>) = <<>>
  /\ \A a, b : <<a, b>> # <<>> /\ Head(<<a, b>>) = a /\ Tail(<<a, b>>) = <<b>>
  /\ \A a, b, d :
       <<a, b, d>> # <<>> /\ Head(<<a, b, d>>) = a /\ Tail(<<a, b, d>>) = <<b, d>>
  /\ \A a, b, d, e :
       /\ <<a, b, d, e>> # <<>> /\ Head(<<a, b, d, e>>) = a
       /\ Tail(<<a, b, d, e>>) = <<b, d, e>>
<1>1. /\ \A a : <<a>> # <<>> /\ Head(<<a>>) = a /\ Tail(<<a>>) = <<>>
      /\ \A a, b : <<a, b>> # <<>> /\ Head(<<a, b>>) = a /\ Tail(<<a, b>>) = <<b>>
      /\ \A a, b, d :
           <<a, b, d>> # <<>> /\ Head(<<a, b, d>>) = a /\ Tail(<<a, b, d>>) = <<b, d>>
  OBVIOUS
<1>2. ASSUME NEW a, NEW b, NEW d, NEW e
      PROVE  /\ <<a, b, d, e>> # <<>> /\ Head(<<a, b, d, e>>) = a
             /\ Tail(<<a, b, d, e>>) = <<b, d, e>>
  <2> DEFINE S == {a, b, d, e}
             p == <<a, b, d, e>>
             q == <<b, d, e>>
  <2>1. /\ p \in Seq(S) /\ Len(p) = 4 /\ p[2] = b /\ p[3] = d /\ p[4] = e
        /\ q \in Seq(S) /\ Len(q) = 3 /\ q[1] = b /\ q[2] = d /\ q[3] = e
    OBVIOUS
  <2>2. p # <<>> /\ Head(p) = a
    OBVIOUS
  <2> HIDE DEF p, q
  <2>3. Tail(p) = SubSeq(p, 2, 4)
    BY <2>1, <2>2, TailIsSubSeq
  <2>4. \A i \in 2..4 : p[i] \in S
    BY <2>1
  <2> HIDE DEF S
  <2>5. /\ SubSeq(p, 2, 4) \in Seq(S) /\ Len(SubSeq(p, 2, 4)) = 3
        /\ \A i \in 1..3 : SubSeq(p, 2, 4)[i] = p[2 + i - 1]
    BY <2>4, SubSeqProperties
  <2>6. SubSeq(p, 2, 4) = q
    BY <2>1, <2>5, SeqEqual
  <2> QED BY <2>2, <2>3, <2>6 DEF p, q
<1> QED BY <1>1, <1>2

\* A plan is its first step and the rest.
LEMMA HeadAndRest ==
  ASSUME NEW S, NEW q \in Seq(S), q # <<>>
  PROVE  <<Head(q)>> \o Tail(q) = q
<1> DEFINE h == <<Head(q)>>
           p == Tail(q)
<1>1. /\ h \in Seq(S) /\ Len(h) = 1 /\ h[1] = q[1]
      /\ p \in Seq(S) /\ Len(p) \in Nat /\ Len(q) = Len(p) + 1
      /\ \A i \in 1..Len(p) : p[i] = q[i + 1]
  <2>1. /\ Head(q) \in S /\ Head(q) = q[1] /\ p \in Seq(S) /\ Len(p) = Len(q) - 1
        /\ \A i \in 1..Len(p) : p[i] = q[i + 1]
    BY HeadTailProperties
  <2> HIDE DEF p
  <2>2. Len(p) \in Nat /\ Len(q) \in Nat
    BY <2>1
  <2> QED BY <2>1, <2>2
<1> HIDE DEF h, p
<1>2. /\ h \o p \in Seq(S) /\ Len(h \o p) = Len(h) + Len(p)
      /\ \A i \in 1..Len(h) + Len(p) :
           (h \o p)[i] = IF i <= Len(h) THEN h[i] ELSE p[i - Len(h)]
  <2>1. h \in Seq(S) /\ p \in Seq(S)
    BY <1>1
  <2> QED BY ONLY <2>1, ConcatProperties
<1>3. \A i \in 1..Len(q) : (h \o p)[i] = q[i]
  <2> TAKE i \in 1..Len(q)
  <2>1. CASE i = 1
    BY <1>1, <1>2, <2>1
  <2>2. CASE i # 1
    <3>1. i - 1 \in 1..Len(p) /\ (i - 1) + 1 = i
      BY <1>1, <2>2
    <3>2. p[i - 1] = q[i]
      BY <1>1, <3>1
    <3> QED BY <1>1, <1>2, <2>2, <3>1, <3>2
  <2> QED BY <2>1, <2>2
<1>4. h \o p = q
  BY <1>1, <1>2, <1>3, SeqEqual
<1> QED BY <1>4 DEF h, p

\* A step before a plan of up to three.
LEMMA PutBefore ==
  /\ \A g, a : <<g>> \o <<a>> = <<g, a>>
  /\ \A g, a, b : <<g>> \o <<a, b>> = <<g, a, b>>
  /\ \A g, a, b, d : <<g>> \o <<a, b, d>> = <<g, a, b, d>>
<1>1. ASSUME NEW g, NEW a
      PROVE  <<g>> \o <<a>> = <<g, a>>
  <2>1. <<g, a>> \in Seq({g, a})
    OBVIOUS
  <2>2. <<Head(<<g, a>>)>> \o Tail(<<g, a>>) = <<g, a>>
    BY <2>1, ShortPlans, HeadAndRest
  <2> QED BY <2>2, ShortPlans
<1>2. ASSUME NEW g, NEW a, NEW b
      PROVE  <<g>> \o <<a, b>> = <<g, a, b>>
  <2>1. <<g, a, b>> \in Seq({g, a, b})
    OBVIOUS
  <2>2. <<Head(<<g, a, b>>)>> \o Tail(<<g, a, b>>) = <<g, a, b>>
    BY <2>1, ShortPlans, HeadAndRest
  <2> QED BY <2>2, ShortPlans
<1>3. ASSUME NEW g, NEW a, NEW b, NEW d
      PROVE  <<g>> \o <<a, b, d>> = <<g, a, b, d>>
  <2>1. <<g, a, b, d>> \in Seq({g, a, b, d})
    OBVIOUS
  <2>2. <<Head(<<g, a, b, d>>)>> \o Tail(<<g, a, b, d>>) = <<g, a, b, d>>
    BY <2>1, ShortPlans, HeadAndRest
  <2> QED BY <2>2, ShortPlans
<1> QED BY <1>1, <1>2, <1>3

\* A step after a plan of two.
LEMMA PutAfter == \A a, b, d : <<a, b>> \o <<d>> = <<a, b, d>>
<1> TAKE a, b, d
<1> DEFINE S == {a, b, d}
           p == <<a, b>>
           q == <<d>>
           r == <<a, b, d>>
<1>1. /\ p \in Seq(S) /\ Len(p) = 2 /\ p[1] = a /\ p[2] = b
      /\ q \in Seq(S) /\ Len(q) = 1 /\ q[1] = d
      /\ r \in Seq(S) /\ Len(r) = 3 /\ r[1] = a /\ r[2] = b /\ r[3] = d
  OBVIOUS
<1> HIDE DEF S, p, q, r
<1>2. /\ p \o q \in Seq(S) /\ Len(p \o q) = Len(p) + Len(q)
      /\ \A i \in 1..Len(p) + Len(q) :
           (p \o q)[i] = IF i <= Len(p) THEN p[i] ELSE q[i - Len(p)]
  BY <1>1, ConcatProperties
<1>3. \A i \in 1..3 : (p \o q)[i] = r[i]
  BY <1>1, <1>2
<1>4. p \o q = r
  BY <1>1, <1>2, <1>3, SeqEqual
<1> QED BY <1>4 DEF p, q, r

\* The rest of a plan fits, and its first step comes after the plan's.
LEMMA TailFits ==
  ASSUME NEW p, NEW k, NEW o, Fits(p, k, o), p # <<>>
  PROVE  /\ Fits(Tail(p), k, o)
         /\ Needs(Head(p), k, o)
         /\ Tail(p) = <<>> => Ends(Head(p))
         /\ Tail(p) # <<>> => Follows(Head(p), Head(Tail(p)))
<1>1. CASE \E a : p = <<a>> /\ Ends(a) /\ Needs(a, k, o)
  BY <1>1, ShortPlans DEF Fits
<1>2. CASE \E a, b : /\ p = <<a, b>> /\ Follows(a, b) /\ Ends(b)
                     /\ Needs(a, k, o) /\ Needs(b, k, o)
  BY <1>2, ShortPlans DEF Fits
<1>3. CASE \E a, b, d : /\ p = <<a, b, d>> /\ Follows(a, b) /\ Follows(b, d) /\ Ends(d)
                        /\ Needs(a, k, o) /\ Needs(b, k, o) /\ Needs(d, k, o)
  BY <1>3, ShortPlans DEF Fits
<1>4. CASE \E a, b, d, e :
             /\ p = <<a, b, d, e>> /\ Follows(a, b) /\ Follows(b, d) /\ Follows(d, e)
             /\ Ends(e) /\ Needs(a, k, o) /\ Needs(b, k, o) /\ Needs(d, k, o)
             /\ Needs(e, k, o)
  BY <1>4, ShortPlans DEF Fits
<1> QED BY <1>1, <1>2, <1>3, <1>4 DEF Fits

\* The one plan that asks for plugins.
LEMMA AclPlan ==
  ASSUME NEW p, NEW k, NEW o, Fits(p, k, o), p # <<>>, Head(p) = "GET plugins"
  PROVE  p = <<"GET plugins", "POST acl", "POST member">> /\ k \in Keys
<1>1. k \in Keys
  BY TailFits DEF Needs
<1>2. ASSUME NEW a, p = <<a>>, Ends(a)
      PROVE  FALSE
  BY <1>2, ShortPlans DEF Ends
<1>3. ASSUME NEW a, NEW b, p = <<a, b>>, Follows(a, b), Ends(b)
      PROVE  FALSE
  BY <1>3, ShortPlans DEF Follows, Ends
<1>4. ASSUME NEW a, NEW b, NEW d, p = <<a, b, d>>, Follows(a, b), Follows(b, d)
      PROVE  p = <<"GET plugins", "POST acl", "POST member">>
  <2>1. a = "GET plugins"
    BY <1>4, ShortPlans
  <2>2. b = "POST acl" /\ d = "POST member"
    BY <1>4, <2>1 DEF Follows
  <2> QED BY <1>4, <2>1, <2>2
<1>5. ASSUME NEW a, NEW b, NEW d, NEW e, p = <<a, b, d, e>>,
             Follows(a, b), Follows(b, d), Follows(d, e)
      PROVE  FALSE
  <2>1. a = "GET plugins"
    <3>1. Head(<<a, b, d, e>>) = a
      BY ONLY ShortPlans
    <3> QED BY <1>5, <3>1
  <2>2. d = "POST member"
    BY <1>5, <2>1 DEF Follows
  <2> QED BY <1>5, <2>2 DEF Follows
<1> QED BY <1>1, <1>2, <1>3, <1>4, <1>5 DEF Fits

LEMMA PartsOfThree ==
  \A a, b, d : /\ Len(<<a, b, d>>) = 3
               /\ SubSeq(<<a, b, d>>, 2, 3) = <<b, d>>
               /\ SubSeq(<<a, b, d>>, 3, 3) = <<d>>
<1> TAKE a, b, d
<1> DEFINE S == {a, b, d}
           p == <<a, b, d>>
           q == <<b, d>>
           r == <<d>>
<1>1. /\ p \in Seq(S) /\ Len(p) = 3 /\ p[2] = b /\ p[3] = d
      /\ q \in Seq(S) /\ Len(q) = 2 /\ q[1] = b /\ q[2] = d
      /\ r \in Seq(S) /\ Len(r) = 1 /\ r[1] = d
  OBVIOUS
<1> HIDE DEF p, q, r
<1>2. \A i \in 2..3 : p[i] \in S
  BY <1>1
<1> HIDE DEF S
<1>3. /\ SubSeq(p, 2, 3) \in Seq(S) /\ Len(SubSeq(p, 2, 3)) = 2
      /\ \A i \in 1..2 : SubSeq(p, 2, 3)[i] = p[2 + i - 1]
  BY <1>2, SubSeqProperties
<1>4. /\ SubSeq(p, 3, 3) \in Seq(S) /\ Len(SubSeq(p, 3, 3)) = 1
      /\ \A i \in 1..1 : SubSeq(p, 3, 3)[i] = p[3 + i - 1]
  BY <1>2, SubSeqProperties
<1>5. SubSeq(p, 2, 3) = q /\ SubSeq(p, 3, 3) = r
  BY <1>1, <1>3, <1>4, SeqEqual
<1> QED BY <1>1, <1>5 DEF p, q, r

-----------------------------------------------------------------------------
(* What a step makes of the plans, whichever step it is. *)

\* Call c has plan p, key k and other value o from now on.
Turns(c, p, k, o) ==
  /\ calls'[c].plan = p /\ calls'[c].key = k /\ calls'[c].other = o
  /\ \A d \in Calls \ {c} :
       /\ calls'[d].plan = calls[d].plan /\ calls'[d].key = calls[d].key
       /\ calls'[d].other = calls[d].other

LEMMA EndedTurns ==
  ASSUME IInv, NEW c \in Calls, calls' = Ended(c)
  PROVE  Turns(c, <<>>, None, None)
  BY DEF Ended, Turns, Idle, IInv, RecordsOK

LEMMA PlanTurns ==
  ASSUME IInv, NEW c \in Calls, NEW p, Continue(c, p)
  PROVE  \/ calls' = Ended(c) /\ p = <<>>
         \/ Turns(c, p, calls[c].key, calls[c].other)
<1>1. CASE p # <<>>
  <2>1. calls' = [calls EXCEPT ![c] = [calls[c] EXCEPT !.plan = p]]
    BY <1>1 DEF Continue
  <2>2. [calls[c] EXCEPT !.plan = p] =
          [user |-> calls[c].user, plan |-> p, key |-> calls[c].key,
           other |-> calls[c].other, late |-> calls[c].late]
    <3>1. calls[c] = [user |-> calls[c].user, plan |-> calls[c].plan, key |-> calls[c].key,
                      other |-> calls[c].other, late |-> calls[c].late]
      BY DEF IInv, RecordsOK
    <3> QED BY <3>1, CallUpdate
  <2>3. /\ calls'[c] = [user |-> calls[c].user, plan |-> p, key |-> calls[c].key,
                        other |-> calls[c].other, late |-> calls[c].late]
        /\ \A d \in Calls \ {c} : calls'[d] = calls[d]
    BY <2>1, <2>2 DEF IInv, RecordsOK
  <2> QED BY <2>3 DEF Turns
<1>2. CASE p = <<>>
  BY <1>2 DEF Continue
<1> QED BY <1>1, <1>2

LEMMA FindingTurns ==
  ASSUME IInv, NEW c \in Calls, NEW v, DoneWith(c, v)
  PROVE  Turns(c, Tail(calls[c].plan), calls[c].key, v)
<1>1. /\ calls'[c] = [user |-> calls[c].user, plan |-> Tail(calls[c].plan),
                      key |-> calls[c].key, other |-> v, late |-> calls[c].late]
      /\ \A d \in Calls \ {c} : calls'[d] = calls[d]
  BY DEF DoneWith, IInv, RecordsOK
<1> QED BY <1>1 DEF Turns

LEMMA AskTurns ==
  ASSUME IInv, NEW c \in Calls, NEW u, NEW p, NEW k, NEW o, Ask(c, u, p, k, o)
  PROVE  Turns(c, p, k, o)
<1>1. /\ calls'[c] = [user |-> u, plan |-> p, key |-> k, other |-> o, late |-> FALSE]
      /\ \A d \in Calls \ {c} : calls'[d] = calls[d]
  BY DEF Ask, IInv, RecordsOK
<1> QED BY <1>1 DEF Turns

\* Step a is over: the plans fit, what is due has what it relies on.
LEMMA TurnFits ==
  ASSUME PlansFit, DueIsReady, NEW c \in Calls, NEW p, NEW k, NEW o,
         Turns(c, p, k, o), Fits(p, k, o),
         Stored \subseteq Stored',
         Protected \subseteq Protected',
         p # <<>> /\ Head(p) = "POST member" => k \in Protected',
         p # <<>> /\ Head(p) = "save" => k \in Stored'
  PROVE  PlansFit' /\ DueIsReady'
<1>1. PlansFit'
  <2> SUFFICES ASSUME NEW d \in Calls
               PROVE  Fits(calls'[d].plan, calls'[d].key, calls'[d].other)
    BY DEF PlansFit, Fits, Needs, Follows, Ends
  <2> QED BY DEF PlansFit, Turns
<1>2. ASSUME NEW d \in Calls
      PROVE  /\ Due(d)' = "POST member" => calls'[d].key \in Protected'
             /\ Due(d)' = "save" => calls'[d].key \in Stored'
  <2>1. CASE d = c
    BY <2>1 DEF Turns, Due
  <2>2. CASE d # c
    <3>1. Due(d)' = Due(d) /\ calls'[d].key = calls[d].key
      BY <2>2 DEF Turns, Due
    <3> QED BY <3>1 DEF DueIsReady
  <2> QED BY <2>1, <2>2
<1> QED BY <1>1, <1>2 DEF DueIsReady

\* A consumer without a key is one that was, or one that waits for it now,
\* or is left half done.
LEMMA TurnKeyed ==
  ASSUME KeyedUnlessHalfDone, NEW c \in Calls, NEW p, NEW k, NEW o, Turns(c, p, k, o),
         \A x \in StoredConsumers' \ keyed' :
           \/ x \in halfDone'
           \/ p # <<>> /\ Head(p) = "POST key" /\ k = consumers'[x]
           \/ /\ x \in StoredConsumers \ keyed /\ x \notin halfDone
              /\ consumers'[x] = consumers[x]
              /\ Due(c) = "POST key" => calls[c].key # consumers[x]
  PROVE  KeyedUnlessHalfDone'
<1> SUFFICES ASSUME NEW x \in StoredConsumers' \ keyed', x \notin halfDone'
             PROVE  \E d \in Calls : calls'[d].key = consumers'[x] /\ Due(d)' = "POST key"
  BY DEF KeyedUnlessHalfDone
<1>1. CASE p # <<>> /\ Head(p) = "POST key" /\ k = consumers'[x]
  BY <1>1 DEF Turns, Due
<1>2. CASE /\ x \in StoredConsumers \ keyed /\ x \notin halfDone
           /\ consumers'[x] = consumers[x]
           /\ Due(c) = "POST key" => calls[c].key # consumers[x]
  <2>1. PICK d \in Calls : calls[d].key = consumers[x] /\ Due(d) = "POST key"
    BY <1>2 DEF KeyedUnlessHalfDone
  <2> QED BY <1>2, <2>1 DEF Turns, Due
<1> QED BY <1>1, <1>2

\* Where consumers and keys stay, and no key was due.
LEMMA TurnKeepsKeys ==
  ASSUME KeyedUnlessHalfDone, NEW c \in Calls, NEW p, NEW k, NEW o, Turns(c, p, k, o),
         UNCHANGED <<consumers, keyed, halfDone>>, Due(c) # "POST key"
  PROVE  KeyedUnlessHalfDone'
<1>1. StoredConsumers' = StoredConsumers
  BY DEF StoredConsumers
<1> QED BY <1>1, TurnKeyed

\* A step of a plan, done or failed.
LEMMA StepTurns ==
  ASSUME KInv, NEW c \in Calls, Due(c) # "", Advance(c) \/ calls' = Ended(c),
         Stored \subseteq Stored',
         Protected \subseteq Protected',
         Due(c) = "POST acl" => calls[c].key \in Protected',
         Due(c) = "load" => calls' = Ended(c) \/ calls[c].key \in Stored'
  PROVE  /\ PlansFit' /\ DueIsReady'
         /\ \E p, k, o :
              /\ Turns(c, p, k, o)
              /\ \/ calls' = Ended(c)
                 \/ p = Tail(calls[c].plan) /\ k = calls[c].key
<1> DEFINE q == Tail(calls[c].plan)
<1> USE DEF KInv
<1>1. CASE calls' = Ended(c)
  <2>1. Turns(c, <<>>, None, None) /\ Fits(<<>>, None, None)
    BY <1>1, EndedTurns DEF Fits
  <2>2. PlansFit' /\ DueIsReady'
    BY <2>1, TurnFits
  <2> QED BY <1>1, <2>1, <2>2
<1>2. CASE Turns(c, q, calls[c].key, calls[c].other) /\ calls' # Ended(c)
  <2>1. /\ calls[c].plan # <<>> /\ Head(calls[c].plan) = Due(c)
        /\ Fits(calls[c].plan, calls[c].key, calls[c].other)
    BY DEF Due, PlansFit
  <2>2. /\ Fits(q, calls[c].key, calls[c].other)
        /\ q # <<>> => Follows(Due(c), Head(q))
    BY <2>1, TailFits
  <2>3. /\ q # <<>> /\ Head(q) = "POST member" => Due(c) = "POST acl"
        /\ q # <<>> /\ Head(q) = "save" => Due(c) = "load"
    BY <2>2 DEF Follows
  <2>4. PlansFit' /\ DueIsReady'
    BY <1>2, <2>2, <2>3, TurnFits
  <2> QED BY <1>2, <2>4
<1> QED BY <1>1, <1>2, PlanTurns DEF Advance

\* Where nothing changes in Kong.
LEMMA KongKept ==
  ASSUME KInv, UNCHANGED <<kong, halfDone, moved>>
  PROVE  /\ KongOK' /\ MembersProtected'
         /\ Protected' = Protected
<1> USE DEF kong, KInv, Live, Route, StoredServices, StoredConsumers, OneName
<1>1. Protected' = Protected
  BY DEF Protected
<1>2. KongOK'
  BY DEF KongOK, ServicesOK, RoutesOK, ConsumersOK
<1>3. MembersProtected'
  BY <1>1 DEF MembersProtected, Member
<1> QED BY <1>1, <1>2, <1>3

\* Where nothing changes in the accounts.
LEMMA UsersKept ==
  ASSUME UsersOK, users' = users, tokens' = tokens
  PROVE  UsersOK' /\ Stored' = Stored
  BY DEF UsersOK, OneAccountPerAddress, Stored

\* A step that leaves nobody without a key who had one or waits for one.
LEMMA StepKeeps ==
  ASSUME KInv, IInv', KongOK', MembersProtected', UsersOK',
         NEW c \in Calls, Due(c) \notin {"", "POST key"},
         Advance(c) \/ calls' = Ended(c),
         Stored \subseteq Stored', Protected \subseteq Protected',
         Due(c) = "POST acl" => calls[c].key \in Protected',
         Due(c) = "load" => calls' = Ended(c) \/ calls[c].key \in Stored',
         UNCHANGED <<consumers, keyed, halfDone>>
  PROVE  KInv'
<1>1. /\ PlansFit' /\ DueIsReady'
      /\ \E p, k, o : Turns(c, p, k, o)
  BY StepTurns
<1>2. KeyedUnlessHalfDone'
  BY <1>1, TurnKeepsKeys DEF KInv
<1> QED BY <1>1, <1>2 DEF KInv

-----------------------------------------------------------------------------
(* The steps of the accounts again. *)

\* The unique column refuses an address that is there.
LEMMA InsertUserOK ==
  ASSUME KInv, NEW c \in Calls, InsertUser(c)
  PROVE  UsersOK' /\ Stored \subseteq Stored'
<1> USE DEF KInv
<1>1. CASE UNCHANGED <<users, tokens>>
  BY <1>1, UsersKept
<1>2. CASE /\ Owner(calls[c].key) = {}
           /\ \E u \in Users \ Stored :
                /\ users' = [users EXCEPT ![u] =
                               [email |-> calls[c].key, status |-> "ACTIVE"]]
                /\ tokens' = tokens \cup {u}
  <2>1. PICK u \in Users \ Stored :
          /\ users' = [users EXCEPT ![u] = [email |-> calls[c].key, status |-> "ACTIVE"]]
          /\ tokens' = tokens \cup {u}
    BY <1>2
  <2>2. calls[c].key \in Emails
    BY TailFits DEF InsertUser, Due, PlansFit, Needs
  <2>3. /\ users'[u] = [email |-> calls[c].key, status |-> "ACTIVE"]
        /\ \A v \in Users \ {u} : users'[v] = users[v]
    BY <2>1 DEF UsersOK
  <2>4. /\ users'[u].email = calls[c].key /\ users'[u].status = "ACTIVE"
    BY <2>3
  <2>5. Stored' = Stored \cup {u}
    <3>1. "ACTIVE" # None
      BY NoneAssumption
    <3> QED BY <2>3, <2>4, <3>1 DEF Stored
  <2>6. users' \in [Users -> [email : Emails \cup {None},
                              status : {"ACTIVE", "INACTIVE", None}]]
    BY <2>1, <2>2 DEF UsersOK
  <2>7. OneAccountPerAddress'
    <3>1. \A v \in Stored : v # u /\ users'[v].email = users[v].email
                            /\ users[v].email # calls[c].key
      BY <1>2, <2>3 DEF Owner, Stored
    <3> QED BY <2>4, <2>5, <3>1 DEF UsersOK, OneAccountPerAddress
  <2> QED BY <2>1, <2>5, <2>6, <2>7 DEF UsersOK
<1> QED BY <1>1, <1>2 DEF InsertUser

\* Saving leaves the plans of the other calls alone.
LEMMA SaveTurns ==
  ASSUME IInv, NEW c \in Calls, SaveInactive(c)
  PROVE  Turns(c, <<>>, None, None)
<1>1. /\ calls'[c] = Idle
      /\ \A d \in Calls \ {c} :
           calls'[d] = calls[d] \/ calls'[d] = [calls[d] EXCEPT !.late = TRUE]
  BY DEF SaveInactive
<1>2. \A d \in Calls : [calls[d] EXCEPT !.late = TRUE] =
        [user |-> calls[d].user, plan |-> calls[d].plan, key |-> calls[d].key,
         other |-> calls[d].other, late |-> TRUE]
  <2> TAKE d \in Calls
  <2>1. calls[d] = [user |-> calls[d].user, plan |-> calls[d].plan, key |-> calls[d].key,
                    other |-> calls[d].other, late |-> calls[d].late]
    BY DEF IInv, RecordsOK
  <2> QED BY <2>1, CallUpdate
<1>3. ASSUME NEW d \in Calls \ {c}
      PROVE  /\ calls'[d].plan = calls[d].plan /\ calls'[d].key = calls[d].key
             /\ calls'[d].other = calls[d].other
  <2>1. CASE calls'[d] = calls[d]
    BY <2>1
  <2>2. CASE calls'[d] = [user |-> calls[d].user, plan |-> calls[d].plan,
                          key |-> calls[d].key, other |-> calls[d].other, late |-> TRUE]
    BY <2>2
  <2> QED BY <1>1, <1>2, <2>1, <2>2
<1> QED BY <1>1, <1>3 DEF Turns, Idle

\* Nor does it take an account away.
LEMMA SaveInactiveOK ==
  ASSUME KInv, NEW c \in Calls, SaveInactive(c)
  PROVE  UsersOK' /\ Stored' = Stored
<1> DEFINE v == calls[c].key
<1> USE DEF KInv
<1>1. v \in Stored /\ users' = [users EXCEPT ![v].status = "INACTIVE"] /\ tokens' = tokens
  BY DEF SaveInactive, DueIsReady
<1>2. /\ users' \in [Users -> [email : Emails \cup {None},
                               status : {"ACTIVE", "INACTIVE", None}]]
      /\ \A u \in Users : users'[u].email = users[u].email
      /\ \A u \in Users \ {v} : users'[u] = users[u]
      /\ v \in Users /\ users'[v].status = "INACTIVE"
  BY <1>1 DEF UsersOK, Stored
<1>3. "INACTIVE" # None
  BY NoneAssumption
<1>4. Stored' = Stored
  BY <1>1, <1>2, <1>3 DEF Stored
<1> QED BY <1>1, <1>2, <1>4 DEF UsersOK, OneAccountPerAddress, Stored

LEMMA AccountStepKeeps ==
  ASSUME KInv, IInv', NEW c \in Calls, AccountStep(c), UNCHANGED <<kong, halfDone, moved>>
  PROVE  KInv'
<1>1. /\ KongOK' /\ MembersProtected' /\ Protected' = Protected
      /\ consumers' = consumers /\ keyed' = keyed
  BY KongKept DEF kong
<1>2. CASE \/ Validate(c) \/ LookUpEmail(c) \/ FindUser(c) \/ ListAll(c) \/ LoadAdmin(c)
  <2>1. UsersOK' /\ Stored' = Stored
    BY <1>2, UsersKept
       DEF KInv, Validate, LookUpEmail, FindUser, ListAll, LoadAdmin
  <2>2. /\ Due(c) \in {"guard", "exists", "find", "users", "load"}
        /\ Advance(c) \/ calls' = Ended(c)
        /\ Due(c) = "load" => calls' = Ended(c) \/ calls[c].key \in Stored
    BY <1>2 DEF Validate, LookUpEmail, FindUser, ListAll, LoadAdmin
  <2> QED BY <1>1, <2>1, <2>2, StepKeeps
<1>3. CASE InsertUser(c)
  <2>1. Due(c) = "insert" /\ calls' = Ended(c)
    BY <1>3 DEF InsertUser
  <2> QED BY <1>1, <1>3, <2>1, InsertUserOK, StepKeeps
<1>4. CASE SignToken(c)
  <2>1. /\ Due(c) = "compare" /\ calls' = Ended(c) /\ users' = users
        /\ tokens' = tokens \cup Owner(calls[c].key)
    BY <1>4 DEF SignToken
  <2>2. UsersOK' /\ Stored' = Stored
    BY <2>1 DEF KInv, UsersOK, OneAccountPerAddress, Stored, Owner
  <2> QED BY <1>1, <2>1, <2>2, StepKeeps
<1>5. CASE SaveInactive(c)
  <2>1. UsersOK' /\ Stored' = Stored
    BY <1>5, SaveInactiveOK
  <2>2. Turns(c, <<>>, None, None) /\ Due(c) = "save" /\ Fits(<<>>, None, None)
    BY <1>5, SaveTurns DEF SaveInactive, KInv, Fits
  <2>3. PlansFit' /\ DueIsReady'
    BY <1>1, <2>1, <2>2, TurnFits DEF KInv
  <2>4. KeyedUnlessHalfDone'
    BY <1>1, <2>2, TurnKeepsKeys DEF KInv
  <2> QED BY <1>1, <2>1, <2>3, <2>4 DEF KInv
<1> QED BY <1>2, <1>3, <1>4, <1>5 DEF AccountStep

-----------------------------------------------------------------------------
(* Requests again. *)

\* Plans put together.
LEMMA PlansOfSteps ==
  ASSUME NEW k, NEW o
  PROVE  /\ \A a : Ends(a) /\ Needs(a, k, o) => Fits(<<a>>, k, o)
         /\ \A a, b : Follows(a, b) /\ Ends(b) /\ Needs(a, k, o) /\ Needs(b, k, o)
              => Fits(<<a, b>>, k, o)
         /\ \A a, b, d :
              /\ Follows(a, b) /\ Follows(b, d) /\ Ends(d)
              /\ Needs(a, k, o) /\ Needs(b, k, o) /\ Needs(d, k, o)
              => Fits(<<a, b, d>>, k, o)
  BY DEF Fits

\* A request whose plan fits begins.
LEMMA AskFits ==
  ASSUME KInv, IInv', NEW c \in Calls, NEW u, NEW p, NEW k, NEW o, Ask(c, u, p, k, o),
         Fits(p, k, o), p # <<>> => Head(p) \notin {"POST member", "save"},
         UNCHANGED <<users, tokens, kong, halfDone, moved>>
  PROVE  KInv'
<1>1. /\ KongOK' /\ MembersProtected' /\ Protected' = Protected
      /\ consumers' = consumers /\ keyed' = keyed /\ UsersOK' /\ Stored' = Stored
  BY KongKept, UsersKept DEF kong, KInv
<1>2. Turns(c, p, k, o)
  BY AskTurns DEF KInv
<1>3. PlansFit' /\ DueIsReady'
  BY <1>1, <1>2, TurnFits DEF KInv
<1>4. Due(c) = ""
  <2>1. calls[c] = Idle /\ Idle.plan = <<>>
    BY DEF Ask, Idle
  <2> QED BY <2>1 DEF Due
<1>5. KeyedUnlessHalfDone'
  BY <1>1, <1>2, <1>4, TurnKeepsKeys DEF KInv
<1> QED BY <1>1, <1>3, <1>5 DEF KInv

LEMMA AccountRequestKeeps ==
  ASSUME KInv, IInv', NEW c \in Calls, AccountRequest(c),
         UNCHANGED <<kong, halfDone, moved>>
  PROVE  KInv'
<1>1. UNCHANGED <<users, tokens, kong, halfDone, moved>>
  BY DEF AccountRequest
<1>2. ASSUME NEW e \in Emails, Register(c, e) \/ Login(c, e)
      PROVE  KInv'
  <2>1. /\ Fits(<<"exists", "insert">>, e, None)
        /\ Fits(<<"find", "compare">>, e, None)
    <3>1. /\ Follows("exists", "insert") /\ Follows("find", "compare")
          /\ Ends("insert") /\ Ends("compare")
      BY DEF Follows, Ends
    <3>2. \A a \in {"exists", "insert", "find", "compare"} : Needs(a, e, None)
      BY DEF Needs
    <3> QED BY <3>1, <3>2, PlansOfSteps
  <2>2. /\ Head(<<"exists", "insert">>) = "exists"
        /\ Head(<<"find", "compare">>) = "find"
    BY ShortPlans
  <2> QED BY <1>1, <1>2, <2>1, <2>2, AskFits DEF Register, Login
<1>3. ASSUME NEW u \in Users, Me(c, u) \/ ListUsers(c, u)
      PROVE  KInv'
  <2>1. Fits(<<"guard">>, None, None) /\ Fits(<<"guard", "users">>, None, None)
    <3>1. Follows("guard", "users") /\ Ends("guard") /\ Ends("users")
      BY DEF Follows, Ends
    <3>2. \A a \in {"guard", "users"} : Needs(a, None, None)
      BY DEF Needs
    <3> QED BY <3>1, <3>2, PlansOfSteps
  <2>2. Head(<<"guard">>) = "guard" /\ Head(<<"guard", "users">>) = "guard"
    BY ShortPlans
  <2> QED BY <1>1, <1>3, <2>1, <2>2, AskFits DEF Me, ListUsers
<1>4. ASSUME NEW u \in Users, NEW v \in Users, DeleteAdmin(c, u, v)
      PROVE  KInv'
  <2>1. ASSUME NEW o PROVE Fits(<<"guard", "load", "save">>, v, o)
    <3>1. Follows("guard", "load") /\ Follows("load", "save") /\ Ends("save")
      BY DEF Follows, Ends
    <3>2. \A a \in {"guard", "load", "save"} : Needs(a, v, o)
      BY DEF Needs
    <3> QED BY <3>1, <3>2, PlansOfSteps
  <2>2. Head(<<"guard", "load", "save">>) = "guard"
    BY ShortPlans
  <2> QED BY <1>1, <1>4, <2>1, <2>2, AskFits DEF DeleteAdmin
<1> QED BY <1>2, <1>3, <1>4 DEF AccountRequest

\* A plan behind the guard.
Guarded(p, k, o) ==
  /\ Fits(<<"guard">> \o p, k, o)
  /\ <<"guard">> \o p # <<>> /\ Head(<<"guard">> \o p) = "guard"

LEMMA GuardedPlans ==
  ASSUME NEW k, NEW o
  PROVE  /\ \A a : Follows("guard", a) /\ Ends(a) /\ Needs(a, k, o) => Guarded(<<a>>, k, o)
         /\ \A a, b : /\ Follows("guard", a) /\ Follows(a, b) /\ Ends(b)
                      /\ Needs(a, k, o) /\ Needs(b, k, o)
                      => Guarded(<<a, b>>, k, o)
         /\ \A a, b, d : /\ Follows("guard", a) /\ Follows(a, b) /\ Follows(b, d) /\ Ends(d)
                         /\ Needs(a, k, o) /\ Needs(b, k, o) /\ Needs(d, k, o)
                         => Guarded(<<a, b, d>>, k, o)
<1>1. Needs("guard", k, o)
  BY DEF Needs
<1>2. ASSUME NEW a, Follows("guard", a), Ends(a), Needs(a, k, o)
      PROVE  Guarded(<<a>>, k, o)
  <2>1. Fits(<<"guard", a>>, k, o)
    BY <1>1, <1>2, PlansOfSteps
  <2>2. <<"guard">> \o <<a>> = <<"guard", a>>
    BY PutBefore
  <2>3. <<"guard", a>> # <<>> /\ Head(<<"guard", a>>) = "guard"
    BY ShortPlans
  <2> QED BY <2>1, <2>2, <2>3 DEF Guarded
<1>3. ASSUME NEW a, NEW b, Follows("guard", a), Follows(a, b), Ends(b),
             Needs(a, k, o), Needs(b, k, o)
      PROVE  Guarded(<<a, b>>, k, o)
  <2>1. Fits(<<"guard", a, b>>, k, o)
    BY <1>1, <1>3, PlansOfSteps
  <2>2. <<"guard">> \o <<a, b>> = <<"guard", a, b>>
    BY PutBefore
  <2>3. <<"guard", a, b>> # <<>> /\ Head(<<"guard", a, b>>) = "guard"
    BY ShortPlans
  <2> QED BY <2>1, <2>2, <2>3 DEF Guarded
<1>4. ASSUME NEW a, NEW b, NEW d, Follows("guard", a), Follows(a, b), Follows(b, d),
             Ends(d), Needs(a, k, o), Needs(b, k, o), Needs(d, k, o)
      PROVE  Guarded(<<a, b, d>>, k, o)
  <2>1. Fits(<<"guard", a, b, d>>, k, o)
    BY <1>1, <1>4 DEF Fits
  <2>2. <<"guard">> \o <<a, b, d>> = <<"guard", a, b, d>>
    BY PutBefore
  <2>3. <<"guard", a, b, d>> # <<>> /\ Head(<<"guard", a, b, d>>) = "guard"
    BY ShortPlans
  <2> QED BY <2>1, <2>2, <2>3 DEF Guarded
<1> QED BY <1>2, <1>3, <1>4

LEMMA RequestFits ==
  ASSUME KInv, IInv', NEW c \in Calls, NEW u, NEW p, NEW k, NEW o,
         Request(c, u, p, k, o), Guarded(p, k, o),
         UNCHANGED <<users, tokens, kong, halfDone, moved>>
  PROVE  KInv'
<1> DEFINE g == <<"guard">> \o p
<1>1. Ask(c, u, g, k, o) /\ Fits(g, k, o) /\ g # <<>> /\ Head(g) = "guard"
  BY DEF Request, Guarded
<1> HIDE DEF g
<1> QED BY <1>1, AskFits

LEMMA ServiceRequestKeeps ==
  ASSUME KInv, IInv', NEW c \in Calls, NEW u \in Users, ServiceRequest(c, u),
         UNCHANGED <<users, tokens, kong, halfDone, moved>>
  PROVE  KInv'
<1>1. CASE ListServices(c, u)
  <2>1. Follows("guard", "GET all") /\ Ends("GET all") /\ Needs("GET all", None, None)
    BY DEF Follows, Ends, Needs
  <2>2. Guarded(<<"GET all">>, None, None)
    BY <2>1, GuardedPlans
  <2> QED BY <1>1, <2>2, RequestFits DEF ListServices
<1>2. ASSUME NEW a \in ServiceNames, CreateService(c, u, a)
      PROVE  KInv'
  <2>1. ASSUME NEW n \in RouteNames \cup {None}
        PROVE  /\ Guarded(<<"POST service">>, a, n)
               /\ Guarded(<<"POST service", "POST route">>, a, n)
    <3>1. /\ Follows("guard", "POST service") /\ Follows("POST service", "POST route")
          /\ Ends("POST service") /\ Ends("POST route")
          /\ Needs("POST service", a, n) /\ Needs("POST route", a, n)
      BY DEF Follows, Ends, Needs
    <3> QED BY <3>1, GuardedPlans
  <2> QED BY <1>2, <2>1, RequestFits DEF CreateService
<1>3. ASSUME NEW k \in ServiceKeys,
             GetService(c, u, k) \/ DeleteService(c, u, k) \/ AddHeader(c, u, k)
      PROVE  KInv'
  <2>1. ASSUME NEW a \in {"GET service", "DELETE service", "POST transformer"}
        PROVE  Guarded(<<a>>, k, None)
    <3>1. Follows("guard", a) /\ Ends(a) /\ Needs(a, k, None)
      BY DEF Follows, Ends, Needs
    <3> QED BY <3>1, GuardedPlans
  <2> QED BY <1>3, <2>1, RequestFits DEF GetService, DeleteService, AddHeader
<1>4. ASSUME NEW k \in ServiceKeys, NEW a \in ServiceNames \cup {None},
             UpdateService(c, u, k, a)
      PROVE  KInv'
  <2>1. /\ Follows("guard", "PATCH service") /\ Ends("PATCH service")
        /\ Needs("PATCH service", k, a)
    BY DEF Follows, Ends, Needs
  <2>2. Guarded(<<"PATCH service">>, k, a)
    BY <2>1, GuardedPlans
  <2> QED BY <1>4, <2>2, RequestFits DEF UpdateService
<1> QED BY <1>1, <1>2, <1>3, <1>4 DEF ServiceRequest

LEMMA RouteRequestKeeps ==
  ASSUME KInv, IInv', NEW c \in Calls, NEW u \in Users, RouteRequest(c, u),
         UNCHANGED <<users, tokens, kong, halfDone, moved>>
  PROVE  KInv'
<1>1. CASE ListRoutes(c, u)
  <2>1. Follows("guard", "GET all") /\ Ends("GET all") /\ Needs("GET all", None, None)
    BY DEF Follows, Ends, Needs
  <2>2. Guarded(<<"GET all">>, None, None)
    BY <2>1, GuardedPlans
  <2> QED BY <1>1, <2>2, RequestFits DEF ListRoutes
<1>2. ASSUME NEW k, NEW n \in RouteNames \cup {None},
             NEW a \in {"POST route", "PATCH route", "GET route", "DELETE route"}
      PROVE  Guarded(<<a>>, k, n)
  <2>1. Follows("guard", a) /\ Ends(a) /\ Needs(a, k, n)
    BY DEF Follows, Ends, Needs
  <2> QED BY <2>1, GuardedPlans
<1>3. CASE \E s \in ServiceKeys, n \in RouteNames \cup {None} : CreateRoute(c, u, s, n)
  BY <1>2, <1>3, RequestFits DEF CreateRoute
<1>4. CASE \E k \in Keys : GetRoute(c, u, k) \/ DeleteRoute(c, u, k)
  BY <1>2, <1>4, RequestFits DEF GetRoute, DeleteRoute
<1>5. CASE \E k \in Keys, n \in RouteNames \cup {None} : UpdateRoute(c, u, k, n)
  BY <1>2, <1>5, RequestFits DEF UpdateRoute
<1> QED BY <1>1, <1>3, <1>4, <1>5 DEF RouteRequest

LEMMA ConsumerRequestKeeps ==
  ASSUME KInv, IInv', NEW c \in Calls, NEW u \in Users, ConsumerRequest(c, u),
         UNCHANGED <<users, tokens, kong, halfDone, moved>>
  PROVE  KInv'
<1>1. CASE ListConsumers(c, u)
  <2>1. /\ Follows("guard", "GET consumers") /\ Follows("GET consumers", "GET each")
        /\ Ends("GET each")
        /\ Needs("GET consumers", None, {}) /\ Needs("GET each", None, {})
    BY DEF Follows, Ends, Needs
  <2>2. Guarded(<<"GET consumers", "GET each">>, None, {})
    BY <2>1, GuardedPlans
  <2> QED BY <1>1, <2>2, RequestFits DEF ListConsumers
<1>2. ASSUME NEW v \in Usernames, CreateConsumer(c, u, v)
      PROVE  KInv'
  <2>1. /\ Follows("guard", "POST consumer") /\ Follows("POST consumer", "POST key")
        /\ Ends("POST key") /\ Needs("POST consumer", v, None) /\ Needs("POST key", v, None)
    BY DEF Follows, Ends, Needs
  <2>2. Guarded(<<"POST consumer", "POST key">>, v, None)
    BY <2>1, GuardedPlans
  <2> QED BY <1>2, <2>2, RequestFits DEF CreateConsumer
<1>3. ASSUME NEW x \in ConsumerKeys, GetConsumer(c, u, x) \/ DeleteConsumer(c, u, x)
      PROVE  KInv'
  <2>1. /\ \A a \in {"GET consumer", "DELETE consumer"} :
             Follows("guard", a) /\ Needs(a, x, None) /\ Ends(a)
        /\ Follows("GET consumer", "GET consumer")
    BY DEF Follows, Ends, Needs
  <2>2. /\ Guarded(<<"GET consumer", "GET consumer">>, x, None)
        /\ Guarded(<<"DELETE consumer">>, x, None)
    BY <2>1, GuardedPlans
  <2> QED BY <1>3, <2>2, RequestFits DEF GetConsumer, DeleteConsumer
<1>4. ASSUME NEW x \in ConsumerKeys, NEW v \in Usernames \cup {None},
             UpdateConsumer(c, u, x, v)
      PROVE  KInv'
  <2>1. /\ Follows("guard", "PATCH consumer") /\ Follows("PATCH consumer", "GET consumer")
        /\ Follows("GET consumer", "GET consumer") /\ Ends("GET consumer")
        /\ Needs("PATCH consumer", x, v) /\ Needs("GET consumer", x, v)
    BY DEF Follows, Ends, Needs
  <2>2. Guarded(<<"PATCH consumer", "GET consumer", "GET consumer">>, x, v)
    BY <2>1, GuardedPlans
  <2> QED BY <1>4, <2>2, RequestFits DEF UpdateConsumer
<1> QED BY <1>1, <1>2, <1>3, <1>4 DEF ConsumerRequest

LEMMA GatewayRequestKeeps ==
  ASSUME KInv, IInv', NEW c \in Calls, NEW u \in Users,
         GatewayRequest(c, u) \/ DashboardOverview(c, u),
         UNCHANGED <<users, tokens, kong, halfDone, moved>>
  PROVE  KInv'
<1>1. CASE ServiceRequest(c, u) \/ RouteRequest(c, u) \/ ConsumerRequest(c, u)
  BY <1>1, ServiceRequestKeeps, RouteRequestKeeps, ConsumerRequestKeeps
<1>2. ASSUME NEW k \in Keys, NEW x \in ConsumerKeys, AddConsumerToRoute(c, u, k, x)
      PROVE  KInv'
  <2>1. ProtectRoute \o <<"POST member">> = <<"GET plugins", "POST acl", "POST member">>
    BY PutAfter DEF ProtectRoute
  <2>2. /\ Follows("guard", "GET plugins") /\ Follows("GET plugins", "POST acl")
        /\ Follows("POST acl", "POST member") /\ Ends("POST member")
        /\ Needs("GET plugins", k, x) /\ Needs("POST acl", k, x)
        /\ Needs("POST member", k, x)
    BY DEF Follows, Ends, Needs
  <2>3. Guarded(<<"GET plugins", "POST acl", "POST member">>, k, x)
    BY <2>2, GuardedPlans
  <2> QED BY <1>2, <2>1, <2>3, RequestFits DEF AddConsumerToRoute
<1>3. ASSUME NEW k \in Keys, NEW x \in ConsumerKeys, RemoveConsumerFromRoute(c, u, k, x)
      PROVE  KInv'
  <2>1. /\ Follows("guard", "GET members") /\ Follows("GET members", "DELETE member")
        /\ Ends("DELETE member")
        /\ Needs("GET members", k, x) /\ Needs("DELETE member", k, x)
    BY DEF Follows, Ends, Needs
  <2>2. Guarded(<<"GET members", "DELETE member">>, k, x)
    BY <2>1, GuardedPlans
  <2> QED BY <1>3, <2>2, RequestFits DEF RemoveConsumerFromRoute
<1>4. CASE DashboardOverview(c, u)
  <2>1. Follows("guard", "GET all") /\ Ends("GET all") /\ Needs("GET all", None, None)
    BY DEF Follows, Ends, Needs
  <2>2. Guarded(<<"GET all">>, None, None)
    BY <2>1, GuardedPlans
  <2> QED BY <1>4, <2>2, RequestFits DEF DashboardOverview
<1> QED BY <1>1, <1>2, <1>3, <1>4 DEF GatewayRequest

-----------------------------------------------------------------------------
(* Reads of Kong again. *)

\* A last step, and a plan of it alone.
LEMMA LastStepFits ==
  ASSUME NEW p, NEW k, NEW o, NEW v, Fits(p, k, o), p # <<>>,
         Head(p) \in {"GET each", "DELETE member"}
  PROVE  Fits(p, k, v)
<1>1. Tail(p) = <<>>
  BY TailFits DEF Follows
<1>2. p = <<Head(p)>>
  <2>1. ASSUME NEW a, NEW b, p = <<a, b>>
        PROVE  FALSE
    BY <1>1, <2>1, ShortPlans
  <2>2. ASSUME NEW a, NEW b, NEW d, p = <<a, b, d>>
        PROVE  FALSE
    <3>1. Tail(<<a, b, d>>) = <<b, d>> /\ <<b, d>> # <<>>
      BY ONLY ShortPlans
    <3> QED BY <1>1, <2>2, <3>1
  <2>3. ASSUME NEW a, NEW b, NEW d, NEW e, p = <<a, b, d, e>>
        PROVE  FALSE
    <3>1. Tail(<<a, b, d, e>>) = <<b, d, e>> /\ <<b, d, e>> # <<>>
      BY ONLY ShortPlans
    <3> QED BY <1>1, <2>3, <3>1
  <2>4. PICK a : p = <<a>>
    BY <2>1, <2>2, <2>3 DEF Fits
  <2> QED BY <2>4, ShortPlans
<1>3. Ends(Head(p)) /\ Needs(Head(p), k, v)
  BY DEF Ends, Needs
<1> QED BY <1>2, <1>3, PlansOfSteps

\* What was read is kept for a step that is the last.
LEMMA FindingKeeps ==
  ASSUME KInv, IInv', NEW c \in Calls,
         Due(c) \in {"GET consumers", "GET members"}, \E v : DoneWith(c, v),
         UNCHANGED <<users, tokens, kong, halfDone, moved>>
  PROVE  KInv'
<1> PICK v : DoneWith(c, v)
  OBVIOUS
<1> DEFINE p == Tail(calls[c].plan)
<1>1. /\ KongOK' /\ MembersProtected' /\ Protected' = Protected
      /\ consumers' = consumers /\ keyed' = keyed /\ UsersOK' /\ Stored' = Stored
  BY KongKept, UsersKept DEF kong, KInv
<1>2. Turns(c, p, calls[c].key, v)
  BY FindingTurns DEF KInv
<1>3. /\ calls[c].plan # <<>> /\ Head(calls[c].plan) = Due(c)
      /\ Fits(calls[c].plan, calls[c].key, calls[c].other)
  BY DEF Due, KInv, PlansFit
<1>4. /\ Fits(p, calls[c].key, calls[c].other)
      /\ p # <<>> => Head(p) \in {"GET each", "DELETE member"}
  BY <1>3, TailFits DEF Follows
<1> HIDE DEF p
<1>5. Fits(p, calls[c].key, v)
  BY <1>4, LastStepFits DEF Fits
<1>6. PlansFit' /\ DueIsReady'
  BY <1>1, <1>2, <1>4, <1>5, TurnFits DEF KInv
<1>7. KeyedUnlessHalfDone'
  BY <1>1, <1>2, TurnKeepsKeys DEF KInv
<1> QED BY <1>1, <1>6, <1>7 DEF KInv

LEMMA ReadConsumersKeeps ==
  ASSUME KInv, IInv', NEW c \in Calls, ReadConsumers(c)
  PROVE  KInv'
<1>1. UNCHANGED <<users, tokens, kong, halfDone, moved>>
  BY DEF ReadConsumers, rest
<1>2. CASE Due(c) = "GET consumers" /\ DoneWith(c, StoredConsumers)
  <2>1. Due(c) \in {"GET consumers", "GET members"} /\ DoneWith(c, StoredConsumers)
    BY <1>2
  <2>2. \E v : DoneWith(c, v)
    BY <2>1
  <2> QED BY <1>1, <2>1, <2>2, FindingKeeps
<1>3. /\ KongOK' /\ MembersProtected' /\ Protected' = Protected
      /\ consumers' = consumers /\ keyed' = keyed /\ UsersOK' /\ Stored' = Stored
  BY <1>1, KongKept, UsersKept DEF kong, KInv
<1>4. CASE Due(c) = "GET each" /\ (Advance(c) \/ calls' = Ended(c))
  BY <1>1, <1>3, <1>4, StepKeeps
<1>5. CASE /\ Due(c) = "GET each"
           /\ \E x \in calls[c].other : calls' = [calls EXCEPT ![c].other = @ \ {x}]
  <2>1. PICK x \in calls[c].other :
          calls' = [calls EXCEPT ![c] = [calls[c] EXCEPT !.other = calls[c].other \ {x}]]
    BY <1>5
  <2> DEFINE v == calls[c].other \ {x}
  <2>2. [calls[c] EXCEPT !.other = v] =
          [user |-> calls[c].user, plan |-> calls[c].plan, key |-> calls[c].key,
           other |-> v, late |-> calls[c].late]
    <3>1. calls[c] = [user |-> calls[c].user, plan |-> calls[c].plan, key |-> calls[c].key,
                      other |-> calls[c].other, late |-> calls[c].late]
      BY DEF KInv, IInv, RecordsOK
    <3> QED BY <3>1, CallUpdate
  <2>3. /\ calls'[c] = [user |-> calls[c].user, plan |-> calls[c].plan,
                        key |-> calls[c].key, other |-> v, late |-> calls[c].late]
        /\ \A d \in Calls \ {c} : calls'[d] = calls[d]
    BY <2>1, <2>2 DEF KInv, IInv, RecordsOK
  <2>4. Turns(c, calls[c].plan, calls[c].key, v)
    BY <2>3 DEF Turns
  <2>5. /\ calls[c].plan # <<>> /\ Head(calls[c].plan) = "GET each"
        /\ Fits(calls[c].plan, calls[c].key, calls[c].other)
    BY <1>5 DEF Due, KInv, PlansFit
  <2>6. Fits(calls[c].plan, calls[c].key, v)
    BY <2>5, LastStepFits
  <2>7. PlansFit' /\ DueIsReady'
    BY <1>3, <2>4, <2>5, <2>6, TurnFits DEF KInv
  <2>8. KeyedUnlessHalfDone'
    BY <1>1, <1>3, <1>5, <2>4, TurnKeepsKeys DEF KInv
  <2> QED BY <1>3, <2>7, <2>8 DEF KInv
<1> QED BY <1>2, <1>4, <1>5 DEF ReadConsumers

\* With the plugin there, the plan goes on with the member; else with the
\* plugin.
LEMMA FindPluginKeeps ==
  ASSUME KInv, IInv', NEW c \in Calls, FindPlugin(c)
  PROVE  KInv'
<1> DEFINE k == calls[c].key
           o == calls[c].other
<1>1. UNCHANGED <<users, tokens, kong, halfDone, moved>> /\ Due(c) = "GET plugins"
  BY DEF FindPlugin, rest
<1>2. /\ KongOK' /\ MembersProtected' /\ Protected' = Protected
      /\ consumers' = consumers /\ keyed' = keyed /\ UsersOK' /\ Stored' = Stored
  BY <1>1, KongKept, UsersKept DEF kong, KInv
<1>3. PICK r \in Route(k) :
        Continue(c, SubSeq(calls[c].plan, IF acl[r] = k THEN 3 ELSE 2, Len(calls[c].plan)))
  BY DEF FindPlugin
<1>4. calls[c].plan = <<"GET plugins", "POST acl", "POST member">> /\ k \in Keys
  BY <1>1, AclPlan DEF Due, KInv, PlansFit
<1>5. /\ Len(calls[c].plan) = 3
      /\ SubSeq(calls[c].plan, 2, 3) = <<"POST acl", "POST member">>
      /\ SubSeq(calls[c].plan, 3, 3) = <<"POST member">>
  BY <1>4, PartsOfThree
<1>6. /\ Fits(<<"POST acl", "POST member">>, k, o) /\ Fits(<<"POST member">>, k, o)
      /\ <<"POST acl", "POST member">> # <<>>
      /\ Head(<<"POST acl", "POST member">>) = "POST acl"
      /\ <<"POST member">> # <<>> /\ Head(<<"POST member">>) = "POST member"
  <2>1. /\ Follows("POST acl", "POST member") /\ Ends("POST member")
        /\ Needs("POST acl", k, o) /\ Needs("POST member", k, o)
    BY <1>4 DEF Follows, Ends, Needs
  <2> QED BY <2>1, PlansOfSteps, ShortPlans
<1>7. CASE acl[r] = k
  <2>1. Turns(c, <<"POST member">>, k, o)
    BY <1>3, <1>5, <1>6, <1>7, PlanTurns DEF KInv
  <2>2. k \in Protected
    BY <1>4, <1>7 DEF Protected
  <2>3. PlansFit' /\ DueIsReady'
    BY <1>2, <1>6, <2>1, <2>2, TurnFits DEF KInv
  <2>4. KeyedUnlessHalfDone'
    BY <1>1, <1>2, <2>1, TurnKeepsKeys DEF KInv
  <2> QED BY <1>2, <2>3, <2>4 DEF KInv
<1>8. CASE acl[r] # k
  <2>1. Turns(c, <<"POST acl", "POST member">>, k, o)
    BY <1>3, <1>5, <1>6, <1>8, PlanTurns DEF KInv
  <2>2. PlansFit' /\ DueIsReady'
    BY <1>2, <1>6, <2>1, TurnFits DEF KInv
  <2>3. KeyedUnlessHalfDone'
    BY <1>1, <1>2, <2>1, TurnKeepsKeys DEF KInv
  <2> QED BY <1>2, <2>2, <2>3 DEF KInv
<1> QED BY <1>7, <1>8

LEMMA ReadsKeep ==
  ASSUME KInv, IInv', NEW c \in Calls,
         Read(c) \/ ReadConsumers(c) \/ FindPlugin(c) \/ FindMember(c)
  PROVE  KInv'
<1>1. CASE Read(c)
  <2>1. /\ Due(c) \notin {"", "POST key", "POST acl", "load"} /\ Advance(c)
        /\ UNCHANGED <<users, tokens, kong, halfDone, moved>>
    BY <1>1 DEF Read, rest
  <2>2. /\ KongOK' /\ MembersProtected' /\ Protected' = Protected
        /\ consumers' = consumers /\ keyed' = keyed /\ UsersOK' /\ Stored' = Stored
    BY <2>1, KongKept, UsersKept DEF kong, KInv
  <2> QED BY <2>1, <2>2, StepKeeps
<1>2. CASE ReadConsumers(c) \/ FindPlugin(c)
  BY <1>2, ReadConsumersKeeps, FindPluginKeeps
<1>3. CASE FindMember(c)
  <2>1. Due(c) = "GET members" /\ UNCHANGED <<users, tokens, kong, halfDone, moved>>
    BY <1>3 DEF FindMember, rest
  <2>2. CASE \E v : DoneWith(c, v)
    BY <2>1, <2>2, FindingKeeps
  <2>3. CASE calls' = Ended(c)
    <3>1. /\ KongOK' /\ MembersProtected' /\ Protected' = Protected
          /\ consumers' = consumers /\ keyed' = keyed /\ UsersOK' /\ Stored' = Stored
      BY <2>1, KongKept, UsersKept DEF kong, KInv
    <3> QED BY <2>1, <2>3, <3>1, StepKeeps
  <2> QED BY <1>3, <2>2, <2>3 DEF FindMember
<1> QED BY <1>1, <1>2, <1>3

-----------------------------------------------------------------------------
(* Writes to Kong again: its tables stay in order, and whatever allows a    *)
(* group's members keeps on allowing them.                                  *)

\* What a step needs is there when it is due.
LEMMA DueNeeds ==
  ASSUME KInv, NEW c \in Calls, Due(c) # ""
  PROVE  Needs(Due(c), calls[c].key, calls[c].other)
<1>1. /\ calls[c].plan # <<>> /\ Head(calls[c].plan) = Due(c)
      /\ Fits(calls[c].plan, calls[c].key, calls[c].other)
  BY DEF Due, KInv, PlansFit
<1> QED BY <1>1, TailFits

\* Where routes and plugins stay.
LEMMA RoutesKept ==
  ASSUME UNCHANGED <<routes, acl, moved>>, spent \subseteq spent'
  PROVE  /\ Live' = Live /\ Protected \subseteq Protected'
         /\ \A k \in Keys : Route(k)' = Route(k)
<1>1. Live' = Live
  BY DEF Live
<1>2. \A k \in Keys : Route(k)' = Route(k)
  BY <1>1 DEF Route
<1> QED BY <1>1, <1>2 DEF Protected

LEMMA ConsumersKept ==
  ASSUME KInv, UNCHANGED <<consumers, keyed, members>>, Protected \subseteq Protected'
  PROVE  /\ MembersProtected'
         /\ StoredConsumers' = StoredConsumers
         /\ spent \subseteq spent' => ConsumersOK'
<1>1. StoredConsumers' = StoredConsumers
  BY DEF StoredConsumers
<1> QED BY <1>1 DEF KInv, KongOK, ConsumersOK, OneName, MembersProtected, Member

LEMMA ServicesKept ==
  ASSUME KInv, UNCHANGED <<services, transformed>>
  PROVE  /\ StoredServices' = StoredServices
         /\ spent \subseteq spent' => ServicesOK'
<1>1. StoredServices' = StoredServices
  BY DEF StoredServices
<1> QED BY <1>1 DEF KInv, KongOK, ServicesOK, OneName

\* Routes stay in order as long as their services are there.
LEMMA RoutesStayOK ==
  ASSUME KInv, UNCHANGED <<routes, acl>>, spent \subseteq spent',
         \A r \in Live : routes[r].service \in StoredServices'
  PROVE  RoutesOK'
<1>1. Live' = Live
  BY DEF Live
<1> QED BY <1>1 DEF KInv, KongOK, RoutesOK

\* A table of names in which i takes one that nothing else has.
LEMMA NameTaken ==
  ASSUME NEW I, NEW N, NEW t \in [I -> N \cup {None}], OneName(t),
         NEW i \in I, NEW n \in N \cup {None}, Unused(t, i, n)
  PROVE  /\ [t EXCEPT ![i] = n] \in [I -> N \cup {None}]
         /\ OneName([t EXCEPT ![i] = n])
         /\ [t EXCEPT ![i] = n][i] = n
         /\ \A j \in I \ {i} : [t EXCEPT ![i] = n][j] = t[j]
<1> DEFINE w == [t EXCEPT ![i] = n]
<1>1. w \in [I -> N \cup {None}] /\ w[i] = n /\ \A j \in I \ {i} : w[j] = t[j]
  OBVIOUS
<1>2. DOMAIN w = I /\ DOMAIN t = I
  OBVIOUS
<1> HIDE DEF w
<1>3. OneName(w)
  <2> SUFFICES ASSUME NEW j \in I, NEW k \in I, w[j] = w[k], j # k
               PROVE  w[j] = None
    BY <1>2 DEF OneName
  <2>1. CASE j = i \/ k = i
    BY <1>1, <1>2, <2>1 DEF Unused
  <2>2. CASE j # i /\ k # i
    BY <1>1, <1>2, <2>2 DEF OneName
  <2> QED BY <2>1, <2>2
<1> QED BY <1>1, <1>3 DEF w

LEMMA NameChanged ==
  ASSUME NEW I, NEW N, NEW t \in [I -> N \cup {None}], OneName(t),
         NEW i \in I, NEW n \in N \cup {None}, Unused(t, i, n)
  PROVE  /\ Renamed(t, i, n) \in [I -> N \cup {None}]
         /\ OneName(Renamed(t, i, n))
         /\ \A j \in I \ {i} : Renamed(t, i, n)[j] = t[j]
         /\ n = None => Renamed(t, i, n)[i] = t[i]
         /\ n # None => Renamed(t, i, n)[i] = n
<1>1. CASE n = None
  BY <1>1 DEF Renamed
<1>2. CASE n # None
  <2>1. Renamed(t, i, n) = [t EXCEPT ![i] = n]
    BY <1>2 DEF Renamed
  <2>2. /\ [t EXCEPT ![i] = n] \in [I -> N \cup {None}]
        /\ OneName([t EXCEPT ![i] = n])
        /\ [t EXCEPT ![i] = n][i] = n
        /\ \A j \in I \ {i} : [t EXCEPT ![i] = n][j] = t[j]
    BY NameTaken
  <2> QED BY ONLY <1>2, <2>1, <2>2
<1> QED BY <1>1, <1>2

LEMMA NamesGone ==
  ASSUME NEW I, NEW N, NEW t \in [I -> N \cup {None}], OneName(t), NEW S
  PROVE  /\ Without(t, S) \in [I -> N \cup {None}]
         /\ OneName(Without(t, S))
         /\ \A j \in I : Without(t, S)[j] = IF j \in S THEN None ELSE t[j]
<1> DEFINE w == Without(t, S)
<1>1. /\ w \in [I -> N \cup {None}]
      /\ \A j \in I : w[j] = IF j \in S THEN None ELSE t[j]
  BY DEF Without
<1>2. DOMAIN w = I /\ DOMAIN t = I
  BY <1>1
<1> HIDE DEF w
<1>3. OneName(w)
  BY <1>1, <1>2 DEF OneName
<1> QED BY <1>1, <1>3 DEF w

\* A new service, another name for one, one less, a plugin for one.
LEMMA ServiceWritesKeep ==
  ASSUME KInv, IInv', NEW c \in Calls,
         PostService(c) \/ PatchService(c) \/ RemoveService(c) \/ PostTransformer(c)
  PROVE  KInv'
<1>1. /\ UNCHANGED <<users, tokens, routes, acl, consumers, keyed, members>>
      /\ UNCHANGED <<granted, halfDone, moved>>
      /\ Due(c) \in {"POST service", "PATCH service", "DELETE service", "POST transformer"}
      /\ Advance(c) \/ calls' = Ended(c)
      /\ spent \subseteq spent'
  BY DEF PostService, PatchService, RemoveService, PostTransformer, rest, routeState,
         consumerState, Done
<1>2. Live' = Live /\ Protected \subseteq Protected'
  BY <1>1, RoutesKept
<1>3. MembersProtected' /\ ConsumersOK' /\ UsersOK' /\ Stored' = Stored
  BY <1>1, <1>2, ConsumersKept, UsersKept DEF KInv
<1>4. /\ services \in [ServiceIds -> ServiceNames \cup {None}] /\ OneName(services)
      /\ StoredServices \subseteq spent /\ transformed \subseteq StoredServices
      /\ \A r \in Live : routes[r].service \in StoredServices
  BY DEF KInv, KongOK, ServicesOK, RoutesOK
<1>5. ServicesOK' /\ \A r \in Live : routes[r].service \in StoredServices'
  <2>1. CASE PostService(c)
    <3>1. calls[c].key \in ServiceNames /\ calls[c].key # None
      BY <2>1, DueNeeds, KongAssumption DEF PostService, Needs, Names
    <3>2. PICK s \in ServiceIds \ spent :
            /\ Unused(services, s, calls[c].key)
            /\ services' = [services EXCEPT ![s] = calls[c].key]
            /\ spent' = spent \cup {s}
      BY <2>1 DEF PostService
    <3>3. /\ services' \in [ServiceIds -> ServiceNames \cup {None}] /\ OneName(services')
          /\ services'[s] = calls[c].key
          /\ \A t \in ServiceIds \ {s} : services'[t] = services[t]
      <4> DEFINE a == calls[c].key
      <4>1. a \in ServiceNames \cup {None} /\ s \in ServiceIds
        BY <3>1
      <4>2. Unused(services, s, a) /\ services' = [services EXCEPT ![s] = a]
        BY <3>2
      <4> HIDE DEF a
      <4>3. /\ [services EXCEPT ![s] = a] \in [ServiceIds -> ServiceNames \cup {None}]
            /\ OneName([services EXCEPT ![s] = a])
            /\ [services EXCEPT ![s] = a][s] = a
            /\ \A t \in ServiceIds \ {s} : [services EXCEPT ![s] = a][t] = services[t]
        BY ONLY <1>4, <4>1, <4>2, NameTaken
      <4> QED BY <4>2, <4>3 DEF a
    <3>4. StoredServices' = StoredServices \cup {s}
      BY <3>1, <3>3 DEF StoredServices
    <3>5. transformed' = transformed
      BY <2>1 DEF PostService
    <3> QED BY <1>4, <3>2, <3>3, <3>4, <3>5 DEF ServicesOK
  <2>2. CASE PatchService(c)
    <3> DEFINE a == calls[c].other
    <3>1. a \in ServiceNames \cup {None}
      BY <2>2, DueNeeds DEF PatchService, Needs
    <3>2. PICK s \in Service(calls[c].key) :
            Unused(services, s, a) /\ services' = Renamed(services, s, a)
      BY <2>2 DEF PatchService
    <3>3. s \in ServiceIds /\ services[s] # None
      BY <3>2 DEF Service, StoredServices
    <3> HIDE DEF a
    <3>4. /\ services' \in [ServiceIds -> ServiceNames \cup {None}] /\ OneName(services')
          /\ \A t \in ServiceIds \ {s} : services'[t] = services[t]
          /\ a = None => services'[s] = services[s]
          /\ a # None => services'[s] = a
      <4>1. Unused(services, s, a)
        BY <3>2
      <4>2. /\ Renamed(services, s, a) \in [ServiceIds -> ServiceNames \cup {None}]
            /\ OneName(Renamed(services, s, a))
            /\ \A t \in ServiceIds \ {s} : Renamed(services, s, a)[t] = services[t]
            /\ a = None => Renamed(services, s, a)[s] = services[s]
            /\ a # None => Renamed(services, s, a)[s] = a
        BY ONLY <1>4, <3>1, <3>3, <4>1, NameChanged
      <4>3. services' = Renamed(services, s, a)
        BY <3>2
      <4> QED BY ONLY <4>2, <4>3
    <3>5. StoredServices' = StoredServices
      BY <3>3, <3>4 DEF StoredServices
    <3>6. transformed' = transformed /\ spent' = spent
      BY <2>2 DEF PatchService
    <3> QED BY <1>4, <3>4, <3>5, <3>6 DEF ServicesOK
  <2>3. CASE RemoveService(c)
    <3> DEFINE S == Service(calls[c].key)
    <3>1. /\ services' = Without(services, S) /\ transformed' = transformed \ S
          /\ spent' = spent
          /\ \A r \in Live : routes[r].service \notin S
      BY <2>3 DEF RemoveService
    <3> HIDE DEF S
    <3>2. /\ services' \in [ServiceIds -> ServiceNames \cup {None}] /\ OneName(services')
          /\ \A t \in ServiceIds : services'[t] = IF t \in S THEN None ELSE services[t]
      BY <1>4, <3>1, NamesGone
    <3>3. StoredServices' = StoredServices \ S
      BY <3>2 DEF StoredServices
    <3> QED BY <1>4, <3>1, <3>2, <3>3 DEF ServicesOK
  <2>4. CASE PostTransformer(c)
    <3>1. PICK s \in Service(calls[c].key) : transformed' = transformed \cup {s}
      BY <2>4 DEF PostTransformer
    <3>2. s \in StoredServices /\ services' = services /\ spent' = spent
      BY <2>4, <3>1 DEF PostTransformer, Service
    <3>3. StoredServices' = StoredServices
      BY <3>2 DEF StoredServices
    <3> QED BY <1>4, <3>1, <3>2, <3>3 DEF ServicesOK
  <2> QED BY <2>1, <2>2, <2>3, <2>4
<1>6. KongOK'
  BY <1>1, <1>3, <1>5, RoutesStayOK DEF KInv, KongOK
<1> QED BY <1>1, <1>2, <1>3, <1>6, StepKeeps

\* A new route has an id that nothing had.
LEMMA PostRouteKeeps ==
  ASSUME KInv, IInv', NEW c \in Calls, PostRoute(c)
  PROVE  KInv'
<1> DEFINE n == calls[c].other
<1>1. /\ UNCHANGED <<users, tokens, services, transformed, acl, consumers, keyed, members>>
      /\ UNCHANGED <<granted, halfDone, moved>>
      /\ Due(c) = "POST route"
      /\ Advance(c) \/ calls' = Ended(c)
  BY DEF PostRoute, rest, serviceState, consumerState, Done
<1>2. PICK s \in Service(calls[c].key), r \in RouteIds \ spent :
        /\ NameFree(r, n)
        /\ routes' = [routes EXCEPT ![r] = [service |-> s, name |-> n]]
        /\ spent' = spent \cup {r}
  BY DEF PostRoute
<1>3. n \in RouteNames \cup {None} /\ s \in StoredServices /\ s \in ServiceIds /\ s # None
  <2>1. n \in RouteNames \cup {None}
    BY <1>1, DueNeeds DEF Needs
  <2>2. s \in StoredServices /\ s \in ServiceIds
    BY <1>2 DEF Service, StoredServices
  <2> QED BY <2>1, <2>2, KongAssumption DEF Ids
<1>4. /\ routes'[r].service = s /\ routes'[r].name = n
      /\ \A q \in RouteIds \ {r} : routes'[q] = routes[q]
      /\ r \notin Live /\ Live' = Live \cup {r}
  <2>1. /\ routes'[r] = [service |-> s, name |-> n]
        /\ \A q \in RouteIds \ {r} : routes'[q] = routes[q]
    BY <1>2 DEF KInv, KongOK, RoutesOK
  <2>2. r \notin Live
    BY <1>2 DEF KInv, KongOK, RoutesOK
  <2>3. routes'[r].service = s /\ routes'[r].name = n
    BY <2>1
  <2> QED BY <1>3, <2>1, <2>2, <2>3 DEF Live
<1>5. Protected \subseteq Protected'
  <2> SUFFICES ASSUME NEW k \in Protected, k \notin moved
               PROVE  k \in Protected'
    BY <1>1 DEF Protected
  <2>1. CASE k \in RouteIds /\ k \in spent \ Live
    BY <1>2, <1>4, <2>1 DEF Protected
  <2>2. CASE \E q \in Route(k) : acl[q] = k
    <3>1. PICK q \in Route(k) : acl[q] = k
      BY <2>2
    <3>2. q \in Live /\ q \in RouteIds \ {r}
      BY <1>4, <3>1 DEF Route, Live
    <3>3. q \in Route(k)'
      BY <1>4, <3>1, <3>2 DEF Route
    <3> QED BY <1>1, <3>1, <3>3 DEF Protected
  <2> QED BY <2>1, <2>2 DEF Protected
<1>6. RoutesOK'
  <2>1. routes' \in [RouteIds ->
                       [service : ServiceIds \cup {None}, name : RouteNames \cup {None}]]
    BY <1>2, <1>3 DEF KInv, KongOK, RoutesOK
  <2>2. StoredServices' = StoredServices
    BY <1>1, ServicesKept
  <2>3. \A q \in Live' : q \in spent' /\ routes'[q].service \in StoredServices'
    BY <1>2, <1>3, <1>4, <2>2 DEF KInv, KongOK, RoutesOK, Live
  <2>4. \A q \in RouteIds : acl'[q] # None => q \in Live'
    BY <1>1, <1>4 DEF KInv, KongOK, RoutesOK
  <2>5. \A p, q \in Live' :
          routes'[p].name = routes'[q].name /\ p # q => routes'[p].name = None
    BY <1>2, <1>4 DEF KInv, KongOK, RoutesOK, NameFree, Live
  <2> QED BY <1>1, <2>1, <2>3, <2>4, <2>5 DEF KInv, KongOK, RoutesOK
<1>7. ServicesOK' /\ ConsumersOK' /\ MembersProtected' /\ UsersOK' /\ Stored' = Stored
  BY <1>1, <1>2, <1>5, ServicesKept, ConsumersKept, UsersKept DEF KInv
<1>8. KongOK'
  BY <1>1, <1>6, <1>7 DEF KInv, KongOK
<1> QED BY <1>1, <1>5, <1>7, <1>8, StepKeeps

\* A route gives up its name for another, and the name is one that moved.
LEMMA PatchRouteKeeps ==
  ASSUME KInv, IInv', NEW c \in Calls, PatchRoute(c)
  PROVE  KInv'
<1> DEFINE n == calls[c].other
<1>1. /\ UNCHANGED <<users, tokens, services, transformed, spent, acl, consumers, keyed>>
      /\ UNCHANGED <<members, granted, halfDone>>
      /\ Due(c) = "PATCH route"
      /\ Advance(c) \/ calls' = Ended(c)
  BY DEF PatchRoute, rest, serviceState, consumerState, Done
<1>2. n \in RouteNames \cup {None}
  BY <1>1, DueNeeds DEF Needs
<1>3. PICK r \in Route(calls[c].key) :
        /\ NameFree(r, n)
        /\ routes' = IF n = None THEN routes ELSE [routes EXCEPT ![r].name = n]
        /\ moved' = IF n \in {None, routes[r].name} THEN moved ELSE MovedWith({r})
  BY DEF PatchRoute
<1>4. r \in Live /\ r \in RouteIds
  BY <1>3 DEF Route, Live
<1>5. /\ \A q \in RouteIds : routes'[q].service = routes[q].service
      /\ \A q \in RouteIds \ {r} : routes'[q].name = routes[q].name
      /\ routes'[r].name = IF n = None THEN routes[r].name ELSE n
      /\ routes' \in [RouteIds ->
                        [service : ServiceIds \cup {None}, name : RouteNames \cup {None}]]
  <2>1. routes \in [RouteIds ->
                      [service : ServiceIds \cup {None}, name : RouteNames \cup {None}]]
    BY DEF KInv, KongOK, RoutesOK
  <2>2. CASE n = None
    BY <1>3, <2>1, <2>2
  <2>3. CASE n # None
    <3>1. /\ routes' = [routes EXCEPT ![r] = [routes[r] EXCEPT !.name = n]]
          /\ routes[r] \in [service : ServiceIds \cup {None}, name : RouteNames \cup {None}]
      BY <1>3, <1>4, <2>1, <2>3
    <3>2. /\ [routes[r] EXCEPT !.name = n].service = routes[r].service
          /\ [routes[r] EXCEPT !.name = n].name = n
          /\ [routes[r] EXCEPT !.name = n] \in
               [service : ServiceIds \cup {None}, name : RouteNames \cup {None}]
      BY <1>2, <3>1
    <3> HIDE DEF n
    <3> QED BY <1>4, <2>1, <2>3, <3>1, <3>2
  <2> QED BY <2>2, <2>3
<1>6. Live' = Live
  BY <1>5 DEF Live
<1>7. /\ moved \subseteq moved'
      /\ routes'[r].name # routes[r].name /\ routes[r].name # None =>
           routes[r].name \in moved'
  BY <1>3, <1>5 DEF MovedWith
<1>8. Protected \subseteq Protected'
  <2> SUFFICES ASSUME NEW k \in Protected, k \notin moved'
               PROVE  k \in Protected'
    BY DEF Protected
  <2>1. CASE k \in RouteIds /\ k \in spent \ Live
    BY <1>1, <1>6, <2>1 DEF Protected
  <2>2. CASE \E q \in Route(k) : acl[q] = k
    <3>1. PICK q \in Route(k) : acl[q] = k
      BY <2>2
    <3>2. k \in Keys /\ k # None
      BY KongAssumption DEF Protected, Keys, Ids, Names
    <3>3. q \in Route(k)'
      BY <1>4, <1>5, <1>6, <1>7, <3>1, <3>2 DEF Route, Live
    <3> QED BY <1>1, <3>1, <3>2, <3>3 DEF Protected
  <2> QED BY <1>7, <2>1, <2>2 DEF Protected
<1>9. RoutesOK'
  <2>1. \A p, q \in Live :
          routes'[p].name = routes'[q].name /\ p # q => routes'[p].name = None
    BY <1>3, <1>4, <1>5 DEF KInv, KongOK, RoutesOK, NameFree, Live
  <2>2. StoredServices' = StoredServices
    BY <1>1, ServicesKept
  <2>3. \A q \in Live : q \in spent /\ routes'[q].service \in StoredServices'
    BY <1>5, <2>2 DEF KInv, KongOK, RoutesOK, Live
  <2> QED BY <1>1, <1>5, <1>6, <2>1, <2>3 DEF KInv, KongOK, RoutesOK
<1>10. ServicesOK' /\ ConsumersOK' /\ MembersProtected' /\ UsersOK' /\ Stored' = Stored
  BY <1>1, <1>8, ServicesKept, ConsumersKept, UsersKept DEF KInv
<1>11. KongOK'
  BY <1>1, <1>9, <1>10 DEF KInv, KongOK
<1> QED BY <1>1, <1>8, <1>10, <1>11, StepKeeps

\* What a deleted route was addressed by is gone for good, or moved.
LEMMA RemoveRouteKeeps ==
  ASSUME KInv, IInv', NEW c \in Calls, RemoveRoute(c)
  PROVE  KInv'
<1> DEFINE S == Route(calls[c].key)
<1>1. /\ UNCHANGED <<users, tokens, services, transformed, spent, consumers, keyed>>
      /\ UNCHANGED <<members, granted, halfDone>>
      /\ Due(c) = "DELETE route"
      /\ Advance(c) \/ calls' = Ended(c)
  BY DEF RemoveRoute, rest, serviceState, consumerState, Done
<1>2. /\ routes' = [r \in RouteIds |-> IF r \in S THEN NoRoute ELSE routes[r]]
      /\ acl' = [r \in RouteIds |-> IF r \in S THEN None ELSE acl[r]]
      /\ moved' = moved \cup ({routes[r].name : r \in S} \ {None})
  BY DEF RemoveRoute, MovedWith
<1>3. S \subseteq Live /\ Live \subseteq RouteIds
  BY DEF Route, Live
<1> HIDE DEF S
<1>4. Live' = Live \ S
  <2>1. NoRoute.service = None
    BY DEF NoRoute
  <2> QED BY <1>2, <2>1 DEF Live
<1>5. Protected \subseteq Protected'
  <2> SUFFICES ASSUME NEW k \in Protected, k \notin moved'
               PROVE  k \in Protected'
    BY DEF Protected
  <2>1. CASE k \in RouteIds /\ k \in spent \ Live
    BY <1>1, <1>4, <2>1 DEF Protected
  <2>2. CASE \E q \in Route(k) : acl[q] = k
    <3>1. PICK q \in Route(k) : acl[q] = k
      BY <2>2
    <3>2. k \in Keys /\ k # None
      BY KongAssumption DEF Protected, Keys, Ids, Names
    <3>3. q \in Live /\ (q = k \/ routes[q].name = k)
      BY <3>1 DEF Route
    <3>4. CASE q \notin S
      <4>1. q \in Live' /\ routes'[q] = routes[q] /\ acl'[q] = k
        BY <1>2, <1>3, <1>4, <3>1, <3>3, <3>4
      <4>2. q \in Route(k)'
        BY <3>3, <4>1 DEF Route
      <4> QED BY <3>2, <4>1, <4>2 DEF Protected
    <3>5. CASE q \in S
      <4>1. routes[q].name # k
        BY <1>2, <3>2, <3>5
      <4>2. k = q /\ k \in spent
        BY <3>3, <4>1 DEF KInv, KongOK, RoutesOK
      <4> QED BY <1>1, <1>3, <1>4, <3>2, <3>5, <4>2 DEF Protected
    <3> QED BY <3>4, <3>5
  <2> QED BY <1>2, <2>1, <2>2 DEF Protected
<1>6. RoutesOK'
  <2>1. NoRoute \in [service : ServiceIds \cup {None}, name : RouteNames \cup {None}]
    BY DEF NoRoute
  <2>2. /\ routes' \in [RouteIds ->
                          [service : ServiceIds \cup {None}, name : RouteNames \cup {None}]]
        /\ acl' \in [RouteIds -> Keys \cup {None}]
    BY <1>2, <2>1 DEF KInv, KongOK, RoutesOK
  <2>3. \A r \in Live' : routes'[r] = routes[r]
    BY <1>2, <1>3, <1>4
  <2>4. \A r \in RouteIds : acl'[r] # None => r \in Live'
    BY <1>2, <1>4 DEF KInv, KongOK, RoutesOK
  <2>5. StoredServices' = StoredServices
    BY <1>1, ServicesKept
  <2>6. /\ \A r \in Live' : r \in spent /\ routes'[r].service \in StoredServices'
        /\ \A q, r \in Live' :
             routes'[q].name = routes'[r].name /\ q # r => routes'[q].name = None
    BY <1>4, <2>3, <2>5 DEF KInv, KongOK, RoutesOK
  <2> QED BY <1>1, <2>2, <2>4, <2>6 DEF RoutesOK
<1>7. ServicesOK' /\ ConsumersOK' /\ MembersProtected' /\ UsersOK' /\ Stored' = Stored
  BY <1>1, <1>5, ServicesKept, ConsumersKept, UsersKept DEF KInv
<1>8. KongOK'
  BY <1>1, <1>6, <1>7 DEF KInv, KongOK
<1> QED BY <1>1, <1>5, <1>7, <1>8, StepKeeps

\* From now on the plugin allows the group of the call's address.
LEMMA PostAclKeeps ==
  ASSUME KInv, IInv', NEW c \in Calls, PostAcl(c)
  PROVE  KInv'
<1> DEFINE k == calls[c].key
<1>1. /\ UNCHANGED <<users, tokens, services, transformed, routes, spent, consumers, keyed>>
      /\ UNCHANGED <<members, granted, halfDone, moved>>
      /\ Due(c) = "POST acl"
      /\ Advance(c) \/ calls' = Ended(c)
  BY DEF PostAcl, rest, serviceState, consumerState, Done
<1>2. PICK r \in Route(k) : acl[r] = None /\ acl' = [acl EXCEPT ![r] = k]
  BY DEF PostAcl
<1>3. k \in Keys /\ r \in Live /\ r \in RouteIds
  <2>1. k \in Keys
    BY <1>1, DueNeeds DEF Needs
  <2> QED BY <1>2, <2>1 DEF Route, Live
<1>4. Live' = Live /\ \A q \in Keys : Route(q)' = Route(q)
  BY <1>1 DEF Live, Route
<1>5. acl'[r] = k /\ \A q \in RouteIds \ {r} : acl'[q] = acl[q]
  BY <1>2, <1>3 DEF KInv, KongOK, RoutesOK
<1>6. k \in Protected'
  BY <1>2, <1>3, <1>4, <1>5 DEF Protected
<1>7. Protected \subseteq Protected'
  <2> SUFFICES ASSUME NEW a \in Protected, a \notin moved,
                      ~(a \in RouteIds /\ a \in spent \ Live)
               PROVE  a \in Protected'
    BY <1>1, <1>4 DEF Protected
  <2>1. PICK q \in Route(a) : acl[q] = a
    BY DEF Protected
  <2>2. a \in Keys /\ a # None
    BY KongAssumption DEF Protected, Keys, Ids, Names
  <2>3. q \in RouteIds \ {r}
    BY <1>2, <2>1, <2>2 DEF Route, Live
  <2> QED BY <1>4, <1>5, <2>1, <2>2, <2>3 DEF Protected
<1>8. ServicesOK' /\ ConsumersOK' /\ MembersProtected' /\ UsersOK' /\ Stored' = Stored
  BY <1>1, <1>7, ServicesKept, ConsumersKept, UsersKept DEF KInv
<1>9. RoutesOK'
  <2>1. StoredServices' = StoredServices
    BY <1>1, ServicesKept
  <2> QED BY <1>1, <1>2, <1>3, <1>4, <1>5, <2>1 DEF KInv, KongOK, RoutesOK
<1>10. KongOK'
  BY <1>1, <1>8, <1>9 DEF KInv, KongOK
<1> QED BY <1>1, <1>6, <1>7, <1>8, <1>10, StepKeeps

\* A member comes once its group is allowed, and goes by its entry.
LEMMA MemberWritesKeep ==
  ASSUME KInv, IInv', NEW c \in Calls, PostMember(c) \/ RemoveMember(c)
  PROVE  KInv'
<1>1. /\ UNCHANGED <<users, tokens, services, transformed, routes, spent, acl, consumers>>
      /\ UNCHANGED <<keyed, halfDone, moved>>
      /\ Due(c) \in {"POST member", "DELETE member"}
      /\ Advance(c) \/ calls' = Ended(c)
  BY DEF PostMember, RemoveMember, rest, serviceState, routeState, Done
<1>2. Live' = Live /\ Protected \subseteq Protected'
  BY <1>1, RoutesKept
<1>3. /\ members' \in [ConsumerIds -> [Keys -> Nat]] /\ granted' \in Nat
      /\ \A x \in ConsumerIds, k \in Keys :
           members'[x][k] # 0 => x \in StoredConsumers /\ k \in Protected
  <2>1. CASE PostMember(c)
    <3> DEFINE k == calls[c].key
    <3>1. PICK x \in Consumer(calls[c].other) :
            members' = [members EXCEPT ![x][k] = granted + 1]
      BY <2>1 DEF PostMember
    <3>2. x \in StoredConsumers /\ x \in ConsumerIds /\ granted' = granted + 1
      BY <2>1, <3>1 DEF PostMember, Consumer, StoredConsumers
    <3>3. k \in Protected /\ k \in Keys
      BY <2>1 DEF PostMember, KInv, DueIsReady, Protected
    <3> HIDE DEF k
    <3> QED BY <3>1, <3>2, <3>3 DEF KInv, KongOK, MembersProtected, Member
  <2>2. CASE RemoveMember(c)
    <3>1. PICK x \in Consumer(calls[c].other.who) :
            members' = IF members[x][calls[c].key] = calls[c].other.id
                       THEN [members EXCEPT ![x][calls[c].key] = 0] ELSE members
      BY <2>2 DEF RemoveMember
    <3>2. /\ granted' = granted
          /\ \/ members' = members
             \/ members' = [members EXCEPT ![x][calls[c].key] = 0]
      BY <2>2, <3>1 DEF RemoveMember
    <3> QED BY <3>2 DEF KInv, KongOK, MembersProtected, Member
  <2> QED BY <2>1, <2>2
<1>4. StoredConsumers' = StoredConsumers /\ StoredServices' = StoredServices
  BY <1>1 DEF StoredConsumers, StoredServices
<1>5. ServicesOK' /\ RoutesOK' /\ ConsumersOK'
  BY <1>1, <1>4, RoutesStayOK
     DEF KInv, KongOK, ServicesOK, RoutesOK, ConsumersOK, OneName
<1>6. KongOK' /\ MembersProtected'
  BY <1>2, <1>3, <1>4, <1>5 DEF KongOK, MembersProtected, Member
<1>7. UsersOK' /\ Stored' = Stored
  BY <1>1, UsersKept DEF KInv
<1> QED BY <1>1, <1>2, <1>6, <1>7, StepKeeps

\* What steps about consumers alone leave as it is.
LEMMA OthersKept ==
  ASSUME KInv,
         UNCHANGED <<users, tokens, services, transformed, routes, acl, moved>>,
         spent \subseteq spent'
  PROVE  /\ Live' = Live /\ Protected \subseteq Protected'
         /\ ServicesOK' /\ RoutesOK' /\ UsersOK' /\ Stored' = Stored
<1>1. StoredServices' = StoredServices
  BY ServicesKept
<1>2. \A r \in Live : routes[r].service \in StoredServices'
  BY <1>1 DEF KInv, KongOK, RoutesOK
<1> QED BY <1>2, RoutesKept, ServicesKept, RoutesStayOK, UsersKept DEF KInv

\* With the key next, or half done.
LEMMA PostConsumerKeeps ==
  ASSUME KInv, IInv', NEW c \in Calls, PostConsumer(c)
  PROVE  KInv'
<1> DEFINE v == calls[c].key
           p == Tail(calls[c].plan)
<1>1. /\ UNCHANGED <<users, tokens, services, transformed, routes, acl>>
      /\ UNCHANGED <<keyed, members, granted, moved>>
      /\ Due(c) = "POST consumer"
  BY DEF PostConsumer, rest, serviceState, routeState
<1>2. PICK x \in ConsumerIds \ spent :
        /\ Unused(consumers, x, v)
        /\ consumers' = [consumers EXCEPT ![x] = v]
        /\ spent' = spent \cup {x}
        /\ \/ Advance(c) /\ halfDone' = halfDone
           \/ calls' = Ended(c) /\ halfDone' = halfDone \cup {x}
  BY DEF PostConsumer
<1>3. /\ Live' = Live /\ Protected \subseteq Protected'
      /\ ServicesOK' /\ RoutesOK' /\ UsersOK' /\ Stored' = Stored
  BY <1>1, <1>2, OthersKept
<1>4. v \in Usernames /\ v # None
  BY <1>1, DueNeeds, KongAssumption DEF Needs, Names
<1>5. p # <<>> /\ Head(p) = "POST key"
  <2>1. /\ calls[c].plan # <<>> /\ Head(calls[c].plan) = "POST consumer"
        /\ Fits(calls[c].plan, calls[c].key, calls[c].other)
    BY <1>1 DEF Due, KInv, PlansFit
  <2>2. p # <<>> /\ Follows("POST consumer", Head(p))
    BY <2>1, TailFits DEF Ends
  <2> QED BY <2>2 DEF Follows
<1>6. PlansFit' /\ DueIsReady'
  BY <1>1, <1>2, <1>3, StepTurns
<1>7. /\ consumers \in [ConsumerIds -> Usernames \cup {None}] /\ OneName(consumers)
      /\ StoredConsumers \subseteq spent /\ keyed \subseteq StoredConsumers
  BY DEF KInv, KongOK, ConsumersOK
<1>8. CASE Advance(c) /\ halfDone' = halfDone
  <2>1. Turns(c, p, v, calls[c].other)
    BY <1>5, <1>8, PlanTurns DEF KInv, Advance
  <2> HIDE DEF v, p
  <2>2. /\ consumers' \in [ConsumerIds -> Usernames \cup {None}] /\ OneName(consumers')
        /\ consumers'[x] = v
        /\ \A y \in ConsumerIds \ {x} : consumers'[y] = consumers[y]
    BY <1>2, <1>4, <1>7, NameTaken
  <2>3. StoredConsumers' = StoredConsumers \cup {x} /\ x \notin StoredConsumers
    BY <1>2, <1>4, <1>7, <2>2 DEF StoredConsumers
  <2>4. ConsumersOK'
    BY <1>1, <1>2, <1>7, <2>2, <2>3 DEF ConsumersOK
  <2>5. KongOK' /\ MembersProtected'
    BY <1>1, <1>3, <2>3, <2>4 DEF KInv, KongOK, MembersProtected, Member
  <2>6. \A y \in StoredConsumers \ {x} : consumers'[y] = consumers[y]
    BY <2>2 DEF StoredConsumers
  <2>7. KeyedUnlessHalfDone'
    <3> DEFINE o == calls[c].other
    <3>1. \A y \in StoredConsumers' \ keyed' :
            \/ y \in halfDone'
            \/ p # <<>> /\ Head(p) = "POST key" /\ v = consumers'[y]
            \/ /\ y \in StoredConsumers \ keyed /\ y \notin halfDone
               /\ consumers'[y] = consumers[y]
               /\ Due(c) = "POST key" => calls[c].key # consumers[y]
      BY <1>1, <1>5, <1>8, <2>2, <2>3, <2>6
    <3>2. KeyedUnlessHalfDone /\ Turns(c, p, v, o)
      BY <2>1 DEF KInv
    <3> HIDE DEF o
    <3>3. \A y \in StoredConsumers' \ keyed' :
            \/ y \in halfDone'
            \/ v = consumers'[y]
            \/ /\ y \in StoredConsumers \ keyed /\ y \notin halfDone
               /\ consumers'[y] = consumers[y]
               /\ Due(c) = "POST key" => calls[c].key # consumers[y]
      BY <3>1
    <3> SUFFICES ASSUME NEW y \in StoredConsumers' \ keyed', y \notin halfDone'
                 PROVE  \E d \in Calls : calls'[d].key = consumers'[y] /\ Due(d)' = "POST key"
      BY DEF KeyedUnlessHalfDone
    <3>4. CASE v = consumers'[y]
      BY <1>5, <3>2, <3>4 DEF Turns, Due
    <3>5. CASE /\ y \in StoredConsumers \ keyed /\ y \notin halfDone
               /\ consumers'[y] = consumers[y]
      <4>1. PICK d \in Calls : calls[d].key = consumers[y] /\ Due(d) = "POST key"
        BY <3>2, <3>5 DEF KeyedUnlessHalfDone
      <4>2. d # c
        BY <1>1, <4>1
      <4> QED BY <3>2, <3>5, <4>1, <4>2 DEF Turns, Due
    <3> QED BY <3>3, <3>4, <3>5
  <2> QED BY <1>3, <1>6, <2>5, <2>7 DEF KInv
<1>9. CASE calls' = Ended(c) /\ halfDone' = halfDone \cup {x}
  <2>1. Turns(c, <<>>, None, None)
    BY <1>9, EndedTurns DEF KInv
  <2> HIDE DEF v, p
  <2>2. /\ consumers' \in [ConsumerIds -> Usernames \cup {None}] /\ OneName(consumers')
        /\ consumers'[x] = v
        /\ \A y \in ConsumerIds \ {x} : consumers'[y] = consumers[y]
    BY <1>2, <1>4, <1>7, NameTaken
  <2>3. StoredConsumers' = StoredConsumers \cup {x} /\ x \notin StoredConsumers
    BY <1>2, <1>4, <1>7, <2>2 DEF StoredConsumers
  <2>4. ConsumersOK'
    BY <1>1, <1>2, <1>7, <2>2, <2>3 DEF ConsumersOK
  <2>5. KongOK' /\ MembersProtected'
    BY <1>1, <1>3, <2>3, <2>4 DEF KInv, KongOK, MembersProtected, Member
  <2>6. \A y \in StoredConsumers \ {x} : consumers'[y] = consumers[y]
    BY <2>2 DEF StoredConsumers
  <2>7. KeyedUnlessHalfDone'
    <3>1. \A y \in StoredConsumers' \ keyed' :
            \/ y \in halfDone'
            \/ /\ y \in StoredConsumers \ keyed /\ y \notin halfDone
               /\ consumers'[y] = consumers[y]
               /\ Due(c) = "POST key" => calls[c].key # consumers[y]
      BY <1>1, <1>9, <2>3, <2>6
    <3> QED BY <2>1, <3>1, TurnKeyed DEF KInv
  <2> QED BY <1>3, <1>6, <2>5, <2>7 DEF KInv
<1> QED BY <1>2, <1>8, <1>9

\* Whoever has the username gets the key, and needed it if anyone did.
LEMMA PostKeyKeeps ==
  ASSUME KInv, IInv', NEW c \in Calls, PostKey(c)
  PROVE  KInv'
<1>1. /\ UNCHANGED <<users, tokens, services, transformed, routes, spent, acl>>
      /\ UNCHANGED <<consumers, members, granted, halfDone, moved>>
      /\ Due(c) = "POST key"
      /\ keyed' = keyed \cup Consumer(calls[c].key)
      /\ Advance(c) \/ calls' = Ended(c)
  BY DEF PostKey, rest, serviceState, routeState, Done
<1>2. /\ Live' = Live /\ Protected \subseteq Protected'
      /\ ServicesOK' /\ RoutesOK' /\ UsersOK' /\ Stored' = Stored
  BY <1>1, OthersKept
<1>3. StoredConsumers' = StoredConsumers /\ Consumer(calls[c].key) \subseteq StoredConsumers
  BY <1>1 DEF StoredConsumers, Consumer
<1>4. KongOK' /\ MembersProtected'
  <2>1. ConsumersOK'
    BY <1>1, <1>3 DEF KInv, KongOK, ConsumersOK, OneName
  <2> QED BY <1>1, <1>2, <1>3, <2>1 DEF KInv, KongOK, MembersProtected, Member
<1>5. PlansFit' /\ DueIsReady' /\ \E p, k, o : Turns(c, p, k, o)
  BY <1>1, <1>2, StepTurns
<1>6. KeyedUnlessHalfDone'
  <2>1. PICK p, k, o : Turns(c, p, k, o)
    BY <1>5
  <2>2. \A y \in StoredConsumers' \ keyed' :
          /\ y \in StoredConsumers \ keyed
          /\ consumers'[y] = consumers[y]
          /\ calls[c].key # consumers[y]
    BY <1>1, <1>3 DEF Consumer
  <2> QED BY <1>1, <2>1, <2>2, TurnKeyed DEF KInv
<1> QED BY <1>2, <1>4, <1>5, <1>6 DEF KInv

\* Who gives up a username before there was a key for it stays half done.
LEMMA PatchConsumerKeeps ==
  ASSUME KInv, IInv', NEW c \in Calls, PatchConsumer(c)
  PROVE  KInv'
<1> DEFINE v == calls[c].other
<1>1. /\ UNCHANGED <<users, tokens, services, transformed, routes, spent, acl>>
      /\ UNCHANGED <<keyed, members, granted, moved>>
      /\ Due(c) = "PATCH consumer"
      /\ Advance(c) \/ calls' = Ended(c)
  BY DEF PatchConsumer, rest, serviceState, routeState, Done
<1>2. PICK x \in Consumer(calls[c].key) :
        /\ Unused(consumers, x, v)
        /\ consumers' = Renamed(consumers, x, v)
        /\ halfDone' = IF v \in {None, consumers[x]} THEN halfDone
                       ELSE halfDone \cup ({x} \ keyed)
  BY DEF PatchConsumer
<1>3. /\ Live' = Live /\ Protected \subseteq Protected'
      /\ ServicesOK' /\ RoutesOK' /\ UsersOK' /\ Stored' = Stored
  BY <1>1, OthersKept
<1>4. v \in Usernames \cup {None}
  BY <1>1, DueNeeds DEF Needs
<1>5. x \in ConsumerIds /\ consumers[x] # None
  BY <1>2 DEF Consumer, StoredConsumers
<1>6. PlansFit' /\ DueIsReady' /\ \E p, k, o : Turns(c, p, k, o)
  BY <1>1, <1>3, StepTurns
<1>7. /\ consumers \in [ConsumerIds -> Usernames \cup {None}] /\ OneName(consumers)
      /\ StoredConsumers \subseteq spent /\ keyed \subseteq StoredConsumers
  BY DEF KInv, KongOK, ConsumersOK
<1> HIDE DEF v
<1>8. /\ consumers' \in [ConsumerIds -> Usernames \cup {None}] /\ OneName(consumers')
      /\ \A y \in ConsumerIds \ {x} : consumers'[y] = consumers[y]
      /\ v = None => consumers'[x] = consumers[x]
      /\ v # None => consumers'[x] = v
  <2>1. /\ consumers \in [ConsumerIds -> Usernames \cup {None}] /\ OneName(consumers)
        /\ x \in ConsumerIds /\ v \in Usernames \cup {None} /\ Unused(consumers, x, v)
    BY <1>2, <1>4, <1>5, <1>7
  <2>2. /\ Renamed(consumers, x, v) \in [ConsumerIds -> Usernames \cup {None}]
        /\ OneName(Renamed(consumers, x, v))
        /\ \A y \in ConsumerIds \ {x} : Renamed(consumers, x, v)[y] = consumers[y]
        /\ v = None => Renamed(consumers, x, v)[x] = consumers[x]
        /\ v # None => Renamed(consumers, x, v)[x] = v
    BY ONLY <2>1, NameChanged
  <2>3. consumers' = Renamed(consumers, x, v)
    BY <1>2
  <2> QED BY ONLY <2>2, <2>3
<1>9. StoredConsumers' = StoredConsumers
  BY <1>5, <1>8 DEF StoredConsumers
<1>10. KongOK' /\ MembersProtected'
  <2>1. ConsumersOK'
    BY <1>1, <1>7, <1>8, <1>9 DEF ConsumersOK
  <2> QED BY <1>1, <1>3, <1>9, <2>1 DEF KInv, KongOK, MembersProtected, Member
<1>11. KeyedUnlessHalfDone'
  <2>1. PICK p, k, o : Turns(c, p, k, o)
    BY <1>6
  <2>2. \A y \in StoredConsumers' \ keyed' :
          \/ y \in halfDone'
          \/ /\ y \in StoredConsumers \ keyed /\ y \notin halfDone
             /\ consumers'[y] = consumers[y]
    <3> SUFFICES ASSUME NEW y \in StoredConsumers \ keyed, y \notin halfDone'
                 PROVE  y \notin halfDone /\ consumers'[y] = consumers[y]
      BY <1>1, <1>9
    <3>1. y \notin halfDone
      BY <1>2
    <3>2. CASE y = x
      BY <1>2, <1>8, <3>2
    <3>3. CASE y # x
      <4>1. y \in ConsumerIds
        BY DEF StoredConsumers
      <4> QED BY <1>8, <3>1, <3>3, <4>1
    <3> QED BY <3>1, <3>2, <3>3
  <2> QED BY <1>1, <2>1, <2>2, TurnKeyed DEF KInv
<1> QED BY <1>3, <1>6, <1>10, <1>11 DEF KInv

LEMMA RemoveConsumerKeeps ==
  ASSUME KInv, IInv', NEW c \in Calls, RemoveConsumer(c)
  PROVE  KInv'
<1> DEFINE S == Consumer(calls[c].key)
<1>1. /\ UNCHANGED <<users, tokens, services, transformed, routes, spent, acl>>
      /\ UNCHANGED <<granted, moved>>
      /\ Due(c) = "DELETE consumer"
      /\ consumers' = Without(consumers, S) /\ keyed' = keyed \ S /\ halfDone' = halfDone \ S
      /\ members' = [x \in ConsumerIds |-> IF x \in S THEN [k \in Keys |-> 0] ELSE members[x]]
      /\ Advance(c) \/ calls' = Ended(c)
  BY DEF RemoveConsumer, rest, serviceState, routeState, Done
<1> HIDE DEF S
<1>2. /\ Live' = Live /\ Protected \subseteq Protected'
      /\ ServicesOK' /\ RoutesOK' /\ UsersOK' /\ Stored' = Stored
  BY <1>1, OthersKept
<1>3. PlansFit' /\ DueIsReady' /\ \E p, k, o : Turns(c, p, k, o)
  BY <1>1, <1>2, StepTurns
<1>4. /\ consumers \in [ConsumerIds -> Usernames \cup {None}] /\ OneName(consumers)
      /\ StoredConsumers \subseteq spent /\ keyed \subseteq StoredConsumers
  BY DEF KInv, KongOK, ConsumersOK
<1>5. /\ consumers' \in [ConsumerIds -> Usernames \cup {None}] /\ OneName(consumers')
      /\ \A y \in ConsumerIds : consumers'[y] = IF y \in S THEN None ELSE consumers[y]
  <2>1. /\ Without(consumers, S) \in [ConsumerIds -> Usernames \cup {None}]
        /\ OneName(Without(consumers, S))
        /\ \A y \in ConsumerIds :
             Without(consumers, S)[y] = IF y \in S THEN None ELSE consumers[y]
    BY ONLY <1>4, NamesGone
  <2> QED BY <1>1, <2>1
<1>6. /\ StoredConsumers' = StoredConsumers \ S
      /\ \A y \in StoredConsumers' : consumers'[y] = consumers[y]
  BY <1>5 DEF StoredConsumers
<1>7. /\ members' \in [ConsumerIds -> [Keys -> Nat]]
      /\ \A y \in ConsumerIds, k \in Keys :
           members'[y][k] # 0 => y \notin S /\ members[y][k] # 0
  BY <1>1 DEF KInv, KongOK
<1>8. KongOK' /\ MembersProtected'
  <2>1. ConsumersOK'
    BY <1>1, <1>4, <1>5, <1>6 DEF ConsumersOK
  <2> QED BY <1>1, <1>2, <1>6, <1>7, <2>1 DEF KInv, KongOK, MembersProtected, Member
<1>9. KeyedUnlessHalfDone'
  <2>1. PICK p, k, o : Turns(c, p, k, o)
    BY <1>3
  <2>2. \A y \in StoredConsumers' \ keyed' :
          \/ y \in halfDone'
          \/ /\ y \in StoredConsumers \ keyed /\ y \notin halfDone
             /\ consumers'[y] = consumers[y]
    BY <1>1, <1>6
  <2> QED BY <1>1, <2>1, <2>2, TurnKeyed DEF KInv
<1> QED BY <1>2, <1>3, <1>8, <1>9 DEF KInv

\* A call that fails before the key leaves its consumer half done.
LEMMA FailKongKeeps ==
  ASSUME KInv, IInv', NEW c \in Calls, FailKong(c)
  PROVE  KInv'
<1>1. /\ UNCHANGED <<users, tokens, kong, moved>> /\ calls' = Ended(c)
      /\ halfDone' = IF Due(c) = "POST key" THEN halfDone \cup Consumer(calls[c].key)
                     ELSE halfDone
  BY DEF FailKong, Fail
<1>2. UNCHANGED <<services, transformed, routes, spent, acl, consumers, keyed, members, granted>>
  BY <1>1 DEF kong
<1>3. /\ Live' = Live /\ Protected \subseteq Protected'
      /\ ServicesOK' /\ RoutesOK' /\ UsersOK' /\ Stored' = Stored
  BY <1>1, <1>2, OthersKept
<1>4. MembersProtected' /\ ConsumersOK' /\ StoredConsumers' = StoredConsumers
  BY <1>2, <1>3, ConsumersKept
<1>5. KongOK'
  BY <1>2, <1>3, <1>4 DEF KInv, KongOK
<1>6. Turns(c, <<>>, None, None) /\ Fits(<<>>, None, None)
  BY <1>1, EndedTurns DEF KInv, Fits
<1>7. PlansFit' /\ DueIsReady'
  BY <1>3, <1>6, TurnFits DEF KInv
<1>8. KeyedUnlessHalfDone'
  <2>1. \A y \in StoredConsumers' \ keyed' :
          \/ y \in halfDone'
          \/ /\ y \in StoredConsumers \ keyed /\ y \notin halfDone
             /\ consumers'[y] = consumers[y]
             /\ Due(c) = "POST key" => calls[c].key # consumers[y]
    BY <1>1, <1>2, <1>4 DEF Consumer
  <2> QED BY <1>6, <2>1, TurnKeyed DEF KInv
<1> QED BY <1>3, <1>4, <1>5, <1>7, <1>8 DEF KInv

LEMMA KongStepKeeps ==
  ASSUME KInv, IInv', NEW c \in Calls, KongStep(c)
  PROVE  KInv'
  BY ReadsKeep, ServiceWritesKeep, PostRouteKeeps, PatchRouteKeeps, RemoveRouteKeeps,
     PostAclKeeps, MemberWritesKeep, PostConsumerKeeps, PostKeyKeeps, PatchConsumerKeeps,
     RemoveConsumerKeeps, FailKongKeeps
     DEF KongStep

-----------------------------------------------------------------------------
(* The theorems about what is stored. *)

LEMMA InitUsersOK ==
  ASSUME Init
  PROVE  UsersOK
<1>1. PICK S \in SUBSET Users, owner \in [Users -> Emails] :
        /\ \A u, v \in S : owner[u] = owner[v] => u = v
        /\ users = [u \in Users |-> IF u \in S
                      THEN [email |-> owner[u], status |-> "ACTIVE"]
                      ELSE [email |-> None, status |-> None]]
        /\ tokens = S
  BY DEF Init, AccountInit
<1>2. /\ \A u \in S : users[u].email = owner[u] /\ users[u].status = "ACTIVE"
      /\ \A u \in Users \ S : users[u].status = None
  BY <1>1
<1>3. Stored = S
  BY <1>2, NoneAssumption DEF Stored
<1>4. users \in [Users -> [email : Emails \cup {None}, status : {"ACTIVE", "INACTIVE", None}]]
  BY <1>1
<1> QED BY <1>1, <1>2, <1>3, <1>4 DEF UsersOK, OneAccountPerAddress

\* Kong as it is found is in order.
LEMMA InitKongOK ==
  ASSUME Init
  PROVE  KongOK /\ MembersProtected /\ KeyedUnlessHalfDone
<1>1. PICK s \in ServiceIds, r \in RouteIds, x \in ConsumerIds :
        \E a \in ServiceNames, n \in RouteNames, v \in Usernames :
        \E found, protected \in BOOLEAN :
          /\ protected => found
          /\ services = [t \in ServiceIds |-> IF found /\ t = s THEN a ELSE None]
          /\ routes = [q \in RouteIds |-> IF found /\ q = r
                         THEN [service |-> s, name |-> n] ELSE NoRoute]
          /\ spent = IF found THEN {s, r, x} ELSE {}
          /\ acl = [q \in RouteIds |-> IF protected /\ q = r THEN n ELSE None]
          /\ consumers = [y \in ConsumerIds |-> IF found /\ y = x THEN v ELSE None]
          /\ keyed = IF found THEN {x} ELSE {}
          /\ granted = IF protected THEN 1 ELSE 0
          /\ members = [y \in ConsumerIds |-> [k \in Keys |->
                          IF y = x /\ k = n THEN granted ELSE 0]]
  BY DEF Init
<1>2. PICK a \in ServiceNames, n \in RouteNames, v \in Usernames :
        \E found, protected \in BOOLEAN :
          /\ protected => found
          /\ services = [t \in ServiceIds |-> IF found /\ t = s THEN a ELSE None]
          /\ routes = [q \in RouteIds |-> IF found /\ q = r
                         THEN [service |-> s, name |-> n] ELSE NoRoute]
          /\ spent = IF found THEN {s, r, x} ELSE {}
          /\ acl = [q \in RouteIds |-> IF protected /\ q = r THEN n ELSE None]
          /\ consumers = [y \in ConsumerIds |-> IF found /\ y = x THEN v ELSE None]
          /\ keyed = IF found THEN {x} ELSE {}
          /\ granted = IF protected THEN 1 ELSE 0
          /\ members = [y \in ConsumerIds |-> [k \in Keys |->
                          IF y = x /\ k = n THEN granted ELSE 0]]
  BY <1>1
<1>3. PICK found \in BOOLEAN, protected \in BOOLEAN :
        /\ protected => found
        /\ services = [t \in ServiceIds |-> IF found /\ t = s THEN a ELSE None]
        /\ routes = [q \in RouteIds |-> IF found /\ q = r
                       THEN [service |-> s, name |-> n] ELSE NoRoute]
        /\ spent = IF found THEN {s, r, x} ELSE {}
        /\ acl = [q \in RouteIds |-> IF protected /\ q = r THEN n ELSE None]
        /\ consumers = [y \in ConsumerIds |-> IF found /\ y = x THEN v ELSE None]
        /\ keyed = IF found THEN {x} ELSE {}
        /\ granted = IF protected THEN 1 ELSE 0
        /\ members = [y \in ConsumerIds |-> [k \in Keys |->
                        IF y = x /\ k = n THEN granted ELSE 0]]
  BY <1>2
<1>4. transformed = {} /\ moved = {} /\ halfDone = {}
  BY DEF Init
<1>5. /\ s # None /\ a # None /\ n # None /\ v # None
      /\ n \in Keys
  BY KongAssumption DEF Keys, Ids, Names
<1>6. /\ NoRoute \in [service : ServiceIds \cup {None}, name : RouteNames \cup {None}]
      /\ NoRoute.service = None
  BY DEF NoRoute
<1>7. /\ found => routes[r].service = s /\ routes[r].name = n
      /\ \A q \in RouteIds : (q = r /\ found) \/ routes[q] = NoRoute
  BY <1>3
<1>8. Live = IF found THEN {r} ELSE {}
  BY <1>5, <1>6, <1>7 DEF Live
<1>9. StoredServices = IF found THEN {s} ELSE {}
  BY <1>3, <1>5 DEF StoredServices
<1>10. StoredConsumers = IF found THEN {x} ELSE {}
  BY <1>3, <1>5 DEF StoredConsumers
<1>11. ServicesOK
  <2>1. services \in [ServiceIds -> ServiceNames \cup {None}] /\ OneName(services)
    BY <1>3 DEF OneName
  <2> QED BY <1>3, <1>4, <1>9, <2>1 DEF ServicesOK
<1>12. ConsumersOK
  <2>1. consumers \in [ConsumerIds -> Usernames \cup {None}] /\ OneName(consumers)
    BY <1>3 DEF OneName
  <2> QED BY <1>3, <1>10, <2>1 DEF ConsumersOK
<1>13. RoutesOK
  <2>1. routes \in [RouteIds ->
                      [service : ServiceIds \cup {None}, name : RouteNames \cup {None}]]
    BY <1>3, <1>6
  <2>2. /\ acl \in [RouteIds -> Keys \cup {None}]
        /\ \A q \in RouteIds : acl[q] # None => q \in Live
    BY <1>3, <1>5, <1>8
  <2>3. \A q \in Live : q \in spent /\ routes[q].service \in StoredServices
    BY <1>3, <1>7, <1>8, <1>9
  <2> QED BY <1>8, <2>1, <2>2, <2>3 DEF RoutesOK
<1>14. KongOK
  <2>1. granted \in Nat /\ members \in [ConsumerIds -> [Keys -> Nat]]
    BY <1>3
  <2> QED BY <1>11, <1>12, <1>13, <2>1 DEF KongOK
<1>15. MembersProtected
  <2> SUFFICES ASSUME NEW y \in ConsumerIds, NEW k \in Keys, Member(y, k)
               PROVE  y \in StoredConsumers /\ k \in Protected
    BY DEF MembersProtected
  <2>1. y = x /\ k = n /\ protected
    BY <1>3 DEF Member
  <2>2. r \in Route(n) /\ acl[r] = n
    BY <1>3, <1>7, <1>8, <2>1 DEF Route
  <2> QED BY <1>3, <1>5, <1>10, <2>1, <2>2 DEF Protected
<1> QED BY <1>3, <1>10, <1>14, <1>15 DEF KeyedUnlessHalfDone

LEMMA InitKInv == Init => KInv
<1> SUFFICES ASSUME Init PROVE KInv
  OBVIOUS
<1>1. \A c \in Calls : calls[c] = Idle
  BY DEF Init, AccountInit
<1>2. Idle.plan = <<>>
  BY DEF Idle
<1>3. PlansFit /\ DueIsReady
  BY <1>1, <1>2 DEF PlansFit, Fits, DueIsReady, Due
<1> QED BY <1>3, InitInv, InitUsersOK, InitKongOK DEF KInv

LEMMA NextKInv == KInv /\ [Next]_vars => KInv'
<1> SUFFICES ASSUME KInv, [Next]_vars PROVE KInv'
  OBVIOUS
<1>1. IInv'
  BY NextInv DEF KInv
<1>2. CASE UNCHANGED vars
  <2>1. UNCHANGED <<users, tokens, calls, kong, halfDone, moved>>
    BY <1>2 DEF vars
  <2>2. /\ KongOK' /\ MembersProtected' /\ Protected' = Protected
        /\ UsersOK' /\ Stored' = Stored
        /\ consumers' = consumers /\ keyed' = keyed
    BY <2>1, KongKept, UsersKept DEF KInv, kong
  <2>3. /\ \A c \in Calls : Due(c)' = Due(c)
        /\ StoredConsumers' = StoredConsumers
    BY <2>1, <2>2 DEF Due, StoredConsumers
  <2>4. PlansFit' /\ DueIsReady' /\ KeyedUnlessHalfDone'
    BY <2>1, <2>2, <2>3 DEF KInv, PlansFit, DueIsReady, KeyedUnlessHalfDone
  <2> QED BY <1>1, <2>2, <2>4 DEF KInv
<1>3. ASSUME NEW c \in Calls, AccountRequest(c) \/ AccountStep(c),
             UNCHANGED <<kong, halfDone, moved>>
      PROVE  KInv'
  BY <1>1, <1>3, AccountRequestKeeps, AccountStepKeeps
<1>4. ASSUME NEW c \in Calls, NEW u \in Users,
             GatewayRequest(c, u) \/ DashboardOverview(c, u),
             UNCHANGED <<users, tokens, kong, halfDone, moved>>
      PROVE  KInv'
  BY <1>1, <1>4, GatewayRequestKeeps
<1>5. ASSUME NEW c \in Calls, KongStep(c)
      PROVE  KInv'
  BY <1>1, <1>5, KongStepKeeps
<1> QED BY <1>2, <1>3, <1>4, <1>5 DEF Next

THEOREM KongInvariance == Spec => []KInv
  BY InitKInv, NextKInv, PTL DEF Spec

LEMMA TablesFitTogether ==
  ASSUME KInv
  PROVE  TablesFit
<1>1. \A r \in RouteIds : acl[r] # None => r \in Live /\ acl[r] \in Keys
  BY DEF KInv, KongOK, RoutesOK
<1>2. \A x \in ConsumerIds, k \in Keys : Member(x, k) => x \in StoredConsumers
  BY DEF KInv, MembersProtected
<1> QED BY <1>1, <1>2 DEF KInv, KongOK, ServicesOK, RoutesOK, ConsumersOK, TablesFit

\* The tables of accounts and of Kong refer to what is there, names are one
\* entry's and addresses one account's, whichever requests run at once and
\* rename what: an address that two of them register is stored for one
\* (createAdminUser).
THEOREM TablesAreConsistent == Spec => []TypeOK
<1>1. KInv => TypeOK
  BY TablesFitTogether DEF KInv, KongOK, ServicesOK, ConsumersOK, UsersOK, TypeOK
<1> QED BY <1>1, KongInvariance, PTL

\* A member of a group is let in by the plugin of the route it was put into,
\* and a consumer without a key is half made, or was renamed before it had
\* one: addConsumerToRoute protects before it admits, and createConsumer
\* undoes nothing and asks for the key by name.
THEOREM StoredInOrder == Spec => []KongIsInOrder
<1>1. ASSUME KInv
      PROVE  MembersMeetAcl
  <2> SUFFICES ASSUME NEW x \in ConsumerIds, NEW k \in Keys, NEW r \in RouteIds,
                      Member(x, k), r \in Route(k), k \notin moved
               PROVE  acl[r] = k
    BY DEF MembersMeetAcl
  <2>1. k \in Protected
    BY <1>1 DEF KInv, MembersProtected
  <2>2. r \in Live /\ (r = k \/ routes[r].name = k)
    BY DEF Route
  <2>3. \A q \in RouteIds : routes[q].name \in RouteNames \cup {None}
    BY <1>1 DEF KInv, KongOK, RoutesOK
  <2>4. k # None /\ RouteIds \cap (RouteNames \cup {None}) = {}
    BY KongAssumption DEF Keys, Ids, Names
  <2>5. ~(k \in RouteIds /\ k \in spent \ Live)
    BY <2>2, <2>3, <2>4
  <2>6. PICK q \in Route(k) : acl[q] = k
    BY <2>1, <2>5 DEF Protected
  <2>7. q \in Live /\ q \in RouteIds /\ (q = k \/ routes[q].name = k)
    BY <2>6 DEF Route, Live
  <2>8. q = r
    <3>1. CASE q = k
      BY <2>2, <2>3, <2>4, <2>7, <3>1
    <3>2. CASE routes[q].name = k
      <4>1. routes[r].name = k
        BY <2>2, <2>3, <2>4, <2>7, <3>2
      <4> QED BY <1>1, <2>2, <2>4, <2>7, <3>2, <4>1 DEF KInv, KongOK, RoutesOK
    <3> QED BY <2>7, <3>1, <3>2
  <2> QED BY <2>6, <2>8
<1>2. KInv => KongIsInOrder
  BY <1>1, TablesFitTogether DEF KInv, KongIsInOrder
<1> QED BY <1>2, KongInvariance, PTL

=============================================================================

---------------------------- MODULE RoomPageProofs ----------------------------
(***************************************************************************)
(* Theorems about RoomPage, for any finite set of incidents and any number *)
(* of log rows, connections, requests and messages under way.              *)
(***************************************************************************)
EXTENDS RoomPage, SequenceTheorems, FiniteSetTheorems, TLAPS

-----------------------------------------------------------------------------
(* The inductive invariant: what may be under way. *)

Requests ==
  {q \in [kind : {"list", "open", "create"}, id : Ids \cup {None}, read : BOOLEAN,
          ids : SUBSET Stored, n : Nat] :
     /\ q.kind = "open" => q.id \in Stored
     /\ q.kind = "create" /\ q.read => q.id \in Stored
     /\ q.id \in Ids => q.n <= rows[q.id]}

\* Messages to the server.
Calls ==
  {m \in [kind : {"subscribe", "join", "leave", "message", "update"},
          id : Ids \cup {None}, n : Nat] :
     m.kind # "subscribe" => m.id \in Stored}

\* Messages to the page, and those in preparation.
News ==
  {m \in [kind : {"created", "joined", "message", "updated"}, id : Stored, n : Nat] :
     m.n <= rows[m.id] /\ (m.kind = "message" => m.n > 0)}

Working == BagToSet(jobs)

QueuesOK ==
  /\ rest \in Seq(Requests) /\ up \in Seq(Calls) /\ down \in Seq(News)
  /\ IsABag(jobs) /\ Working \subseteq News

PageOK ==
  /\ list \subseteq Stored
  /\ selected \in Stored \cup {None}
  /\ shown.id \in Stored \cup {None}
  /\ shown = [id |-> shown.id, rows |-> shown.rows]
  /\ \A row \in shown.rows : row[1] \in Ids /\ row[2] \in 1..rows[row[1]]
  /\ joined \in BOOLEAN /\ connected \in BOOLEAN /\ feed \in BOOLEAN
  /\ connects \in 0..MaxConnects
  /\ rooms \subseteq Stored
  /\ {missed, overtaken} \subseteq SUBSET Ids /\ {crossed, dropped} \subseteq BOOLEAN

RowsOK ==
  /\ rows \in [Ids -> 0..MaxRows]
  /\ cast \in [Ids -> SUBSET Nat]
  /\ \A i \in Ids : cast[i] \subseteq 1..rows[i]

Kinds == QueuesOK /\ PageOK /\ RowsOK

-----------------------------------------------------------------------------
(* The inductive invariant: members. *)

\* Without a connection there is no membership and nothing comes down.
OfflineIsOut ==
  /\ ~connected =>
       /\ ~joined /\ ~feed /\ rooms = {} /\ down = <<>>
       /\ \A j \in Working : j.kind # "joined"
  /\ dropped => connected /\ ~feed /\ rooms = {}

\* The snapshots on their way that the page will show as a member.
Coming ==
  {n \in 1..Len(down) :
     /\ down[n].kind \in {"joined", "updated"}
     /\ joined \/ \E m \in 1..n : down[m].kind = "joined"}

Due == {j \in Working : j.kind = "joined"}

Leaving == {n \in 1..Len(up) : up[n].kind = "leave"}

\* Unless the admin left while an answer to a join was due, or the server has
\* dropped the socket: a leave on its way is behind no join, and whoever is a
\* member, or will be told so, is in the room of every snapshot it shows.
MembersAreIn ==
  ~crossed /\ ~dropped =>
    /\ joined \/ Coming # {} \/ Due # {} => Leaving = {}
    /\ \A m, n \in 1..Len(up) : m < n /\ up[m].kind = "join" => up[n].kind # "leave"
    /\ \A j \in Due : j.id \in rooms
    /\ \A n \in Coming : down[n].id \in rooms
    /\ joined => shown.id \in rooms

\* What was broadcast in the room of i after the first k messages are sent.
Awaited(i, k) ==
  {down[n].n : n \in {m \in 1..Len(down) :
                        m > k /\ down[m].kind = "message" /\ down[m].id = i}}

\* What a member's last snapshot lacks of what was broadcast comes after it.
CastsAreCovered ==
  ~crossed /\ ~dropped =>
    /\ \A n \in Coming, i \in Ids :
         i = down[n].id /\ i \notin overtaken /\ (\A k \in Coming : k > n => down[k].id # i)
           => \A r \in cast[i] : r \in 1..down[n].n \/ r \in Awaited(i, n)
    /\ \A i \in Ids :
         joined /\ i = shown.id /\ i \notin overtaken /\ (\A k \in Coming : down[k].id # i)
           => \A r \in cast[i] : <<i, r>> \in shown.rows \/ r \in Awaited(i, 0)

\* An incident is on the list, missed, or about to be announced.
Created ==
  {j.id : j \in {m \in Working : m.kind = "created"}}
    \cup {down[n].id : n \in {k \in 1..Len(down) : down[k].kind = "created"}}

AllAreKnown == Stored \subseteq list \cup missed \cup Created

IInv == Kinds /\ OfflineIsOut /\ MembersAreIn /\ CastsAreCovered /\ AllAreKnown

-----------------------------------------------------------------------------
(* Bags, sequences, and rows that are added. *)

LEMMA BagAdd ==
  ASSUME NEW b, NEW x, IsABag(b)
  PROVE  /\ IsABag(b (+) SetToBag({x}))
         /\ BagToSet(b (+) SetToBag({x})) = BagToSet(b) \cup {x}
<1> DEFINE c == b (+) SetToBag({x})
<1>1. c = [e \in (DOMAIN b) \cup {x} |->
             (IF e \in DOMAIN b THEN b[e] ELSE 0) + (IF e \in {x} THEN 1 ELSE 0)]
  BY DEF (+), SetToBag
<1>2. DOMAIN c = (DOMAIN b) \cup {x}
  BY <1>1
<1>3. ASSUME NEW e \in DOMAIN c
      PROVE  c[e] \in {n \in Nat : n > 0}
  BY <1>1, <1>2, <1>3 DEF IsABag
<1> QED
  BY <1>1, <1>2, <1>3 DEF IsABag, BagToSet

LEMMA NoneUnderWay == IsABag(EmptyBag) /\ BagToSet(EmptyBag) = {}
  BY DEF IsABag, EmptyBag, SetToBag, BagToSet

LEMMA BagRemove ==
  ASSUME NEW b, NEW x, IsABag(b)
  PROVE  /\ IsABag(b (-) SetToBag({x}))
         /\ BagToSet(b (-) SetToBag({x})) \subseteq BagToSet(b)
         /\ BagToSet(b) \subseteq BagToSet(b (-) SetToBag({x})) \cup {x}
<1> DEFINE a == [e \in DOMAIN b |-> IF e \in {x} THEN b[e] - 1 ELSE b[e]]
           c == [e \in {d \in DOMAIN a : a[d] > 0} |-> a[e]]
<1>1. b (-) SetToBag({x}) = c
  BY DEF (-), SetToBag
<1>2. \A e \in DOMAIN b : b[e] \in Nat /\ b[e] > 0
  BY DEF IsABag
<1>3. /\ DOMAIN a = DOMAIN b
      /\ \A e \in DOMAIN b : a[e] = IF e = x THEN b[e] - 1 ELSE b[e]
  OBVIOUS
<1> HIDE DEF a
<1>4. /\ DOMAIN c = {d \in DOMAIN b : a[d] > 0}
      /\ \A e \in DOMAIN c : c[e] = a[e]
  BY <1>3
<1>5. \A e \in DOMAIN c : c[e] \in {n \in Nat : n > 0}
  BY <1>2, <1>3, <1>4
<1>6. c = [e \in DOMAIN c |-> c[e]]
  OBVIOUS
<1> HIDE DEF c
<1>7. IsABag(c)
  BY <1>5, <1>6 DEF IsABag
<1>8. DOMAIN b \subseteq DOMAIN c \cup {x}
  BY <1>2, <1>3, <1>4
<1> QED
  BY <1>1, <1>4, <1>7, <1>8 DEF BagToSet

\* Several copies of one message less and another more.
LEMMA BagReplace ==
  ASSUME NEW b, NEW x, NEW y, IsABag(b)
  PROVE  /\ IsABag((b (-) SetToBag({x})) (+) SetToBag({y}))
         /\ BagToSet((b (-) SetToBag({x})) (+) SetToBag({y})) \subseteq BagToSet(b) \cup {y}
         /\ BagToSet(b) \subseteq
              BagToSet((b (-) SetToBag({x})) (+) SetToBag({y})) \cup {x}
<1> DEFINE c == b (-) SetToBag({x})
<1>1. /\ IsABag(c) /\ BagToSet(c) \subseteq BagToSet(b)
      /\ BagToSet(b) \subseteq BagToSet(c) \cup {x}
  BY BagRemove
<1> HIDE DEF c
<1>2. /\ IsABag(c (+) SetToBag({y}))
      /\ BagToSet(c (+) SetToBag({y})) = BagToSet(c) \cup {y}
  BY <1>1, BagAdd
<1> QED
  BY <1>1, <1>2 DEF c

LEMMA SeqMono ==
  ASSUME NEW S, NEW T, S \subseteq T, NEW s \in Seq(S)
  PROVE  s \in Seq(T)
OBVIOUS

LEMMA WithoutIsSeq ==
  ASSUME NEW S, NEW s \in Seq(S), NEW n \in 1..Len(s)
  PROVE  Without(s, n) \in Seq(S)
<1> DEFINE a == SubSeq(s, 1, n - 1)
           b == SubSeq(s, n + 1, Len(s))
<1>1. \A m \in 1..Len(s) : s[m] \in S
  BY ElementOfSeq
<1>2. Len(s) \in Nat /\ n \in Nat /\ n >= 1 /\ n <= Len(s)
  BY LenProperties
<1>3. (\A m \in 1..(n - 1) : s[m] \in S) /\ (\A m \in (n + 1)..Len(s) : s[m] \in S)
  BY <1>1, <1>2
<1>4. a \in Seq(S)
  BY <1>2, <1>3, SubSeqProperties
<1>5. b \in Seq(S)
  BY <1>2, <1>3, SubSeqProperties
<1> HIDE DEF a, b
<1>6. a \o b \in Seq(S)
  BY <1>4, <1>5, ConcatProperties
<1> QED
  BY <1>6 DEF Without, a, b

\* A message at the end.
LEMMA AppendIs ==
  ASSUME NEW S, NEW s \in Seq(S), NEW e \in S
  PROVE  /\ Append(s, e) \in Seq(S) /\ Len(s) \in Nat
         /\ Len(Append(s, e)) = Len(s) + 1
         /\ \A n \in 1..(Len(s) + 1) :
              Append(s, e)[n] = IF n = Len(s) + 1 THEN e ELSE s[n]
<1>1. Len(s) \in Nat
  BY LenProperties
<1> QED
  BY <1>1, AppendProperties

\* The first message is gone.
LEMMA TailIs ==
  ASSUME NEW S, NEW s \in Seq(S), s # <<>>
  PROVE  /\ Tail(s) \in Seq(S) /\ Len(s) \in Nat \ {0}
         /\ Head(s) = s[1] /\ s[1] \in S
         /\ Len(Tail(s)) = Len(s) - 1
         /\ \A n \in 1..(Len(s) - 1) : Tail(s)[n] = s[n + 1]
BY HeadTailProperties, EmptySeq, ElementOfSeq

\* Where the database is the same, so is what may be under way.
LEMMA SameRows ==
  ASSUME rows' = rows
  PROVE  Stored' = Stored /\ Requests' = Requests /\ Calls' = Calls /\ News' = News
BY DEF Stored, Requests, Calls, News

\* A row of i more; no message and no request is wrong for that.
LEMMA MoreStored ==
  ASSUME Kinds, NEW i \in Ids, rows[i] + 1 <= MaxRows,
         rows' = [rows EXCEPT ![i] = rows[i] + 1], UNCHANGED cast
  PROVE  /\ RowsOK' /\ Stored' = Stored \cup {i} /\ rows'[i] = rows[i] + 1
         /\ Requests \subseteq Requests' /\ Calls \subseteq Calls' /\ News \subseteq News'
         /\ \A row \in shown.rows : row[1] \in Ids /\ row[2] \in 1..rows'[row[1]]
<1>1. rows \in [Ids -> 0..MaxRows] /\ MaxRows \in Nat
  BY BoundsAssumption DEF Kinds, RowsOK
<1>2. /\ rows' \in [Ids -> 0..MaxRows] /\ rows'[i] = rows[i] + 1
      /\ \A k \in Ids : rows[k] <= rows'[k] /\ (k # i => rows'[k] = rows[k])
  BY <1>1
<1>3. \A k \in Ids : rows[k] \in Nat /\ rows'[k] \in Nat
  BY <1>1, <1>2
<1>4. \A k \in Ids : 1..rows[k] \subseteq 1..rows'[k]
  BY <1>2, <1>3
<1>5. RowsOK'
  BY <1>2, <1>4 DEF Kinds, RowsOK
<1>6. Stored' = Stored \cup {i}
  BY <1>2, <1>3 DEF Stored
<1>7. Requests \subseteq Requests'
  BY <1>2, <1>3, <1>6 DEF Requests
<1>8. Calls \subseteq Calls'
  BY <1>6 DEF Calls
<1>9. News \subseteq News'
  <2>1. Stored \subseteq Ids
    BY DEF Stored
  <2> QED
    BY <1>2, <1>3, <1>6, <2>1 DEF News
<1>10. \A row \in shown.rows : row[1] \in Ids /\ row[2] \in 1..rows'[row[1]]
  BY <1>4 DEF Kinds, PageOK
<1> QED
  BY <1>2, <1>5, <1>6, <1>7, <1>8, <1>9, <1>10

\* The bound on rows leaves room for another.
LEMMA RoomForRow ==
  ASSUME Kinds, MoreRows, NEW i \in Ids
  PROVE  rows[i] + 1 <= MaxRows
<1> DEFINE all == UNION {Rows(k, rows[k]) : k \in Ids}
<1>1. \A k \in Ids : rows[k] \in Nat
  BY BoundsAssumption DEF Kinds, RowsOK
<1>2. \A k \in Ids : /\ IsFiniteSet({k}) /\ Cardinality({k}) = 1
                     /\ IsFiniteSet(1..rows[k]) /\ Cardinality(1..rows[k]) = rows[k]
  <2>1. SUFFICES ASSUME NEW k \in Ids
                 PROVE  /\ IsFiniteSet({k}) /\ Cardinality({k}) = 1
                        /\ IsFiniteSet(1..rows[k]) /\ Cardinality(1..rows[k]) = rows[k]
    OBVIOUS
  <2>2. IsFiniteSet({k}) /\ Cardinality({k}) = 1
    BY FS_Singleton
  <2>3. rows[k] \in Int /\ 1 \in Int /\ rows[k] >= 0
    BY <1>1
  <2>4. /\ IsFiniteSet(1..rows[k])
        /\ Cardinality(1..rows[k]) = IF 1 > rows[k] THEN 0 ELSE rows[k] - 1 + 1
    BY <2>3, FS_Interval
  <2> QED
    BY <2>2, <2>3, <2>4
<1>3. \A k \in Ids : IsFiniteSet(Rows(k, rows[k])) /\ Cardinality(Rows(k, rows[k])) = rows[k]
  <2>1. SUFFICES ASSUME NEW k \in Ids
                 PROVE  /\ IsFiniteSet(Rows(k, rows[k]))
                        /\ Cardinality(Rows(k, rows[k])) = rows[k]
    OBVIOUS
  <2> DEFINE K == {k}
             R == 1..rows[k]
  <2>2. IsFiniteSet(K) /\ Cardinality(K) = 1 /\ IsFiniteSet(R) /\ Cardinality(R) = rows[k]
    BY <1>2
  <2>3. Rows(k, rows[k]) = K \X R
    BY DEF Rows
  <2> HIDE DEF K, R
  <2>4. IsFiniteSet(K \X R) /\ Cardinality(K \X R) = Cardinality(K) * Cardinality(R)
    BY <2>2, FS_Product
  <2> QED
    BY <1>1, <2>2, <2>3, <2>4
<1>4. IsFiniteSet(all)
  <2> DEFINE R == 1..MaxRows
  <2>1. IsFiniteSet(R) /\ IsFiniteSet(Ids)
    BY FS_Interval, BoundsAssumption
  <2>2. \A k \in Ids : 1..rows[k] \subseteq R
    BY <1>1, BoundsAssumption DEF Kinds, RowsOK
  <2>3. all \subseteq Ids \X R
    BY <2>2 DEF Rows
  <2> HIDE DEF R, all
  <2>4. IsFiniteSet(Ids \X R)
    BY <2>1, FS_Product
  <2> QED
    BY <2>3, <2>4, FS_Subset
<1>5. Rows(i, rows[i]) \in SUBSET all
  OBVIOUS
<1>6. Cardinality(all) < MaxRows
  BY DEF MoreRows
<1> HIDE DEF all
<1>7. rows[i] <= Cardinality(all) /\ Cardinality(all) \in Nat
  BY <1>3, <1>4, <1>5, FS_Subset, FS_CardinalityType
<1> QED
  BY <1>1, <1>6, <1>7, BoundsAssumption

-----------------------------------------------------------------------------
(* Parts of the invariant that a step leaves alone. *)

LEMMA MembersKept ==
  ASSUME MembersAreIn, UNCHANGED <<joined, shown, up, down, rooms, crossed, dropped>>,
         \A j \in Due' : \E d \in Due : d.id = j.id
  PROVE  MembersAreIn'
<1>1. Coming' = Coming /\ Leaving' = Leaving
  BY DEF Coming, Leaving
<1>2. Due' # {} => Due # {}
  OBVIOUS
<1> QED
  BY <1>1, <1>2 DEF MembersAreIn

LEMMA CastsKept ==
  ASSUME CastsAreCovered, UNCHANGED <<joined, shown, down, cast, crossed, dropped, overtaken>>
  PROVE  CastsAreCovered'
<1>1. Coming' = Coming
  BY DEF Coming
<1>2. \A i, k : Awaited(i, k)' = Awaited(i, k)
  BY DEF Awaited
<1> QED
  BY <1>1, <1>2 DEF CastsAreCovered

\* A page that is no member any more is promised nothing.
LEMMA MembersLeft ==
  ASSUME MembersAreIn, joined' = FALSE, UNCHANGED <<up, down, rooms>>,
         (crossed => crossed') /\ (dropped => dropped'), \A j \in Due' : \E d \in Due : d.id = j.id
  PROVE  MembersAreIn'
<1>1. Coming' \subseteq Coming /\ Leaving' = Leaving
  BY DEF Coming, Leaving
<1>2. Due' # {} => Due # {}
  OBVIOUS
<1> QED
  BY <1>1, <1>2 DEF MembersAreIn

LEMMA CastsLeft ==
  ASSUME CastsAreCovered, joined' = FALSE, UNCHANGED <<down, cast, overtaken>>,
         (crossed => crossed') /\ (dropped => dropped')
  PROVE  CastsAreCovered'
<1>1. Coming' \subseteq Coming
  BY DEF Coming
<1>2. \A i, k : Awaited(i, k)' = Awaited(i, k)
  BY DEF Awaited
<1>3. \A n \in Coming', k \in Coming : k > n => k \in Coming'
  <2>1. SUFFICES ASSUME NEW n \in Coming', NEW k \in Coming, k > n
                 PROVE  k \in Coming'
    OBVIOUS
  <2>2. PICK m \in 1..n : down[m].kind = "joined"
    BY DEF Coming
  <2>3. m \in 1..k
    BY <2>1, <2>2 DEF Coming
  <2> QED
    BY <2>2, <2>3 DEF Coming
<1> QED
  BY <1>1, <1>2, <1>3 DEF CastsAreCovered

\* Only requests and the list change, and nothing that was known is forgotten.
LEMMA RestMoves ==
  ASSUME IInv, UNCHANGED <<shown, joined, socket, up, down, server, jobs>>,
         UNCHANGED <<cast, crossed, overtaken>>,
         rest' \in Seq(Requests), list' \subseteq Stored,
         selected' \in Stored \cup {None}, missed' \in SUBSET Ids,
         list \cup missed \subseteq list' \cup missed'
  PROVE  IInv'
<1> USE DEF socket, server
<1>1. Stored' = Stored /\ Requests' = Requests /\ Calls' = Calls /\ News' = News
  BY SameRows
<1>2. Working' = Working
  BY DEF Working
<1>3. QueuesOK'
  BY <1>1, <1>2 DEF IInv, Kinds, QueuesOK
<1>4. PageOK'
  BY <1>1 DEF IInv, Kinds, PageOK
<1>5. RowsOK'
  BY DEF IInv, Kinds, RowsOK
<1>6. OfflineIsOut'
  BY <1>2 DEF IInv, OfflineIsOut
<1>7. Due' = Due
  BY <1>2 DEF Due
<1>8. MembersAreIn'
  BY <1>7, MembersKept DEF IInv
<1>9. CastsAreCovered'
  BY CastsKept DEF IInv
<1>10. Created' = Created
  BY <1>2 DEF Created
<1>11. AllAreKnown'
  BY <1>1, <1>10 DEF IInv, AllAreKnown
<1> QED
  BY <1>3, <1>4, <1>5, <1>6, <1>8, <1>9, <1>11 DEF IInv, Kinds

\* A whole snapshot is shown outside of any room.
LEMMA SnapshotIsShown ==
  ASSUME IInv, NEW i \in Stored, NEW n \in Nat, n <= rows[i],
         shown' = [id |-> i, rows |-> Rows(i, n)], joined' = FALSE,
         UNCHANGED <<socket, up, down, server, jobs>>,
         UNCHANGED <<cast, crossed, overtaken>>,
         rest' \in Seq(Requests), list' \subseteq Stored,
         selected' \in Stored \cup {None}, missed' \in SUBSET Ids,
         list \cup missed \subseteq list' \cup missed'
  PROVE  IInv'
<1> USE DEF socket, server
<1>1. Stored' = Stored /\ Requests' = Requests /\ Calls' = Calls /\ News' = News
  BY SameRows
<1>2. Working' = Working
  BY DEF Working
<1>3. QueuesOK'
  BY <1>1, <1>2 DEF IInv, Kinds, QueuesOK
<1>4. i \in Ids /\ rows[i] \in Nat
  BY BoundsAssumption DEF IInv, Kinds, RowsOK, Stored
<1>5. \A row \in shown'.rows : row[1] \in Ids /\ row[2] \in 1..rows[row[1]]
  <2>1. \A row \in {i} \X (1..n) : row[1] \in Ids /\ row[2] \in 1..rows[row[1]]
    BY <1>4
  <2> QED
    BY <2>1 DEF Rows
<1>6. shown'.id = i /\ shown' = [id |-> shown'.id, rows |-> shown'.rows]
  OBVIOUS
<1>7. PageOK'
  BY <1>1, <1>5, <1>6 DEF IInv, Kinds, PageOK
<1>8. RowsOK'
  BY DEF IInv, Kinds, RowsOK
<1>9. OfflineIsOut'
  BY <1>2 DEF IInv, OfflineIsOut
<1>10. Due' = Due
  BY <1>2 DEF Due
<1>11. MembersAreIn'
  BY <1>10, MembersLeft DEF IInv
<1>12. CastsAreCovered'
  BY CastsLeft DEF IInv
<1>13. Created' = Created
  BY <1>2 DEF Created
<1>14. AllAreKnown'
  BY <1>1, <1>13 DEF IInv, AllAreKnown
<1> QED
  BY <1>3, <1>7, <1>8, <1>9, <1>11, <1>12, <1>14 DEF IInv, Kinds

-----------------------------------------------------------------------------
(* Requests and their answers. *)

LEMMA RequestIs ==
  /\ Request("list", None) \in Requests
  /\ Request("create", None) \in Requests
  /\ \A i \in Stored : Kinds => Request("open", i) \in Requests
<1>1. \A i \in Stored : i \in Ids /\ (Kinds => rows[i] >= 0)
  BY BoundsAssumption DEF Stored, Kinds, RowsOK
<1> QED
  BY <1>1, NoneAssumption DEF Request, Requests

LEMMA Asked ==
  ASSUME IInv, \/ AskCreate
               \/ \E i \in Ids : OpenIncident(i)
  PROVE  IInv'
<1>1. /\ rest \in Seq(Requests) /\ list \subseteq Stored /\ selected \in Stored \cup {None}
      /\ missed \in SUBSET Ids /\ Kinds
  BY DEF IInv, Kinds, QueuesOK, PageOK
<1>2. CASE AskCreate
  <2>1. /\ rest' = Append(rest, Request("create", None))
        /\ UNCHANGED <<page, socket, up, down, server, jobs, history>>
    BY <1>2 DEF AskCreate, Ask
  <2>2. rest' \in Seq(Requests)
    BY <1>1, <2>1, RequestIs, AppendIs
  <2> QED
    BY <1>1, <2>1, <2>2, RestMoves DEF page, history
<1>3. ASSUME NEW i \in Ids, OpenIncident(i)
      PROVE  IInv'
  <2>1. /\ i \in list /\ rest' = Append(rest, Request("open", i)) /\ selected' = i
        /\ UNCHANGED <<list, shown, joined, socket, up, down, server, jobs, history>>
    BY <1>3 DEF OpenIncident, Ask
  <2>2. i \in Stored
    BY <1>1, <2>1
  <2>3. rest' \in Seq(Requests)
    BY <1>1, <2>1, <2>2, RequestIs, AppendIs
  <2> QED
    BY <1>1, <2>1, <2>2, <2>3, RestMoves DEF history
<1> QED
  BY <1>2, <1>3

\* Request q is another one now.
LEMMA RequestChanges ==
  ASSUME NEW S, NEW s \in Seq(S), NEW q \in 1..Len(s), NEW g \in S
  PROVE  [s EXCEPT ![q] = g] \in Seq(S)
OBVIOUS

LEMMA Served ==
  ASSUME IInv, NEW q \in 1..Len(rest), ServeList(q) \/ ServeOpen(q) \/ Refuse(q)
  PROVE  IInv'
<1>1. /\ rest \in Seq(Requests) /\ list \subseteq Stored /\ selected \in Stored \cup {None}
      /\ missed \in SUBSET Ids /\ Kinds
  BY DEF IInv, Kinds, QueuesOK, PageOK
<1>2. rest[q] \in Requests
  BY <1>1, ElementOfSeq
<1>3. UNCHANGED <<page, socket, up, down, server, jobs, history>>
  BY DEF ServeList, ServeOpen, Refuse
<1>4. CASE ServeList(q)
  <2> DEFINE g == [rest[q] EXCEPT !.read = TRUE, !.ids = Stored]
  <2>1. rest' = [rest EXCEPT ![q] = g] /\ rest[q].kind = "list"
    BY <1>4 DEF ServeList, Answer
  <2>2. g \in Requests
    BY <1>2, <2>1 DEF Requests
  <2> HIDE DEF g
  <2>3. rest' \in Seq(Requests)
    BY <1>1, <2>1, <2>2, RequestChanges
  <2> QED
    BY <1>1, <1>3, <2>3, RestMoves DEF page, history
<1>5. CASE ServeOpen(q)
  <2> DEFINE g == [rest[q] EXCEPT !.read = TRUE, !.n = rows[rest[q].id]]
  <2>1. rest' = [rest EXCEPT ![q] = g] /\ rest[q].kind = "open"
    BY <1>5 DEF ServeOpen, Answer
  <2>2. rest[q].id \in Stored
    BY <1>2, <2>1 DEF Requests
  <2>3. rows[rest[q].id] \in Nat
    BY <2>2, BoundsAssumption DEF Stored, IInv, Kinds, RowsOK
  <2>4. g \in Requests
    <3> DEFINE r == rest[q]
               m == rows[r.id]
    <3>1. r \in Requests /\ r.kind = "open" /\ m \in Nat /\ m <= m
      BY <1>2, <2>1, <2>3
    <3>2. g = [r EXCEPT !.read = TRUE, !.n = m] /\ m = rows[r.id]
      OBVIOUS
    <3> HIDE DEF r, m, g
    <3>3. g = [kind |-> r.kind, id |-> r.id, read |-> TRUE, ids |-> r.ids, n |-> m]
      BY <3>1, <3>2 DEF Requests
    <3> QED
      BY <3>1, <3>2, <3>3 DEF Requests
  <2> HIDE DEF g
  <2>5. rest' \in Seq(Requests)
    BY <1>1, <2>1, <2>4, RequestChanges
  <2> QED
    BY <1>1, <1>3, <2>5, RestMoves DEF page, history
<1>6. CASE Refuse(q)
  <2>1. rest' \in Seq(Requests)
    BY <1>1, <1>6, WithoutIsSeq DEF Refuse
  <2> QED
    BY <1>1, <1>3, <2>1, RestMoves DEF page, history
<1> QED
  BY <1>4, <1>5, <1>6

LEMMA ListApplied ==
  ASSUME IInv, NEW q \in 1..Len(rest), ApplyList(q)
  PROVE  IInv'
<1>1. /\ rest \in Seq(Requests) /\ list \subseteq Stored /\ selected \in Stored \cup {None}
      /\ missed \in SUBSET Ids /\ Kinds
  BY DEF IInv, Kinds, QueuesOK, PageOK
<1>2. rest[q].ids \subseteq Stored
  BY <1>1, ElementOfSeq DEF Requests
<1>3. /\ list' = rest[q].ids /\ missed' = (missed \ rest[q].ids) \cup (list \ rest[q].ids)
      /\ UNCHANGED <<shown, joined, socket, up, down, server, jobs>>
      /\ UNCHANGED <<cast, crossed, overtaken>>
  BY DEF ApplyList, Dropped
<1>4. Without(rest, q) \in Seq(Requests)
  BY <1>1, WithoutIsSeq
<1>5. rest' \in Seq(Requests) /\ selected' \in Stored \cup {None}
  <2>1. CASE selected = None /\ rest[q].ids # {}
    <3>1. PICK i \in rest[q].ids :
            selected' = i /\ rest' = Append(Without(rest, q), Request("open", i))
      BY <2>1 DEF ApplyList
    <3>2. i \in Stored /\ Request("open", i) \in Requests
      BY <1>1, <1>2, RequestIs
    <3> QED
      BY <1>4, <3>1, <3>2, AppendIs
  <2>2. CASE ~(selected = None /\ rest[q].ids # {})
    BY <1>1, <1>4, <2>2 DEF ApplyList
  <2> QED
    BY <2>1, <2>2
<1>6. missed' \in SUBSET Ids /\ list \cup missed \subseteq list' \cup missed'
  <2>1. Stored \subseteq Ids
    BY DEF Stored
  <2> QED
    BY <1>1, <1>3, <2>1
<1> QED
  BY <1>2, <1>3, <1>5, <1>6, RestMoves

LEMMA Applied ==
  ASSUME IInv, NEW q \in 1..Len(rest), ApplyOpen(q) \/ ApplyCreate(q)
  PROVE  IInv'
<1> DEFINE i == rest[q].id
           n == rest[q].n
<1>1. /\ rest \in Seq(Requests) /\ list \subseteq Stored /\ selected \in Stored \cup {None}
      /\ missed \in SUBSET Ids /\ Kinds
  BY DEF IInv, Kinds, QueuesOK, PageOK
<1>2. i \in Stored /\ n \in Nat /\ n <= rows[i]
  BY <1>1, ElementOfSeq DEF Requests, ApplyOpen, ApplyCreate, Stored
<1>3. /\ rest' = Without(rest, q)
      /\ shown' = [id |-> i, rows |-> Rows(i, n)] /\ joined' = FALSE
      /\ UNCHANGED <<socket, up, down, server, jobs>>
      /\ UNCHANGED <<cast, crossed, overtaken>>
  BY DEF ApplyOpen, ApplyCreate, Show, history
<1>4. rest' \in Seq(Requests)
  BY <1>1, <1>3, WithoutIsSeq
<1>5. /\ list' \subseteq Stored /\ selected' \in Stored \cup {None}
      /\ missed' \in SUBSET Ids
      /\ list \cup missed \subseteq list' \cup missed'
  <2>1. CASE ApplyOpen(q)
    BY <1>1, <2>1 DEF ApplyOpen, history
  <2>2. CASE ApplyCreate(q)
    BY <1>1, <1>2, <2>2 DEF ApplyCreate, Upsert
  <2> QED
    BY <2>1, <2>2
<1> HIDE DEF i, n
<1> QED
  BY <1>2, <1>3, <1>4, <1>5, SnapshotIsShown

-----------------------------------------------------------------------------
(* What the page sends. *)

LEMMA CallIs ==
  /\ Message("subscribe", None, 0) \in Calls
  /\ \A i \in Stored, k \in {"join", "leave", "message", "update"} :
       Message(k, i, 0) \in Calls /\ Message(k, i, 0).kind = k
BY DEF Message, Calls, Stored

LEMMA ShownIsStored ==
  ASSUME Kinds, ShownId # None
  PROVE  ShownId \in Stored
BY DEF Kinds, PageOK, ShownId

\* A call at the end that is not a leave.
LEMMA MembersSend ==
  ASSUME QueuesOK, MembersAreIn, \E c \in Calls : c.kind # "leave" /\ up' = Append(up, c),
         UNCHANGED <<joined, shown, down, rooms, jobs, crossed, dropped>>
  PROVE  MembersAreIn'
<1>1. PICK c \in Calls : c.kind # "leave" /\ up' = Append(up, c)
  OBVIOUS
<1>2. /\ Len(up) \in Nat /\ Len(up') = Len(up) + 1
      /\ \A n \in 1..(Len(up) + 1) : up'[n] = IF n = Len(up) + 1 THEN c ELSE up[n]
  BY <1>1, AppendIs DEF QueuesOK
<1>3. Coming' = Coming /\ Due' = Due
  BY DEF Coming, Due, Working
<1>4. Leaving' \subseteq Leaving
  BY <1>1, <1>2 DEF Leaving
<1>5. ASSUME ~crossed, ~dropped, NEW m \in 1..Len(up'), NEW n \in 1..Len(up'), m < n,
             up'[m].kind = "join"
      PROVE  up'[n].kind # "leave"
  <2>1. CASE n = Len(up) + 1
    BY <1>1, <1>2, <2>1
  <2>2. CASE n # Len(up) + 1
    <3>1. m \in 1..Len(up) /\ n \in 1..Len(up) /\ up'[m] = up[m] /\ up'[n] = up[n]
      BY <1>2, <1>5, <2>2
    <3> QED
      BY <1>5, <3>1 DEF MembersAreIn
  <2> QED
    BY <2>1, <2>2
<1> QED
  BY <1>3, <1>4, <1>5 DEF MembersAreIn

LEMMA Sent ==
  ASSUME IInv, JoinIncident \/ SendMessage \/ EmitAction
  PROVE  IInv'
<1>1. /\ Kinds /\ QueuesOK /\ MembersAreIn
      /\ UNCHANGED <<page, socket, rest, down, server, jobs, history>>
  BY DEF IInv, Kinds, JoinIncident, SendMessage, EmitAction
<1> USE DEF page, socket, server, history
<1>2. \E k \in {"join", "message", "update"} :
        ShownId # None /\ up' = Append(up, Message(k, ShownId, 0))
  BY DEF JoinIncident, SendMessage, EmitAction, JoinOffered, SendOffered, Emit
<1>3. PICK k \in {"join", "message", "update"} :
        ShownId # None /\ up' = Append(up, Message(k, ShownId, 0))
  BY <1>2
<1>4. ShownId \in Stored
  BY <1>1, <1>3, ShownIsStored
<1>5. Message(k, ShownId, 0) \in Calls /\ Message(k, ShownId, 0).kind # "leave"
  BY <1>4, CallIs
<1>6. up' \in Seq(Calls)
  BY <1>1, <1>3, <1>5, AppendIs DEF QueuesOK
<1>7. MembersAreIn'
  BY <1>1, <1>3, <1>5, MembersSend
<1>8. Stored' = Stored /\ Requests' = Requests /\ Calls' = Calls /\ News' = News
  BY <1>1, SameRows
<1>9. Working' = Working
  BY <1>1 DEF Working
<1>10. Kinds'
  BY <1>1, <1>6, <1>8, <1>9 DEF Kinds, QueuesOK, PageOK, RowsOK
<1>11. OfflineIsOut'
  BY <1>1, <1>9 DEF IInv, OfflineIsOut
<1>12. CastsAreCovered'
  BY <1>1, CastsKept DEF IInv
<1>13. AllAreKnown'
  BY <1>1, <1>8, <1>9 DEF IInv, AllAreKnown, Created
<1> QED
  BY <1>7, <1>10, <1>11, <1>12, <1>13 DEF IInv

\* The history of crossed says whether a join was due.
LEMMA LeaveIsSent ==
  ASSUME IInv, LeaveIncident
  PROVE  IInv'
<1>1. /\ ShownId # None /\ up' = Append(up, Message("leave", ShownId, 0))
      /\ joined' = FALSE /\ crossed' = (crossed \/ JoinUnderWay)
      /\ UNCHANGED <<list, selected, shown, socket, rest, down, server, jobs>>
      /\ UNCHANGED <<cast, overtaken, missed>>
  BY DEF LeaveIncident, LeaveOffered, Emit
<1> USE DEF socket, server
<1>2. Kinds /\ QueuesOK /\ MembersAreIn
  BY DEF IInv, Kinds
<1>3. ShownId \in Stored
  BY <1>1, <1>2, ShownIsStored
<1> DEFINE c == Message("leave", ShownId, 0)
<1>4. c \in Calls /\ c.kind = "leave"
  BY <1>3, CallIs
<1> HIDE DEF c
<1>5. /\ up' \in Seq(Calls) /\ Len(up) \in Nat /\ Len(up') = Len(up) + 1
      /\ \A n \in 1..(Len(up) + 1) : up'[n] = IF n = Len(up) + 1 THEN c ELSE up[n]
  BY <1>1, <1>2, <1>4, AppendIs DEF QueuesOK, c
<1>6. MembersAreIn'
  <2>1. SUFFICES ASSUME ~crossed', ~dropped'
                 PROVE  MembersAreIn'
    BY DEF MembersAreIn
  <2>2. /\ \A n \in 1..Len(up) : up[n].kind # "join"
        /\ \A n \in 1..Len(down) : down[n].kind # "joined"
        /\ \A j \in Working : j.kind # "joined"
    BY <1>1, <2>1 DEF JoinUnderWay, Working
  <2>3. Coming' = {} /\ Due' = {}
    BY <1>1, <2>2 DEF Coming, Due, Working
  <2>4. \A n \in 1..Len(up') : up'[n].kind # "join"
    BY <1>4, <1>5, <2>2
  <2> QED
    BY <1>1, <2>3, <2>4 DEF MembersAreIn
<1>7. CastsAreCovered'
  <2>1. crossed => crossed'
    BY <1>1
  <2> QED
    BY <1>1, <2>1, CastsLeft DEF IInv
<1>8. Stored' = Stored /\ Requests' = Requests /\ Calls' = Calls /\ News' = News
  BY <1>1, SameRows
<1>9. Working' = Working
  BY <1>1 DEF Working
<1>10. crossed' \in BOOLEAN
  BY <1>1
<1>11. Kinds'
  BY <1>1, <1>2, <1>5, <1>8, <1>9, <1>10 DEF Kinds, QueuesOK, PageOK, RowsOK
<1>12. OfflineIsOut'
  BY <1>1, <1>9 DEF IInv, OfflineIsOut
<1>13. AllAreKnown'
  BY <1>1, <1>8, <1>9 DEF IInv, AllAreKnown, Created
<1> QED
  BY <1>6, <1>7, <1>11, <1>12, <1>13 DEF IInv

-----------------------------------------------------------------------------
(* The connection. *)

LEMMA Connected ==
  ASSUME IInv, Connect
  PROVE  IInv'
<1>1. /\ connects < MaxConnects /\ connected' = TRUE /\ connects' = connects + 1
      /\ up' = Append(up, Message("subscribe", None, 0))
      /\ rest' = IF connects > 0 THEN Append(rest, Request("list", None)) ELSE rest
      /\ UNCHANGED <<page, dropped, down, server, jobs, history>>
  BY DEF Connect
<1> USE DEF page, server, history
<1>2. Kinds /\ QueuesOK /\ MembersAreIn
  BY DEF IInv, Kinds
<1>3. up' \in Seq(Calls)
  BY <1>1, <1>2, CallIs, AppendIs DEF QueuesOK
<1>4. rest' \in Seq(Requests)
  BY <1>1, <1>2, RequestIs, AppendIs DEF QueuesOK
<1>5. MembersAreIn'
  <2>1. Message("subscribe", None, 0) \in Calls /\ Message("subscribe", None, 0).kind # "leave"
    BY CallIs DEF Message
  <2> QED
    BY <1>1, <1>2, <2>1, MembersSend
<1>6. connects' \in 0..MaxConnects
  BY <1>1, <1>2, BoundsAssumption DEF Kinds, PageOK
<1>7. Stored' = Stored /\ Requests' = Requests /\ Calls' = Calls /\ News' = News
  BY <1>1, SameRows
<1>8. Working' = Working
  BY <1>1 DEF Working
<1>9. Kinds'
  BY <1>1, <1>2, <1>3, <1>4, <1>6, <1>7, <1>8 DEF Kinds, QueuesOK, PageOK, RowsOK
<1>10. OfflineIsOut'
  BY <1>1 DEF IInv, OfflineIsOut
<1>11. CastsAreCovered'
  BY <1>1, CastsKept DEF IInv
<1>12. AllAreKnown'
  BY <1>1, <1>7, <1>8 DEF IInv, AllAreKnown, Created
<1> QED
  BY <1>5, <1>9, <1>10, <1>11, <1>12 DEF IInv

\* The handlers of joins are left out.
LEMMA UnansweredIs ==
  ASSUME QueuesOK
  PROVE  /\ IsABag(Unanswered)
         /\ BagToSet(Unanswered) = {m \in Working : m.kind # "joined"}
<1>1. DOMAIN Unanswered = {m \in Working : m.kind # "joined"}
  BY DEF Unanswered, Working
<1>2. \A m \in DOMAIN Unanswered : Unanswered[m] \in {n \in Nat : n > 0}
  BY DEF Unanswered, QueuesOK, IsABag, BagToSet
<1>3. Unanswered = [m \in DOMAIN Unanswered |-> Unanswered[m]]
  BY DEF Unanswered
<1>4. IsABag(Unanswered)
  BY <1>2, <1>3 DEF IsABag
<1> QED
  BY <1>1, <1>4 DEF BagToSet

\* The server alone forgets the socket, and some of its handlers end.
LEMMA SocketForgotten ==
  ASSUME IInv, dropped' = connected,
         rooms' = {}, feed' = FALSE, IsABag(jobs'), Working' \subseteq Working,
         \A j \in Working' : j.kind # "joined",
         \A j \in Working : j.kind = "created" => j \in Working' \/ j.id \in list \cup missed',
         missed \subseteq missed', missed' \in SUBSET Ids,
         UNCHANGED <<page, connected, connects, rest, up, down, rows, cast, crossed,
                     overtaken>>
  PROVE  IInv'
<1> USE DEF page
<1>1. Kinds /\ QueuesOK /\ OfflineIsOut
  BY DEF IInv, Kinds
<1>2. Stored' = Stored /\ Requests' = Requests /\ Calls' = Calls /\ News' = News
  BY SameRows
<1>3. QueuesOK' /\ RowsOK'
  BY <1>1, <1>2 DEF Kinds, QueuesOK, RowsOK
<1>4. PageOK'
  BY <1>1, <1>2 DEF Kinds, PageOK
<1>5. OfflineIsOut'
  BY <1>1 DEF OfflineIsOut
<1>6. ~dropped' => ~dropped /\ Coming' = {} /\ Due' = {} /\ ~joined'
  <2>1. ~connected => ~dropped /\ Len(down') = 0 /\ ~joined
    BY <1>1, EmptySeq DEF OfflineIsOut
  <2> QED
    BY <2>1 DEF Coming, Due
<1>7. MembersAreIn'
  BY <1>6 DEF IInv, MembersAreIn
<1>8. CastsAreCovered'
  BY <1>6 DEF CastsAreCovered
<1>9. Created \subseteq Created' \cup list \cup missed'
  BY DEF Created
<1>10. AllAreKnown'
  BY <1>2, <1>9 DEF IInv, AllAreKnown
<1> QED
  BY <1>3, <1>4, <1>5, <1>7, <1>8, <1>10 DEF IInv, Kinds

LEMMA ServerDisconnected ==
  ASSUME IInv, ServerDisconnect
  PROVE  IInv'
<1>1. QueuesOK /\ PageOK
  BY DEF IInv, Kinds
<1>2. IsABag(jobs') /\ Working' = {m \in Working : m.kind # "joined"}
  BY <1>1, UnansweredIs DEF ServerDisconnect, Working
<1>3. dropped' = connected
  <2>1. connected = TRUE /\ dropped' = TRUE
    BY <1>1 DEF ServerDisconnect, PageOK
  <2> QED
    BY <2>1
<1>4. missed' = missed /\ missed' \in SUBSET Ids
  BY <1>1 DEF ServerDisconnect, history, PageOK
<1> QED
  BY <1>2, <1>3, <1>4, SocketForgotten DEF ServerDisconnect, history

LEMMA Restarted ==
  ASSUME IInv, Restart
  PROVE  IInv'
<1>1. QueuesOK /\ PageOK
  BY DEF IInv, Kinds
<1>2. IsABag(jobs') /\ Working' = {}
  BY NoneUnderWay DEF Restart, Working
<1>3. ToAnnounce \subseteq Ids
  BY <1>1 DEF ToAnnounce, QueuesOK, Working, News, Stored
<1>4. missed \subseteq missed' /\ missed' \in SUBSET Ids
  BY <1>1, <1>3 DEF Restart, PageOK
<1>5. \A j \in Working : j.kind = "created" => j.id \in list \cup missed'
  BY DEF Restart, ToAnnounce, Working
<1> QED
  BY <1>2, <1>4, <1>5, SocketForgotten DEF Restart

LEMMA Disconnected ==
  ASSUME IInv, Disconnect
  PROVE  IInv'
<1>1. /\ connected' = FALSE /\ joined' = FALSE /\ up' = <<>> /\ down' = <<>>
      /\ rooms' = {} /\ feed' = FALSE /\ jobs' = Unanswered /\ crossed' = FALSE
      /\ dropped' = FALSE
      /\ missed' = missed \cup (Announced \ list)
      /\ UNCHANGED <<list, selected, shown, connects, rest, rows, cast, overtaken>>
  BY DEF Disconnect
<1>2. Kinds /\ QueuesOK
  BY DEF IInv, Kinds
<1>3. IsABag(jobs') /\ Working' = {m \in Working : m.kind # "joined"}
  BY <1>1, <1>2, UnansweredIs DEF Working
<1>4. Stored' = Stored /\ Requests' = Requests /\ Calls' = Calls /\ News' = News
  BY <1>1, SameRows
<1>5. <<>> \in Seq(Calls) /\ <<>> \in Seq(News) /\ Len(<<>>) = 0
  BY EmptySeq
<1>6. QueuesOK'
  BY <1>1, <1>2, <1>3, <1>4, <1>5 DEF QueuesOK
<1>7. Announced \subseteq Ids
  <2>1. \A n \in 1..Len(down) : down[n] \in News
    BY <1>2, ElementOfSeq DEF QueuesOK
  <2> QED
    BY <2>1 DEF Announced, News, Stored
<1>8. PageOK' /\ RowsOK'
  BY <1>1, <1>2, <1>4, <1>7 DEF Kinds, PageOK, RowsOK
<1>9. OfflineIsOut'
  BY <1>1, <1>3 DEF OfflineIsOut
<1>10. Len(up') = 0 /\ Len(down') = 0
  BY <1>1, <1>5
<1>11. Coming' = {} /\ Leaving' = {} /\ Due' = {}
  BY <1>3, <1>10 DEF Coming, Leaving, Due
<1>12. MembersAreIn'
  BY <1>1, <1>10, <1>11 DEF MembersAreIn
<1>13. CastsAreCovered'
  BY <1>1, <1>11 DEF CastsAreCovered
<1>14. AllAreKnown'
  <2>1. ASSUME NEW i \in Created
        PROVE  i \in Created' \/ i \in Announced
    BY <1>3 DEF Created, Announced
  <2> QED
    BY <1>1, <1>4, <2>1 DEF IInv, AllAreKnown
<1> QED
  BY <1>6, <1>8, <1>9, <1>12, <1>13, <1>14 DEF IInv, Kinds

-----------------------------------------------------------------------------
(* Incidents are created and rows stored. *)

\* A row of i is stored, and a message about it is prepared.
LEMMA RowIsStored ==
  ASSUME IInv, NEW i \in Ids, rows[i] + 1 <= MaxRows,
         rows' = [rows EXCEPT ![i] = rows[i] + 1],
         \E m \in News' : /\ jobs' = jobs (+) SetToBag({m}) /\ m.kind # "joined"
                          /\ i \notin Stored => m.kind = "created" /\ m.id = i,
         UNCHANGED <<page, socket, down, rooms, feed, history>>,
         up' \in Seq(Calls'), rest' \in Seq(Requests'), MembersAreIn'
  PROVE  IInv'
<1> USE DEF page, socket, history
<1>1. Kinds /\ QueuesOK
  BY DEF IInv, Kinds
<1>2. PICK m \in News' : /\ jobs' = jobs (+) SetToBag({m}) /\ m.kind # "joined"
                         /\ i \notin Stored => m.kind = "created" /\ m.id = i
  OBVIOUS
<1>3. /\ RowsOK' /\ Stored' = Stored \cup {i} /\ News \subseteq News'
      /\ \A row \in shown.rows : row[1] \in Ids /\ row[2] \in 1..rows'[row[1]]
  BY <1>1, MoreStored
<1>4. IsABag(jobs') /\ Working' = Working \cup {m}
  BY <1>1, <1>2, BagAdd DEF QueuesOK, Working
<1>5. down' \in Seq(News')
  BY <1>1, <1>3, SeqMono DEF QueuesOK
<1>6. QueuesOK'
  BY <1>1, <1>3, <1>4, <1>5 DEF QueuesOK
<1>7. PageOK'
  BY <1>1, <1>3 DEF Kinds, PageOK
<1>8. OfflineIsOut'
  BY <1>2, <1>4 DEF IInv, OfflineIsOut
<1>9. CastsAreCovered'
  BY CastsKept DEF IInv
<1>10. Created \subseteq Created'
  BY <1>4 DEF Created
<1>11. i \notin Stored => i \in Created'
  BY <1>2, <1>4 DEF Created
<1>12. AllAreKnown'
  BY <1>3, <1>10, <1>11 DEF IInv, AllAreKnown
<1> QED
  BY <1>3, <1>6, <1>7, <1>8, <1>9, <1>12 DEF IInv, Kinds

\* The members are the same, whoever else is to be told something.
LEMMA MembersWait ==
  ASSUME IInv, \E m : m.kind # "joined" /\ jobs' = jobs (+) SetToBag({m}),
         UNCHANGED <<joined, shown, up, down, rooms, crossed, dropped>>
  PROVE  MembersAreIn'
<1>1. PICK m : m.kind # "joined" /\ jobs' = jobs (+) SetToBag({m})
  OBVIOUS
<1>2. Working' = Working \cup {m}
  BY <1>1, BagAdd DEF IInv, Kinds, QueuesOK, Working
<1>3. Due' = Due
  BY <1>1, <1>2 DEF Due
<1> QED
  BY <1>3, MembersKept DEF IInv

\* The new incident has one row.
LEMMA FirstRow ==
  ASSUME Kinds, NEW i \in Ids \ Stored, rows' = [rows EXCEPT ![i] = 1]
  PROVE  /\ rows[i] + 1 <= MaxRows /\ rows' = [rows EXCEPT ![i] = rows[i] + 1]
         /\ Message("created", i, 0) \in News' /\ rows'[i] = 1
<1>1. rows[i] = 0 /\ MaxRows >= 1 /\ rows \in [Ids -> 0..MaxRows]
  BY BoundsAssumption DEF Kinds, RowsOK, Stored
<1>2. rows'[i] = 1
  BY <1>1
<1>3. i \in Stored'
  BY <1>2 DEF Stored
<1>4. Message("created", i, 0) \in News'
  BY <1>2, <1>3 DEF Message, News
<1> QED
  BY <1>1, <1>2, <1>4

\* The new incident is stored and never announced.
LEMMA HalfCreated ==
  ASSUME IInv, NEW i \in Ids, CreateIncidentHalf(i), rest' \in Seq(Requests),
         UNCHANGED <<page, socket, up, down, rooms, feed, cast, crossed, overtaken>>
  PROVE  IInv'
<1> USE DEF page, socket
<1>1. /\ i \in Ids \ Stored /\ rows' = [rows EXCEPT ![i] = 1]
      /\ missed' = missed \cup {i} /\ jobs' = jobs
  BY DEF CreateIncidentHalf
<1>2. Kinds /\ QueuesOK
  BY DEF IInv, Kinds
<1>3. rows[i] + 1 <= MaxRows /\ rows' = [rows EXCEPT ![i] = rows[i] + 1]
  BY <1>1, <1>2, FirstRow
<1>4. /\ RowsOK' /\ Stored' = Stored \cup {i}
      /\ Requests \subseteq Requests' /\ Calls \subseteq Calls' /\ News \subseteq News'
      /\ \A row \in shown.rows : row[1] \in Ids /\ row[2] \in 1..rows'[row[1]]
  BY <1>2, <1>3, MoreStored
<1>5. Working' = Working
  BY <1>1 DEF Working
<1>6. QueuesOK'
  <2>1. up \in Seq(Calls') /\ down \in Seq(News') /\ rest' \in Seq(Requests')
    BY <1>2, <1>4, SeqMono DEF QueuesOK
  <2> QED
    BY <1>1, <1>2, <1>4, <1>5, <2>1 DEF QueuesOK
<1>7. PageOK'
  BY <1>1, <1>2, <1>4 DEF Kinds, PageOK
<1>8. OfflineIsOut'
  BY <1>5 DEF IInv, OfflineIsOut
<1>9. Due' = Due /\ Created' = Created
  BY <1>5 DEF Due, Created
<1>10. MembersAreIn'
  BY <1>9, MembersKept DEF IInv
<1>11. CastsAreCovered'
  BY CastsKept DEF IInv
<1>12. AllAreKnown'
  BY <1>1, <1>4, <1>9 DEF IInv, AllAreKnown
<1> QED
  BY <1>4, <1>6, <1>7, <1>8, <1>10, <1>11, <1>12 DEF IInv, Kinds

\* The new incident is stored and about to be announced.
LEMMA OtherAnnounced ==
  ASSUME IInv, NEW i \in Ids, OtherCreates(i), CreateIncident(i)
  PROVE  IInv'
<1>1. /\ i \in Ids \ Stored /\ rows' = [rows EXCEPT ![i] = 1]
      /\ jobs' = jobs (+) SetToBag({Message("created", i, 0)})
      /\ UNCHANGED <<page, socket, rest, up, down, rooms, feed, history>>
  BY DEF OtherCreates, CreateIncident, Prepare, history
<1> USE DEF page, socket, history
<1>2. Kinds /\ QueuesOK
  BY DEF IInv, Kinds
<1>3. /\ rows[i] + 1 <= MaxRows /\ rows' = [rows EXCEPT ![i] = rows[i] + 1]
      /\ Message("created", i, 0) \in News'
  BY <1>1, <1>2, FirstRow
<1> DEFINE m == Message("created", i, 0)
<1>4. m.kind = "created" /\ m.id = i /\ m \in News' /\ jobs' = jobs (+) SetToBag({m})
  BY <1>1, <1>3 DEF Message
<1> HIDE DEF m
<1>5. Requests \subseteq Requests' /\ Calls \subseteq Calls'
  BY <1>2, <1>3, <1>1, MoreStored
<1>6. up' \in Seq(Calls') /\ rest' \in Seq(Requests')
  BY <1>1, <1>2, <1>5, SeqMono DEF QueuesOK
<1>7. MembersAreIn'
  BY <1>1, <1>4, MembersWait
<1> QED
  BY <1>1, <1>3, <1>4, <1>6, <1>7, RowIsStored

LEMMA OtherCreated ==
  ASSUME IInv, NEW i \in Ids, OtherCreates(i)
  PROVE  IInv'
<1>1. rest \in Seq(Requests)
  BY DEF IInv, Kinds, QueuesOK
<1>2. CASE CreateIncident(i)
  BY <1>2, OtherAnnounced
<1>3. CASE CreateIncidentHalf(i)
  BY <1>1, <1>3, HalfCreated DEF OtherCreates
<1> QED
  BY <1>2, <1>3 DEF OtherCreates

LEMMA CreateAnswered ==
  ASSUME IInv, NEW q \in 1..Len(rest), ServeCreate(q), NEW i \in Ids, CreateIncident(i),
         rest' = [rest EXCEPT ![q].read = TRUE, ![q].id = i, ![q].n = 1]
  PROVE  IInv'
<1>1. /\ i \in Ids \ Stored /\ rows' = [rows EXCEPT ![i] = 1]
      /\ jobs' = jobs (+) SetToBag({Message("created", i, 0)})
  BY DEF CreateIncident, Prepare
<1>2. UNCHANGED <<page, socket, up, down, rooms, feed, history>> /\ rest[q].kind = "create"
  BY DEF ServeCreate, CreateIncident, Answer, history
<1> USE DEF page, socket, history
<1>3. Kinds /\ QueuesOK
  BY DEF IInv, Kinds
<1>4. /\ rows[i] + 1 <= MaxRows /\ rows' = [rows EXCEPT ![i] = rows[i] + 1]
      /\ Message("created", i, 0) \in News' /\ rows'[i] = 1
  BY <1>1, <1>3, FirstRow
<1> DEFINE m == Message("created", i, 0)
<1>5. m.kind = "created" /\ m.id = i /\ m \in News' /\ jobs' = jobs (+) SetToBag({m})
  BY <1>1, <1>4 DEF Message
<1> HIDE DEF m
<1>6. /\ Requests \subseteq Requests' /\ Calls \subseteq Calls'
      /\ Stored' = Stored \cup {i} /\ rows' \in [Ids -> 0..MaxRows]
  BY <1>1, <1>2, <1>3, <1>4, MoreStored DEF RowsOK
<1> DEFINE r == rest[q]
           g == [r EXCEPT !.read = TRUE, !.id = i, !.n = 1]
<1>7. r \in Requests' /\ r.kind = "create"
  BY <1>2, <1>3, <1>6, ElementOfSeq DEF QueuesOK
<1>8. rest' = [rest EXCEPT ![q] = g]
  BY <1>1
<1> HIDE DEF r
<1> DEFINE T == [kind : {"list", "open", "create"}, id : Ids \cup {None}, read : BOOLEAN,
                 ids : SUBSET (Stored'), n : Nat]
<1>9. r \in T
  BY <1>7 DEF Requests
<1>10. g \in Requests'
  <2>1. g \in T /\ g.kind = "create" /\ g.id = i /\ g.n = 1
    BY <1>7, <1>9
  <2> HIDE DEF g
  <2> QED
    BY <1>4, <1>6, <2>1 DEF Requests
<1> HIDE DEF g, T
<1>11. rest \in Seq(Requests') /\ up' \in Seq(Calls')
  BY <1>2, <1>3, <1>6, SeqMono DEF QueuesOK
<1>12. rest' \in Seq(Requests')
  <2>1. q \in 1..Len(rest)
    OBVIOUS
  <2> QED
    BY ONLY <1>8, <1>10, <1>11, <2>1, RequestChanges
<1>13. MembersAreIn'
  BY <1>2, <1>5, MembersWait
<1> QED
  BY <1>2, <1>4, <1>5, <1>11, <1>12, <1>13, RowIsStored

LEMMA CreateServed ==
  ASSUME IInv, NEW q \in 1..Len(rest), ServeCreate(q)
  PROVE  IInv'
<1>1. PICK i \in Ids :
        \/ /\ CreateIncident(i)
           /\ rest' = [rest EXCEPT ![q].read = TRUE, ![q].id = i, ![q].n = 1]
        \/ CreateIncidentHalf(i) /\ rest' = Without(rest, q)
  BY DEF ServeCreate
<1>2. rest \in Seq(Requests)
  BY DEF IInv, Kinds, QueuesOK
<1>3. Without(rest, q) \in Seq(Requests)
  BY <1>2, WithoutIsSeq
<1>4. UNCHANGED <<page, socket, up, down, rooms, feed, cast, crossed, overtaken>>
  BY DEF ServeCreate
<1>5. CASE CreateIncidentHalf(i) /\ rest' = Without(rest, q)
  BY <1>3, <1>4, <1>5, HalfCreated
<1> QED
  BY <1>1, <1>5, CreateAnswered

\* What Store does to the rows, and the message it prepares.
LEMMA Stores ==
  ASSUME Kinds, NEW k \in {"message", "updated"}, NEW i \in Ids, Store(k, i)
  PROVE  /\ i \in Stored /\ rows[i] + 1 <= MaxRows
         /\ rows' = [rows EXCEPT ![i] = rows[i] + 1]
         /\ \E m \in News' : jobs' = jobs (+) SetToBag({m}) /\ m.kind = k
<1>1. /\ i \in Stored /\ MoreRows /\ rows' = [rows EXCEPT ![i] = rows[i] + 1]
      /\ jobs' = jobs (+) SetToBag({Message(k, i, IF k = "message" THEN rows[i] + 1 ELSE 0)})
  BY DEF Store, Prepare
<1>2. rows[i] + 1 <= MaxRows
  BY <1>1, RoomForRow
<1>3. rows[i] \in Nat /\ rows'[i] = rows[i] + 1 /\ i \in Stored'
  BY <1>1, BoundsAssumption DEF Kinds, RowsOK, Stored
<1> DEFINE m == Message(k, i, IF k = "message" THEN rows[i] + 1 ELSE 0)
<1>4. m \in News' /\ m.kind = k
  BY <1>3 DEF Message, News
<1> HIDE DEF m
<1> QED
  BY <1>1, <1>2, <1>4 DEF m

LEMMA OtherStored ==
  ASSUME IInv, NEW i \in Ids, OtherStores(i)
  PROVE  IInv'
<1>1. /\ \E k \in {"message", "updated"} : Store(k, i)
      /\ UNCHANGED <<page, socket, rest, up, down, rooms, feed, history>>
  BY DEF OtherStores
<1> USE DEF page, socket, history
<1>2. Kinds /\ QueuesOK
  BY DEF IInv, Kinds
<1>3. /\ i \in Stored /\ rows[i] + 1 <= MaxRows
      /\ rows' = [rows EXCEPT ![i] = rows[i] + 1]
      /\ \E m \in News' : jobs' = jobs (+) SetToBag({m}) /\ m.kind # "joined"
  BY <1>1, <1>2, Stores
<1>4. Requests \subseteq Requests' /\ Calls \subseteq Calls'
  BY <1>1, <1>2, <1>3, MoreStored
<1>5. up' \in Seq(Calls') /\ rest' \in Seq(Requests')
  BY <1>1, <1>2, <1>4, SeqMono DEF QueuesOK
<1>6. MembersAreIn'
  BY <1>1, <1>3, MembersWait
<1> QED
  BY <1>1, <1>3, <1>5, <1>6, RowIsStored

-----------------------------------------------------------------------------
(* The gateway takes what the page has sent. *)

LEMMA UpShifts ==
  ASSUME QueuesOK, up # <<>>, up' = Tail(up)
  PROVE  /\ up' \in Seq(Calls) /\ Head(up) = up[1] /\ up[1] \in Calls
         /\ 1 \in 1..Len(up)
         /\ \A n \in 1..Len(up') :
              n \in Nat /\ n + 1 > 1 /\ n + 1 \in 1..Len(up) /\ up'[n] = up[n + 1]
<1>1. /\ Tail(up) \in Seq(Calls) /\ Len(up) \in Nat \ {0}
      /\ Head(up) = up[1] /\ up[1] \in Calls
      /\ Len(Tail(up)) = Len(up) - 1
      /\ \A n \in 1..(Len(up) - 1) : Tail(up)[n] = up[n + 1]
  BY TailIs DEF QueuesOK
<1> QED
  BY <1>1

\* Behind a join there is no leave.
LEMMA MembersTake ==
  ASSUME QueuesOK, MembersAreIn, up # <<>>, up' = Tail(up),
         UNCHANGED <<joined, shown, down, crossed, dropped>>, rooms \subseteq rooms',
         \A j \in Due' : \/ \E d \in Due : d.id = j.id
                         \/ j.id \in rooms' /\ Head(up).kind = "join"
  PROVE  MembersAreIn'
<1> SUFFICES ASSUME ~crossed, ~dropped
             PROVE  MembersAreIn'
  BY DEF MembersAreIn
<1>1. /\ Head(up) = up[1] /\ 1 \in 1..Len(up)
      /\ \A n \in 1..Len(up') :
           n \in Nat /\ n + 1 > 1 /\ n + 1 \in 1..Len(up) /\ up'[n] = up[n + 1]
  BY UpShifts
<1>2. Coming' = Coming
  BY DEF Coming
<1>3. Leaving = {} => Leaving' = {}
  BY <1>1 DEF Leaving
<1>4. Head(up).kind = "join" => Leaving' = {}
  BY <1>1 DEF Leaving, MembersAreIn
<1>5. joined' \/ Coming' # {} \/ Due' # {} => Leaving' = {}
  BY <1>2, <1>3, <1>4 DEF MembersAreIn
<1>6. ASSUME NEW m \in 1..Len(up'), NEW n \in 1..Len(up'), m < n, up'[m].kind = "join"
      PROVE  up'[n].kind # "leave"
  <2>1. /\ m + 1 \in 1..Len(up) /\ n + 1 \in 1..Len(up) /\ m + 1 < n + 1
        /\ up'[m] = up[m + 1] /\ up'[n] = up[n + 1]
    BY <1>1, <1>6
  <2> QED
    BY <1>6, <2>1 DEF MembersAreIn
<1>7. /\ \A j \in Due' : j.id \in rooms'
      /\ \A n \in Coming' : down'[n].id \in rooms'
      /\ joined' => shown'.id \in rooms'
  BY <1>2 DEF MembersAreIn
<1> QED
  BY <1>5, <1>6, <1>7 DEF MembersAreIn

\* A leave takes nobody out who is a member, or will be told so.
LEMMA MembersLeave ==
  ASSUME QueuesOK, MembersAreIn, up # <<>>, up' = Tail(up), Head(up).kind = "leave",
         UNCHANGED <<joined, shown, down, jobs, crossed, dropped>>
  PROVE  MembersAreIn'
<1> SUFFICES ASSUME ~crossed, ~dropped
             PROVE  MembersAreIn'
  BY DEF MembersAreIn
<1>1. /\ Head(up) = up[1] /\ 1 \in 1..Len(up)
      /\ \A n \in 1..Len(up') :
           n \in Nat /\ n + 1 > 1 /\ n + 1 \in 1..Len(up) /\ up'[n] = up[n + 1]
  BY UpShifts
<1>2. Coming' = Coming /\ Due' = Due
  BY DEF Coming, Due, Working
<1>3. 1 \in Leaving
  BY <1>1 DEF Leaving
<1>4. ~joined /\ Coming = {} /\ Due = {}
  BY <1>3 DEF MembersAreIn, PageOK
<1>5. ASSUME NEW m \in 1..Len(up'), NEW n \in 1..Len(up'), m < n, up'[m].kind = "join"
      PROVE  up'[n].kind # "leave"
  <2>1. /\ m + 1 \in 1..Len(up) /\ n + 1 \in 1..Len(up) /\ m + 1 < n + 1
        /\ up'[m] = up[m + 1] /\ up'[n] = up[n + 1]
    BY <1>1, <1>5
  <2> QED
    BY <1>5, <2>1 DEF MembersAreIn
<1> QED
  BY <1>2, <1>4, <1>5 DEF MembersAreIn

\* No row is stored: only the rooms and the jobs change.
LEMMA CallIsTaken ==
  ASSUME IInv, connected, ~dropped, up # <<>>, up' = Tail(up),
         UNCHANGED <<page, socket, rest, down, rows, history>>,
         rooms' \subseteq Stored, feed' \in BOOLEAN,
         IsABag(jobs'), Working \subseteq Working', Working' \subseteq News, MembersAreIn'
  PROVE  IInv'
<1> USE DEF page, socket, history
<1>1. Kinds /\ QueuesOK
  BY DEF IInv, Kinds
<1>2. up' \in Seq(Calls)
  BY <1>1, UpShifts
<1>3. Stored' = Stored /\ Requests' = Requests /\ Calls' = Calls /\ News' = News
  BY SameRows
<1>4. QueuesOK'
  BY <1>1, <1>2, <1>3 DEF QueuesOK
<1>5. PageOK' /\ RowsOK'
  BY <1>1, <1>3 DEF Kinds, PageOK, RowsOK
<1>6. OfflineIsOut'
  BY DEF OfflineIsOut
<1>7. CastsAreCovered'
  BY CastsKept DEF IInv
<1>8. Created \subseteq Created'
  BY DEF Created
<1>9. AllAreKnown'
  BY <1>3, <1>8 DEF IInv, AllAreKnown
<1> QED
  BY <1>4, <1>5, <1>6, <1>7, <1>9 DEF IInv, Kinds

LEMMA RoomChanges ==
  ASSUME IInv, SubscribeIncidentFeed \/ HandleJoin \/ HandleLeave
  PROVE  IInv'
<1>1. /\ connected /\ ~dropped /\ up # <<>> /\ up' = Tail(up)
      /\ UNCHANGED <<page, socket, rest, down, rows, history>>
  BY DEF SubscribeIncidentFeed, HandleJoin, HandleLeave, Take
<1> USE DEF page, socket, history
<1>2. Kinds /\ QueuesOK /\ MembersAreIn /\ rooms \subseteq Stored /\ feed \in BOOLEAN
  BY DEF IInv, Kinds, PageOK
<1>3. Head(up) = up[1] /\ up[1] \in Calls
  BY <1>1, <1>2, UpShifts
<1>4. IsABag(jobs) /\ Working \subseteq News
  BY <1>2 DEF QueuesOK
<1>5. CASE SubscribeIncidentFeed
  <2>1. feed' = TRUE /\ UNCHANGED <<rooms, jobs>>
    BY <1>5 DEF SubscribeIncidentFeed
  <2>2. Working' = Working
    BY <2>1 DEF Working
  <2>3. Due' = Due
    BY <2>2 DEF Due
  <2>4. MembersAreIn'
    BY <1>1, <1>2, <2>1, <2>3, MembersTake
  <2> QED
    BY <1>1, <1>2, <1>4, <2>1, <2>2, <2>4, CallIsTaken
<1>6. CASE HandleJoin
  <2>1. /\ Head(up).kind = "join" /\ UNCHANGED feed
        /\ jobs' = jobs (+) SetToBag({Message("joined", Head(up).id, 0)})
        /\ rooms' = rooms \cup {Head(up).id}
    BY <1>6 DEF HandleJoin, Take, Prepare
  <2> DEFINE m == Message("joined", Head(up).id, 0)
  <2>2. Head(up).id \in Stored
    BY <1>3, <2>1 DEF Calls
  <2>3. m \in News /\ m.kind = "joined" /\ m.id = Head(up).id
    BY <1>2, <2>2, BoundsAssumption DEF Message, News, Kinds, RowsOK, Stored
  <2> HIDE DEF m
  <2>4. IsABag(jobs') /\ Working' = Working \cup {m}
    BY <1>4, <2>1, BagAdd DEF Working, m
  <2>5. Due' = Due \cup {m}
    BY <2>3, <2>4 DEF Due
  <2>6. MembersAreIn'
    BY <1>1, <1>2, <2>1, <2>3, <2>5, MembersTake
  <2> QED
    BY <1>1, <1>2, <1>4, <2>1, <2>2, <2>3, <2>4, <2>6, CallIsTaken
<1>7. CASE HandleLeave
  <2>1. /\ Head(up).kind = "leave" /\ UNCHANGED <<feed, jobs>>
        /\ rooms' = rooms \ {Head(up).id}
    BY <1>7 DEF HandleLeave, Take
  <2>2. Working' = Working
    BY <2>1 DEF Working
  <2>3. MembersAreIn'
    BY <1>1, <1>2, <2>1, MembersLeave
  <2> QED
    BY <1>1, <1>2, <1>4, <2>1, <2>2, <2>3, CallIsTaken
<1> QED
  BY <1>5, <1>6, <1>7

LEMMA RowChanges ==
  ASSUME IInv, HandleMessage \/ HandleUpdate
  PROVE  IInv'
<1>1. /\ connected /\ ~dropped /\ up # <<>> /\ up' = Tail(up)
      /\ Head(up).kind \in {"message", "update"}
      /\ UNCHANGED <<page, socket, rest, down, rooms, feed, history>>
  BY DEF HandleMessage, HandleUpdate, Take
<1> USE DEF page, socket, history
<1>2. Kinds /\ QueuesOK /\ MembersAreIn /\ rooms \subseteq Stored /\ feed \in BOOLEAN
  BY DEF IInv, Kinds, PageOK
<1>3. Head(up) = up[1] /\ up[1] \in Calls /\ up' \in Seq(Calls)
  BY <1>1, <1>2, UpShifts
<1>4. Head(up).id \in Stored /\ Head(up).id \in Ids
  BY <1>1, <1>3 DEF Calls, Stored
<1>5. IsABag(jobs) /\ Working \subseteq News
  BY <1>2 DEF QueuesOK
<1>6. CASE UNCHANGED <<rows, jobs>>
  <2>1. Working' = Working
    BY <1>6 DEF Working
  <2>2. Due' = Due
    BY <2>1 DEF Due
  <2>3. MembersAreIn'
    BY <1>1, <1>2, <2>2, MembersTake
  <2> QED
    BY <1>1, <1>2, <1>5, <1>6, <2>1, <2>3, CallIsTaken
<1>7. ASSUME NEW k \in {"message", "updated"}, NEW i \in Ids, Store(k, i)
      PROVE  IInv'
  <2>1. /\ i \in Stored /\ rows[i] + 1 <= MaxRows
        /\ rows' = [rows EXCEPT ![i] = rows[i] + 1]
        /\ \E m \in News' : jobs' = jobs (+) SetToBag({m}) /\ m.kind # "joined"
    BY <1>2, <1>7, Stores
  <2>2. Requests \subseteq Requests' /\ Calls \subseteq Calls'
    BY <1>1, <1>2, <2>1, MoreStored
  <2>3. up' \in Seq(Calls') /\ rest' \in Seq(Requests')
    BY <1>1, <1>2, <1>3, <2>2, SeqMono DEF QueuesOK
  <2>4. PICK m \in News' : jobs' = jobs (+) SetToBag({m}) /\ m.kind # "joined"
    BY <2>1
  <2>5. Working' = Working \cup {m}
    BY <1>5, <2>4, BagAdd DEF Working
  <2>6. Due' = Due
    BY <2>4, <2>5 DEF Due
  <2>7. MembersAreIn'
    BY <1>1, <1>2, <2>6, MembersTake
  <2> QED
    BY <1>1, <2>1, <2>3, <2>7, RowIsStored
<1>8. \/ UNCHANGED <<rows, jobs>>
      \/ \E k \in {"message", "updated"}, i \in Ids : Store(k, i)
  BY <1>4 DEF HandleMessage, HandleUpdate
<1> QED
  BY <1>6, <1>7, <1>8

-----------------------------------------------------------------------------
(* The handlers go on. *)

\* Nothing is sent: only the jobs change, and what was announced in vain.
LEMMA JobsMove ==
  ASSUME IInv, UNCHANGED <<page, socket, rest, up, down, server>>,
         UNCHANGED <<crossed, overtaken>>,
         IsABag(jobs'), Working' \subseteq News,
         \A j \in Due' : \E d \in Due : d.id = j.id,
         RowsOK', CastsAreCovered',
         missed \subseteq missed', missed' \in SUBSET Ids,
         Created \subseteq Created' \cup missed' \cup list
  PROVE  IInv'
<1> USE DEF page, socket, server
<1>1. Kinds /\ QueuesOK
  BY DEF IInv, Kinds
<1>2. Stored' = Stored /\ Requests' = Requests /\ Calls' = Calls /\ News' = News
  BY SameRows
<1>3. QueuesOK' /\ PageOK'
  BY <1>1, <1>2 DEF Kinds, QueuesOK, PageOK
<1>4. OfflineIsOut'
  <2>1. ASSUME ~connected, NEW j \in Working', j.kind = "joined"
        PROVE  FALSE
    BY <2>1 DEF Due, IInv, OfflineIsOut
  <2> QED
    BY <2>1 DEF IInv, OfflineIsOut
<1>5. MembersAreIn'
  BY MembersKept DEF IInv
<1>6. AllAreKnown'
  BY <1>2 DEF IInv, AllAreKnown
<1> QED
  BY <1>3, <1>4, <1>5, <1>6 DEF IInv, Kinds

LEMMA SnapshotRead ==
  ASSUME IInv, NEW j \in Working, ReadSnapshot(j)
  PROVE  IInv'
<1> DEFINE k == [j EXCEPT !.n = rows[j.id]]
<1>1. /\ j.kind \in {"joined", "updated"}
      /\ jobs' = (jobs (-) SetToBag({j})) (+) SetToBag({k})
      /\ UNCHANGED <<page, socket, rest, up, down, server, history>>
  BY DEF ReadSnapshot
<1> USE DEF page, socket, server, history
<1>2. Kinds /\ IsABag(jobs) /\ j \in News /\ Working \subseteq News
  BY DEF IInv, Kinds, QueuesOK
<1>3. rows[j.id] \in Nat
  BY <1>2, BoundsAssumption DEF Kinds, RowsOK, News, Stored
<1>4. k \in News /\ k.kind = j.kind /\ k.id = j.id
  <2> DEFINE T == [kind : {"created", "joined", "message", "updated"}, id : Stored, n : Nat]
  <2>1. j \in T
    BY <1>2 DEF News
  <2>2. k \in T /\ k.kind = j.kind /\ k.id = j.id /\ k.n = rows[j.id]
    BY <1>3, <2>1
  <2> HIDE DEF k
  <2> QED
    BY <1>1, <1>3, <2>2 DEF News
<1> HIDE DEF k
<1>5. IsABag(jobs') /\ Working' \subseteq Working \cup {k} /\ Working \subseteq Working' \cup {j}
  BY <1>1, <1>2, BagReplace DEF Working
<1>6. \A e \in Due' : \E d \in Due : d.id = e.id
  BY <1>4, <1>5 DEF Due
<1>7. Created \subseteq Created'
  BY <1>1, <1>5 DEF Created
<1>8. RowsOK' /\ missed \in SUBSET Ids
  BY <1>1, <1>2 DEF Kinds, RowsOK, PageOK
<1>9. CastsAreCovered'
  BY <1>1, CastsKept DEF IInv
<1> QED
  BY <1>1, <1>2, <1>4, <1>5, <1>6, <1>7, <1>8, <1>9, JobsMove

\* One of the jobs is done.
LEMMA JobIsDone ==
  ASSUME IInv, NEW j \in Working, jobs' = jobs (-) SetToBag({j})
  PROVE  /\ IsABag(jobs') /\ Working' \subseteq Working /\ Working \subseteq Working' \cup {j}
         /\ Due' \subseteq Due /\ j \in News /\ j.id \in Stored /\ j.id \in Ids
<1>1. IsABag(jobs) /\ Working \subseteq News
  BY DEF IInv, Kinds, QueuesOK
<1>2. IsABag(jobs') /\ Working' \subseteq Working /\ Working \subseteq Working' \cup {j}
  BY <1>1, BagRemove DEF Working
<1> QED
  BY <1>1, <1>2 DEF Due, News, Stored

LEMMA JobEndsUnheard ==
  ASSUME IInv, NEW j \in Working, jobs' = jobs (-) SetToBag({j}),
         UNCHANGED <<page, socket, rest, up, down, server, cast, crossed, overtaken>>,
         missed' = IF j.kind = "created" THEN missed \cup ({j.id} \ list) ELSE missed
  PROVE  IInv'
<1> USE DEF page, socket, server
<1>1. /\ IsABag(jobs') /\ Working' \subseteq Working /\ Working \subseteq Working' \cup {j}
      /\ Due' \subseteq Due /\ j.id \in Ids
  BY JobIsDone
<1>2. Working \subseteq News /\ RowsOK /\ missed \in SUBSET Ids
  BY DEF IInv, Kinds, QueuesOK, PageOK
<1>3. Created \subseteq Created' \cup missed' \cup list
  BY <1>1 DEF Created
<1>4. RowsOK'
  BY <1>2 DEF RowsOK
<1>5. CastsAreCovered'
  BY CastsKept DEF IInv
<1>6. missed' \in SUBSET Ids /\ missed \subseteq missed'
  BY <1>1, <1>2
<1> QED
  BY <1>1, <1>2, <1>3, <1>4, <1>5, <1>6, JobsMove

\* One message more on its way to the page.
LEMMA DownGrows ==
  ASSUME QueuesOK, NEW j \in News, down' = Append(down, j)
  PROVE  /\ down' \in Seq(News) /\ Len(down) \in Nat /\ Len(down') = Len(down) + 1
         /\ down'[Len(down) + 1] = j
         /\ \A n \in 1..Len(down) :
              n \in Nat /\ n < Len(down) + 1 /\ n \in 1..Len(down') /\ down'[n] = down[n]
         /\ \A n \in 1..Len(down') : n \in 1..Len(down) \/ n = Len(down) + 1
<1>1. /\ Append(down, j) \in Seq(News) /\ Len(down) \in Nat
      /\ Len(Append(down, j)) = Len(down) + 1
      /\ \A n \in 1..(Len(down) + 1) :
           Append(down, j)[n] = IF n = Len(down) + 1 THEN j ELSE down[n]
  BY AppendIs DEF QueuesOK
<1> QED
  BY <1>1

\* Of the snapshots to be shown to a member, only the last can be new.
LEMMA ComingGrows ==
  ASSUME QueuesOK, NEW j \in News, down' = Append(down, j), UNCHANGED joined
  PROVE  /\ Coming \subseteq Coming' /\ Coming' \subseteq Coming \cup {Len(down) + 1}
         /\ Len(down) + 1 \in Coming' =>
              j.kind \in {"joined", "updated"} /\ (j.kind = "joined" \/ joined \/ Coming # {})
         /\ j.kind \in {"joined", "updated"} /\ (joined \/ Coming # {}) =>
              Len(down) + 1 \in Coming'
<1> DEFINE L == Len(down)
<1>1. /\ L \in Nat /\ Len(down') = L + 1 /\ down'[L + 1] = j
      /\ \A n \in 1..L : n \in Nat /\ n < L + 1 /\ n \in 1..Len(down') /\ down'[n] = down[n]
      /\ \A n \in 1..Len(down') : n \in 1..L \/ n = L + 1
  BY DownGrows
<1> HIDE DEF L
<1>2. Coming = {n \in 1..L : /\ down[n].kind \in {"joined", "updated"}
                             /\ joined \/ \E m \in 1..n : down[m].kind = "joined"}
  BY DEF Coming, L
<1>3. Coming' = {n \in 1..(L + 1) : /\ down'[n].kind \in {"joined", "updated"}
                                    /\ joined \/ \E m \in 1..n : down'[m].kind = "joined"}
  BY <1>1 DEF Coming
<1>4. \A n \in 1..L : (\E m \in 1..n : down[m].kind = "joined")
                        <=> (\E m \in 1..n : down'[m].kind = "joined")
  <2>1. \A n \in 1..L : \A m \in 1..n : m \in 1..L
    BY <1>1
  <2> QED
    BY <1>1, <2>1
<1>5. \A n \in 1..L : n \in Coming <=> n \in Coming'
  BY <1>1, <1>2, <1>3, <1>4
<1>6. Coming \subseteq Coming' /\ Coming' \subseteq Coming \cup {L + 1}
  BY <1>1, <1>2, <1>3, <1>5
<1>7. ASSUME L + 1 \in Coming'
      PROVE  j.kind \in {"joined", "updated"} /\ (j.kind = "joined" \/ joined \/ Coming # {})
  <2>1. j.kind \in {"joined", "updated"}
    BY <1>1, <1>3, <1>7
  <2>2. ASSUME NEW m \in 1..(L + 1), down'[m].kind = "joined", j.kind # "joined"
        PROVE  Coming # {}
    <3>1. m \in 1..L /\ down[m].kind = "joined" /\ m \in 1..m
      BY <1>1, <2>2
    <3>2. m \in Coming
      BY <1>2, <3>1
    <3> QED
      BY <3>2
  <2> QED
    BY <1>3, <1>7, <2>1, <2>2
<1>8. ASSUME j.kind \in {"joined", "updated"}, joined \/ Coming # {}
      PROVE  L + 1 \in Coming'
  <2>1. ASSUME NEW n \in Coming
        PROVE  joined \/ \E m \in 1..(L + 1) : down'[m].kind = "joined"
    <3>1. CASE joined
      BY <3>1
    <3>2. ASSUME NEW m \in 1..n, down[m].kind = "joined"
          PROVE  \E k \in 1..(L + 1) : down'[k].kind = "joined"
      <4>1. m \in 1..L /\ m \in 1..(L + 1)
        BY <1>1, <1>2
      <4> QED
        BY <1>1, <3>2, <4>1
    <3> QED
      BY <1>2, <3>1, <3>2
  <2>2. L + 1 \in 1..(L + 1) /\ down'[L + 1].kind \in {"joined", "updated"}
    BY <1>1, <1>8
  <2> QED
    BY <1>3, <1>8, <2>1, <2>2
<1> QED
  BY <1>6, <1>7, <1>8 DEF L

LEMMA AwaitedGrows ==
  ASSUME QueuesOK, NEW j \in News, down' = Append(down, j)
  PROVE  /\ \A i, k : Awaited(i, k) \subseteq Awaited(i, k)'
         /\ j.kind = "message" => \A k \in 0..Len(down) : j.n \in Awaited(j.id, k)'
<1> DEFINE L == Len(down)
<1>1. /\ L \in Nat /\ Len(down') = L + 1 /\ down'[L + 1] = j
      /\ \A n \in 1..L : n \in Nat /\ n < L + 1 /\ n \in 1..Len(down') /\ down'[n] = down[n]
  BY DownGrows
<1>2. ASSUME NEW i, NEW k
      PROVE  Awaited(i, k) \subseteq Awaited(i, k)'
  BY <1>1 DEF Awaited
<1>3. ASSUME NEW k \in 0..L, j.kind = "message"
      PROVE  j.n \in Awaited(j.id, k)'
  <2>1. L + 1 \in 1..Len(down') /\ L + 1 > k
    BY <1>1
  <2> QED
    BY <1>1, <1>3, <2>1 DEF Awaited
<1> QED
  BY <1>2, <1>3

\* Whoever hears of a room is in it, or joins it.
LEMMA MembersHear ==
  ASSUME IInv, NEW j \in Working, down' = Append(down, j),
         UNCHANGED <<joined, shown, up, rooms, crossed, dropped>>, Due' \subseteq Due,
         j.kind \in {"joined", "created"} \/ j.id \in rooms
  PROVE  MembersAreIn'
<1> SUFFICES ASSUME ~crossed, ~dropped
             PROVE  MembersAreIn'
  BY DEF MembersAreIn
<1> DEFINE L == Len(down)
<1>1. QueuesOK /\ MembersAreIn /\ j \in News
  BY DEF IInv, Kinds, QueuesOK
<1>2. /\ L \in Nat /\ down'[L + 1] = j
      /\ \A n \in 1..L : n < L + 1 /\ down'[n] = down[n]
  BY <1>1, DownGrows
<1>3. /\ Coming' \subseteq Coming \cup {L + 1}
      /\ L + 1 \in Coming' =>
           j.kind \in {"joined", "updated"} /\ (j.kind = "joined" \/ joined \/ Coming # {})
  BY <1>1, ComingGrows
<1> HIDE DEF L
<1>4. j.kind = "joined" => j \in Due
  BY DEF Due
<1>5. Coming \subseteq 1..L
  BY DEF Coming, L
<1>6. ASSUME joined \/ Coming' # {} \/ Due' # {}
      PROVE  Leaving' = {}
  <2>1. joined \/ Coming # {} \/ Due # {}
    BY <1>3, <1>4, <1>6
  <2> QED
    BY <1>1, <2>1 DEF MembersAreIn, Leaving
<1>7. ASSUME NEW n \in Coming'
      PROVE  down'[n].id \in rooms'
  <2>1. CASE n \in Coming
    BY <1>1, <1>2, <1>5, <2>1 DEF MembersAreIn
  <2>2. CASE n = L + 1
    BY <1>1, <1>2, <1>3, <1>4, <1>7, <2>2 DEF MembersAreIn
  <2> QED
    BY <1>3, <2>1, <2>2
<1> QED
  BY <1>1, <1>6, <1>7 DEF MembersAreIn

\* A message is sent down.
LEMMA JobIsHeard ==
  ASSUME IInv, NEW j \in Working, jobs' = jobs (-) SetToBag({j}),
         down' = Append(down, j), connected,
         UNCHANGED <<page, socket, rest, up, server, crossed, missed>>,
         j.kind \in {"joined", "created"} \/ j.id \in rooms,
         RowsOK', CastsAreCovered', overtaken' \in SUBSET Ids
  PROVE  IInv'
<1> USE DEF page, socket, server
<1>1. /\ IsABag(jobs') /\ Working' \subseteq Working /\ Working \subseteq Working' \cup {j}
      /\ Due' \subseteq Due /\ j \in News
  BY JobIsDone
<1>2. Kinds /\ QueuesOK
  BY DEF IInv, Kinds
<1>3. Stored' = Stored /\ Requests' = Requests /\ Calls' = Calls /\ News' = News
  BY SameRows
<1>4. /\ down' \in Seq(News) /\ Len(down) \in Nat
      /\ down'[Len(down) + 1] = j /\ Len(down) + 1 \in 1..Len(down')
      /\ \A n \in 1..Len(down) : n \in 1..Len(down') /\ down'[n] = down[n]
  BY <1>1, <1>2, DownGrows
<1>5. QueuesOK' /\ PageOK'
  BY <1>1, <1>2, <1>3, <1>4 DEF Kinds, QueuesOK, PageOK
<1>6. OfflineIsOut'
  BY DEF IInv, OfflineIsOut
<1>7. MembersAreIn'
  BY <1>1, MembersHear
<1>8. Created \subseteq Created'
  BY <1>1, <1>4 DEF Created
<1>9. AllAreKnown'
  BY <1>3, <1>8 DEF IInv, AllAreKnown
<1> QED
  BY <1>5, <1>6, <1>7, <1>9 DEF IInv, Kinds

LEMMA AnnouncementEnds ==
  ASSUME IInv, NEW j \in Working, FailJob(j) \/ Announce(j)
  PROVE  IInv'
<1>1. /\ jobs' = jobs (-) SetToBag({j})
      /\ UNCHANGED <<page, socket, rest, up, server, cast, crossed, overtaken>>
  BY DEF FailJob, Announce, Finish
<1>2. j \in News /\ QueuesOK /\ Kinds
  BY DEF IInv, Kinds, QueuesOK
<1>3. CASE FailJob(j) \/ ~feed
  <2>1. /\ missed' = IF j.kind = "created" THEN missed \cup ({j.id} \ list) ELSE missed
        /\ UNCHANGED down
    BY <1>3 DEF FailJob, Announce
  <2> QED
    BY <1>1, <2>1, JobEndsUnheard
<1>4. CASE Announce(j) /\ feed
  <2>1. j.kind = "created" /\ down' = Append(down, j) /\ UNCHANGED missed
    BY <1>4 DEF Announce, SendDown
  <2>2. connected
    BY <1>4 DEF IInv, OfflineIsOut
  <2>3. RowsOK' /\ overtaken' \in SUBSET Ids
    BY <1>1, <1>2 DEF Kinds, RowsOK, PageOK, server
  <2>4. CastsAreCovered'
    <3> DEFINE L == Len(down)
    <3>1. /\ L \in Nat
          /\ \A n \in 1..L : n < L + 1 /\ down'[n] = down[n]
      BY <1>2, <2>1, DownGrows
    <3>2. Coming' = Coming
      BY <1>1, <1>2, <2>1, ComingGrows DEF page
    <3>3. \A i, k : Awaited(i, k) \subseteq Awaited(i, k)'
      BY <1>2, <2>1, AwaitedGrows
    <3>4. \A n \in Coming : down'[n] = down[n]
      BY <3>1 DEF Coming
    <3> HIDE DEF L
    <3> QED
      BY <1>1, <3>2, <3>3, <3>4 DEF page, socket, IInv, CastsAreCovered
  <2> QED
    BY <1>1, <2>1, <2>2, <2>3, <2>4, JobIsHeard
<1> QED
  BY <1>3, <1>4

\* What is broadcast in a room comes after every snapshot on its way.
LEMMA MessageSent ==
  ASSUME IInv, NEW j \in Working, BroadcastMessage(j)
  PROVE  IInv'
<1>1. /\ j.kind = "message" /\ jobs' = jobs (-) SetToBag({j})
      /\ cast' = [cast EXCEPT ![j.id] = cast[j.id] \cup {j.n}]
      /\ UNCHANGED <<page, socket, rest, up, server, crossed, overtaken, missed>>
  BY DEF BroadcastMessage, Finish
<1> USE DEF page, socket, server
<1>2. j \in News /\ QueuesOK /\ Kinds /\ MembersAreIn /\ CastsAreCovered
  BY DEF IInv, Kinds, QueuesOK
<1>3. j.id \in Ids /\ j.n \in 1..rows[j.id] /\ j.n \in Nat
  <2>1. j.id \in Ids /\ j.n \in Nat /\ j.n > 0 /\ j.n <= rows[j.id]
    BY <1>1, <1>2 DEF News, Stored
  <2>2. rows[j.id] \in Nat
    BY <1>2, <2>1, BoundsAssumption DEF Kinds, RowsOK
  <2> QED
    BY <2>1, <2>2
<1>4. /\ cast'[j.id] = cast[j.id] \cup {j.n}
      /\ \A i \in Ids : i # j.id => cast'[i] = cast[i]
      /\ cast' \in [Ids -> SUBSET Nat]
  BY <1>1, <1>2, <1>3 DEF Kinds, RowsOK
<1>5. RowsOK'
  BY <1>1, <1>2, <1>3, <1>4 DEF Kinds, RowsOK
<1>6. /\ overtaken' \in SUBSET Ids /\ missed' \in SUBSET Ids
      /\ \A n \in Coming : n \in 1..Len(down) /\ down[n].id \in Ids
      /\ joined => shown.id \in Ids \cup {None}
  <2>1. \A n \in 1..Len(down) : down[n] \in News
    BY <1>2, ElementOfSeq DEF QueuesOK
  <2> QED
    BY <1>1, <1>2, <2>1 DEF Kinds, PageOK, Coming, News, Stored
<1>7. CASE j.id \notin rooms
  <2>1. down' = down
    BY <1>7 DEF BroadcastMessage
  <2>2. CastsAreCovered'
    <3> SUFFICES ASSUME ~crossed, ~dropped
                 PROVE  CastsAreCovered'
      BY <1>1 DEF CastsAreCovered
    <3>1. Coming' = Coming
      BY <1>1, <2>1 DEF Coming
    <3>2. \A i, k : Awaited(i, k)' = Awaited(i, k)
      BY <2>1 DEF Awaited
    <3>3. \A n \in Coming : down[n].id # j.id
      BY <1>2, <1>7 DEF MembersAreIn
    <3>4. joined => shown.id # j.id
      BY <1>2, <1>7 DEF MembersAreIn
    <3> QED
      BY <1>1, <1>2, <1>4, <2>1, <3>1, <3>2, <3>3, <3>4 DEF CastsAreCovered
  <2>3. /\ IsABag(jobs') /\ Working' \subseteq Working /\ Working \subseteq Working' \cup {j}
        /\ Due' \subseteq Due
    BY <1>1, JobIsDone
  <2>4. Created \subseteq Created'
    BY <1>1, <2>1, <2>3 DEF Created
  <2>5. Working' \subseteq News
    BY <1>2, <2>3 DEF QueuesOK
  <2> QED
    BY <1>1, <1>5, <1>6, <2>1, <2>2, <2>3, <2>4, <2>5, JobsMove
<1>8. CASE j.id \in rooms
  <2>1. down' = Append(down, j)
    BY <1>8 DEF BroadcastMessage, SendDown
  <2>2. connected
    BY <1>8 DEF IInv, OfflineIsOut
  <2>3. CastsAreCovered'
    <3> SUFFICES ASSUME ~crossed, ~dropped
                 PROVE  CastsAreCovered'
      BY <1>1 DEF CastsAreCovered
    <3> DEFINE L == Len(down)
    <3>1. L \in Nat /\ \A n \in 1..L : n \in 0..L /\ down'[n] = down[n]
      BY <1>2, <2>1, DownGrows
    <3>2. Coming' = Coming
      BY <1>1, <1>2, <2>1, ComingGrows
    <3>3. /\ \A i, k : Awaited(i, k) \subseteq Awaited(i, k)'
          /\ \A k \in 0..L : j.n \in Awaited(j.id, k)'
      BY <1>1, <1>2, <2>1, AwaitedGrows
    <3>4. \A n \in Coming : n \in 0..L /\ down'[n] = down[n]
      BY <3>1, <1>6
    <3>5. 0 \in 0..L
      BY <3>1
    <3> HIDE DEF L
    <3>6. \A i \in Ids : \A r \in cast'[i] : r \in cast[i] \/ (i = j.id /\ r = j.n)
      BY <1>4
    <3>7. ASSUME NEW n \in Coming, NEW i \in Ids, i = down[n].id, i \notin overtaken,
                 \A k \in Coming : k > n => down[k].id # i, NEW r \in cast'[i]
          PROVE  r \in 1..down[n].n \/ r \in Awaited(i, n)'
      <4>1. CASE r \in cast[i]
        <5>1. r \in 1..down[n].n \/ r \in Awaited(i, n)
          BY <1>2, <3>7, <4>1 DEF CastsAreCovered
        <5> QED
          BY <3>3, <5>1
      <4>2. CASE i = j.id /\ r = j.n
        BY <3>3, <3>4, <4>2
      <4> QED
        BY <3>6, <3>7, <4>1, <4>2
    <3>8. ASSUME NEW i \in Ids, joined, i = shown.id, i \notin overtaken,
                 \A k \in Coming : down[k].id # i, NEW r \in cast'[i]
          PROVE  <<i, r>> \in shown.rows \/ r \in Awaited(i, 0)'
      <4>1. CASE r \in cast[i]
        <5>1. <<i, r>> \in shown.rows \/ r \in Awaited(i, 0)
          BY <1>2, <3>8, <4>1 DEF CastsAreCovered
        <5> QED
          BY <3>3, <5>1
      <4>2. CASE i = j.id /\ r = j.n
        BY <3>3, <3>5, <4>2
      <4> QED
        BY <3>6, <3>8, <4>1, <4>2
    <3> QED
      BY <1>1, <3>2, <3>4, <3>7, <3>8 DEF CastsAreCovered
  <2> QED
    BY <1>1, <1>5, <1>6, <1>8, <2>1, <2>2, <2>3, JobIsHeard
<1> QED
  BY <1>7, <1>8

\* A snapshot on its way is the last for its room, and covers what was
\* broadcast there unless it is overtaken.
LEMMA SnapshotSent ==
  ASSUME IInv, NEW j \in Working, SendSnapshot(j)
  PROVE  IInv'
<1>1. /\ j.kind \in {"joined", "updated"} /\ jobs' = jobs (-) SetToBag({j})
      /\ UNCHANGED <<page, socket, rest, up, server, cast, crossed, missed>>
  BY DEF SendSnapshot, Finish
<1> USE DEF page, socket, server
<1>2. j \in News /\ QueuesOK /\ Kinds /\ MembersAreIn /\ CastsAreCovered
  BY DEF IInv, Kinds, QueuesOK
<1>3. RowsOK'
  BY <1>1, <1>2 DEF Kinds, RowsOK
<1>4. CASE ~(j.kind = "joined" \/ j.id \in rooms)
  <2>1. UNCHANGED <<down, overtaken>>
    BY <1>4 DEF SendSnapshot
  <2>2. missed' = IF j.kind = "created" THEN missed \cup ({j.id} \ list) ELSE missed
    BY <1>1
  <2> QED
    BY <1>1, <2>1, <2>2, JobEndsUnheard
<1>5. CASE j.kind = "joined" \/ j.id \in rooms
  <2>1. /\ down' = Append(down, j)
        /\ overtaken' = IF cast[j.id] \subseteq 1..j.n
                          THEN overtaken \ {j.id} ELSE overtaken \cup {j.id}
    BY <1>5 DEF SendSnapshot, SendDown
  <2>2. connected
    BY <1>5 DEF IInv, OfflineIsOut
  <2>3. overtaken' \in SUBSET Ids
    BY <1>2, <2>1 DEF Kinds, PageOK, News, Stored
  <2>4. CastsAreCovered'
    <3> SUFFICES ASSUME ~crossed, ~dropped
                 PROVE  CastsAreCovered'
      BY <1>1 DEF CastsAreCovered
    <3> DEFINE L == Len(down)
    <3>1. /\ L \in Nat /\ down'[L + 1] = j
          /\ \A n \in 1..L : n < L + 1 /\ down'[n] = down[n]
      BY <1>2, <2>1, DownGrows
    <3>2. /\ Coming \subseteq Coming' /\ Coming' \subseteq Coming \cup {L + 1}
          /\ joined \/ Coming # {} => L + 1 \in Coming'
      BY <1>1, <1>2, <2>1, ComingGrows
    <3>3. \A i, k : Awaited(i, k) \subseteq Awaited(i, k)'
      BY <1>2, <2>1, AwaitedGrows
    <3>4. \A n \in Coming : n \in 1..L
      BY DEF Coming
    <3> HIDE DEF L
    <3>5. \A i \in Ids : i # j.id /\ i \notin overtaken' => i \notin overtaken
      BY <2>1
    <3>6. j.id \notin overtaken' => cast[j.id] \subseteq 1..j.n
      BY <2>1
    <3>7. ASSUME NEW n \in Coming', NEW i \in Ids, i = down'[n].id, i \notin overtaken',
                 \A k \in Coming' : k > n => down'[k].id # i, NEW r \in cast[i]
          PROVE  r \in 1..down'[n].n \/ r \in Awaited(i, n)'
      <4>1. CASE n = L + 1
        BY <3>1, <3>6, <3>7, <4>1
      <4>2. CASE n \in Coming
        <5>1. L + 1 \in Coming' /\ n \in 1..L /\ n < L + 1 /\ down'[n] = down[n]
          BY <3>1, <3>2, <3>4, <4>2
        <5>2. L + 1 > n
          BY <3>1, <5>1
        <5>3. i # j.id
          BY <3>1, <3>7, <5>1, <5>2
        <5>4. \A k \in Coming : k > n => down[k].id # i
          BY <3>1, <3>2, <3>4, <3>7
        <5>5. r \in 1..down[n].n \/ r \in Awaited(i, n)
          BY <1>2, <3>5, <3>7, <4>2, <5>1, <5>3, <5>4 DEF CastsAreCovered
        <5> QED
          BY <3>3, <5>1, <5>5
      <4> QED
        BY <3>2, <4>1, <4>2
    <3>8. ASSUME NEW i \in Ids, joined, i = shown.id, i \notin overtaken',
                 \A k \in Coming' : down'[k].id # i, NEW r \in cast[i]
          PROVE  <<i, r>> \in shown.rows \/ r \in Awaited(i, 0)'
      <4>1. i # j.id
        BY <3>1, <3>2, <3>8
      <4>2. \A k \in Coming : down[k].id # i
        BY <3>1, <3>2, <3>4, <3>8
      <4>3. <<i, r>> \in shown.rows \/ r \in Awaited(i, 0)
        BY <1>2, <3>5, <3>8, <4>1, <4>2 DEF CastsAreCovered
      <4> QED
        BY <3>3, <4>3
    <3> QED
      BY <1>1, <3>7, <3>8 DEF CastsAreCovered
  <2> QED
    BY <1>1, <1>3, <1>5, <2>1, <2>2, <2>3, <2>4, JobIsHeard
<1> QED
  BY <1>4, <1>5

-----------------------------------------------------------------------------
(* The page hears of it. *)

\* A message from the server: what each of the four handlers does with it.
Hears == HearCreated \/ HearJoined \/ HearMessage \/ HearUpdated

LEMMA HeardIs ==
  ASSUME IInv, Hears
  PROVE  /\ down # <<>> /\ down' = Tail(down) /\ connected
         /\ joined' <=> joined \/ Head(down).kind = "joined"
         /\ UNCHANGED <<selected, socket, rest, up, server, jobs>>
         /\ UNCHANGED <<cast, crossed, overtaken>>
         /\ \/ /\ Head(down).kind \in {"joined", "updated"}
               /\ shown' = [id |-> Head(down).id, rows |-> Rows(Head(down).id, Head(down).n)]
            \/ Head(down).kind = "created" /\ shown' = shown
            \/ /\ Head(down).kind = "message"
               /\ shown' = IF shown.id = None THEN shown
                           ELSE [shown EXCEPT !.rows = @ \cup {<<Head(down).id, Head(down).n>>}]
         /\ list \subseteq list' /\ list' \subseteq list \cup {Head(down).id}
         /\ Head(down).kind = "created" => Head(down).id \in list'
         /\ missed' \subseteq missed /\ missed \subseteq missed' \cup list'
<1>1. down # <<>>
  BY DEF Hears, HearCreated, HearJoined, HearMessage, HearUpdated, Hear
<1>2. connected
  BY <1>1 DEF IInv, OfflineIsOut
<1>3. CASE HearCreated
  BY <1>1, <1>2, <1>3 DEF HearCreated, Hear, Upsert
<1>4. CASE HearJoined
  BY <1>1, <1>2, <1>4 DEF HearJoined, Hear, history
<1>5. CASE HearMessage
  BY <1>1, <1>2, <1>5 DEF HearMessage, Hear, history
<1>6. CASE HearUpdated
  BY <1>1, <1>2, <1>6 DEF HearUpdated, Hear, Upsert
<1> QED
  BY <1>3, <1>4, <1>5, <1>6 DEF Hears

LEMMA DownShifts ==
  ASSUME QueuesOK, down # <<>>, down' = Tail(down)
  PROVE  /\ down' \in Seq(News) /\ Head(down) = down[1] /\ down[1] \in News
         /\ 1 \in 1..Len(down)
         /\ \A n \in 1..Len(down') : n + 1 \in 1..Len(down) /\ down'[n] = down[n + 1]
         /\ \A n \in 1..Len(down) :
              n # 1 => n - 1 \in 1..Len(down') /\ down'[n - 1] = down[n]
<1>1. /\ Tail(down) \in Seq(News) /\ Len(down) \in Nat \ {0}
      /\ Head(down) = down[1] /\ down[1] \in News
      /\ Len(Tail(down)) = Len(down) - 1
      /\ \A n \in 1..(Len(down) - 1) : Tail(down)[n] = down[n + 1]
  BY TailIs DEF QueuesOK
<1>2. \A n \in 1..Len(down) : n # 1 => n - 1 \in 1..(Len(down) - 1) /\ (n - 1) + 1 = n
  BY <1>1
<1>3. \A n \in 1..Len(down) : n # 1 => n - 1 \in 1..Len(down') /\ down'[n - 1] = down[n]
  BY <1>1, <1>2
<1> QED
  BY <1>1, <1>3

\* The snapshots to be shown to a member are the same but for the first.
LEMMA ComingShifts ==
  ASSUME QueuesOK, down # <<>>, down' = Tail(down),
         joined' <=> joined \/ Head(down).kind = "joined"
  PROVE  /\ \A n \in Coming' : n \in Nat /\ n + 1 \in Coming /\ down'[n] = down[n + 1]
         /\ \A n \in Coming : n # 1 => n - 1 \in Coming' /\ down'[n - 1] = down[n]
         /\ Head(down).kind = "joined" => 1 \in Coming
         /\ Head(down).kind = "updated" /\ joined => 1 \in Coming
         /\ 1 \in Coming => Head(down).kind \in {"joined", "updated"}
<1>1. /\ Head(down) = down[1] /\ 1 \in 1..Len(down) /\ 1 \in 1..1
      /\ \A n \in 1..Len(down') : n + 1 \in 1..Len(down) /\ down'[n] = down[n + 1]
      /\ \A n \in 1..Len(down) :
           n # 1 => n - 1 \in 1..Len(down') /\ down'[n - 1] = down[n]
  BY DownShifts
<1>2. Len(down) \in Nat /\ Len(down') \in Nat
  BY DownShifts, LenProperties DEF QueuesOK
<1>3. ASSUME NEW n \in Coming'
      PROVE  n \in Nat /\ n + 1 \in Coming /\ down'[n] = down[n + 1]
  <2>1. n \in 1..Len(down') /\ down'[n].kind \in {"joined", "updated"}
    BY <1>3 DEF Coming
  <2>2. n + 1 \in 1..Len(down) /\ down'[n] = down[n + 1] /\ n \in Nat
    BY <1>1, <1>2, <2>1
  <2>3. joined \/ \E m \in 1..(n + 1) : down[m].kind = "joined"
    <3>1. CASE joined'
      <4>1. joined \/ down[1].kind = "joined"
        BY <1>1, <3>1
      <4>2. 1 \in 1..(n + 1)
        BY <2>2
      <4> QED
        BY <4>1, <4>2
    <3>2. ASSUME NEW m \in 1..n, down'[m].kind = "joined"
          PROVE  \E k \in 1..(n + 1) : down[k].kind = "joined"
      <4>1. m \in 1..Len(down') /\ m + 1 \in 1..(n + 1)
        BY <1>2, <2>1
      <4> QED
        BY <1>1, <3>2, <4>1
    <3> QED
      BY <1>3, <3>1, <3>2 DEF Coming
  <2> QED
    BY <2>1, <2>2, <2>3 DEF Coming
<1>4. ASSUME NEW n \in Coming, n # 1
      PROVE  n - 1 \in Coming' /\ down'[n - 1] = down[n]
  <2>1. n \in 1..Len(down) /\ down[n].kind \in {"joined", "updated"}
    BY DEF Coming
  <2>2. n - 1 \in 1..Len(down') /\ down'[n - 1] = down[n] /\ n \in Nat
    BY <1>1, <1>2, <1>4, <2>1
  <2>3. joined' \/ \E m \in 1..(n - 1) : down'[m].kind = "joined"
    <3>1. CASE joined
      BY <3>1
    <3>2. ASSUME NEW m \in 1..n, down[m].kind = "joined"
          PROVE  joined' \/ \E k \in 1..(n - 1) : down'[k].kind = "joined"
      <4>1. CASE m = 1
        BY <1>1, <3>2, <4>1
      <4>2. CASE m # 1
        <5>1. m \in 1..Len(down) /\ m - 1 \in 1..(n - 1)
          BY <1>2, <2>1, <4>2
        <5> QED
          BY <1>1, <3>2, <4>2, <5>1
      <4> QED
        BY <4>1, <4>2
    <3> QED
      BY <3>1, <3>2 DEF Coming
  <2> QED
    BY <2>1, <2>2, <2>3 DEF Coming
<1>5. /\ Head(down).kind = "joined" => 1 \in Coming
      /\ Head(down).kind = "updated" /\ joined => 1 \in Coming
      /\ 1 \in Coming => Head(down).kind \in {"joined", "updated"}
  BY <1>1 DEF Coming
<1> QED
  BY <1>3, <1>4, <1>5

LEMMA AwaitedShifts ==
  ASSUME QueuesOK, down # <<>>, down' = Tail(down)
  PROVE  /\ \A i : \A k \in Nat : Awaited(i, k + 1) \subseteq Awaited(i, k)'
         /\ \A i : \A r \in Awaited(i, 0) :
              \/ r \in Awaited(i, 0)'
              \/ Head(down).kind = "message" /\ Head(down).id = i /\ Head(down).n = r
<1>1. /\ Head(down) = down[1] /\ 1 \in 1..Len(down)
      /\ \A n \in 1..Len(down) :
           n # 1 => n - 1 \in 1..Len(down') /\ down'[n - 1] = down[n]
  BY DownShifts
<1>2. Len(down) \in Nat
  BY LenProperties DEF QueuesOK
<1>3. ASSUME NEW i, NEW k \in Nat, NEW n \in 1..Len(down), n > k + 1,
             down[n].kind = "message", down[n].id = i
      PROVE  down[n].n \in Awaited(i, k)'
  <2>1. n - 1 \in 1..Len(down') /\ down'[n - 1] = down[n] /\ n - 1 > k
    BY <1>1, <1>2, <1>3
  <2> QED
    BY <1>3, <2>1 DEF Awaited
<1>4. ASSUME NEW i, NEW k \in Nat, NEW r \in Awaited(i, k + 1)
      PROVE  r \in Awaited(i, k)'
  <2>1. PICK n \in 1..Len(down) :
          n > k + 1 /\ down[n].kind = "message" /\ down[n].id = i /\ r = down[n].n
    BY <1>4 DEF Awaited
  <2> QED
    BY <1>3, <2>1
<1>5. ASSUME NEW i, NEW r \in Awaited(i, 0)
      PROVE  \/ r \in Awaited(i, 0)'
             \/ Head(down).kind = "message" /\ Head(down).id = i /\ Head(down).n = r
  <2>1. PICK n \in 1..Len(down) :
          n > 0 /\ down[n].kind = "message" /\ down[n].id = i /\ r = down[n].n
    BY <1>5 DEF Awaited
  <2>2. CASE n = 1
    BY <1>1, <2>1, <2>2
  <2>3. CASE n # 1
    <3>1. n > 0 + 1 /\ 0 \in Nat
      BY <1>2, <2>3
    <3> QED
      BY <1>3, <2>1, <3>1
  <2> QED
    BY <2>2, <2>3
<1> QED
  BY <1>4, <1>5

LEMMA MembersHeard ==
  ASSUME IInv, Hears
  PROVE  MembersAreIn'
<1> SUFFICES ASSUME ~crossed, ~dropped
             PROVE  MembersAreIn'
  BY HeardIs DEF MembersAreIn, socket
<1>1. QueuesOK /\ MembersAreIn /\ shown = [id |-> shown.id, rows |-> shown.rows]
  BY DEF IInv, Kinds, PageOK
<1>2. /\ down # <<>> /\ down' = Tail(down)
      /\ joined' <=> joined \/ Head(down).kind = "joined"
      /\ UNCHANGED <<up, rooms, jobs, crossed, dropped>>
  BY HeardIs DEF server, socket
<1>3. /\ \A n \in Coming' : n + 1 \in Coming /\ down'[n] = down[n + 1]
      /\ Head(down).kind = "joined" => 1 \in Coming
      /\ Head(down).kind = "updated" /\ joined => 1 \in Coming
  BY <1>1, <1>2, ComingShifts
<1>4. Head(down) = down[1]
  BY <1>1, <1>2, DownShifts
<1>5. Due' = Due /\ Leaving' = Leaving
  BY <1>2 DEF Due, Working, Leaving
<1>6. joined' \/ Coming' # {} \/ Due' # {} => joined \/ Coming # {} \/ Due # {}
  BY <1>2, <1>3, <1>5
<1>7. shown'.id = shown.id
        \/ (Head(down).kind \in {"joined", "updated"} /\ shown'.id = Head(down).id)
  BY <1>1, HeardIs
<1>8. joined' => shown'.id \in rooms
  <2>1. CASE Head(down).kind \in {"joined", "updated"} /\ shown'.id = Head(down).id
    BY <1>1, <1>2, <1>3, <1>4, <2>1 DEF MembersAreIn
  <2>2. CASE shown'.id = shown.id /\ Head(down).kind # "joined"
    BY <1>1, <1>2, <2>2 DEF MembersAreIn
  <2>3. CASE Head(down).kind = "joined"
    BY <2>1, <2>3, HeardIs
  <2> QED
    BY <1>7, <2>1, <2>2, <2>3
<1> QED
  BY <1>1, <1>2, <1>3, <1>5, <1>6, <1>8 DEF MembersAreIn

LEMMA CastsHeard ==
  ASSUME IInv, Hears
  PROVE  CastsAreCovered'
<1> SUFFICES ASSUME ~crossed, ~dropped
             PROVE  CastsAreCovered'
  BY HeardIs DEF CastsAreCovered, socket
<1>1. /\ QueuesOK /\ CastsAreCovered
      /\ shown = [id |-> shown.id, rows |-> shown.rows]
  BY DEF IInv, Kinds, PageOK
<1>2. /\ down # <<>> /\ down' = Tail(down)
      /\ joined' <=> joined \/ Head(down).kind = "joined"
      /\ UNCHANGED <<cast, crossed, dropped, overtaken>>
  BY HeardIs DEF socket
<1>3. /\ \A n \in Coming' : n \in Nat /\ n + 1 \in Coming /\ down'[n] = down[n + 1]
      /\ \A n \in Coming : n # 1 => n - 1 \in Coming' /\ down'[n - 1] = down[n]
      /\ Head(down).kind = "joined" => 1 \in Coming
      /\ Head(down).kind = "updated" /\ joined => 1 \in Coming
      /\ 1 \in Coming => Head(down).kind \in {"joined", "updated"}
  BY <1>1, <1>2, ComingShifts
<1>4. Head(down) = down[1] /\ down[1] \in News
  BY <1>1, <1>2, DownShifts
<1>5. /\ \A i : \A k \in Nat : Awaited(i, k + 1) \subseteq Awaited(i, k)'
      /\ \A i : \A r \in Awaited(i, 0) :
           \/ r \in Awaited(i, 0)'
           \/ Head(down).kind = "message" /\ Head(down).id = i /\ Head(down).n = r
  BY <1>1, <1>2, AwaitedShifts
<1>6. \A n \in Coming : n \in Nat /\ n >= 1
  <2>1. Len(down) \in Nat
    BY <1>1, LenProperties DEF QueuesOK
  <2> QED
    BY <2>1 DEF Coming
<1>7. ASSUME NEW n \in Coming', NEW i \in Ids, i = down'[n].id, i \notin overtaken,
             \A k \in Coming' : k > n => down'[k].id # i, NEW r \in cast[i]
      PROVE  r \in 1..down'[n].n \/ r \in Awaited(i, n)'
  <2>1. n \in Nat /\ n + 1 \in Coming /\ down'[n] = down[n + 1]
    BY <1>3
  <2>2. \A k \in Coming : k > n + 1 => down[k].id # i
    <3>1. ASSUME NEW k \in Coming, k > n + 1
          PROVE  down[k].id # i
      <4>1. k # 1 /\ k - 1 > n
        BY <1>6, <2>1, <3>1
      <4> QED
        BY <1>3, <1>7, <4>1
    <3> QED
      BY <3>1
  <2>3. r \in 1..down[n + 1].n \/ r \in Awaited(i, n + 1)
    BY <1>1, <1>7, <2>1, <2>2 DEF CastsAreCovered
  <2> QED
    BY <1>5, <2>1, <2>3
<1>8. ASSUME NEW i \in Ids, joined', i = shown'.id, i \notin overtaken,
             \A k \in Coming' : down'[k].id # i, NEW r \in cast[i]
      PROVE  <<i, r>> \in shown'.rows \/ r \in Awaited(i, 0)'
  <2>1. \A k \in Coming : k # 1 => down[k].id # i
    BY <1>3, <1>8
  <2>2. CASE Head(down).kind \in {"joined", "updated"}
    <3>1. 1 \in Coming
      BY <1>2, <1>3, <1>8, <2>2
    <3>2. shown' = [id |-> down[1].id, rows |-> Rows(down[1].id, down[1].n)]
      BY <1>4, <2>2, HeardIs
    <3>3. i = down[1].id /\ shown'.rows = Rows(i, down[1].n)
      BY <1>8, <3>2
    <3>4. \A k \in Coming : k > 1 => down[k].id # i
      BY <1>6, <2>1
    <3>5. r \in 1..down[1].n \/ r \in Awaited(i, 1)
      BY <1>1, <1>8, <3>1, <3>3, <3>4 DEF CastsAreCovered
    <3>6. Awaited(i, 0 + 1) \subseteq Awaited(i, 0)' /\ 0 + 1 = 1
      BY <1>5
    <3> QED
      BY <3>3, <3>5, <3>6 DEF Rows
  <2>3. CASE Head(down).kind \in {"created", "message"}
    <3>1. joined /\ 1 \notin Coming
      BY <1>2, <1>3, <1>8, <2>3
    <3>2. shown'.id = shown.id /\ shown.rows \subseteq shown'.rows
      BY <1>1, <2>3, HeardIs
    <3>3. \A k \in Coming : down[k].id # i
      BY <2>1, <3>1
    <3>4. <<i, r>> \in shown.rows \/ r \in Awaited(i, 0)
      BY <1>1, <1>8, <3>1, <3>2, <3>3 DEF CastsAreCovered
    <3>5. ASSUME Head(down).kind = "message", Head(down).id = i, Head(down).n = r
          PROVE  <<i, r>> \in shown'.rows
      <4>1. shown.id # None
        BY <1>8, <3>2, NoneAssumption
      <4>2. shown' = [shown EXCEPT !.rows = @ \cup {<<i, r>>}]
        BY <3>5, <4>1, HeardIs
      <4> QED
        BY <1>1, <4>2
    <3> QED
      BY <1>5, <3>2, <3>4, <3>5
  <2>4. Head(down).kind \in {"created", "joined", "message", "updated"}
    BY <1>4 DEF News
  <2> QED
    BY <2>2, <2>3, <2>4
<1> QED
  BY <1>2, <1>7, <1>8 DEF CastsAreCovered

LEMMA Heard ==
  ASSUME IInv, Hears
  PROVE  IInv'
<1>1. Kinds /\ QueuesOK
  BY DEF IInv, Kinds
<1>2. /\ down # <<>> /\ down' = Tail(down) /\ connected
      /\ joined' <=> joined \/ Head(down).kind = "joined"
      /\ UNCHANGED <<selected, socket, rest, up, server, jobs>>
      /\ UNCHANGED <<cast, crossed, overtaken>>
      /\ list \subseteq list' /\ list' \subseteq list \cup {Head(down).id}
      /\ Head(down).kind = "created" => Head(down).id \in list'
      /\ missed' \subseteq missed /\ missed \subseteq missed' \cup list'
  BY HeardIs
<1> USE DEF socket, server
<1>3. /\ down' \in Seq(News) /\ Head(down) = down[1] /\ down[1] \in News
      /\ \A n \in 1..Len(down) :
           n # 1 => n - 1 \in 1..Len(down') /\ down'[n - 1] = down[n]
  BY <1>1, <1>2, DownShifts
<1> DEFINE h == Head(down)
<1>4. /\ h.id \in Stored /\ h.id \in Ids /\ h.n \in Nat /\ h.n <= rows[h.id]
      /\ rows[h.id] \in Nat /\ (h.kind = "message" => h.n > 0)
  BY <1>1, <1>3, BoundsAssumption DEF News, Stored, Kinds, RowsOK
<1>5. Stored' = Stored /\ Requests' = Requests /\ Calls' = Calls /\ News' = News
  BY <1>2, SameRows
<1>6. Working' = Working
  BY <1>2 DEF Working
<1>7. QueuesOK' /\ RowsOK'
  BY <1>1, <1>2, <1>3, <1>5, <1>6 DEF Kinds, QueuesOK, RowsOK
<1>8. /\ shown'.id \in Stored \cup {None}
      /\ shown' = [id |-> shown'.id, rows |-> shown'.rows]
      /\ \A row \in shown'.rows : row[1] \in Ids /\ row[2] \in 1..rows[row[1]]
  <2>1. /\ shown = [id |-> shown.id, rows |-> shown.rows]
        /\ shown.id \in Stored \cup {None}
        /\ \A row \in shown.rows : row[1] \in Ids /\ row[2] \in 1..rows[row[1]]
    BY <1>1 DEF Kinds, PageOK
  <2>2. \A row \in Rows(h.id, h.n) : row[1] \in Ids /\ row[2] \in 1..rows[row[1]]
    BY <1>4 DEF Rows
  <2>3. CASE shown' = [id |-> h.id, rows |-> Rows(h.id, h.n)]
    BY <1>4, <2>2, <2>3
  <2>4. CASE shown' = shown
    BY <2>1, <2>4
  <2>5. CASE /\ shown' = [shown EXCEPT !.rows = @ \cup {<<h.id, h.n>>}]
             /\ h.kind = "message"
    <3>1. shown' = [id |-> shown.id, rows |-> shown.rows \cup {<<h.id, h.n>>}]
      BY <2>1, <2>5
    <3>2. h.n \in 1..rows[h.id]
      BY <1>4, <2>5
    <3> HIDE DEF h
    <3> QED
      BY <1>4, <2>1, <3>1, <3>2
  <2> QED
    BY <2>3, <2>4, <2>5, HeardIs
<1>9. PageOK'
  <2>1. joined' \in BOOLEAN /\ list' \subseteq Stored /\ missed' \in SUBSET Ids
    BY <1>1, <1>2, <1>4 DEF Kinds, PageOK, Hears, HearCreated, HearJoined, HearMessage, HearUpdated
  <2> HIDE DEF h
  <2> QED
    BY <1>1, <1>2, <1>5, <1>8, <2>1 DEF Kinds, PageOK
<1>10. OfflineIsOut'
  BY <1>2 DEF IInv, OfflineIsOut
<1>11. MembersAreIn' /\ CastsAreCovered'
  BY MembersHeard, CastsHeard
<1>12. Created \subseteq Created' \cup list'
  <2>1. ASSUME NEW n \in 1..Len(down), down[n].kind = "created"
        PROVE  down[n].id \in Created' \cup list'
    <3>1. CASE n = 1
      BY <1>2, <1>3, <2>1, <3>1
    <3>2. CASE n # 1
      <4>1. n - 1 \in 1..Len(down') /\ down'[n - 1] = down[n]
        BY <1>3, <3>2
      <4> QED
        BY <2>1, <4>1 DEF Created
    <3> QED
      BY <3>1, <3>2
  <2>2. ASSUME NEW j \in Working, j.kind = "created"
        PROVE  j.id \in Created'
    BY <1>6, <2>2 DEF Created
  <2> QED
    BY <2>1, <2>2 DEF Created
<1>13. AllAreKnown'
  BY <1>2, <1>5, <1>12 DEF IInv, AllAreKnown
<1> QED
  BY <1>7, <1>9, <1>10, <1>11, <1>13 DEF IInv, Kinds

-----------------------------------------------------------------------------
(* Theorems. *)

LEMMA InitInv == Init => IInv
<1> SUFFICES ASSUME Init
             PROVE  IInv
  OBVIOUS
<1>1. /\ list = {} /\ selected = None /\ shown = [id |-> None, rows |-> {}]
      /\ joined = FALSE /\ connected = FALSE /\ connects = 0 /\ up = <<>> /\ down = <<>>
      /\ rooms = {} /\ feed = FALSE /\ crossed = FALSE /\ dropped = FALSE /\ overtaken = {} /\ missed = Stored
      /\ jobs = EmptyBag /\ cast = [i \in Ids |-> {}]
      /\ rest = <<Request("list", None)>>
  BY DEF Init, Blank
<1>2. rows \in [Ids -> 0..MaxRows]
  <2>1. PICK S \in SUBSET Ids : rows = [i \in Ids |-> IF i \in S THEN 1 ELSE 0]
    BY DEF Init
  <2> QED
    BY <2>1, BoundsAssumption
<1>3. RowsOK
  BY <1>1, <1>2 DEF RowsOK
<1>4. IsABag(jobs) /\ Working = {}
  BY <1>1, NoneUnderWay DEF Working
<1>5. rest \in Seq(Requests)
  <2> DEFINE r == Request("list", None)
  <2>1. r \in Requests
    BY RequestIs
  <2> HIDE DEF r
  <2>2. <<r>> \in Seq(Requests)
    BY <2>1
  <2> QED
    BY <1>1, <2>2 DEF r
<1>6. up \in Seq(Calls) /\ down \in Seq(News) /\ Len(up) = 0 /\ Len(down) = 0
  BY <1>1, EmptySeq
<1>7. QueuesOK
  BY <1>4, <1>5, <1>6 DEF QueuesOK
<1>8. PageOK
  <2>1. connects \in 0..MaxConnects /\ Stored \in SUBSET Ids
    BY <1>1, BoundsAssumption DEF Stored
  <2>2. shown.id = None /\ shown.rows = {} /\ shown = [id |-> shown.id, rows |-> shown.rows]
    BY <1>1
  <2> QED
    BY <1>1, <2>1, <2>2 DEF PageOK
<1>9. OfflineIsOut
  BY <1>1, <1>4 DEF OfflineIsOut
<1>10. Coming = {} /\ Due = {} /\ Leaving = {}
  BY <1>4, <1>6 DEF Coming, Due, Leaving
<1>11. MembersAreIn
  BY <1>1, <1>6, <1>10 DEF MembersAreIn
<1>12. CastsAreCovered
  BY <1>1, <1>10 DEF CastsAreCovered
<1>13. AllAreKnown
  BY <1>1 DEF AllAreKnown
<1> QED
  BY <1>3, <1>7, <1>8, <1>9, <1>11, <1>12, <1>13 DEF IInv, Kinds

LEMMA NextInv == IInv /\ [Next]_vars => IInv'
<1> SUFFICES ASSUME IInv, [Next]_vars
             PROVE  IInv'
  OBVIOUS
<1>1. CASE Connect \/ ServerDisconnect \/ Restart \/ Disconnect
  BY <1>1, Connected, ServerDisconnected, Restarted, Disconnected
<1>2. CASE \E i \in Ids : OpenIncident(i) \/ OtherCreates(i) \/ OtherStores(i)
  BY <1>2, Asked, OtherCreated, OtherStored
<1>3. CASE AskCreate \/ JoinIncident \/ LeaveIncident \/ SendMessage \/ EmitAction
  BY <1>3, Asked, Sent, LeaveIsSent
<1>4. ASSUME NEW q \in 1..Len(rest),
             \/ ServeList(q) \/ ServeOpen(q) \/ ServeCreate(q) \/ Refuse(q)
             \/ ApplyList(q) \/ ApplyOpen(q) \/ ApplyCreate(q)
      PROVE  IInv'
  BY <1>4, Served, CreateServed, ListApplied, Applied
<1>5. CASE SubscribeIncidentFeed \/ HandleJoin \/ HandleLeave \/ HandleMessage \/ HandleUpdate
  BY <1>5, RoomChanges, RowChanges
<1>6. ASSUME NEW j \in BagToSet(jobs),
             \/ ReadSnapshot(j) \/ FailJob(j) \/ Announce(j)
             \/ BroadcastMessage(j) \/ SendSnapshot(j)
      PROVE  IInv'
  <2>1. j \in Working
    BY DEF Working
  <2> QED
    BY <1>6, <2>1, SnapshotRead, AnnouncementEnds, MessageSent, SnapshotSent
<1>7. CASE HearCreated \/ HearJoined \/ HearMessage \/ HearUpdated
  BY <1>7, Heard DEF Hears
<1>8. CASE UNCHANGED vars
  <2>1. Stored' = Stored /\ Requests' = Requests /\ Calls' = Calls /\ News' = News
    BY <1>8, SameRows DEF vars
  <2> USE <1>8 DEF vars
  <2>2. Kinds'
    BY <2>1 DEF IInv, Kinds, QueuesOK, PageOK, RowsOK, Working
  <2>3. OfflineIsOut'
    BY DEF IInv, OfflineIsOut, Working
  <2>4. Due' = Due
    BY DEF Due, Working
  <2>5. MembersAreIn'
    BY <2>4, MembersKept DEF IInv
  <2>6. CastsAreCovered'
    BY CastsKept DEF IInv
  <2>7. AllAreKnown'
    BY <2>1 DEF IInv, AllAreKnown, Created, Working
  <2> QED
    BY <2>2, <2>3, <2>5, <2>6, <2>7 DEF IInv
<1> QED
  BY <1>1, <1>2, <1>3, <1>4, <1>5, <1>6, <1>7, <1>8 DEF Next

\* The inductive invariant, which the theorems below follow from.
THEOREM Invariance == Spec => []IInv
BY InitInv, NextInv, PTL DEF Spec

\* Only stored incidents and rows are ever on the page, whatever answers and
\* messages cross.
THEOREM PageShowsOnlyStored == Spec => []TypeOK
<1>1. IInv => TypeOK
  BY DEF IInv, Kinds, PageOK, RowsOK, OfflineIsOut, TypeOK
<1> QED
  BY <1>1, Invariance, PTL

\* A member shows an incident that is stored, not None.
LEMMA ShownIsSelected ==
  ASSUME IInv, joined, ~crossed, ~dropped
  PROVE  ShownId = shown.id /\ shown.id \in rooms /\ shown.id \in Ids
<1>1. shown.id \in rooms /\ shown.id \in Ids
  BY DEF IInv, MembersAreIn, Kinds, PageOK, Stored
<1> QED
  BY <1>1, NoneAssumption DEF ShownId

\* A page that says "joined" (isJoined of App.tsx) is connected and in the room
\* it shows, unless a leave crossed the answer to a join or the server has
\* dropped the socket (handleDisconnect) before the page noticed.
THEOREM JoinedMeansMember == Spec => []JoinedIsMember
<1>1. IInv => JoinedIsMember
  BY ShownIsSelected DEF JoinedIsMember, IInv, OfflineIsOut
<1> QED
  BY <1>1, Invariance, PTL

\* When all is said, a joined page shows what was broadcast in its room, unless
\* its last snapshot was read before a message that was broadcast earlier, a
\* leave crossed the answer to a join, or the server has dropped its socket.
THEOREM JoinedSeesBroadcasts == Spec => []JoinedShowsBroadcasts
<1>1. IInv => JoinedShowsBroadcasts
  <2> SUFFICES ASSUME IInv, Quiet, joined, ~crossed, ~dropped, ShownId \notin overtaken
               PROVE  {ShownId} \X cast[ShownId] \subseteq shown.rows
    BY DEF JoinedShowsBroadcasts
  <2>1. ShownId = shown.id /\ shown.id \in Ids
    BY ShownIsSelected
  <2>2. Len(down) = 0
    BY EmptySeq DEF Quiet
  <2>3. Coming = {} /\ Awaited(shown.id, 0) = {}
    BY <2>2 DEF Coming, Awaited
  <2>4. \A r \in cast[shown.id] : <<shown.id, r>> \in shown.rows
    BY <2>1, <2>3 DEF IInv, CastsAreCovered
  <2> QED
    BY <2>1, <2>4
<1> QED
  BY <1>1, Invariance, PTL

\* When all is said, the list has every incident whose announcement reached
\* the page: missed has those it was not told of, createIncident's halves too.
THEOREM ListHasAll == Spec => []ListedUnlessMissed
<1>1. IInv => ListedUnlessMissed
  <2> SUFFICES ASSUME IInv, Quiet
               PROVE  Stored \subseteq list \cup missed
    BY DEF ListedUnlessMissed
  <2>1. Len(down) = 0 /\ Working = {}
    BY EmptySeq, NoneUnderWay DEF Quiet, Working
  <2>2. Created = {}
    BY <2>1 DEF Created
  <2> QED
    BY <2>2 DEF IInv, AllAreKnown
<1> QED
  BY <1>1, Invariance, PTL

===============================================================================

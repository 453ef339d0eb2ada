------------------------------ MODULE KongAdmin ------------------------------
(***************************************************************************)
(* The administration of Kong (gateway/), behind the accounts' guard: what *)
(* GatewayController and the GraphQL resolver offer, and the calls to      *)
(* Kong's admin API that GatewayService makes for it, one after the other, *)
(* with nothing that undoes the first when a later one fails.              *)
(*                                                                         *)
(* Kong itself is external: it finds a service, a route or a consumer by   *)
(* its id or by the name it has at that moment, names are unique, ids are  *)
(* never given twice, a route has at most one acl plugin and a service at  *)
(* most one request-transformer, a consumer is in a group once, what is    *)
(* deleted takes along what hangs on it, and a service with routes is not  *)
(* deleted.  An update may change a name and does not take one away (no    *)
(* null is sent for it).  URLs, hosts, paths, header values, custom ids    *)
(* and tags are left out.  The acl group of a route is named after the     *)
(* address that was used for the route.                                    *)
(***************************************************************************)
EXTENDS Accounts

CONSTANTS
  ServiceIds, RouteIds, ConsumerIds,   \* ids Kong gives
  ServiceNames, RouteNames, Usernames  \* names administrators give

Ids == ServiceIds \cup RouteIds \cup ConsumerIds
Names == ServiceNames \cup RouteNames \cup Usernames

ASSUME KongAssumption ==
  /\ None \notin Ids \cup Names
  /\ Ids \cap Names = {}

VARIABLES
  services,     \* services[s]: name of service s, None: not there
  transformed,  \* those with a request-transformer plugin
  routes,       \* routes[r] = [service, name]; service None: not there
  spent,        \* ids that were given
  acl,          \* acl[r]: the address whose group the acl plugin of r allows
  consumers,    \* consumers[x]: username of consumer x, None: not there
  keyed,        \* those with an API key
  members,      \* members[x][k]: id of x's entry in the group of address k, or 0
  granted,      \* how many such entries Kong ever made
  halfDone,     \* history: consumers whose createConsumer stopped halfway,
                \* and those renamed before they had a key
  moved         \* history: names that a route has given up

kong == <<services, transformed, routes, spent, acl, consumers, keyed, members, granted>>

vars == <<users, tokens, calls, asked, kong, halfDone, moved>>

-----------------------------------------------------------------------------
Keys == RouteIds \cup RouteNames
ServiceKeys == ServiceIds \cup ServiceNames
ConsumerKeys == ConsumerIds \cup Usernames

Live == {r \in RouteIds : routes[r].service # None}
StoredServices == {s \in ServiceIds : services[s] # None}
StoredConsumers == {x \in ConsumerIds : consumers[x] # None}

\* What an address means, as a set of at most one.
Route(k) == {r \in Live : r = k \/ routes[r].name = k}
Service(k) == {s \in StoredServices : s = k \/ services[s] = k}
Consumer(k) == {x \in StoredConsumers : x = k \/ consumers[x] = k}

NoRoute == [service |-> None, name |-> None]

\* A name for a route: none, or one that no other route has.
NameFree(r, n) == n = None \/ \A q \in Live \ {r} : routes[q].name # n

\* A name for i that nothing else in a table of names has, or none.
Unused(table, i, n) == n = None \/ \A j \in DOMAIN table \ {i} : table[j] # n

\* A table of names once i is called n; without a name it stays.
Renamed(table, i, n) == IF n = None THEN table ELSE [table EXCEPT ![i] = n]

\* A table of names without S.
Without(table, S) == [i \in DOMAIN table |-> IF i \in S THEN None ELSE table[i]]

\* The history once routes S lose their names.
MovedWith(S) == moved \cup ({routes[r].name : r \in S} \ {None})

\* An acl entry of x in the group of k (routeAclGroup(k)).
Member(x, k) == members[x][k] # 0

\* Kong as it is found: empty, or with a service, a route under a name and
\* a consumer, which may have been let through the route.
Init ==
  /\ AccountInit
  /\ transformed = {}
  /\ \E s \in ServiceIds, r \in RouteIds, x \in ConsumerIds :
     \E a \in ServiceNames, n \in RouteNames, v \in Usernames :
     \E found, protected \in BOOLEAN :
       /\ protected => found
       /\ services = [t \in ServiceIds |-> IF found /\ t = s THEN a ELSE None]
       /\ routes = [q \in RouteIds |-> IF found /\ q = r
                      THEN [service |-> s, name |-> n] ELSE NoRoute]
       /\ spent = IF found THEN {s, r, x} ELSE {}
       /\ acl = [q \in RouteIds |-> IF protected /\ q = r THEN n ELSE None]
       /\ consumers = [y \in ConsumerIds |-> IF found /\ y = x THEN v ELSE None]
       /\ keyed = IF found THEN {x} ELSE {}
       /\ granted = IF protected THEN 1 ELSE 0
       /\ members = [y \in ConsumerIds |-> [k \in Keys |->
                       IF y = x /\ k = n THEN granted ELSE 0]]
  /\ halfDone = {}
  /\ moved = {}

-----------------------------------------------------------------------------
(* Requests: the operations of GatewayService, each with its plan. *)

Request(c, u, plan, key, other) ==
  u \in tokens /\ Ask(c, u, <<"guard">> \o plan, key, other)

\* With a route in the body, which may have a name, that is made next.
CreateService(c, u, a) ==
  \/ Request(c, u, <<"POST service">>, a, None)
  \/ \E n \in RouteNames \cup {None} : Request(c, u, <<"POST service", "POST route">>, a, n)

GetService(c, u, s) == Request(c, u, <<"GET service">>, s, None)
ListServices(c, u) == Request(c, u, <<"GET all">>, None, None)
UpdateService(c, u, s, a) == Request(c, u, <<"PATCH service">>, s, a)
DeleteService(c, u, s) == Request(c, u, <<"DELETE service">>, s, None)
AddHeader(c, u, s) == Request(c, u, <<"POST transformer">>, s, None)
CreateRoute(c, u, s, n) == Request(c, u, <<"POST route">>, s, n)
GetRoute(c, u, k) == Request(c, u, <<"GET route">>, k, None)
ListRoutes(c, u) == Request(c, u, <<"GET all">>, None, None)
UpdateRoute(c, u, k, n) == Request(c, u, <<"PATCH route">>, k, n)
DeleteRoute(c, u, k) == Request(c, u, <<"DELETE route">>, k, None)

\* Variant: the key is left for later.
CreateConsumerOnly(c, u, v) == Request(c, u, <<"POST consumer">>, v, None)

CreateConsumer(c, u, v) == Request(c, u, <<"POST consumer", "POST key">>, v, None)
GetConsumer(c, u, x) == Request(c, u, <<"GET consumer", "GET consumer">>, x, None)
ListConsumers(c, u) == Request(c, u, <<"GET consumers", "GET each">>, None, {})
\* The consumer is read again by the address it had before.
UpdateConsumer(c, u, x, v) ==
  Request(c, u, <<"PATCH consumer", "GET consumer", "GET consumer">>, x, v)
DeleteConsumer(c, u, x) == Request(c, u, <<"DELETE consumer">>, x, None)

\* protectRouteWithAcl: the plugin is made if there is none for the group.
ProtectRoute == <<"GET plugins", "POST acl">>

AddConsumerToRoute(c, u, k, x) == Request(c, u, ProtectRoute \o <<"POST member">>, k, x)

RemoveConsumerFromRoute(c, u, k, x) ==
  Request(c, u, <<"GET members", "DELETE member">>, k, x)

\* dashboardOverview reads the services next to the open incidents.
DashboardOverview(c, u) == Request(c, u, <<"GET all">>, None, None)

ServiceRequest(c, u) ==
  \/ ListServices(c, u)
  \/ \E a \in ServiceNames : CreateService(c, u, a)
  \/ \E s \in ServiceKeys :
       \/ GetService(c, u, s) \/ DeleteService(c, u, s) \/ AddHeader(c, u, s)
       \/ \E a \in ServiceNames \cup {None} : UpdateService(c, u, s, a)

RouteRequest(c, u) ==
  \/ ListRoutes(c, u)
  \/ \E s \in ServiceKeys, n \in RouteNames \cup {None} : CreateRoute(c, u, s, n)
  \/ \E k \in Keys : GetRoute(c, u, k) \/ DeleteRoute(c, u, k)
  \/ \E k \in Keys, n \in RouteNames \cup {None} : UpdateRoute(c, u, k, n)

ConsumerRequest(c, u) ==
  \/ ListConsumers(c, u)
  \/ \E v \in Usernames : CreateConsumer(c, u, v)
  \/ \E x \in ConsumerKeys :
       \/ GetConsumer(c, u, x) \/ DeleteConsumer(c, u, x)
       \/ \E v \in Usernames \cup {None} : UpdateConsumer(c, u, x, v)

\* The same operations over REST and over GraphQL.
GatewayRequest(c, u) ==
  \/ ServiceRequest(c, u) \/ RouteRequest(c, u) \/ ConsumerRequest(c, u)
  \/ \E k \in Keys, x \in ConsumerKeys :
       AddConsumerToRoute(c, u, k, x) \/ RemoveConsumerFromRoute(c, u, k, x)

-----------------------------------------------------------------------------
(* Kong's answers, one call to it at a time. *)

serviceState == <<services, transformed>>
routeState == <<routes, acl>>
consumerState == <<consumers, keyed, members, granted>>
rest == <<users, tokens, asked>>

\* Kong has done what was asked: call c goes on, or the answer is lost.
Done(c) == Advance(c) \/ calls' = Ended(c)

\* The same, with what was read kept for the next call.
DoneWith(c, found) ==
  calls' = [calls EXCEPT ![c] =
    [user |-> calls[c].user, plan |-> Tail(calls[c].plan), key |-> calls[c].key,
     other |-> found, late |-> calls[c].late]]

\* A read of something that is there.
Read(c) ==
  LET k == calls[c].key IN
  /\ \/ Due(c) = "GET all"
     \/ Due(c) = "GET service" /\ Service(k) # {}
     \/ Due(c) = "GET route" /\ Route(k) # {}
     \/ Due(c) = "GET consumer" /\ Consumer(k) # {}
  /\ Advance(c)
  /\ UNCHANGED <<rest, kong, halfDone, moved>>

\* listConsumers: the list, then every consumer on it; one that is gone
\* meanwhile fails the whole request.
ReadConsumers(c) ==
  /\ \/ /\ Due(c) = "GET consumers"
        /\ DoneWith(c, StoredConsumers)
     \/ /\ Due(c) = "GET each"
        /\ calls[c].other = {}
        /\ Advance(c)
     \/ /\ Due(c) = "GET each"
        /\ \E x \in calls[c].other :
             calls' = IF x \in StoredConsumers THEN [calls EXCEPT ![c].other = @ \ {x}]
                      ELSE Ended(c)
  /\ UNCHANGED <<rest, kong, halfDone, moved>>

PostService(c) ==
  /\ Due(c) = "POST service"
  /\ \E s \in ServiceIds \ spent :
       /\ Unused(services, s, calls[c].key)
       /\ services' = [services EXCEPT ![s] = calls[c].key]
       /\ spent' = spent \cup {s}
  /\ Done(c)
  /\ UNCHANGED <<rest, transformed, routeState, consumerState, halfDone, moved>>

PatchService(c) ==
  LET a == calls[c].other IN
  /\ Due(c) = "PATCH service"
  /\ \E s \in Service(calls[c].key) :
       /\ Unused(services, s, a)
       /\ services' = Renamed(services, s, a)
  /\ Done(c)
  /\ UNCHANGED <<rest, spent, transformed, routeState, consumerState, halfDone, moved>>

\* Refused while a route refers to it; deleting nothing is no error.
RemoveService(c) ==
  LET S == Service(calls[c].key) IN
  /\ Due(c) = "DELETE service"
  /\ \A r \in Live : routes[r].service \notin S
  /\ services' = Without(services, S)
  /\ transformed' = transformed \ S
  /\ Done(c)
  /\ UNCHANGED <<rest, spent, routeState, consumerState, halfDone, moved>>

PostTransformer(c) ==
  /\ Due(c) = "POST transformer"
  /\ \E s \in Service(calls[c].key) \ transformed :
       transformed' = transformed \cup {s}
  /\ Done(c)
  /\ UNCHANGED <<rest, services, spent, routeState, consumerState, halfDone, moved>>

PostRoute(c) ==
  /\ Due(c) = "POST route"
  /\ \E s \in Service(calls[c].key), r \in RouteIds \ spent :
       /\ NameFree(r, calls[c].other)
       /\ routes' = [routes EXCEPT ![r] = [service |-> s, name |-> calls[c].other]]
       /\ spent' = spent \cup {r}
  /\ Done(c)
  /\ UNCHANGED <<rest, serviceState, acl, consumerState, halfDone, moved>>

\* An update without a name leaves the name.
PatchRoute(c) ==
  LET n == calls[c].other IN
  /\ Due(c) = "PATCH route"
  /\ \E r \in Route(calls[c].key) :
       /\ NameFree(r, n)
       /\ routes' = IF n = None THEN routes ELSE [routes EXCEPT ![r].name = n]
       /\ moved' = IF n \in {None, routes[r].name} THEN moved ELSE MovedWith({r})
  /\ Done(c)
  /\ UNCHANGED <<rest, serviceState, spent, acl, consumerState, halfDone>>

\* The groups of its consumers stay.
RemoveRoute(c) ==
  LET S == Route(calls[c].key) IN
  /\ Due(c) = "DELETE route"
  /\ routes' = [r \in RouteIds |-> IF r \in S THEN NoRoute ELSE routes[r]]
  /\ acl' = [r \in RouteIds |-> IF r \in S THEN None ELSE acl[r]]
  /\ moved' = MovedWith(S)
  /\ Done(c)
  /\ UNCHANGED <<rest, serviceState, spent, consumerState, halfDone>>

\* Variant: any acl plugin will do.
FindAnyPlugin(c) ==
  /\ Due(c) = "GET plugins"
  /\ \E r \in Route(calls[c].key) :
       Continue(c, SubSeq(calls[c].plan, IF acl[r] # None THEN 3 ELSE 2,
                          Len(calls[c].plan)))
  /\ UNCHANGED <<rest, kong, halfDone, moved>>

\* protectRouteWithAcl looks for a plugin that allows this very group.
FindPlugin(c) ==
  /\ Due(c) = "GET plugins"
  /\ \E r \in Route(calls[c].key) :
       Continue(c, SubSeq(calls[c].plan, IF acl[r] = calls[c].key THEN 3 ELSE 2,
                          Len(calls[c].plan)))
  /\ UNCHANGED <<rest, kong, halfDone, moved>>

PostAcl(c) ==
  /\ Due(c) = "POST acl"
  /\ \E r \in Route(calls[c].key) :
       /\ acl[r] = None
       /\ acl' = [acl EXCEPT ![r] = calls[c].key]
  /\ Done(c)
  /\ UNCHANGED <<rest, serviceState, routes, spent, consumerState, halfDone, moved>>

PostMember(c) ==
  LET k == calls[c].key IN
  /\ Due(c) = "POST member"
  /\ \E x \in Consumer(calls[c].other) :
       /\ ~Member(x, k)
       /\ members' = [members EXCEPT ![x][k] = granted + 1]
  /\ granted' = granted + 1
  /\ Done(c)
  /\ UNCHANGED <<rest, serviceState, routeState, spent, consumers, keyed, halfDone, moved>>

\* The entry's id is read; without an entry there is nothing to do.
FindMember(c) ==
  LET k == calls[c].key IN
  /\ Due(c) = "GET members"
  /\ \E x \in Consumer(calls[c].other) :
       IF Member(x, k) THEN DoneWith(c, [who |-> calls[c].other, id |-> members[x][k]])
                       ELSE calls' = Ended(c)
  /\ UNCHANGED <<rest, kong, halfDone, moved>>

RemoveMember(c) ==
  LET k == calls[c].key IN
  /\ Due(c) = "DELETE member"
  /\ \E x \in Consumer(calls[c].other.who) :
       members' = IF members[x][k] = calls[c].other.id
                  THEN [members EXCEPT ![x][k] = 0] ELSE members
  /\ Done(c)
  /\ UNCHANGED <<rest, serviceState, routeState, spent, consumers, keyed, granted,
                 halfDone, moved>>

\* Without an answer createConsumer does not ask for the key.
PostConsumer(c) ==
  /\ Due(c) = "POST consumer"
  /\ \E x \in ConsumerIds \ spent :
       /\ Unused(consumers, x, calls[c].key)
       /\ consumers' = [consumers EXCEPT ![x] = calls[c].key]
       /\ spent' = spent \cup {x}
       /\ \/ Advance(c) /\ UNCHANGED halfDone
          \/ calls' = Ended(c) /\ halfDone' = halfDone \cup {x}
  /\ UNCHANGED <<rest, serviceState, routeState, keyed, members, granted, moved>>

\* The key is for whoever has the username by now.
PostKey(c) ==
  /\ Due(c) = "POST key"
  /\ keyed' = keyed \cup Consumer(calls[c].key)
  /\ Consumer(calls[c].key) # {}
  /\ Done(c)
  /\ UNCHANGED <<rest, serviceState, routeState, spent, consumers, members, granted,
                 halfDone, moved>>

PatchConsumer(c) ==
  LET v == calls[c].other IN
  /\ Due(c) = "PATCH consumer"
  /\ \E x \in Consumer(calls[c].key) :
       /\ Unused(consumers, x, v)
       /\ consumers' = Renamed(consumers, x, v)
       /\ halfDone' = IF v \in {None, consumers[x]} THEN halfDone
                      ELSE halfDone \cup ({x} \ keyed)
  /\ Done(c)
  /\ UNCHANGED <<rest, serviceState, routeState, spent, keyed, members, granted, moved>>

\* Its keys and groups go with it.
RemoveConsumer(c) ==
  LET S == Consumer(calls[c].key) IN
  /\ Due(c) = "DELETE consumer"
  /\ consumers' = Without(consumers, S)
  /\ keyed' = keyed \ S
  /\ members' = [x \in ConsumerIds |-> IF x \in S THEN [k \in Keys |-> 0] ELSE members[x]]
  /\ halfDone' = halfDone \ S
  /\ Done(c)
  /\ UNCHANGED <<rest, serviceState, routeState, spent, granted, moved>>

\* raw: any error of Kong, its refusals included, is a 400 that ends the
\* request; what its earlier calls did stays.
FailKong(c) ==
  /\ Fail(c)
  /\ halfDone' = IF Due(c) = "POST key" THEN halfDone \cup Consumer(calls[c].key) ELSE halfDone
  /\ UNCHANGED <<kong, moved>>

KongStep(c) ==
  \/ Read(c) \/ ReadConsumers(c)
  \/ PostService(c) \/ PatchService(c) \/ RemoveService(c) \/ PostTransformer(c)
  \/ PostRoute(c) \/ PatchRoute(c) \/ RemoveRoute(c)
  \/ FindPlugin(c) \/ PostAcl(c) \/ PostMember(c) \/ FindMember(c) \/ RemoveMember(c)
  \/ PostConsumer(c) \/ PostKey(c) \/ PatchConsumer(c) \/ RemoveConsumer(c)
  \/ FailKong(c)

Next ==
  \E c \in Calls :
    \/ (AccountRequest(c) \/ AccountStep(c)) /\ UNCHANGED <<kong, halfDone, moved>>
    \/ /\ \E u \in Users : GatewayRequest(c, u) \/ DashboardOverview(c, u)
       /\ UNCHANGED <<users, tokens, kong, halfDone, moved>>
    \/ KongStep(c)

Spec == Init /\ [][Next]_vars

-----------------------------------------------------------------------------
(* Correctness. *)

\* No two entries of a table have one name.
OneName(table) == \A i, j \in DOMAIN table : table[i] = table[j] /\ i # j => table[i] = None

\* Names are unique, and what refers to a service, a route or a consumer
\* refers to one that is there.
TablesFit ==
  /\ OneName(services) /\ OneName(consumers)
  /\ \A q, r \in Live : routes[q].name = routes[r].name /\ q # r => routes[q].name = None
  /\ StoredServices \cup Live \cup StoredConsumers \subseteq spent
  /\ transformed \subseteq StoredServices /\ keyed \subseteq StoredConsumers
  /\ \A r \in Live : routes[r].service \in StoredServices
  /\ \A r \in RouteIds : acl[r] # None => r \in Live /\ acl[r] \in Keys
  /\ \A x \in ConsumerIds, k \in Keys : Member(x, k) => x \in StoredConsumers

\* The tables of accounts and of Kong are consistent, and an address has one
\* account.
TypeOK ==
  /\ users \in [Users -> [email : Emails \cup {None}, status : {"ACTIVE", "INACTIVE", None}]]
  /\ OneAccountPerAddress
  /\ tokens \subseteq Stored
  /\ services \in [ServiceIds -> ServiceNames \cup {None}]
  /\ consumers \in [ConsumerIds -> Usernames \cup {None}]
  /\ TablesFit

\* A consumer is put into a group only once the route's acl plugin allows
\* that group (addConsumerToRoute protects first, and stops when it
\* cannot), so the entry lets it in: unless the address is a name that was
\* another route's, whose groups its deletion left behind.
MembersMeetAcl ==
  \A x \in ConsumerIds, k \in Keys, r \in RouteIds :
    Member(x, k) /\ r \in Route(k) => acl[r] = k \/ k \in moved

\* Every consumer has an API key, with three exceptions: while createConsumer
\* is at it, where it failed after its first call (it undoes nothing), and
\* where the consumer was renamed before it had its key, which the second
\* call asks for by the old username, for whoever has that by then.
KeyedUnlessHalfDone ==
  \A x \in StoredConsumers \ keyed :
    x \in halfDone \/ \E c \in Calls : calls[c].key = consumers[x] /\ Due(c) = "POST key"

\* What Kong stores is in order, whichever of the calls failed.
KongIsInOrder == TablesFit /\ MembersMeetAcl /\ KeyedUnlessHalfDone

=============================================================================

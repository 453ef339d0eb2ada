------------------------------- MODULE Accounts -------------------------------
(***************************************************************************)
(* The administrators' accounts and the guard every request of theirs      *)
(* passes: auth/, users/ and the account operations of the GraphQL         *)
(* resolver, which call the same services.                                 *)
(*                                                                         *)
(* A call is a request under way: its plan lists the awaited reads and     *)
(* writes it has still to do, and other calls run between any two of them. *)
(* Passwords are right or wrong, and tokens do not expire within a run.    *)
(* The id in a request is written as the API writes it or in another       *)
(* spelling of the same uuid.  Sessions exist only as signed tokens, so a  *)
(* restart of the gateway ends the calls and nothing else.                 *)
(***************************************************************************)
EXTENDS Naturals, Sequences, FiniteSets

CONSTANTS
  Users,       \* ids of accounts
  Emails,      \* addresses
  Calls,       \* requests that can be under way at once
  None,        \* no value
  MaxRequests  \* bound: requests in all

ASSUME NoneAssumption ==
  None \notin Users \cup Emails \cup {"ACTIVE", "INACTIVE", "respelled"}

VARIABLES
  users,   \* table: users[u] = [email, status]; status None: not stored
  tokens,  \* accounts a token was signed for
  calls,   \* calls[c]: [user, plan, key, other, late]
  asked    \* how many requests were made

accountVars == <<users, tokens, calls, asked>>

-----------------------------------------------------------------------------
Idle == [user |-> None, plan |-> <<>>, key |-> None, other |-> None, late |-> FALSE]

\* The next thing call c does.
Due(c) == IF calls[c].plan = <<>> THEN "" ELSE Head(calls[c].plan)

Active == {u \in Users : users[u].status = "ACTIVE"}

Stored == {u \in Users : users[u].status # None}

\* Call c has passed the guard.
Admitted(c) == calls[c].user # None /\ Due(c) \notin {"", "guard"}

Owner(e) == {u \in Stored : users[u].email = e}

\* A request arrives; late: its author was deactivated after the guard.
Ask(c, u, plan, key, other) ==
  /\ calls[c] = Idle
  /\ asked < MaxRequests
  /\ asked' = asked + 1
  /\ calls' = [calls EXCEPT ![c] =
       [user |-> u, plan |-> plan, key |-> key, other |-> other, late |-> FALSE]]

\* Any step of a call may be its last one: an error, or the process dies.
Ended(c) == [calls EXCEPT ![c] = Idle]

\* Call c goes on with the rest of its plan, or has answered.
Continue(c, plan) ==
  calls' = IF plan = <<>> THEN Ended(c) ELSE [calls EXCEPT ![c].plan = plan]

Advance(c) == Continue(c, Tail(calls[c].plan))

AccountInit ==
  /\ \E S \in SUBSET Users : \E owner \in [Users -> Emails] :
       /\ \A u, v \in S : owner[u] = owner[v] => u = v
       /\ users = [u \in Users |-> IF u \in S
                     THEN [email |-> owner[u], status |-> "ACTIVE"]
                     ELSE [email |-> None, status |-> None]]
       /\ tokens = S
  /\ calls = [c \in Calls |-> Idle]
  /\ asked = 0

-----------------------------------------------------------------------------
(* Requests. *)

\* A wrong CEO secret is refused before anything is read: no step.
Register(c, e) == Ask(c, None, <<"exists", "insert">>, e, None)

Login(c, e) == Ask(c, None, <<"find", "compare">>, e, None)

\* me, logout: answered from what the guard has read.
Me(c, u) == u \in tokens /\ Ask(c, u, <<"guard">>, None, None)

ListUsers(c, u) == u \in tokens /\ Ask(c, u, <<"guard", "users">>, None, None)

\* "respelled": the id of v in upper case, say.
DeleteAdmin(c, u, v) ==
  \E spelling \in {None, "respelled"} :
    u \in tokens /\ Ask(c, u, <<"guard", "load", "save">>, v, spelling)

AccountRequest(c) ==
  /\ \/ \E e \in Emails : Register(c, e) \/ Login(c, e)
     \/ \E u \in Users : Me(c, u) \/ ListUsers(c, u)
     \/ \E u, v \in Users : DeleteAdmin(c, u, v)
  /\ UNCHANGED <<users, tokens>>

-----------------------------------------------------------------------------
(* Steps of the calls. *)

\* Variant: the token alone is enough.
ValidateToken(c) ==
  /\ Due(c) = "guard"
  /\ IF calls[c].user \in Stored THEN Advance(c) ELSE calls' = Ended(c)
  /\ UNCHANGED <<users, tokens, asked>>

\* JwtStrategy.validate reads the account behind the token.
Validate(c) ==
  /\ Due(c) = "guard"
  /\ IF calls[c].user \in Active THEN Advance(c) ELSE calls' = Ended(c)
  /\ UNCHANGED <<users, tokens, asked>>

\* createAdminUser looks the address up first.
LookUpEmail(c) ==
  /\ Due(c) = "exists"
  /\ IF Owner(calls[c].key) = {} THEN Advance(c) ELSE calls' = Ended(c)
  /\ UNCHANGED <<users, tokens, asked>>

\* Variant: what was looked up is trusted.
InsertUnchecked(c) ==
  /\ Due(c) = "insert"
  /\ \E u \in Users \ Stored :
       /\ users' = [users EXCEPT ![u] = [email |-> calls[c].key, status |-> "ACTIVE"]]
       /\ tokens' = tokens \cup {u}
  /\ calls' = Ended(c)
  /\ UNCHANGED asked

\* The unique column refuses the second of two equal addresses.
InsertUser(c) ==
  /\ Due(c) = "insert"
  /\ IF Owner(calls[c].key) = {}
     THEN \E u \in Users \ Stored :
            /\ users' = [users EXCEPT ![u] = [email |-> calls[c].key, status |-> "ACTIVE"]]
            /\ tokens' = tokens \cup {u}
     ELSE UNCHANGED <<users, tokens>>
  /\ calls' = Ended(c)
  /\ UNCHANGED asked

\* login looks at the status, then waits for bcrypt.
FindUser(c) ==
  /\ Due(c) = "find"
  /\ IF Owner(calls[c].key) \cap Active = {} THEN calls' = Ended(c) ELSE Advance(c)
  /\ UNCHANGED <<users, tokens, asked>>

\* The password was right; a wrong one ends as Fail does.
SignToken(c) ==
  /\ Due(c) = "compare"
  /\ tokens' = tokens \cup Owner(calls[c].key)
  /\ calls' = Ended(c)
  /\ UNCHANGED <<users, asked>>

ListAll(c) ==
  /\ Due(c) = "users"
  /\ Advance(c)
  /\ UNCHANGED <<users, tokens, asked>>

\* Call c names its own author in other letters.
RespellsAuthor(c) == calls[c].key = calls[c].user /\ calls[c].other = "respelled"

\* Variant: one may deactivate oneself.
LoadAnyone(c) ==
  /\ Due(c) = "load"
  /\ IF calls[c].key \in Stored THEN Advance(c) ELSE calls' = Ended(c)
  /\ UNCHANGED <<users, tokens, asked>>

\* The controller compares strings, and the column of type uuid finds the
\* account under every spelling of its id.
LoadAdmin(c) ==
  /\ Due(c) = "load"
  /\ IF /\ calls[c].key \in Stored
        /\ calls[c].key # calls[c].user \/ RespellsAuthor(c)
     THEN Advance(c) ELSE calls' = Ended(c)
  /\ UNCHANGED <<users, tokens, asked>>

\* The calls that author v has past the guard go on, late.
SaveInactive(c) ==
  LET v == calls[c].key IN
  /\ Due(c) = "save"
  /\ users' = [users EXCEPT ![v].status = "INACTIVE"]
  /\ calls' = [d \in Calls |->
       IF d = c THEN Idle
       ELSE IF calls[d].user = v /\ Admitted(d) THEN [calls[d] EXCEPT !.late = TRUE]
       ELSE calls[d]]
  /\ UNCHANGED <<tokens, asked>>

\* Wrong password, wrong secret, failed query, or the process died.
Fail(c) ==
  /\ calls[c] # Idle
  /\ calls' = Ended(c)
  /\ UNCHANGED <<users, tokens, asked>>

AccountStep(c) ==
  \/ Validate(c) \/ LookUpEmail(c) \/ InsertUser(c) \/ FindUser(c) \/ SignToken(c)
  \/ ListAll(c) \/ LoadAdmin(c) \/ SaveInactive(c)

AccountNext == \E c \in Calls : AccountRequest(c) \/ AccountStep(c) \/ Fail(c)

AccountSpec == AccountInit /\ [][AccountNext]_accountVars

-----------------------------------------------------------------------------
(* What a deactivation guarantees. *)

\* An address belongs to one account, although register looks it up in one
\* statement and inserts in another.
OneAccountPerAddress ==
  \A u, v \in Stored : users[u].email = users[v].email => u = v

\* A call past the guard belongs to an active administrator or to one who
\* was deactivated while it ran: no request that starts later gets there
\* (JwtStrategy.validate reads the status, tokens outlive it).
ActsOnlyWhileActive ==
  \A c \in Calls : Admitted(c) => calls[c].user \in Active \/ calls[c].late

\* Nobody deactivates the last active administrator, with two exceptions: an
\* author who was deactivated meanwhile, and the last one himself, when he
\* spells his id in other letters (deleteAdmin refuses the string, no more,
\* while auth/README.md says that an admin cannot deactivate his own account).
SomeoneStaysActive ==
  [][ Active # {} /\ Active' = {} =>
      \E c \in Calls : /\ Due(c) = "save" /\ calls'[c] = Idle
                       /\ calls[c].late \/ RespellsAuthor(c) ]_accountVars

=============================================================================

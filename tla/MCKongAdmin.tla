------------------------------ MODULE MCKongAdmin ------------------------------
(* An instance of KongAdmin for TLC. *)
EXTENDS KongAdmin, TLC

CONSTANTS u1, u2, c1, c2, e1, e2, a1, a2, r1, r2, x1, x2, v1, v2

TwoUsers     == {u1, u2}
TwoEmails    == {e1, e2}
TwoCalls     == {c1, c2}
TwoNames     == {a1, a2}
TwoRoutes    == {r1, r2}
TwoConsumers == {x1, x2}
TwoUsernames == {v1, v2}

Symmetry ==
  Permutations(TwoCalls) \cup Permutations(TwoNames) \cup Permutations(TwoRoutes)
    \cup Permutations(TwoConsumers) \cup Permutations(TwoUsernames)

\* The accounts, while Kong is empty and only listed; or Kong, with a single
\* administrator: what his requests do to each other in Kong, those of two
\* would do as well, and nobody needs to register or log in for it.
AccountsOrKong ==
  \/ spent = {} /\ \A c \in Calls : calls[c].key \notin Ids \cup Names
  \/ /\ Stored = {u1} /\ users[u1].email = e1
     /\ \A c \in Calls : calls[c].key \notin Emails \cup Users

===============================================================================

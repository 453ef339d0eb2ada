------------------------------ MODULE MCDashboard ------------------------------
(* Instances of Dashboard for TLC. *)
EXTENDS Dashboard, TLC

CONSTANTS u1, u2, p1, p2, t1, t2

TwoUsers == {u1, u2}
TwoPolls == {p1, p2}
TwoTexts == {t1, t2}
Service1 == [consumer |-> "c", service |-> "s"]
Service2 == [consumer |-> "d", service |-> "s"]
Lists    == {<<>>, <<Service1, Service2>>, <<Global, Service1>>}

\* The messenger shares nothing with the page: calls to it are explored on
\* their own, not in every order with the rest.
MessengerAlone ==
  events # <<>> => /\ Len(events) < 5
                   /\ flows = <<>> /\ expired = {} /\ path = "/login"
                   /\ scopes = <<Global>> /\ \A p \in Polls : polls[p] = <<>>

Symmetry == Permutations(TwoUsers) \cup Permutations(TwoPolls) \cup Permutations(TwoTexts)

===============================================================================

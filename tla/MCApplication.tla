--------------------------- MODULE MCApplication ---------------------------
(* Instances of Application for TLC: two commits, the first one current. *)
EXTENDS Application

CONSTANTS c1, c2

\* Heads that never come back, and heads that do.
Forward == {<<c1, c2>>}
Back == {<<c1, c2>>, <<c2, c1>>}

FirstHead == head = c1
MCInit == Init /\ FirstHead
MCSpec == MCInit /\ [][Next]_vars
MCFairSpec == MCSpec /\ Fairness
=============================================================================

---------------------------- MODULE MCUpdateMap ----------------------------
(* Two devices, two updates, two tabs and two places on the map. *)
EXTENDS UpdateMap

CONSTANTS a, b, u1, u2, t1, t2

Capitals(d) == [device |-> d, lower |-> FALSE]

\* Both devices are updated, one of them twice.
MCReveal == {[contract |-> u1, pko |-> a], [contract |-> u1, pko |-> b],
             [contract |-> u2, pko |-> a]}

\* All in lower case, one device twice, more than there are places.
MCLists == { <<Lower(a), Lower(b)>>,
             <<Capitals(a), Lower(a)>>,
             <<Lower(a), Lower(b), Capitals(b)>> }
==============================================================================

------------------------------ MODULE FairTrade ------------------------------
(***************************************************************************)
(* What the exchange of files for keys promises its two sides, whatever    *)
(* happens to wires, programs and disks.  A deal is a file that a          *)
(* distributor has encrypted for a device under a key of its own.          *)
(***************************************************************************)
CONSTANTS
    Deal,   \* the deals
    Rivals  \* the pairs of deals about the same good

VARIABLES
    held,       \* the deals whose file is with the device
    signed,     \* those that the device has confirmed to the distributor
    lost,       \* those whose file was damaged there
    published,  \* those whose key is in the open, and paid for
    opened      \* those whose file the device has decrypted

fvars == <<held, signed, lost, published, opened>>

Init ==
    /\ held = {} /\ signed = {} /\ lost = {}
    /\ published = {} /\ opened = {}

\* The device gets a file and confirms it; with Deliver, it has confirmed another
\* one about the same good, or the confirmation goes astray.
Deliver(w) ==
    /\ held' = held \cup {w}
    /\ UNCHANGED <<signed, lost, published, opened>>

Confirm(w) ==
    /\ \A v \in signed : <<v, w>> \notin Rivals
    /\ held' = held \cup {w}
    /\ signed' = signed \cup {w}
    /\ UNCHANGED <<lost, published, opened>>

\* Confirmations that do not arrive.
Astray(S) ==
    /\ signed' = signed \ S
    /\ UNCHANGED <<held, lost, published, opened>>

\* Files are damaged, and perhaps gone.
Lose(S) ==
    /\ S \subseteq held
    /\ lost' = lost \cup S
    /\ held' \subseteq held /\ held \ S \subseteq held'
    /\ UNCHANGED <<signed, published, opened>>

\* A key is published, once for every good and only for a file that was confirmed.
Publish(w) ==
    /\ w \in signed
    /\ \A v \in published : <<v, w>> \notin Rivals
    /\ published' = published \cup {w}
    /\ UNCHANGED <<held, signed, lost, opened>>

Open(w) ==
    /\ w \in held
    /\ w \in published
    /\ opened' = opened \cup {w}
    /\ UNCHANGED <<held, signed, lost, published>>

Next ==
    \/ \E w \in Deal : Deliver(w) \/ Confirm(w) \/ Publish(w) \/ Open(w)
    \/ \E S \in SUBSET Deal : Astray(S) \/ Lose(S)

Spec == Init /\ [][Next]_fvars
==============================================================================

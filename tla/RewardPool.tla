------------------------------ MODULE RewardPool ------------------------------
(***************************************************************************)
(* What the IotPC contract promises to the vendor and to the distributors: *)
(* a pool of ether from which each of N deliveries is rewarded once with   *)
(* an equal part of what is left, and whose remainder the vendor takes     *)
(* back when the pool has closed.                                          *)
(***************************************************************************)
EXTENDS Integers, FiniteSets

CONSTANTS
    Device,    \* the addresses of devices
    Deposit,   \* amounts that may be added to the pool
    N,         \* the number of rewards
    Value      \* the initial content of the pool

VARIABLES
    rewarded,  \* the devices whose delivery has been rewarded
    pool,      \* the ether that is left
    open       \* FALSE once the contract has expired

pvars == <<rewarded, pool, open>>

Init ==
    /\ rewarded = {}
    /\ pool = Value
    /\ open = TRUE

Refill(value) ==
    /\ pool' = pool + value
    /\ UNCHANGED <<rewarded, open>>

Reward(device) ==
    /\ open
    /\ device \notin rewarded
    /\ Cardinality(rewarded) < N
    /\ rewarded' = rewarded \cup {device}
    /\ pool' = pool - pool \div (N - Cardinality(rewarded))
    /\ UNCHANGED open

Close ==
    /\ open
    /\ open' = FALSE
    /\ UNCHANGED <<rewarded, pool>>

Reclaim ==
    /\ ~open
    /\ pool' = 0
    /\ UNCHANGED <<rewarded, open>>

Next ==
    \/ \E value \in Deposit : Refill(value)
    \/ \E device \in Device : Reward(device)
    \/ Close
    \/ Reclaim

Spec == Init /\ [][Next]_pvars
==============================================================================

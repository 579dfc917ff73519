------------------------------- MODULE MCIotPC -------------------------------
(* A small contract: two rewards, two distributors d1 and d2, the devices  *)
(* registered by the vendor a and b, and one key per device and distributor; *)
(* x is an address that the vendor has not registered.  Times are in days, as in the deployed contracts: four days  *)
(* to expiration and a reveal window of 200000 seconds, a little over two.   *)
EXTENDS IotPC, TLC

CONSTANTS d1, d2, a, b, x, vendor, f1, f2

MCAccount == {d1, d2, a, b, x, vendor}
MCKey == {<<a, d1>>, <<a, d2>>, <<b, d1>>}

SignedBy(pko, uid, r, pkd) ==
    [signer |-> pko, hash |-> msgHash(uid, sha256(r), pkd)]

\* In the second instance only x has signed.
OutsiderSignature == {SignedBy(x, f1, <<a, d1>>, d1)}

\* Each device has signed for whoever delivered to it; a has signed for d2 another
\* update as well, and x competes for the two rewards.
MCSignature ==
    {SignedBy(k[1], f1, k, k[2]) : k \in MCKey} \cup {SignedBy(a, f2, <<a, d1>>, d2)}
        \cup OutsiderSignature
==============================================================================

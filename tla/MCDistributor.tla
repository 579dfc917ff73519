---------------------------- MODULE MCDistributor ----------------------------
(* Small networks for module DistributorEthereumClient: distributors d1 and  *)
(* d2, another account o that uses the contract without this client, and the *)
(* devices a, b and c.  A key is named after its device and distributor.     *)
EXTENDS DistributorEthereumClient, TLC

CONSTANTS d1, d2, o, a, b, c, vendor, f1

MCAccount == {d1, d2, o, a, b, c, vendor}
MCAccountOthers == MCAccount \ {d2}
MCKey == {a, b, c} \X {d1, d2, o}
MCKeyOthers == {a, b, c} \X {d1} \cup {a, c} \X {o}
MCr == [d \in Distributor |-> [pko \in Device |-> <<pko, d>>]]

Proof(pko, pkd) == [signer |-> pko, hash |-> msgHash(f1, sha256(<<pko, pkd>>), pkd)]

\* Every device has signed for d1 only; a for both distributors and b for d2 only; a
\* for d1 and the other account, b for d1, and c, which need not be registered, for
\* the other account.
MCAlone == {Proof(a, d1), Proof(b, d1), Proof(c, d1)}
MCRivals == {Proof(a, d1), Proof(a, d2), Proof(b, d2)}
MCOthers == {Proof(a, d1), Proof(b, d1), Proof(a, o), Proof(c, o)}
==============================================================================

----------------------------- MODULE MCPatchPool -----------------------------
(* Small networks for module PatchPool.                                      *)
EXTENDS PatchPool, TLC

CONSTANTS d1, d2, i1, u1, u2

\* Every update is for every device.
MCAll == [u \in Update |-> IoT]

\* u2 is for other devices.
MCFirst == [u \in Update |-> IF u = u1 THEN IoT ELSE {}]

\* Bytes of two bits.  Hashes have two bytes, and the key streams of two rounds differ.
MCXor(x, y) == ((x + y) % 2) + 2 * (((x \div 2) + (y \div 2)) % 2)
MCKey == Wire
MCKeyPartial(r, b) == [j \in 0..1 |-> (1 + 2 * b + j) % 4]

\* Byte 3 is not UTF-8: toString replaces it.  u1 is text that ends within its
\* second block; u2 is not text and fills two blocks.
MCFile == [u \in Update |-> IF u = u1 THEN <<1, 2, 1>> ELSE <<2, 3, 1, 0>>]
MCUtf8(b) == [k \in 1..Len(b) |-> IF b[k] = 3 THEN 0 ELSE b[k]]
==============================================================================

------------------------------- MODULE Decrypt -------------------------------
(***************************************************************************)
(* The cipher of an update.  The device decrypts with the key stream of    *)
(* IoT._decrypt (src/IoT/IoT.js lines 94 to 106); the cipher text comes    *)
(* from the prover, a program outside the repository.                      *)
(***************************************************************************)
EXTENDS Integers, Sequences

CONSTANTS
    HASH_BYTES,       \* bytes of a hash, 32 in the code
    Byte,             \* what a byte of a buffer may be
    Zero,             \* the byte that Buffer.alloc fills with
    Key,              \* the keys r
    KeyPartial(_, _), \* KeyPartial(r, b): sha256 of r with its last byte set to b
    Xor(_, _),        \* x ^ y
    Utf8(_)           \* a buffer converted to a string and written as UTF-8

\* Positions of a buffer count from 1 here, from 0 in the code.
ASSUME CipherOK ==
    /\ HASH_BYTES \in Nat \ {0}
    /\ Zero \in Byte
    /\ \A r \in Key, b \in 0..255 : KeyPartial(r, b) \in [0..HASH_BYTES - 1 -> Byte]
    /\ \A x, y \in Byte : Xor(x, y) \in Byte /\ Xor(Xor(x, y), y) = x

\* Round i serves the positions of block i.
Round(k) == (k - 1) \div HASH_BYTES

\* The byte of the key stream for position k.  The number of the round is written
\* to the last byte of the key, which keeps it modulo 256.
KeyStream(r, k) == KeyPartial(r, Round(k) % 256)[(k - 1) % HASH_BYTES]

\* Mutant: the full blocks only.
LastRound_full(len) == len \div HASH_BYTES - 1

\* The condition of the loop, i <= (length + 1) / 32, divides floats.
LastRound(len) == (len + 1) \div HASH_BYTES

\* Every position starts at zero and is written in the round of its block; what a
\* round reads and writes past the end of a buffer has no effect.
_decrypt(encrypted_update, r) ==
    [k \in 1..Len(encrypted_update) |->
        IF Round(k) <= LastRound(Len(encrypted_update))
        THEN Xor(encrypted_update[k], KeyStream(r, k)) ELSE Zero]

\* What the prover makes of an update, for _decrypt to undo it.
encrypted_update_data(update, r) == [k \in 1..Len(update) |-> Xor(update[k], KeyStream(r, k))]
==============================================================================

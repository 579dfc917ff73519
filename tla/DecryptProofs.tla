---------------------------- MODULE DecryptProofs ----------------------------
(* The device gets back the update that was encrypted, whatever its length.  *)
EXTENDS Decrypt, TLAPS

LEMMA Quotient ==
    ASSUME NEW n \in Nat \ {0}, NEW m \in Nat
    PROVE  m \div n \in Nat /\ n * (m \div n) <= m /\ m < n * (m \div n) + n
OBVIOUS

LEMMA Remainder ==
    ASSUME NEW n \in Nat \ {0}, NEW m \in Nat
    PROVE  m % n \in 0..n - 1
OBVIOUS

LEMMA QuotientGrows ==
    ASSUME NEW n \in Nat \ {0}, NEW m \in Nat, NEW l \in Nat, m <= l
    PROVE  m \div n <= l \div n
<1> DEFINE q == m \div n
           p == l \div n
<1>1. q \in Nat /\ n * q <= m
  BY Quotient
<1>2. p \in Nat /\ l < n * p + n
  BY Quotient
<1> HIDE DEF p, q
<1>3. n * q < n * (p + 1)
  <2>1. n * (p + 1) = n * p + n /\ n * q \in Nat /\ n * p \in Nat
    BY <1>1, <1>2
  <2> QED BY <1>1, <1>2, <2>1
<1>4. q < p + 1
  <2>1. ASSUME p + 1 <= q PROVE n * (p + 1) <= n * q
    BY <1>1, <1>2, <2>1
  <2> QED BY <1>1, <1>2, <1>3, <2>1
<1> QED BY <1>1, <1>2, <1>4 DEF p, q

\* The last round of the loop serves the last position, although its condition is
\* not the number of blocks.
LEMMA LastRoundSuffices ==
    ASSUME NEW len \in Nat, NEW k \in 1..len
    PROVE  Round(k) <= LastRound(len)
<1>1. HASH_BYTES \in Nat \ {0}
  BY CipherOK
<1>2. k - 1 \in Nat /\ len + 1 \in Nat /\ k - 1 <= len + 1
  OBVIOUS
<1> QED BY <1>1, <1>2, QuotientGrows DEF Round, LastRound

LEMMA XorTwice == \A x, y \in Byte : Xor(x, y) \in Byte /\ Xor(Xor(x, y), y) = x
BY CipherOK

LEMMA KeyStreamByte ==
    ASSUME NEW r \in Key, NEW k \in Nat \ {0}
    PROVE  KeyStream(r, k) \in Byte
<1>1. HASH_BYTES \in Nat \ {0}
  BY CipherOK
<1>2. (k - 1) % HASH_BYTES \in 0..HASH_BYTES - 1 /\ Round(k) \in Nat
  <2>1. k - 1 \in Nat
    OBVIOUS
  <2> QED BY <1>1, <2>1, Quotient, Remainder DEF Round
<1>3. Round(k) % 256 \in 0..255
  BY <1>2
<1>4. KeyPartial(r, Round(k) % 256) \in [0..HASH_BYTES - 1 -> Byte]
  BY <1>3, CipherOK
<1> QED BY <1>2, <1>4 DEF KeyStream

\* No position is left at zero and none is decrypted twice: the device gets the
\* update back, of whatever length, although the condition of the loop counts
\* neither blocks nor bytes and the number of the round wraps around at 256.
THEOREM DecryptInverts ==
    ASSUME NEW update \in Seq(Byte), NEW r \in Key
    PROVE  _decrypt(encrypted_update_data(update, r), r) = update
<1> DEFINE enc == encrypted_update_data(update, r)
<1>1. enc \in Seq(Byte) /\ Len(enc) = Len(update)
      /\ \A k \in 1..Len(update) : enc[k] = Xor(update[k], KeyStream(r, k))
  <2>1. \A k \in 1..Len(update) : Xor(update[k], KeyStream(r, k)) \in Byte
    <3> TAKE k \in 1..Len(update)
    <3>1. update[k] \in Byte /\ KeyStream(r, k) \in Byte
      BY KeyStreamByte
    <3> QED BY <3>1, XorTwice
  <2> QED BY <2>1 DEF encrypted_update_data
<1>2. ASSUME NEW k \in 1..Len(update)
      PROVE  Xor(enc[k], KeyStream(r, k)) = update[k] /\ Round(k) <= LastRound(Len(enc))
  <2>1. Round(k) <= LastRound(Len(enc))
    BY <1>1, LastRoundSuffices
  <2>2. Xor(Xor(update[k], KeyStream(r, k)), KeyStream(r, k)) = update[k]
    <3>1. update[k] \in Byte /\ KeyStream(r, k) \in Byte
      BY KeyStreamByte
    <3> QED BY <3>1, XorTwice
  <2> QED BY <1>1, <2>1, <2>2
<1> HIDE DEF enc
<1>3. _decrypt(enc, r) = [k \in 1..Len(update) |-> update[k]]
  BY <1>1, <1>2 DEF _decrypt
<1> QED BY <1>3 DEF enc
==============================================================================

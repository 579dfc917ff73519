----------------------------- MODULE IotPCProofs -----------------------------
(* Proofs about the IotPC contract, for every set of accounts and devices,   *)
(* every number of rewards and every amount of ether.                        *)
EXTENDS IotPC, FiniteSetTheorems, TLAPS

------------------------------------------------------------------------------
\* Arithmetic and finite sets

\* Dividing a nonempty number of shares: the quotient is a part of the whole.
LEMMA Division ==
    ASSUME NEW b \in Nat, NEW k \in Nat \ {0}
    PROVE  /\ b \div k \in Nat
           /\ k * (b \div k) <= b
           /\ b < k * (b \div k) + k
OBVIOUS

LEMMA DivisionAtMost ==
    ASSUME NEW b \in Nat, NEW k \in Nat \ {0}
    PROVE  b \div k <= b
<1> DEFINE q == b \div k
<1>1. q \in Nat /\ k * q <= b
  BY Division
<1>2. q <= k * q
  <2> HIDE DEF q
  <2> QED BY <1>1
<1> QED BY <1>1, <1>2

\* If b covers k shares of size q, then b \div k is at least q, and what is
\* left after paying it out covers the other k - 1 shares.
LEMMA FairDivision ==
    ASSUME NEW b \in Nat, NEW k \in Nat \ {0}, NEW q \in Nat, b >= k * q
    PROVE  /\ b \div k >= q
           /\ b - b \div k >= (k - 1) * q
<1> DEFINE p == b \div k
<1>1. p \in Nat /\ k * p <= b /\ b < k * p + k
  BY Division
<1> HIDE DEF p
<1>2. p >= q
  <2> SUFFICES ASSUME p + 1 <= q PROVE FALSE
    BY <1>1
  <2>1. k * (p + 1) <= k * q
    BY <1>1
  <2>2. k * (p + 1) = k * p + k
    BY <1>1
  <2> QED BY <1>1, <2>1, <2>2
<1>3. b - p >= (k - 1) * q
  <2>1. (k - 1) * p = k * p - p
    BY <1>1
  <2>2. (k - 1) * q <= (k - 1) * p
    BY <1>1, <1>2
  <2> QED BY <1>1, <2>1, <2>2
<1> QED BY <1>2, <1>3 DEF p

LEMMA OneMoreShare ==
    ASSUME NEW q \in Nat, NEW c \in Nat
    PROVE  q * (c + 1) = q * c + q
OBVIOUS

LEMMA ShareType == Share \in Nat
<1>1. N \in Nat \ {0} /\ Value \in Nat
  BY NumbersOK
<1> QED BY <1>1, Division DEF Share

LEMMA DevicesFinite == IsFiniteSet(Device)
<1>1. IsFiniteSet(Account) /\ Device \subseteq Account
  BY ConstantsOK
<1> QED BY <1>1, FS_Subset

LEMMA RevealedFinite ==
    /\ IsFiniteSet(Revealed)
    /\ Cardinality(Revealed) \in Nat
    /\ \A d : IsFiniteSet(RevealedBy(d)) /\ Cardinality(RevealedBy(d)) \in Nat
<1>1. \A S : S \subseteq Device => IsFiniteSet(S) /\ Cardinality(S) \in Nat
  BY DevicesFinite, FS_Subset, FS_CardinalityType
<1>2. Revealed \subseteq Device /\ \A d : RevealedBy(d) \subseteq Device
  BY DEF Revealed, RevealedBy
<1> QED BY <1>1, <1>2

LEMMA DeadlineType == Deadline \in Nat
<1>1. StartTime \in Nat /\ DaysTillExpiration \in Nat /\ Day \in Nat
  BY NumbersOK
<1> QED BY <1>1 DEF Deadline

------------------------------------------------------------------------------
\* Type correctness

LEMMA TypeInit == Init => TypeOK
<1> SUFFICES ASSUME Init PROVE TypeOK
  OBVIOUS
<1>1. StartTime \in Nat /\ Value \in Nat
  BY NumbersOK
<1> QED BY <1>1 DEF Init, TypeOK, Approvement

LEMMA TypeNext == TypeOK /\ [Next]_vars => TypeOK'
<1> SUFFICES ASSUME TypeOK, [Next]_vars PROVE TypeOK'
  OBVIOUS
<1> USE DEF TypeOK
<1>1. CASE Tick
  BY <1>1 DEF Tick
<1>2. ASSUME NEW value \in Deposit, Fallback(value) PROVE TypeOK'
  <2>1. value \in Nat
    BY ConstantsOK
  <2> QED BY <1>2, <2>1 DEF Fallback
<1>3. ASSUME NEW sender \in Account, withdraw_funds(sender) PROVE TypeOK'
  <2>1. Owner \in Account
    BY ConstantsOK
  <2> QED BY <1>3, <2>1 DEF withdraw_funds, transfer
<1>4. ASSUME NEW pkd \in Account, NEW pko \in Device, NEW pko_hash \in Device,
             NEW s \in Digest, NEW sig \in Signature,
             commit(pkd, pko, pko_hash, s, sig)
      PROVE  TypeOK'
  <2>1. [commit_time |-> now, pkd |-> pkd, s |-> s] \in Approvement
    BY DEF Approvement
  <2> QED BY <1>4, <2>1 DEF commit
<1>5. ASSUME NEW pkd \in Account, NEW pko \in Device, NEW r \in Key,
             reveal(pkd, r, pko)
      PROVE  TypeOK'
  <2>1. N - num_of_updated_objects \in Nat \ {0}
    BY <1>5, NumbersOK DEF reveal, reveal_requires
  <2>2. amount_to_transfer \in Nat /\ amount_to_transfer <= balance
    BY <2>1, Division, DivisionAtMost DEF amount_to_transfer
  <2>3. balance' \in Nat /\ received' \in [Account -> Nat]
    BY <1>5, <2>2 DEF reveal, transfer
  <2>4. iot_devices' \in [Device -> Approvement]
    BY <1>5 DEF reveal, Approvement
  <2> QED BY <1>5, <2>3, <2>4 DEF reveal
<1>6. CASE UNCHANGED vars
  BY <1>6 DEF vars
<1> QED BY <1>1, <1>2, <1>3, <1>4, <1>5, <1>6 DEF Next, Commit, Reveal

\* Every value that the contract stores has its type; in particular the balance
\* never becomes negative, whoever is paid.
THEOREM TypeCorrect == Spec => []TypeOK
<1> QED BY TypeInit, TypeNext, PTL DEF Spec

------------------------------------------------------------------------------
\* What the actions do to the devices that count as updated

LEMMA CommitKeepsRevealed ==
    ASSUME TypeOK,
           NEW pkd \in Account, NEW pko \in Device, NEW pko_hash \in Device,
           NEW s \in Digest, NEW sig \in Signature,
           commit(pkd, pko, pko_hash, s, sig)
    PROVE  /\ Revealed' = Revealed
           /\ \A d \in Account : RevealedBy(d)' = RevealedBy(d)
<1>1. s # REVEALED
  BY ConstantsOK
<1>2. iot_devices[pko].s # REVEALED
  BY DEF commit, commit_requires
<1>3. \A p \in Device : p # pko => iot_devices'[p] = iot_devices[p]
  BY DEF commit, TypeOK
<1>4. iot_devices'[pko].s = s
  BY DEF commit, TypeOK
<1>5. Revealed' = Revealed
  BY <1>1, <1>2, <1>3, <1>4 DEF Revealed
<1>6. pko \notin Revealed
  BY <1>2 DEF Revealed
<1>7. ASSUME NEW d \in Account PROVE RevealedBy(d)' = RevealedBy(d)
  <2>1. \A p \in Revealed : iot_devices'[p].pkd = iot_devices[p].pkd
    BY <1>3, <1>6 DEF Revealed
  <2> QED BY <1>5, <2>1 DEF RevealedBy
<1> QED BY <1>5, <1>7

LEMMA RevealAddsOne ==
    ASSUME TypeOK,
           NEW pkd \in Account, NEW pko \in Device, NEW r \in Key,
           reveal(pkd, r, pko)
    PROVE  /\ pko \notin Revealed
           /\ Revealed' = Revealed \cup {pko}
           /\ RevealedBy(pkd)' = RevealedBy(pkd) \cup {pko}
           /\ \A d \in Account \ {pkd} : RevealedBy(d)' = RevealedBy(d)
           /\ Cardinality(Revealed') = Cardinality(Revealed) + 1
           /\ Cardinality(RevealedBy(pkd)') = Cardinality(RevealedBy(pkd)) + 1
<1>1. pko \notin Revealed
  BY DEF reveal, reveal_requires, Revealed
<1>2. iot_devices'[pko].s = REVEALED /\ iot_devices'[pko].pkd = pkd
  BY DEF reveal, reveal_requires, TypeOK, Approvement
<1>3. \A p \in Device : p # pko => iot_devices'[p] = iot_devices[p]
  BY DEF reveal, TypeOK
<1>4. Revealed' = Revealed \cup {pko}
  BY <1>2, <1>3 DEF Revealed
<1>5. \A p \in Revealed : iot_devices'[p].pkd = iot_devices[p].pkd
  BY <1>1, <1>3 DEF Revealed
<1>6. RevealedBy(pkd)' = RevealedBy(pkd) \cup {pko}
  BY <1>2, <1>4, <1>5 DEF RevealedBy
<1>7. \A d \in Account \ {pkd} : RevealedBy(d)' = RevealedBy(d)
  BY <1>2, <1>4, <1>5 DEF RevealedBy
<1>8. pko \notin RevealedBy(pkd)
  BY <1>1 DEF RevealedBy
<1>9. Cardinality(Revealed \cup {pko}) = Cardinality(Revealed) + 1
  BY <1>1, RevealedFinite, FS_AddElement
<1>10. Cardinality(RevealedBy(pkd) \cup {pko}) = Cardinality(RevealedBy(pkd)) + 1
  BY <1>8, RevealedFinite, FS_AddElement
<1> QED BY <1>1, <1>4, <1>6, <1>7, <1>9, <1>10

\* The other actions leave the mapping alone.
LEMMA OthersKeepRevealed ==
    ASSUME UNCHANGED iot_devices
    PROVE  /\ Revealed' = Revealed
           /\ \A d \in Account : RevealedBy(d)' = RevealedBy(d)
BY DEF Revealed, RevealedBy

------------------------------------------------------------------------------
\* The inductive invariant: TypeOK, and the four invariants that the runs
\* check.  PoolCoversShares needs the count to agree with the mapping, and
\* PaidForEveryDelivery needs the pool to cover the share that is paid.

IInv ==
    /\ TypeOK
    /\ CountMatchesRevealed
    /\ KeyPublishedOnce
    /\ PoolCoversShares
    /\ PaidForEveryDelivery

LEMMA InvInit == Init => IInv
<1> SUFFICES ASSUME Init PROVE IInv
  OBVIOUS
<1>1. TypeOK
  BY TypeInit
<1>2. NoDigest # REVEALED
  BY ConstantsOK
<1>3. Revealed = {} /\ \A d : RevealedBy(d) = {}
  BY <1>2 DEF Init, Revealed, RevealedBy
<1>4. CountMatchesRevealed
  BY <1>3, FS_EmptySet, NumbersOK DEF Init, CountMatchesRevealed
<1>5. KeyPublishedOnce
  BY <1>3 DEF Init, KeyPublishedOnce
<1>6. PoolCoversShares
  <2>1. N \in Nat \ {0} /\ Value \in Nat
    BY NumbersOK
  <2>2. N * Share <= Value
    BY <2>1, Division DEF Share
  <2>3. balance = Value /\ N - num_of_updated_objects = N
    BY <2>1 DEF Init
  <2> QED BY <2>2, <2>3, <2>1, ShareType DEF PoolCoversShares
<1>7. PaidForEveryDelivery
  <2>1. Share * 0 = 0
    BY ShareType
  <2> QED BY <1>3, <2>1, FS_EmptySet DEF Init, PaidForEveryDelivery
<1> QED BY <1>1, <1>4, <1>5, <1>6, <1>7 DEF IInv
LEMMA CountStep == IInv /\ [Next]_vars => CountMatchesRevealed'
<1> SUFFICES ASSUME IInv, [Next]_vars PROVE CountMatchesRevealed'
  OBVIOUS
<1> USE DEF IInv
<1>1. CASE UNCHANGED <<iot_devices, num_of_updated_objects>>
  BY <1>1, OthersKeepRevealed DEF CountMatchesRevealed
<1>2. CASE Commit
  <2>1. PICK pkd \in Account, pko \in Device, pko_hash \in Device,
             s \in Digest, sig \in Signature : commit(pkd, pko, pko_hash, s, sig)
    BY <1>2 DEF Commit
  <2>2. Revealed' = Revealed
    BY <2>1, CommitKeepsRevealed
  <2> QED BY <2>1, <2>2 DEF CountMatchesRevealed, commit
<1>3. CASE Reveal
  <2>1. PICK pkd \in Account, pko \in Device, r \in Key : reveal(pkd, r, pko)
    BY <1>3 DEF Reveal
  <2>2. Cardinality(Revealed') = Cardinality(Revealed) + 1
    BY <2>1, RevealAddsOne
  <2>3. num_of_updated_objects' = num_of_updated_objects + 1
        /\ num_of_updated_objects < N
    BY <2>1, NumbersOK DEF reveal, reveal_requires, TypeOK
  <2> QED BY <2>2, <2>3, NumbersOK DEF CountMatchesRevealed, TypeOK
<1> QED
  BY <1>1, <1>2, <1>3 DEF Next, vars, Tick, Fallback, withdraw_funds

LEMMA KeyStep == IInv /\ [Next]_vars => KeyPublishedOnce'
<1> SUFFICES ASSUME IInv, [Next]_vars PROVE KeyPublishedOnce'
  OBVIOUS
<1> USE DEF IInv
<1>1. CASE UNCHANGED <<iot_devices, KeyRevealed>>
  BY <1>1, OthersKeepRevealed DEF KeyPublishedOnce
<1>2. CASE Commit
  <2>1. PICK pkd \in Account, pko \in Device, pko_hash \in Device,
             s \in Digest, sig \in Signature : commit(pkd, pko, pko_hash, s, sig)
    BY <1>2 DEF Commit
  <2>2. Revealed' = Revealed
    BY <2>1, CommitKeepsRevealed
  <2> QED BY <2>1, <2>2 DEF KeyPublishedOnce, commit
<1>3. CASE Reveal
  <2>1. PICK pkd \in Account, pko \in Device, r \in Key : reveal(pkd, r, pko)
    BY <1>3 DEF Reveal
  <2>2. pko \notin Revealed /\ Revealed' = Revealed \cup {pko}
    BY <2>1, RevealAddsOne
  <2>3. KeyRevealed' = KeyRevealed \cup {[pko |-> pko, r |-> r]}
    BY <2>1 DEF reveal
  <2>4. \A e \in KeyRevealed : e.pko # pko
    BY <2>2 DEF KeyPublishedOnce
  <2>5. Revealed' = {e.pko : e \in KeyRevealed'}
    <3>1. \A p \in Revealed' : \E e \in KeyRevealed' : p = e.pko
      <4>1. \A p \in Revealed : \E e \in KeyRevealed : p = e.pko
        BY DEF KeyPublishedOnce
      <4>2. [pko |-> pko, r |-> r].pko = pko
        OBVIOUS
      <4> QED BY <2>2, <2>3, <4>1, <4>2
    <3>2. \A e \in KeyRevealed' : e.pko \in Revealed'
      BY <2>2, <2>3 DEF KeyPublishedOnce
    <3> QED BY <3>1, <3>2
  <2>6. \A e, f \in KeyRevealed' : e.pko = f.pko => e = f
    BY <2>3, <2>4 DEF KeyPublishedOnce
  <2> QED BY <2>5, <2>6 DEF KeyPublishedOnce
<1> QED
  BY <1>1, <1>2, <1>3 DEF Next, vars, Tick, Fallback, withdraw_funds

LEMMA PoolStep == IInv /\ [Next]_vars => PoolCoversShares'
<1> SUFFICES ASSUME IInv, [Next]_vars, ~Expired' PROVE
                 balance' >= (N - num_of_updated_objects') * Share
  BY DEF PoolCoversShares
<1> USE DEF IInv
<1>1. ~Expired
  <2>1. now' >= now /\ now' \in Nat
    BY TypeNext DEF Next, vars, Tick, Fallback, withdraw_funds, Commit, commit,
                    Reveal, reveal, TypeOK
  <2> QED BY <2>1, DeadlineType DEF Expired, TypeOK, Deadline
<1>2. balance >= (N - num_of_updated_objects) * Share
  BY <1>1 DEF PoolCoversShares
<1>3. CASE UNCHANGED <<balance, num_of_updated_objects>>
  BY <1>2, <1>3
<1>4. ASSUME NEW value \in Deposit, Fallback(value)
      PROVE  balance' >= (N - num_of_updated_objects') * Share
  <2>1. balance' >= balance
    BY <1>4, ConstantsOK DEF Fallback, TypeOK
  <2>2. num_of_updated_objects' = num_of_updated_objects
    BY <1>4 DEF Fallback
  <2>3. (N - num_of_updated_objects) * Share \in Int
    BY NumbersOK, ShareType DEF TypeOK
  <2>4. balance \in Int /\ balance' \in Int
    BY <1>4, ConstantsOK DEF Fallback, TypeOK
  <2> QED BY <1>2, <2>1, <2>2, <2>3, <2>4
<1>5. ASSUME NEW sender \in Account, withdraw_funds(sender) PROVE FALSE
  BY <1>1, <1>5 DEF withdraw_funds, Expired
<1>6. CASE Reveal
  <2>1. PICK pkd \in Account, pko \in Device, r \in Key : reveal(pkd, r, pko)
    BY <1>6 DEF Reveal
  <2> DEFINE k == N - num_of_updated_objects
  <2>2. k \in Nat \ {0} /\ balance \in Nat
    BY <2>1, NumbersOK DEF reveal, reveal_requires, TypeOK
  <2>3. balance' = balance - balance \div k
    BY <2>1 DEF reveal, transfer, amount_to_transfer
  <2>4. N - num_of_updated_objects' = k - 1
    BY <2>1, NumbersOK DEF reveal, TypeOK
  <2>5. balance >= k * Share
    BY <1>2
  <2> HIDE DEF k
  <2>6. balance - balance \div k >= (k - 1) * Share
    BY <2>2, <2>5, ShareType, FairDivision
  <2> QED BY <2>3, <2>4, <2>6
<1> QED
  BY <1>3, <1>4, <1>5, <1>6 DEF Next, vars, Tick, Commit, commit

LEMMA PaidStep == IInv /\ [Next]_vars => PaidForEveryDelivery'
<1> SUFFICES ASSUME IInv, [Next]_vars, NEW d \in Account
             PROVE  received'[d] >= Share * Cardinality(RevealedBy(d)')
  BY DEF PaidForEveryDelivery, Share
<1> USE DEF IInv
<1>1. /\ received[d] >= Share * Cardinality(RevealedBy(d))
      /\ received[d] \in Nat
      /\ Cardinality(RevealedBy(d)) \in Nat
  BY RevealedFinite DEF PaidForEveryDelivery, TypeOK
<1>2. CASE UNCHANGED <<received, iot_devices>>
  BY <1>1, <1>2, OthersKeepRevealed
<1>3. ASSUME NEW sender \in Account, withdraw_funds(sender)
      PROVE  received'[d] >= Share * Cardinality(RevealedBy(d)')
  <2>1. received'[d] >= received[d] /\ received'[d] \in Int
    BY <1>3, ConstantsOK DEF withdraw_funds, transfer, TypeOK
  <2>2. RevealedBy(d)' = RevealedBy(d)
    BY <1>3, OthersKeepRevealed DEF withdraw_funds
  <2>3. Share * Cardinality(RevealedBy(d)) \in Int
    BY <1>1, ShareType
  <2> QED BY <1>1, <2>1, <2>2, <2>3
<1>4. CASE Commit
  <2>1. PICK pkd \in Account, pko \in Device, pko_hash \in Device,
             s \in Digest, sig \in Signature : commit(pkd, pko, pko_hash, s, sig)
    BY <1>4 DEF Commit
  <2>2. RevealedBy(d)' = RevealedBy(d)
    BY <2>1, CommitKeepsRevealed
  <2> QED BY <1>1, <2>1, <2>2 DEF commit
<1>5. CASE Reveal
  <2>1. PICK pkd \in Account, pko \in Device, r \in Key : reveal(pkd, r, pko)
    BY <1>5 DEF Reveal
  <2>2. CASE d # pkd
    <3>1. RevealedBy(d)' = RevealedBy(d)
      BY <2>1, <2>2, RevealAddsOne
    <3>2. received'[d] = received[d]
      BY <2>1, <2>2 DEF reveal, transfer, TypeOK
    <3> QED BY <1>1, <3>1, <3>2
  <2>3. CASE d = pkd
    <3>1. Cardinality(RevealedBy(d)') = Cardinality(RevealedBy(d)) + 1
      BY <2>1, <2>3, RevealAddsOne
    <3>2. received'[d] = received[d] + amount_to_transfer
      BY <2>1, <2>3 DEF reveal, transfer, TypeOK
    <3>3. ~Expired
      BY <2>1, DeadlineType DEF reveal, reveal_requires, Expired, TypeOK
    <3>4. amount_to_transfer >= Share /\ amount_to_transfer \in Nat
      <4>1. N - num_of_updated_objects \in Nat \ {0} /\ balance \in Nat
        BY <2>1, NumbersOK DEF reveal, reveal_requires, TypeOK
      <4>2. balance >= (N - num_of_updated_objects) * Share
        BY <3>3 DEF PoolCoversShares
      <4> QED BY <4>1, <4>2, ShareType, FairDivision, Division
              DEF amount_to_transfer
    <3>5. Share * (Cardinality(RevealedBy(d)) + 1)
            = Share * Cardinality(RevealedBy(d)) + Share
      BY <1>1, ShareType, OneMoreShare
    <3>6. Share * Cardinality(RevealedBy(d)) \in Int
      BY <1>1, ShareType
    <3> QED BY <1>1, <3>1, <3>2, <3>4, <3>5, <3>6, ShareType
  <2> QED BY <2>2, <2>3
<1> QED
  BY <1>2, <1>3, <1>4, <1>5 DEF Next, vars, Tick, Fallback

LEMMA Inductive == Spec => []IInv
<1>1. IInv /\ [Next]_vars => IInv'
  BY TypeNext, CountStep, KeyStep, PoolStep, PaidStep DEF IInv
<1> QED BY InvInit, <1>1, PTL DEF Spec

\* _num_of_updated_objects counts the REVEALED devices and never passes _n.
THEOREM CountCorrect == Spec => []CountMatchesRevealed
<1> QED BY Inductive, PTL DEF IInv

\* At most one key is ever published for a device, and only with its reward.
THEOREM KeysCorrect == Spec => []KeyPublishedOnce
<1> QED BY Inductive, PTL DEF IInv

\* Until it expires the contract can pay the initial share for every device
\* that is still to be updated.
THEOREM Solvent == Spec => []PoolCoversShares
<1> QED BY Inductive, PTL DEF IInv

\* Every delivery whose key was revealed has been paid at least the initial share.
THEOREM DeliveriesPaid == Spec => []PaidForEveryDelivery
<1> QED BY Inductive, PTL DEF IInv

------------------------------------------------------------------------------
\* Commitments

LEMMA ExclusiveStep ==
    ASSUME IInv, [Next]_vars, NEW p \in Device,
           iot_devices[p].pkd # NoAccount,
           now - iot_devices[p].commit_time <= DeltaToReveal
    PROVE  /\ iot_devices'[p].pkd = iot_devices[p].pkd
           /\ iot_devices'[p].commit_time = iot_devices[p].commit_time
           /\ iot_devices'[p].s \in {iot_devices[p].s, REVEALED}
<1> USE DEF IInv
<1>1. CASE UNCHANGED iot_devices
  BY <1>1
<1>2. CASE Commit
  <2>1. PICK pkd \in Account, pko \in Device, pko_hash \in Device,
             s \in Digest, sig \in Signature : commit(pkd, pko, pko_hash, s, sig)
    BY <1>2 DEF Commit
  <2>2. pko # p
    BY <2>1, NumbersOK DEF commit, commit_requires, Available, TypeOK, Approvement
  <2>3. iot_devices'[p] = iot_devices[p]
    BY <2>1, <2>2 DEF commit, TypeOK
  <2> QED BY <2>3
<1>3. CASE Reveal
  <2>1. PICK pkd \in Account, pko \in Device, r \in Key : reveal(pkd, r, pko)
    BY <1>3 DEF Reveal
  <2>2. CASE pko # p
    BY <2>1, <2>2 DEF reveal, TypeOK
  <2>3. CASE pko = p
    <3>1. iot_devices'[p] = [iot_devices[p] EXCEPT !.s = REVEALED]
      BY <2>1, <2>3 DEF reveal, TypeOK
    <3> QED BY <3>1 DEF TypeOK, Approvement
  <2> QED BY <2>2, <2>3
<1> QED
  BY <1>1, <1>2, <1>3 DEF Next, vars, Tick, Fallback, withdraw_funds

\* While the reveal window of a commitment is open, no step replaces it.
THEOREM Exclusive == Spec => CommitmentIsExclusive
<1> DEFINE A == \A pko \in Device :
                  (/\ iot_devices[pko].pkd # NoAccount
                   /\ now - iot_devices[pko].commit_time <= DeltaToReveal) =>
                      /\ iot_devices'[pko].pkd = iot_devices[pko].pkd
                      /\ iot_devices'[pko].commit_time = iot_devices[pko].commit_time
                      /\ iot_devices'[pko].s \in {iot_devices[pko].s, REVEALED}
<1>1. IInv /\ [Next]_vars => [A]_vars
  BY ExclusiveStep
<1> QED BY Inductive, <1>1, PTL DEF Spec, CommitmentIsExclusive

------------------------------------------------------------------------------
\* Refinement

\* The instance has its own copy of the operators that RewardPool extends.
LEMMA SameCardinality == \A S : Pool!Cardinality(S) = Cardinality(S)
BY DEF Pool!Cardinality, Cardinality

LEMMA RefinesInit == Init => Pool!Init
<1> SUFFICES ASSUME Init PROVE Pool!Init
  OBVIOUS
<1>1. Revealed = {}
  BY ConstantsOK DEF Init, Revealed
<1>2. ~Expired
  <2>1. {StartTime, DaysTillExpiration, Day} \subseteq Nat
    BY NumbersOK
  <2>2. DaysTillExpiration * Day \in Nat
    BY <2>1
  <2> QED BY <2>1, <2>2 DEF Init, Expired, Deadline
<1> QED BY <1>1, <1>2 DEF Init, Pool!Init

LEMMA RefinesNext == IInv /\ [Next]_vars => [Pool!Next]_(Pool!pvars)
<1> SUFFICES ASSUME IInv, [Next]_vars PROVE [Pool!Next]_(Pool!pvars)
  OBVIOUS
<1> USE DEF IInv
<1>1. CASE Tick
  <2>1. UNCHANGED <<Revealed, balance>>
    BY <1>1, OthersKeepRevealed DEF Tick
  <2>2. Expired => Expired'
    BY <1>1, DeadlineType DEF Tick, Expired, Deadline, TypeOK
  <2> QED BY <2>1, <2>2 DEF Pool!Next, Pool!Close, Pool!pvars
<1>2. ASSUME NEW value \in Deposit, Fallback(value) PROVE Pool!Next
  <2>1. UNCHANGED <<Revealed, Expired>>
    BY <1>2, OthersKeepRevealed DEF Fallback, Expired, Deadline
  <2> QED BY <1>2, <2>1 DEF Fallback, Pool!Next, Pool!Refill
<1>3. ASSUME NEW sender \in Account, withdraw_funds(sender) PROVE Pool!Next
  <2>1. UNCHANGED <<Revealed, Expired>>
    BY <1>3, OthersKeepRevealed DEF withdraw_funds, Expired, Deadline
  <2>2. Expired
    BY <1>3 DEF withdraw_funds, Expired
  <2>3. balance' = 0
    BY <1>3 DEF withdraw_funds, transfer, TypeOK
  <2> QED BY <2>1, <2>2, <2>3 DEF Pool!Next, Pool!Reclaim
<1>4. CASE Commit
  <2>1. PICK pkd \in Account, pko \in Device, pko_hash \in Device,
             s \in Digest, sig \in Signature : commit(pkd, pko, pko_hash, s, sig)
    BY <1>4 DEF Commit
  <2>2. UNCHANGED <<Revealed, balance, Expired>>
    BY <2>1, CommitKeepsRevealed DEF commit, Expired, Deadline
  <2> QED BY <2>2 DEF Pool!pvars
<1>5. CASE Reveal
  <2>1. PICK pkd \in Account, pko \in Device, r \in Key : reveal(pkd, r, pko)
    BY <1>5 DEF Reveal
  <2>2. pko \notin Revealed /\ Revealed' = Revealed \cup {pko}
    BY <2>1, RevealAddsOne
  <2>3. Cardinality(Revealed) = num_of_updated_objects
    BY DEF CountMatchesRevealed
  <2>4. Cardinality(Revealed) < N
    BY <2>1, <2>3, NumbersOK DEF reveal, reveal_requires, TypeOK
  <2>5. balance' = balance - balance \div (N - Cardinality(Revealed))
    BY <2>1, <2>3 DEF reveal, transfer, amount_to_transfer
  <2>6. ~Expired /\ ~Expired'
    BY <2>1, DeadlineType DEF reveal, reveal_requires, Expired, Deadline, TypeOK
  <2>7. Pool!Reward(pko)
    BY <2>2, <2>4, <2>5, <2>6, SameCardinality DEF Pool!Reward
  <2> QED BY <2>7 DEF Pool!Next
<1>6. CASE UNCHANGED vars
  BY <1>6, OthersKeepRevealed DEF vars, Pool!pvars, Expired, Deadline
<1> QED BY <1>1, <1>2, <1>3, <1>4, <1>5, <1>6 DEF Next

\* The contract implements the reward pool.
THEOREM Refinement == Spec => ImplementsRewardPool
<1> QED
  BY RefinesInit, RefinesNext, Inductive, PTL
  DEF Spec, ImplementsRewardPool, Pool!Spec
==============================================================================

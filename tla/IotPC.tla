-------------------------------- MODULE IotPC --------------------------------
(***************************************************************************)
(* The IotPC smart contract (src/Files/Contracts/IotPC.sol): an escrow     *)
(* that pays a distributor for every device that a key is revealed for.    *)
(*                                                                         *)
(* One action per public function.  A transaction that fails a require()   *)
(* is rolled back and changes nothing, so an action is exactly the         *)
(* successful call and its guard is the conjunction of the require()s.     *)
(* Any account may send any transaction at any time: Next quantifies over  *)
(* senders and arguments.                                                  *)
(***************************************************************************)
EXTENDS Integers, FiniteSets

CONSTANTS
    Account,             \* addresses: distributors, devices, the vendor
    Device,              \* the addresses that belong to a device
    Registered,          \* the devices whose hashes are the leaves of _merkle_root
    Key,                 \* the 32-byte keys r
    FileHash,            \* info hashes of update files
    Signature,           \* the proofs of distribution that devices have signed
    NoAccount,           \* address(0)
    NoDigest,            \* bytes32(0): the s of a device nobody committed for
    REVEALED,            \* the marker 0x01 that replaces s on reveal
    Uid,                 \* _uid: the info hash of this contract's update file
    Owner,               \* _owner: the vendor
    N,                   \* _n: the number of rewards
    Value,               \* the ether createContract sends along
    StartTime,           \* _contract_start_time
    Day,                 \* the unit `1 days` in block time
    DaysTillExpiration,  \* _days_till_expiration
    DeltaToReveal,       \* _delta_to_reveal
    Deposit,             \* amounts that anyone may send to the fallback function
    MaxBalance,          \* bound: on the balance and what the owner took back
    MaxTime              \* bound: block time stops here

\* sha256 as a free constructor: it has no collisions.
sha256(r) == [sha256 |-> r]
Digest == {sha256(r) : r \in Key}

\* keccak256(_uid, s, pkd), the message that a device signs.
msgHash(uid, s, pkd) == [uid |-> uid, s |-> s, pkd |-> pkd]
Message == [uid : FileHash, s : Digest, pkd : Account]

ASSUME ConstantsOK ==
    /\ IsFiniteSet(Account)
    /\ Device \subseteq Account
    /\ Registered \subseteq Device
    /\ NoAccount \notin Account
    /\ {NoDigest, REVEALED} \cap Digest = {}
    /\ NoDigest # REVEALED
    /\ Uid \in FileHash
    /\ Owner \in Account
    /\ Signature \subseteq [signer : Device, hash : Message]
    /\ Deposit \subseteq Nat

\* A contract for no device at all (_n = 0) pays nobody and is left out.
ASSUME NumbersOK ==
    /\ N \in Nat \ {0}
    /\ {Value, StartTime, Day, DaysTillExpiration, DeltaToReveal} \subseteq Nat
    /\ {MaxBalance, MaxTime} \subseteq Nat

VARIABLES
    now,          \* timestamp of the block that is being built
    balance,      \* address(this).balance
    iot_devices,  \* the mapping iot_devices
    num_of_updated_objects,
    received,     \* ether that the contract has transferred, by receiver
    KeyRevealed   \* the KeyRevealed events in the chain's log

vars == <<now, balance, iot_devices, num_of_updated_objects, received, KeyRevealed>>

Approvement == [commit_time : Nat,
                pkd : Account \cup {NoAccount},
                s : Digest \cup {NoDigest, REVEALED}]

\* The devices that count as updated, and those that d revealed the key of.
Revealed == {pko \in Device : iot_devices[pko].s = REVEALED}
RevealedBy(d) == {pko \in Revealed : iot_devices[pko].pkd = d}

Deadline == StartTime + DaysTillExpiration * Day
Expired == now > Deadline

TypeOK ==
    /\ now \in Nat
    /\ balance \in Nat
    /\ iot_devices \in [Device -> Approvement]
    /\ num_of_updated_objects \in Nat
    /\ received \in [Account -> Nat]
    /\ KeyRevealed \subseteq [pko : Device, r : Key]

------------------------------------------------------------------------------

\* createContract runs the constructor and funds the contract in one transaction.
Init ==
    /\ now = StartTime
    /\ balance = Value
    /\ iot_devices = [pko \in Device |->
                        [commit_time |-> 0, pkd |-> NoAccount, s |-> NoDigest]]
    /\ num_of_updated_objects = 0
    /\ received = [a \in Account |-> 0]
    /\ KeyRevealed = {}

Tick ==
    /\ now < MaxTime
    /\ now' = now + 1
    /\ UNCHANGED <<balance, iot_devices, num_of_updated_objects, received, KeyRevealed>>

\* The payable fallback function.
Fallback(value) ==
    /\ balance + received[Owner] + value <= MaxBalance
    /\ balance' = balance + value
    /\ UNCHANGED <<now, iot_devices, num_of_updated_objects, received, KeyRevealed>>

\* address.transfer(amount)
transfer(to, amount) ==
    /\ balance' = balance - amount
    /\ received' = [received EXCEPT ![to] = @ + amount]

\* Mutant: the deadline itself counts as expired.
withdraw_funds_early(sender) ==
    /\ sender = Owner
    /\ now >= Deadline
    /\ transfer(Owner, balance)
    /\ UNCHANGED <<now, iot_devices, num_of_updated_objects, KeyRevealed>>

withdraw_funds(sender) ==
    /\ sender = Owner
    /\ now > Deadline
    /\ transfer(Owner, balance)
    /\ UNCHANGED <<now, iot_devices, num_of_updated_objects, KeyRevealed>>

\* A Merkle proof folds pko_hash to _merkle_root only when pko_hash is the hash
\* of a registered device.  The function computes keccak256(pko) too, and does
\* not use it.
validate_pko(pko, pko_hash) == pko_hash \in Registered

verify_signature(hash, sig, target) ==
    /\ sig.signer = target
    /\ sig.hash = hash

\* Mutant: the window closes one unit of time too early.
Available_early(pko) ==
    \/ iot_devices[pko].pkd = NoAccount
    \/ now - iot_devices[pko].commit_time >= DeltaToReveal

\* No commitment yet, or one whose reveal window has passed.
Available(pko) ==
    \/ iot_devices[pko].pkd = NoAccount
    \/ now - iot_devices[pko].commit_time > DeltaToReveal

\* Mutant: a device whose key has been revealed can be committed for again.
commit_requires_unrevealed(pkd, pko, pko_hash, s, sig) ==
    /\ now <= Deadline
    /\ validate_pko(pko, pko_hash)
    /\ Available(pko)
    /\ verify_signature(msgHash(Uid, s, pkd), sig, pko)

\* The require()s of commit.
commit_requires(pkd, pko, pko_hash, s, sig) ==
    /\ now <= Deadline
    /\ validate_pko(pko, pko_hash)
    /\ iot_devices[pko].s # REVEALED
    /\ Available(pko)
    /\ verify_signature(msgHash(Uid, s, pkd), sig, pko)

commit(pkd, pko, pko_hash, s, sig) ==
    /\ commit_requires(pkd, pko, pko_hash, s, sig)
    /\ iot_devices' = [iot_devices EXCEPT ![pko] =
                         [commit_time |-> now, pkd |-> pkd, s |-> s]]
    /\ UNCHANGED <<now, balance, num_of_updated_objects, received, KeyRevealed>>

\* Mutants: every reward is an N-th of the balance; the counter is incremented
\* before the division.
amount_to_transfer_of_all == balance \div N
amount_to_transfer_after == balance \div (N - (num_of_updated_objects + 1))

\* The share of the balance that one of the devices still to be updated is worth.
amount_to_transfer == balance \div (N - num_of_updated_objects)

\* The require()s of reveal.
reveal_requires(pkd, r, pko) ==
    /\ now <= Deadline
    /\ iot_devices[pko].s # REVEALED
    /\ iot_devices[pko].pkd = pkd
    /\ iot_devices[pko].s = sha256(r)
    /\ now - iot_devices[pko].commit_time <= DeltaToReveal
    /\ N - num_of_updated_objects > 0

\* Mutants: reveal does not mark the device; the event carries s.
reveal_unmarked(pkd, r, pko) ==
    /\ reveal_requires(pkd, r, pko)
    /\ transfer(pkd, amount_to_transfer)
    /\ num_of_updated_objects' = num_of_updated_objects + 1
    /\ KeyRevealed' = KeyRevealed \cup {[pko |-> pko, r |-> r]}
    /\ UNCHANGED <<now, iot_devices>>
reveal_emits_s(pkd, r, pko) ==
    /\ reveal_requires(pkd, r, pko)
    /\ iot_devices' = [iot_devices EXCEPT ![pko].s = REVEALED]
    /\ transfer(pkd, amount_to_transfer)
    /\ num_of_updated_objects' = num_of_updated_objects + 1
    /\ KeyRevealed' = KeyRevealed \cup {[pko |-> pko, r |-> sha256(r)]}
    /\ UNCHANGED now

reveal(pkd, r, pko) ==
    /\ reveal_requires(pkd, r, pko)
    /\ iot_devices' = [iot_devices EXCEPT ![pko].s = REVEALED]
    /\ transfer(pkd, amount_to_transfer)
    /\ num_of_updated_objects' = num_of_updated_objects + 1
    /\ KeyRevealed' = KeyRevealed \cup {[pko |-> pko, r |-> r]}
    /\ UNCHANGED now

Commit == \E pkd \in Account, pko, pko_hash \in Device, s \in Digest, sig \in Signature :
              commit(pkd, pko, pko_hash, s, sig)
Reveal == \E pkd \in Account, pko \in Device, r \in Key : reveal(pkd, r, pko)

Next ==
    \/ Tick
    \/ \E value \in Deposit : Fallback(value)
    \/ \E sender \in Account : withdraw_funds(sender)
    \/ Commit
    \/ Reveal

Spec == Init /\ [][Next]_vars

------------------------------------------------------------------------------
\* What a device is worth when the contract is published.
Share == Value \div N

\* _num_of_updated_objects (line 83) always agrees with the devices marked
\* REVEALED (line 78), and never passes _n, so _n - _num_of_updated_objects
\* (line 79) cannot wrap around.
CountMatchesRevealed ==
    /\ num_of_updated_objects = Cardinality(Revealed)
    /\ num_of_updated_objects <= N

\* A device is marked REVEALED exactly when the log holds a KeyRevealed event
\* for it, and the log never holds two different keys for one device: the key
\* that a device receives is the key that was paid for.
KeyPublishedOnce ==
    /\ Revealed = {e.pko : e \in KeyRevealed}
    /\ \A e, f \in KeyRevealed : e.pko = f.pko => e = f

\* Until the contract expires it can pay every device still to be updated the
\* share it was worth at the start, whatever was rounded off by the division on
\* line 81 and whoever was paid before.
PoolCoversShares == ~Expired => balance >= (N - num_of_updated_objects) * Share

\* Whoever revealed keys was paid at least the initial share for each of them:
\* no reward shrinks because of the others, of rounding, or of withdraw_funds.
PaidForEveryDelivery ==
    \A d \in Account : received[d] >= Share * Cardinality(RevealedBy(d))

\* As long as reveal would still take the key of a commitment (line 77) nobody can
\* displace it, whatever commit tests (line 63): not another distributor, and not
\* its owner by committing again.
CommitmentIsExclusive ==
    [][\A pko \in Device :
          (/\ iot_devices[pko].pkd # NoAccount
           /\ now - iot_devices[pko].commit_time <= DeltaToReveal) =>
              /\ iot_devices'[pko].pkd = iot_devices[pko].pkd
              /\ iot_devices'[pko].commit_time = iot_devices[pko].commit_time
              /\ iot_devices'[pko].s \in {iot_devices[pko].s, REVEALED}]_vars

\* The comment on TestsAndAttacks/Attack.js lines 7 to 9: a commit for an
\* address that is not one of the contract's devices fails.
OnlyRegisteredCommitted ==
    \A pko \in Device : iot_devices[pko].pkd # NoAccount => pko \in Registered

\* What the contract promises, without commitments, digests and signatures.
Pool == INSTANCE RewardPool WITH
            rewarded <- Revealed, pool <- balance, open <- ~Expired

\* The contract implements the reward pool: every device is rewarded at most
\* once with an equal part of what is left, only while the contract is open,
\* and the vendor takes back nothing before it has expired.
ImplementsRewardPool == Pool!Spec
==============================================================================

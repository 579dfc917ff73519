--------------------------- MODULE PatchPoolProofs ---------------------------
(* Proofs about the life of an update, for any numbers of distributors,       *)
(* devices and updates, updates of any content, and every disturbance.        *)
EXTENDS PatchPool, ZkcpProofs, DecryptProofs

------------------------------------------------------------------------------
\* The chain and what follows it change nothing of the exchange over the wires,
\* but that a job is over, a file is lost or a device crashes.

LEMMA ZkcpStep == [PNext]_pvars => [ZNext]_zvars
<1> SUFFICES ASSUME PNext PROVE [ZNext]_zvars
  BY DEF pvars
<1>1. CASE Exchange /\ UNCHANGED <<faults, keys>>
  BY <1>1 DEF ZNext
<1>2. ASSUME NEW w \in Wire, Reveal(w) \/ RevealElsewhere(w) \/ PlaintextFailed(w) PROVE ZNext
  BY <1>2 DEF Reveal, RevealElsewhere, PlaintextFailed, ZNext
<1>3. ASSUME NEW w \in Wire, IoTKeyStep(w) \/ VendorOnKeyRevealed(w) PROVE UNCHANGED zvars
  BY <1>3 DEF IoTKeyStep, _onKeyRevealed, PlaintextWritten, VendorOnKeyRevealed
<1>4. ASSUME NEW i \in IoT, CrashIoT(i) PROVE ZNext
  BY <1>4 DEF CrashIoT, ZNext
<1> QED BY <1>1, <1>2, <1>3, <1>4 DEF PNext

\* Every behaviour of the whole is one of the exchange over the wires: what is
\* proved of ZSpec holds of it.
THEOREM PoolUsesZkcp == PSpec => ZSpec
<1>1. PInit => ZInit
  BY DEF PInit
<1> QED BY <1>1, ZkcpStep, PTL DEF PSpec, ZSpec

------------------------------------------------------------------------------
\* Types, and what is written as plain text.

PlaintextOf(w) == Utf8(_decrypt(encrypted_update_data(file[Upd(w)], w), w))

LEMMA PlaintextIsText ==
    ASSUME NEW w \in Wire
    PROVE  /\ PlaintextOf(w) = Utf8(file[Upd(w)])
           /\ PlaintextOf(w) \in Seq(Byte)
<1>1. Upd(w) \in Update /\ file[Upd(w)] \in Seq(Byte) /\ w \in Key
  BY WireParts, PoolOK
<1>2. _decrypt(encrypted_update_data(file[Upd(w)], w), w) = file[Upd(w)]
  BY <1>1, DecryptInverts
<1>3. Utf8(file[Upd(w)]) \in Seq(Byte)
  BY <1>1, PoolOK
<1> QED BY <1>2, <1>3 DEF PlaintextOf

LEMMA PoolTypesInit == PInit => PTypeOK /\ PlaintextIsUpdate
BY DEF PInit, PTypeOK, PlaintextIsUpdate

LEMMA PlaintextNext ==
    ASSUME PTypeOK, PlaintextIsUpdate, NEW w \in Wire, PlaintextWritten(w)
    PROVE  plaintext' \in [IoT -> SUBSET Plaintext] /\ PlaintextIsUpdate'
<1> DEFINE p == [s |-> w, bytes |-> PlaintextOf(w)]
<1>1. p \in Plaintext
  BY PlaintextIsText DEF Plaintext
<1>2. Dev(w) \in IoT /\ plaintext' = [plaintext EXCEPT ![Dev(w)] = @ \cup {p}]
  BY WireParts DEF PlaintextWritten, PlaintextOf
<1>3. LET update == file[Upd(p.s)] IN Utf8(update) = update => p.bytes = update
  BY PlaintextIsText
<1> HIDE DEF p
<1>4. plaintext' \in [IoT -> SUBSET Plaintext]
  BY <1>1, <1>2 DEF PTypeOK
<1>5. ASSUME NEW i \in IoT, NEW q \in plaintext'[i]
      PROVE  LET update == file[Upd(q.s)] IN Utf8(update) = update => q.bytes = update
  <2>1. q \in plaintext[i] \/ q = p
    BY <1>2, <1>5 DEF PTypeOK
  <2> QED BY <1>3, <1>5, <2>1 DEF PlaintextIsUpdate
<1> QED BY <1>4, <1>5 DEF PlaintextIsUpdate

LEMMA PoolTypesNext == ZTypeOK /\ PTypeOK /\ PlaintextIsUpdate /\ [PNext]_pvars
                           => PTypeOK' /\ PlaintextIsUpdate'
<1> SUFFICES ASSUME ZTypeOK, PTypeOK, PlaintextIsUpdate, [PNext]_pvars
             PROVE  PTypeOK' /\ PlaintextIsUpdate'
  OBVIOUS
<1>1. CASE UNCHANGED keys
  BY <1>1 DEF keys, PTypeOK, PlaintextIsUpdate
<1>2. ASSUME NEW w \in Wire, Reveal(w) PROVE PTypeOK' /\ PlaintextIsUpdate'
  BY <1>2 DEF Reveal, PTypeOK, PlaintextIsUpdate
<1>3. ASSUME NEW w \in Wire, _onKeyRevealed(w) PROVE PTypeOK' /\ PlaintextIsUpdate'
  BY <1>3, WireParts DEF _onKeyRevealed, PTypeOK, PlaintextIsUpdate
<1>4. ASSUME NEW w \in Wire, PlaintextWritten(w) PROVE PTypeOK' /\ PlaintextIsUpdate'
  BY <1>4, PlaintextNext DEF PlaintextWritten, PTypeOK
<1>5. ASSUME NEW w \in Wire, PlaintextFailed(w) PROVE PTypeOK' /\ PlaintextIsUpdate'
  BY <1>5 DEF PlaintextFailed, PTypeOK, PlaintextIsUpdate
<1>6. ASSUME NEW w \in Wire, VendorOnKeyRevealed(w) PROVE PTypeOK' /\ PlaintextIsUpdate'
  BY <1>6, WireParts DEF VendorOnKeyRevealed, PTypeOK, PlaintextIsUpdate, Event
<1>7. ASSUME NEW i \in IoT, CrashIoT(i) PROVE PTypeOK' /\ PlaintextIsUpdate'
  BY <1>7 DEF CrashIoT, PTypeOK, PlaintextIsUpdate
<1> QED
  BY <1>1, <1>2, <1>3, <1>4, <1>5, <1>6, <1>7
  DEF PNext, pvars, RevealElsewhere, IoTKeyStep

\* Every variable keeps its type.
THEOREM PoolTypeCorrect == PSpec => []PTypeOK
<1>1. PInit => ZTypeOK /\ PTypeOK /\ PlaintextIsUpdate
  BY TypeInit, PoolTypesInit DEF PInit
<1>2. ZTypeOK /\ PTypeOK /\ PlaintextIsUpdate /\ [PNext]_pvars => (ZTypeOK /\ PTypeOK /\ PlaintextIsUpdate)'
  BY ZkcpStep, TypeNext, PoolTypesNext
<1> QED BY <1>1, <1>2, PTL DEF PSpec

\* Whatever a device stores as plain text is the update, if that is text, for
\* updates of any length.
THEOREM PlaintextCorrect == PSpec => []PlaintextIsUpdate
<1>1. PInit => ZTypeOK /\ PTypeOK /\ PlaintextIsUpdate
  BY TypeInit, PoolTypesInit DEF PInit
<1>2. ZTypeOK /\ PTypeOK /\ PlaintextIsUpdate /\ [PNext]_pvars => (ZTypeOK /\ PTypeOK /\ PlaintextIsUpdate)'
  BY ZkcpStep, TypeNext, PoolTypesNext
<1> QED BY <1>1, <1>2, PTL DEF PSpec

------------------------------------------------------------------------------
\* FairExchange with what it rests on: a job has a proof and a proof its file, and
\* a file that is being decrypted has been saved.
ExchangeInv ==
    /\ ZTypeOK /\ PTypeOK /\ PlaintextIsUpdate
    /\ ProofHasFile
    /\ \A w \in opening : w \in keysHashes[Dev(w)]
    /\ FairExchange

LEMMA ExchangeInit == PInit => ExchangeInv
BY TypeInit, PoolTypesInit
DEF PInit, ZInit, ExchangeInv, ProofHasFile, Signed, FairExchange, decrypted

\* A device forgets a saved file only when it crashes.
LEMMA SavedStays ==
    ASSUME ZTypeOK, [PNext]_pvars, NEW w \in Wire, w \in keysHashes[Dev(w)],
           \A i \in IoT : ~ CrashIoT(i)
    PROVE  w \in keysHashes'[Dev(w)]
<1>1. ASSUME NEW v \in Wire, FileWritten(v) PROVE w \in keysHashes'[Dev(w)]
  BY <1>1, WireParts DEF FileWritten, ZTypeOK
<1>2. CASE UNCHANGED keysHashes
  BY <1>2
<1>3. CASE PNext
  <2>1. CASE Exchange
    BY <1>1, <1>2, <2>1
    DEF Exchange, dist, iot, net, DistributorStep, IoTStep, _onNewContract,
        _onWrappingPackageTorrentDone, _decodeWrappingPackageFailed, RestartDistributor,
        _onNewUpdate, _onWire, Drop, Lose, _onChallengeSignature, _sendFile,
        _onProofOfDistribution, _onChallenge, _onReject, _onFile, _onEncryptedFile,
        ProveFailed, VerifyFailed, WriteFailed
  <2>2. CASE ~ Exchange
    BY <1>2, <1>3, <2>2
    DEF PNext, Reveal, RevealElsewhere, IoTKeyStep, _onKeyRevealed, PlaintextWritten,
        PlaintextFailed, VendorOnKeyRevealed, JobOver, OpenFailed, zvars, iot
  <2> QED BY <2>1, <2>2
<1>4. CASE UNCHANGED pvars
  BY <1>2, <1>4 DEF pvars, zvars, iot
<1> QED BY <1>3, <1>4

LEMMA DecryptedNext ==
    ASSUME PTypeOK, NEW w \in Wire, PlaintextWritten(w)
    PROVE  decrypted' = decrypted \cup {w}
<1> DEFINE p == [s |-> w, bytes |-> PlaintextOf(w)]
<1>1. Dev(w) \in IoT /\ plaintext' = [plaintext EXCEPT ![Dev(w)] = @ \cup {p}] /\ p.s = w
  BY WireParts DEF PlaintextWritten, PlaintextOf
<1> HIDE DEF p
<1>2. \A i \in IoT : plaintext'[i] = IF i = Dev(w) THEN plaintext[i] \cup {p} ELSE plaintext[i]
  BY <1>1 DEF PTypeOK
<1> QED BY <1>1, <1>2 DEF decrypted

LEMMA ExchangeNext == ExchangeInv /\ [PNext]_pvars => ExchangeInv'
<1> SUFFICES ASSUME ExchangeInv, [PNext]_pvars PROVE ExchangeInv'
  OBVIOUS
<1> USE DEF ExchangeInv
<1>1. [ZNext]_zvars
  BY ZkcpStep
<1>2. ZTypeOK' /\ PTypeOK' /\ PlaintextIsUpdate' /\ ProofHasFile'
  BY <1>1, TypeNext, PoolTypesNext, ProofHasFileNext
<1> DEFINE Opening == \A w \in opening : w \in keysHashes[Dev(w)]
<1>3. ASSUME \A i \in IoT : ~ CrashIoT(i) PROVE Opening'
  <2>1. opening' \subseteq opening \cup {w \in Wire : w \in keysHashes[Dev(w)]}
    BY DEF PNext, pvars, keys, Reveal, RevealElsewhere, IoTKeyStep, _onKeyRevealed,
           PlaintextWritten, PlaintextFailed, VendorOnKeyRevealed, CrashIoT
  <2> QED BY <1>3, <2>1, SavedStays DEF PTypeOK
<1>4. ASSUME NEW i \in IoT, CrashIoT(i) PROVE Opening'
  BY <1>4, WireParts DEF CrashIoT, Crash, ZTypeOK, PTypeOK
<1>5. \A w \in KeyRevealed : Accounted(w) /\ Accounted(w)'
  BY <1>1, FilesNext DEF FairExchange, Accounted, PTypeOK
<1>6. ASSUME NEW w \in Wire, Reveal(w) PROVE FairExchange'
  <2>1. Accounted(w)
    BY <1>6 DEF Reveal, JobOver, ProofHasFile, Signed, Accounted, ZTypeOK
  <2>2. Accounted(w)'
    BY <1>1, <2>1, FilesNext
  <2>3. KeyRevealed' = KeyRevealed \cup {w} /\ UNCHANGED <<opening, plaintext>>
    BY <1>6 DEF Reveal
  <2> QED BY <1>5, <2>2, <2>3 DEF FairExchange, Accounted, decrypted
<1>7. ASSUME NEW w \in Wire, PlaintextWritten(w) PROVE FairExchange'
  <2>1. decrypted' = decrypted \cup {w}
    BY <1>7, DecryptedNext
  <2> QED BY <1>5, <1>7, <2>1 DEF PlaintextWritten, FairExchange, Accounted
<1>8. ASSUME opening' \subseteq KeyRevealed, UNCHANGED <<KeyRevealed, plaintext>> PROVE FairExchange'
  BY <1>5, <1>8 DEF FairExchange, Accounted, decrypted
<1>9. FairExchange'
  BY <1>6, <1>7, <1>8
  DEF PNext, pvars, keys, RevealElsewhere, IoTKeyStep, _onKeyRevealed, PlaintextFailed,
      VendorOnKeyRevealed, CrashIoT, FairExchange
<1> QED BY <1>2, <1>3, <1>4, <1>9

\* Whatever breaks, restarts or is lost, a key that was paid for opens a file that
\* its device holds, unless the device or its disk has lost it, and no device
\* decrypts without a key that was published.
THEOREM Fair == PSpec => []FairExchange
<1>1. ExchangeInv => FairExchange
  BY DEF ExchangeInv
<1> QED BY <1>1, ExchangeInit, ExchangeNext, PTL DEF PSpec

------------------------------------------------------------------------------
\* No key is dropped for want of its file.

\* A device writes a file in the step that destroys the torrent, which a restart alone
\* changes again, and forgets the file with it.
StoredDestroyed ==
    \A w \in Wire : w \in writing \cup keysHashes[Dev(w)] => torrent[Dev(w)][Upd(w)] = "destroyed"

LEMMA StoredDestroyedNext == ZTypeOK /\ StoredDestroyed /\ [ZNext]_zvars => StoredDestroyed'
<1> SUFFICES ASSUME ZTypeOK, StoredDestroyed, [ZNext]_zvars PROVE StoredDestroyed'
  OBVIOUS
<1> USE DEF StoredDestroyed
<1>1. ASSUME torrent' = torrent,
             \A w \in Wire : w \in writing' \cup keysHashes'[Dev(w)] => w \in writing \cup keysHashes[Dev(w)]
      PROVE  StoredDestroyed'
  BY <1>1
<1>2. ASSUME NEW v \in Wire, FileWritten(v) PROVE StoredDestroyed'
  <2>1. \A w \in Wire : keysHashes'[Dev(w)] =
           IF Dev(w) = Dev(v) THEN keysHashes[Dev(w)] \cup {v} ELSE keysHashes[Dev(w)]
    BY <1>2, WireParts DEF FileWritten, ZTypeOK
  <2> QED BY <1>1, <1>2, <2>1 DEF FileWritten
<1>3. ASSUME NEW v \in Wire, _onEncryptedFile(v) PROVE StoredDestroyed'
  <2>1. \A w \in Wire : torrent'[Dev(w)][Upd(w)] =
            IF Dev(w) = Dev(v) /\ Upd(w) = Upd(v) THEN "destroyed" ELSE torrent[Dev(w)][Upd(w)]
    BY <1>3, WireParts DEF _onEncryptedFile, ZTypeOK
  <2>2. writing' = writing \cup {v} /\ keysHashes' = keysHashes
    BY <1>3 DEF _onEncryptedFile
  <2> QED BY <2>1, <2>2
<1>4. ASSUME NEW i \in IoT, NEW u \in Update, _onNewUpdate(i, u) PROVE StoredDestroyed'
  <2>1. \A w \in Wire : torrent'[Dev(w)][Upd(w)] =
            IF Dev(w) = i /\ Upd(w) = u THEN "active" ELSE torrent[Dev(w)][Upd(w)]
    BY <1>4, WireParts DEF _onNewUpdate, ZTypeOK
  <2>2. torrent[i][u] = "none" /\ writing' = writing /\ keysHashes' = keysHashes
    BY <1>4 DEF _onNewUpdate
  <2> QED BY <2>1, <2>2
<1>5. ASSUME NEW i \in IoT, Crash(i) PROVE StoredDestroyed'
  <2>1. \A w \in Wire : Dev(w) # i => /\ torrent'[Dev(w)] = torrent[Dev(w)]
                                      /\ keysHashes'[Dev(w)] = keysHashes[Dev(w)]
    BY <1>5, WireParts DEF Crash, ZTypeOK
  <2>2. \A w \in Wire : Dev(w) = i => w \notin writing' /\ keysHashes'[Dev(w)] = {}
    BY <1>5, WireParts DEF Crash, ZTypeOK
  <2>3. writing' \subseteq writing
    BY <1>5 DEF Crash
  <2> QED BY <2>1, <2>2, <2>3
<1>6. CASE ZNext
  BY <1>6, <1>1, <1>2, <1>3, <1>4, <1>5
  DEF ZNext, Exchange, dist, iot, net, DistributorStep, IoTStep, _onNewContract,
      _onWrappingPackageTorrentDone, _decodeWrappingPackageFailed, RestartDistributor, _onWire, Drop,
      Lose, _onChallengeSignature, _sendFile, _onProofOfDistribution, _onChallenge, _onReject, _onFile,
      ProveFailed, VerifyFailed, WriteFailed, JobOver, OpenFailed
<1>7. CASE UNCHANGED zvars
  BY <1>7, <1>1 DEF zvars, iot
<1> QED BY <1>6, <1>7

\* What is lost or decrypted stays so.
LEMMA EndsStay == ZTypeOK /\ PTypeOK /\ [PNext]_pvars => lost \subseteq lost' /\ decrypted \subseteq decrypted'
<1> SUFFICES ASSUME ZTypeOK, PTypeOK, [PNext]_pvars
             PROVE  lost \subseteq lost' /\ decrypted \subseteq decrypted'
  OBVIOUS
<1>1. lost \subseteq lost'
  <2>1. [ZNext]_zvars
    BY ZkcpStep
  <2> QED
    BY <2>1
    DEF ZNext, zvars, Exchange, dist, iot, net, DistributorStep, IoTStep, _onNewContract,
        _onWrappingPackageTorrentDone, _decodeWrappingPackageFailed, RestartDistributor,
        _onNewUpdate, _onWire, Drop, Lose, _onChallengeSignature, _sendFile,
        _onProofOfDistribution, _onChallenge, _onReject, _onFile, _onEncryptedFile, FileWritten,
        ProveFailed, VerifyFailed, WriteFailed, JobOver, OpenFailed, Crash
<1>2. decrypted \subseteq decrypted'
  <2>1. ASSUME NEW w \in Wire, PlaintextWritten(w) PROVE decrypted \subseteq decrypted'
    BY <2>1, DecryptedNext
  <2>2. ASSUME plaintext' = plaintext PROVE decrypted \subseteq decrypted'
    BY <2>2 DEF decrypted
  <2> QED
    BY <2>1, <2>2
    DEF PNext, pvars, keys, Reveal, RevealElsewhere, IoTKeyStep, _onKeyRevealed, PlaintextFailed,
        VendorOnKeyRevealed, CrashIoT
<1> QED BY <1>1, <1>2

\* An event that a device has seen is one of the chain.
MeetInv ==
    /\ ExchangeInv
    /\ StoredDestroyed
    /\ \A i \in IoT : iotEventsTxHashes[i] \subseteq KeyRevealed
    /\ KeyMeetsFile

LEMMA MeetInit == PInit => MeetInv
<1> SUFFICES ASSUME PInit PROVE MeetInv
  OBVIOUS
<1>1. StoredDestroyed
  BY WireParts DEF PInit, ZInit, StoredDestroyed
<1> QED BY <1>1, ExchangeInit DEF PInit, MeetInv, KeyMeetsFile

Met(w) == w \in opening \cup decrypted \cup lost
Waits(w) == /\ w \in keysHashes[Dev(w)]
            /\ w \notin iotEventsTxHashes[Dev(w)]
            /\ torrent[Dev(w)][Upd(w)] = "destroyed"

\* A key whose file is being decrypted, was decrypted or lost stays one of these.
LEMMA MetNext ==
    ASSUME MeetInv, [PNext]_pvars, NEW w \in Wire, Met(w)
    PROVE  Met(w)'
<1> USE DEF MeetInv, ExchangeInv
<1>1. lost \subseteq lost' /\ decrypted \subseteq decrypted'
  BY EndsStay
<1>2. CASE w \in decrypted \cup lost
  BY <1>1, <1>2 DEF Met
<1>3. CASE w \in opening
  <2>1. ASSUME NEW v \in Wire, PlaintextWritten(v) PROVE Met(w)'
    <3>1. decrypted' = decrypted \cup {v}
      BY <2>1, DecryptedNext
    <3> QED BY <1>3, <2>1, <3>1 DEF PlaintextWritten, Met
  <2>2. ASSUME NEW v \in Wire, PlaintextFailed(v) PROVE Met(w)'
    BY <1>3, <2>2 DEF PlaintextFailed, OpenFailed, Met
  <2>3. ASSUME NEW i \in IoT, CrashIoT(i) PROVE Met(w)'
    BY <1>3, <2>3 DEF CrashIoT, Crash, Met
  <2>4. ASSUME NEW v \in Wire, _onKeyRevealed(v) PROVE Met(w)'
    BY <1>3, <2>4 DEF _onKeyRevealed, Met
  <2>5. ASSUME opening' = opening PROVE Met(w)'
    BY <1>3, <2>5 DEF Met
  <2> QED
    BY <2>1, <2>2, <2>3, <2>4, <2>5
    DEF PNext, pvars, keys, Reveal, RevealElsewhere, IoTKeyStep, VendorOnKeyRevealed
<1> QED BY <1>2, <1>3 DEF Met

\* A key that waits for its device is seen by it, or its file is lost in a crash.
LEMMA WaitsNext ==
    ASSUME MeetInv, [PNext]_pvars, NEW w \in Wire, Waits(w)
    PROVE  Met(w)' \/ Waits(w)'
<1> USE DEF MeetInv, ExchangeInv
<1>1. StoredDestroyed'
  BY ZkcpStep, StoredDestroyedNext
<1>2. Dev(w) \in IoT
  BY WireParts
<1>3. ASSUME NEW i \in IoT, CrashIoT(i) PROVE Met(w)' \/ Waits(w)'
  <2>1. CASE Dev(w) = i
    BY <1>3, <2>1 DEF CrashIoT, Crash, Waits, Met
  <2>2. CASE Dev(w) # i
    <3>1. keysHashes'[Dev(w)] = keysHashes[Dev(w)]
          /\ iotEventsTxHashes'[Dev(w)] = iotEventsTxHashes[Dev(w)]
      BY <1>2, <1>3, <2>2 DEF CrashIoT, Crash, ZTypeOK, PTypeOK
    <3> QED BY <1>1, <3>1 DEF Waits, StoredDestroyed
  <2> QED BY <2>1, <2>2
<1>4. ASSUME \A i \in IoT : ~ CrashIoT(i) PROVE Met(w)' \/ Waits(w)'
  <2>1. w \in keysHashes'[Dev(w)]
    BY <1>4, SavedStays DEF Waits
  <2>2. torrent'[Dev(w)][Upd(w)] = "destroyed"
    BY <1>1, <2>1 DEF StoredDestroyed
  <2>3. ASSUME NEW v \in Wire, _onKeyRevealed(v) PROVE w \in opening' \/ w \notin iotEventsTxHashes'[Dev(w)]
    <3>1. CASE v = w
      BY <2>3, <3>1 DEF _onKeyRevealed, Waits
    <3>2. CASE v # w
      BY <1>2, <2>3, <3>2, WireParts DEF _onKeyRevealed, Waits, PTypeOK
    <3> QED BY <3>1, <3>2
  <2>4. ASSUME UNCHANGED iotEventsTxHashes PROVE w \notin iotEventsTxHashes'[Dev(w)]
    BY <2>4 DEF Waits
  <2>5. w \in opening' \/ w \notin iotEventsTxHashes'[Dev(w)]
    BY <1>4, <2>3, <2>4
    DEF PNext, pvars, keys, Reveal, RevealElsewhere, IoTKeyStep, PlaintextWritten, PlaintextFailed,
        VendorOnKeyRevealed
  <2> QED BY <2>1, <2>2, <2>5 DEF Met, Waits
<1> QED BY <1>3, <1>4

LEMMA MeetNext ==
    ASSUME Prompt = TRUE
    PROVE  MeetInv /\ [PNext]_pvars => MeetInv'
<1> SUFFICES ASSUME MeetInv, [PNext]_pvars PROVE MeetInv'
  OBVIOUS
<1> USE DEF MeetInv, ExchangeInv
<1>1. ExchangeInv'
  BY ExchangeNext
<1>2. StoredDestroyed'
  BY ZkcpStep, StoredDestroyedNext
<1>3. \A i \in IoT : iotEventsTxHashes'[i] \subseteq KeyRevealed'
  <2>1. KeyRevealed \subseteq KeyRevealed'
    BY DEF PNext, pvars, keys, Reveal, RevealElsewhere, IoTKeyStep, _onKeyRevealed,
           PlaintextWritten, PlaintextFailed, VendorOnKeyRevealed, CrashIoT
  <2>2. ASSUME NEW v \in Wire, _onKeyRevealed(v), NEW i \in IoT
        PROVE  iotEventsTxHashes'[i] \subseteq KeyRevealed
    BY <2>2, WireParts DEF _onKeyRevealed, PTypeOK
  <2>3. ASSUME NEW j \in IoT, CrashIoT(j), NEW i \in IoT
        PROVE  iotEventsTxHashes'[i] \subseteq KeyRevealed
    BY <2>3 DEF CrashIoT, PTypeOK
  <2>4. ASSUME UNCHANGED iotEventsTxHashes, NEW i \in IoT
        PROVE  iotEventsTxHashes'[i] \subseteq KeyRevealed
    BY <2>4
  <2>5. \A i \in IoT : iotEventsTxHashes'[i] \subseteq KeyRevealed
    BY <2>2, <2>3, <2>4
    DEF PNext, pvars, keys, Reveal, RevealElsewhere, IoTKeyStep, PlaintextWritten,
        PlaintextFailed, VendorOnKeyRevealed
  <2> QED BY <2>1, <2>5
<1>4. \A w \in KeyRevealed : Met(w)' \/ Waits(w)'
  <2>1. \A w \in KeyRevealed : w \in Wire /\ (Met(w) \/ Waits(w))
    BY DEF KeyMeetsFile, Met, Waits, PTypeOK
  <2> QED BY <2>1, MetNext, WaitsNext
<1>5. ASSUME NEW w \in Wire, Reveal(w) PROVE Met(w)' \/ Waits(w)'
  <2>1. w \in keysHashes[Dev(w)] \cup lost
    BY <1>5 DEF Reveal, JobOver, ProofHasFile, Signed, ZTypeOK
  <2>2. w \notin KeyRevealed /\ UNCHANGED <<iot, iotEventsTxHashes>>
    BY <1>5 DEF Reveal, JobOver
  <2>3. w \in lost => Met(w)'
    BY <2>2 DEF Met, iot
  <2>4. w \in keysHashes[Dev(w)] => Waits(w)'
    BY <2>2, WireParts DEF Waits, StoredDestroyed, iot
  <2> QED BY <2>1, <2>3, <2>4
<1>6. \A w \in KeyRevealed' : w \in KeyRevealed \/ (w \in Wire /\ Reveal(w))
  BY DEF PNext, pvars, keys, Reveal, RevealElsewhere, IoTKeyStep, _onKeyRevealed,
         PlaintextWritten, PlaintextFailed, VendorOnKeyRevealed, CrashIoT
<1>7. KeyMeetsFile'
  BY <1>4, <1>5, <1>6 DEF KeyMeetsFile, Met, Waits
<1> QED BY <1>1, <1>2, <1>3, <1>7

\* If files are written before their keys can be published, no device drops a key: the
\* file of a published key is saved and the device will see the event, until it is
\* decrypted or a crash or the disk has lost it; whatever else fails.
THEOREM NoKeyDropped ==
    ASSUME Prompt = TRUE
    PROVE  PSpec => []KeyMeetsFile
<1>1. MeetInv => KeyMeetsFile
  BY DEF MeetInv
<1> QED BY <1>1, MeetInit, MeetNext, PTL DEF PSpec

------------------------------------------------------------------------------
\* The refinement of FairTrade.  Held is what the device has of a deal.

Held == writing \cup UNION {keysHashes[i] : i \in IoT}

LEMMA TradeInit == PInit => FT!Init
BY DEF PInit, ZInit, FT!Init, Signed, decrypted

\* Steps that do not touch files and keys lose confirmations at most.
LEMMA TradeAstray ==
    ASSUME ZTypeOK, Signed' \subseteq Signed,
           UNCHANGED <<writing, keysHashes, lost, KeyRevealed, plaintext>>
    PROVE  FT!Next
<1> DEFINE S == Signed \ Signed'
<1>1. S \in SUBSET Wire /\ Signed' = Signed \ S
  BY SignedInWire
<1>2. decrypted' = decrypted /\ Held' = Held
  BY DEF decrypted, Held
<1> HIDE DEF S
<1>3. FT!Astray(S)
  BY <1>1, <1>2 DEF FT!Astray, Held
<1> QED BY <1>1, <1>3 DEF FT!Next

LEMMA SignedConfirmed ==
    ASSUME ZTypeOK, NEW w \in Wire, _onEncryptedFile(w)
    PROVE  Signed' = Signed \/ (w \in open /\ Signed' = Signed \cup {w})
<1>1. proofs' = proofs
  BY DEF _onEncryptedFile, dist
<1>2. CASE w \in open /\ w \notin orphans
  <2>1. /\ toDistributor[w] \in Seq({"challenge_signature", "proof"})
        /\ toDistributor' = [toDistributor EXCEPT ![w] = Append(@, "proof")]
    BY <1>2 DEF _onEncryptedFile, SendProof, ZTypeOK
  <2>2. \E n \in 1..Len(toDistributor'[w]) : toDistributor'[w][n] = "proof"
    <3>1. /\ toDistributor'[w] = Append(toDistributor[w], "proof")
          /\ Len(toDistributor[w]) + 1 \in 1..Len(Append(toDistributor[w], "proof"))
          /\ Append(toDistributor[w], "proof")[Len(toDistributor[w]) + 1] = "proof"
      BY <2>1 DEF ZTypeOK
    <3> QED BY <3>1
  <2>3. \A v \in Wire : v # w => toDistributor'[v] = toDistributor[v]
    BY <2>1 DEF ZTypeOK
  <2>4. Signed' = Signed \cup {w}
    BY <1>1, <2>2, <2>3 DEF Signed
  <2> QED BY <1>2, <2>4
<1>3. CASE ~ (w \in open /\ w \notin orphans)
  BY <1>1, <1>3, SignedUnchanged DEF _onEncryptedFile, SendProof
<1> QED BY <1>2, <1>3

\* A file that has been verified is delivered, and confirmed if its wire is open:
\* then no other one has been for this update.
LEMMA TradeFile ==
    ASSUME ZTypeOK, ProofInv, NEW w \in Wire, _onEncryptedFile(w), UNCHANGED keys
    PROVE  FT!Next
<1>1. Held' = Held \cup {w} /\ UNCHANGED <<lost, KeyRevealed, decrypted>>
  BY DEF _onEncryptedFile, keys, decrypted, Held
<1>2. CASE Signed' = Signed
  BY <1>1, <1>2 DEF FT!Next, FT!Deliver, Held
<1>3. CASE w \in open /\ Signed' = Signed \cup {w}
  <2>1. \A v \in Signed : ~ (Upd(v) = Upd(w) /\ Dev(v) = Dev(w))
    BY <1>3 DEF ProofInv
  <2>2. \A v \in Signed :
            <<v, w>> \notin {p \in Wire \X Wire : Upd(p[1]) = Upd(p[2]) /\ Dev(p[1]) = Dev(p[2])}
    BY <2>1
  <2> QED BY <1>1, <1>3, <2>2 DEF FT!Next, FT!Confirm, Held
<1> QED BY <1>2, <1>3, SignedConfirmed

LEMMA TradeWritten ==
    ASSUME ZTypeOK, NEW w \in Wire, FileWritten(w), UNCHANGED keys
    PROVE  UNCHANGED FT!fvars
<1>1. Dev(w) \in IoT /\ w \in writing
  BY WireParts DEF FileWritten
<1>2. \A i \in IoT : keysHashes'[i] = IF i = Dev(w) THEN keysHashes[i] \cup {w} ELSE keysHashes[i]
  BY <1>1 DEF FileWritten, ZTypeOK
<1>3. Held' = Held
  BY <1>1, <1>2 DEF FileWritten, Held
<1>4. Signed' = Signed /\ decrypted' = decrypted
  BY SignedUnchanged DEF FileWritten, dist, net, keys, decrypted
<1> QED BY <1>3, <1>4 DEF FileWritten, keys, Held, FT!fvars

\* A file that the disk or a crash takes away is lost.
LEMMA TradeLost ==
    ASSUME ZTypeOK, NEW S \in SUBSET Wire, S \subseteq Held, lost' = lost \cup S,
           Held' \subseteq Held, Held \ S \subseteq Held',
           UNCHANGED <<proofs, toDistributor, KeyRevealed, plaintext>>
    PROVE  FT!Next
<1>1. Signed' = Signed /\ decrypted' = decrypted
  BY SignedUnchanged DEF decrypted
<1> QED BY <1>1 DEF FT!Next, FT!Lose, Held

LEMMA TradeWriteFailed ==
    ASSUME ZTypeOK, NEW w \in Wire, UNCHANGED keys, WriteFailed(w)
    PROVE  FT!Next
<1>1. /\ {w} \subseteq Held /\ lost' = lost \cup {w}
      /\ Held' \subseteq Held /\ Held \ {w} \subseteq Held'
  BY DEF WriteFailed, Held
<1> QED BY <1>1, TradeLost DEF WriteFailed, dist, net, keys

LEMMA TradeOpenFailed ==
    ASSUME ZTypeOK, NEW w \in Wire, PlaintextFailed(w)
    PROVE  FT!Next
<1>1. /\ {w} \subseteq Held /\ lost' = lost \cup {w}
      /\ Held' \subseteq Held /\ Held \ {w} \subseteq Held'
  BY WireParts DEF PlaintextFailed, OpenFailed, Held
<1> QED BY <1>1, TradeLost DEF PlaintextFailed, OpenFailed, dist, net

LEMMA TradeCrash ==
    ASSUME ZTypeOK, NEW i \in IoT, CrashIoT(i)
    PROVE  FT!Next
<1> DEFINE S == {w \in writing : Dev(w) = i} \cup keysHashes[i]
<1>1. S \in SUBSET Wire /\ S \subseteq Held /\ lost' = lost \cup S
  BY DEF CrashIoT, Crash, Held, ZTypeOK
<1>2. \A j \in IoT : keysHashes'[j] = IF j = i THEN {} ELSE keysHashes[j]
  BY DEF CrashIoT, Crash, ZTypeOK
<1>3. writing' = {w \in writing : Dev(w) # i}
  BY DEF CrashIoT, Crash
<1>4. Held' \subseteq Held /\ Held \ S \subseteq Held'
  BY <1>2, <1>3 DEF Held
<1> HIDE DEF S
<1> QED BY <1>1, <1>4, TradeLost DEF CrashIoT, Crash, dist

LEMMA TradeReveal ==
    ASSUME ZTypeOK, PTypeOK, NEW w \in Wire, Reveal(w)
    PROVE  FT!Next
<1>1. w \in Signed
  BY DEF Reveal, JobOver, ZTypeOK, Signed
<1>2. \A v \in KeyRevealed :
          <<v, w>> \notin {p \in Wire \X Wire : Upd(p[1]) = Upd(p[2]) /\ Dev(p[1]) = Dev(p[2])}
  BY DEF Reveal
<1>3. UNCHANGED <<Held, Signed, lost, decrypted>>
  BY SignedUnchanged DEF Reveal, JobOver, iot, net, Held, decrypted
<1>4. FT!Publish(w)
  BY <1>1, <1>2, <1>3 DEF Reveal, FT!Publish, Held
<1> QED BY <1>4 DEF FT!Next

LEMMA TradeOpen ==
    ASSUME ExchangeInv, NEW w \in Wire, PlaintextWritten(w)
    PROVE  FT!Next
<1>1. w \in Held /\ w \in KeyRevealed
  BY WireParts DEF PlaintextWritten, ExchangeInv, FairExchange, Held
<1>2. decrypted' = decrypted \cup {w}
  BY DecryptedNext DEF ExchangeInv
<1>3. UNCHANGED <<Held, Signed, lost, KeyRevealed>>
  BY SignedUnchanged DEF PlaintextWritten, zvars, dist, iot, net, Held
<1>4. FT!Open(w)
  BY <1>1, <1>2, <1>3 DEF FT!Open, Held
<1> QED BY <1>4 DEF FT!Next

LEMMA TradeExchange ==
    ASSUME ExchangeInv, ProofInv, Exchange, UNCHANGED <<faults, keys>>
    PROVE  [FT!Next]_(FT!fvars)
<1>1. CASE \E w \in Wire : _onEncryptedFile(w)
  BY <1>1, TradeFile DEF ExchangeInv
<1>2. CASE \E w \in Wire : FileWritten(w)
  BY <1>2, TradeWritten DEF ExchangeInv
<1>3. CASE \E w \in Wire : WriteFailed(w)
  BY <1>3, TradeWriteFailed DEF ExchangeInv
<1>4. CASE \A w \in Wire : ~ (_onEncryptedFile(w) \/ FileWritten(w) \/ WriteFailed(w))
  <2>1. Signed' \subseteq Signed
    BY <1>4, SignedNext DEF ExchangeInv, ZNext
  <2>2. UNCHANGED <<writing, keysHashes, lost>>
    BY <1>4
    DEF Exchange, iot, DistributorStep, IoTStep, _onNewContract,
        _onWrappingPackageTorrentDone, _decodeWrappingPackageFailed, RestartDistributor,
        _onNewUpdate, _onWire, Drop, Lose, _onChallengeSignature, _sendFile,
        _onProofOfDistribution, _onChallenge, _onReject, _onFile, ProveFailed, VerifyFailed
  <2> QED BY <2>1, <2>2, TradeAstray DEF ExchangeInv, keys
<1> QED BY <1>1, <1>2, <1>3, <1>4

\* A step that leaves everything alone that the trade is about.
LEMMA TradeIdle ==
    ASSUME UNCHANGED <<writing, keysHashes, lost, proofs, toDistributor, KeyRevealed, plaintext>>
    PROVE  UNCHANGED FT!fvars
BY SignedUnchanged DEF FT!fvars, decrypted

LEMMA TradeNext == ExchangeInv /\ ProofInv /\ [PNext]_pvars => [FT!Next]_(FT!fvars)
<1> SUFFICES ASSUME ExchangeInv, ProofInv, [PNext]_pvars PROVE [FT!Next]_(FT!fvars)
  OBVIOUS
<1>1. ASSUME NEW w \in Wire, Reveal(w) PROVE FT!Next
  BY <1>1, TradeReveal DEF ExchangeInv
<1>2. ASSUME NEW w \in Wire, RevealElsewhere(w) PROVE UNCHANGED FT!fvars
  BY <1>2, TradeIdle DEF RevealElsewhere, JobOver, iot, net, keys
<1>3. ASSUME NEW w \in Wire, _onKeyRevealed(w) \/ VendorOnKeyRevealed(w)
      PROVE  UNCHANGED FT!fvars
  BY <1>3, TradeIdle DEF _onKeyRevealed, VendorOnKeyRevealed, zvars, dist, iot, net
<1>4. ASSUME NEW w \in Wire, PlaintextWritten(w) PROVE FT!Next
  BY <1>4, TradeOpen
<1>5. ASSUME NEW w \in Wire, PlaintextFailed(w) PROVE FT!Next
  BY <1>5, TradeOpenFailed DEF ExchangeInv
<1>6. ASSUME NEW i \in IoT, CrashIoT(i) PROVE FT!Next
  BY <1>6, TradeCrash DEF ExchangeInv
<1>7. CASE UNCHANGED pvars
  BY <1>7, TradeIdle DEF pvars, keys, zvars, dist, iot, net
<1> QED
  BY <1>1, <1>2, <1>3, <1>4, <1>5, <1>6, <1>7, TradeExchange DEF PNext, IoTKeyStep

\* Whatever wires, programs and disks do, files are exchanged for keys as in
\* FairTrade: one confirmation and one published key per device and update.
THEOREM Refinement == PSpec => ImplementsFairTrade
<1>1. PInit => ExchangeInv /\ ProofInv
  BY ExchangeInit, ProofInvInit DEF PInit
<1>2. ExchangeInv /\ ProofInv /\ [PNext]_pvars => (ExchangeInv /\ ProofInv)'
  BY ExchangeNext, ZkcpStep, ProofInvNext DEF ExchangeInv
<1> QED BY <1>1, <1>2, TradeInit, TradeNext, PTL DEF PSpec, ImplementsFairTrade, FT!Spec
==============================================================================

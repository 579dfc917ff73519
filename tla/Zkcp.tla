-------------------------------- MODULE Zkcp --------------------------------
(***************************************************************************)
(* The exchange of an encrypted update for a proof of distribution: the    *)
(* ww_zkcp extension of the BitTorrent wire protocol, at the distributor   *)
(* (DistributorZkcpBittorrentExtensionClient.js, Distributor.js) and at    *)
(* the device (IoTZkcpBittorrentExtensionClient.js, IoT.js).               *)
(*                                                                         *)
(* A wire <<u, d, i>> connects distributor d and device i for update u.    *)
(* Both ends run the repository's code, so a message says what its sender  *)
(* computed, and the checks of signatures, Merkle proofs and zero-         *)
(* knowledge proofs that they all pass are left out.  A key is drawn per   *)
(* wire: the wire also stands for s and for the file encrypted under r.    *)
(***************************************************************************)
EXTENDS Naturals, Sequences, FiniteSets

CONSTANTS
    Distributor,        \* distributors
    IoT,                \* devices
    Update,             \* updates, each with a torrent and a contract
    packageAddresses,   \* by update: iotAddresses of its wrapping package
    contractAddresses,  \* by update: the devices that its contract was created for
    Faults              \* the disturbances that are considered

Wire == Update \X Distributor \X IoT

ASSUME ZkcpOK ==
    /\ packageAddresses \in [Update -> SUBSET IoT]
    /\ contractAddresses \in [Update -> SUBSET IoT]
    /\ Faults \subseteq {"drop", "loss", "crash", "disk", "process", "package", "restart"}

VARIABLES
    \* at the distributors
    package,              \* by distributor and update: the wrapping package
    contract,             \* by distributor: the attribute 'contract' of its configuration
    iotAddressesHistory,  \* by distributor: devices that a handshake took place with
    proving,              \* the wires whose zkcpProver.prove is running
    keysDrawn,            \* by wire: how many keys r were drawn for it
    proofs,               \* the wires whose proof of distribution was verified
    jobs,                 \* those whose key is in memory, on its way to the contract
    \* at the devices
    torrent,              \* by device and update
    verifying,            \* the wires whose zkcpVerifier.verify is running
    orphans,              \* those of them that were closed in the meantime
    writing,              \* the encrypted files being written
    keysHashes,           \* by device: the s whose files were saved
    lost,                 \* the files that a crash or the disk has lost since
    \* between them
    faults,               \* the disturbances of this behaviour: none, or all of Faults
    open,                 \* the wires that are connected
    toIoT,                \* by wire: messages under way to the device
    toDistributor         \* by wire: messages under way to the distributor

dist == <<package, contract, iotAddressesHistory, proving, keysDrawn, proofs, jobs>>
iot == <<torrent, verifying, orphans, writing, keysHashes, lost>>
net == <<open, toIoT, toDistributor>>
zvars == <<dist, iot, net, faults>>

Upd(w) == w[1]
Dis(w) == w[2]
Dev(w) == w[3]

ZTypeOK ==
    /\ faults \in {{}, Faults}
    /\ package \in [Distributor -> [Update -> {"none", "downloading", "seeding", "over"}]]
    /\ contract \in [Distributor -> Update \cup {"none"}]
    /\ iotAddressesHistory \in [Distributor -> SUBSET IoT]
    /\ keysDrawn \in [Wire -> Nat]
    /\ torrent \in [IoT -> [Update -> {"none", "active", "destroyed", "gone"}]]
    /\ keysHashes \in [IoT -> SUBSET Wire]
    /\ {proving, proofs, jobs, verifying, orphans, writing, lost, open} \subseteq SUBSET Wire
    /\ orphans \subseteq verifying
    /\ jobs \subseteq proofs
    /\ toIoT \in [Wire -> Seq({"challenge", "file", "reject"})]
    /\ toDistributor \in [Wire -> Seq({"challenge_signature", "proof"})]

ZInit ==
    /\ faults \in {{}, Faults}
    /\ package = [d \in Distributor |-> [u \in Update |-> "none"]]
    /\ contract = [d \in Distributor |-> "none"]
    /\ iotAddressesHistory = [d \in Distributor |-> {}]
    /\ keysDrawn = [w \in Wire |-> 0]
    /\ torrent = [i \in IoT |-> [u \in Update |-> "none"]]
    /\ keysHashes = [i \in IoT |-> {}]
    /\ proving = {} /\ proofs = {} /\ jobs = {}
    /\ verifying = {} /\ orphans = {} /\ writing = {} /\ lost = {}
    /\ open = {}
    /\ toIoT = [w \in Wire |-> <<>>]
    /\ toDistributor = [w \in Wire |-> <<>>]

------------------------------------------------------------------------------
\* Wires

\* wire.extended: a closed wire drops what it is given.
SendToIoT(w, m) ==
    toIoT' = IF w \in open THEN [toIoT EXCEPT ![w] = Append(@, m)] ELSE toIoT

ArrivesAtIoT(w, m) == toIoT[w] # <<>> /\ Head(toIoT[w]) = m
ArrivesAtDistributor(w, m) == toDistributor[w] # <<>> /\ Head(toDistributor[w]) = m

\* A wire comes up between a seeding distributor and a downloading device: both
\* ends get fresh extension objects, the handshake of the extension takes place,
\* and the distributor sends its challenge.
_onWire(w) ==
    /\ w \notin open
    /\ package[Dis(w)][Upd(w)] = "seeding"
    /\ torrent[Dev(w)][Upd(w)] = "active"
    /\ open' = open \cup {w}
    /\ toIoT' = [toIoT EXCEPT ![w] = <<"challenge">>]
    /\ toDistributor' = [toDistributor EXCEPT ![w] = <<>>]
    /\ UNCHANGED <<dist, iot>>

\* The connection breaks and what was under way is lost, as is a file that is
\* still being encrypted for it: a later wire between the two is another object.
Drop(w) ==
    /\ "drop" \in faults
    /\ w \in open
    /\ open' = open \ {w}
    /\ toIoT' = [toIoT EXCEPT ![w] = <<>>]
    /\ toDistributor' = [toDistributor EXCEPT ![w] = <<>>]
    /\ proving' = proving \ {w}
    /\ orphans' = orphans \cup ({w} \cap verifying)
    /\ UNCHANGED <<package, contract, iotAddressesHistory, keysDrawn, proofs, jobs,
                   torrent, verifying, writing, keysHashes, lost>>

\* The device closed the connection right after writing to it, and the last
\* message does not make it to the other end.
Lose(w) ==
    /\ "loss" \in faults
    /\ w \notin open
    /\ toDistributor[w] # <<>>
    /\ toDistributor' = [toDistributor EXCEPT ![w] = <<>>]
    /\ UNCHANGED <<dist, iot, open, toIoT>>

------------------------------------------------------------------------------
\* The distributor

\* ContractPublished: the attribute 'contract' is overwritten, and the wrapping
\* package is looked for.
_onNewContract(d, u) ==
    /\ package[d][u] = "none"
    /\ package' = [package EXCEPT ![d][u] = "downloading"]
    /\ contract' = [contract EXCEPT ![d] = u]
    /\ UNCHANGED <<iotAddressesHistory, proving, keysDrawn, proofs, jobs, iot, net>>

\* The package is compared with the contract, and its file is seeded.
_onWrappingPackageTorrentDone(d, u) ==
    /\ package[d][u] = "downloading"
    /\ package' = [package EXCEPT ![d][u] =
                     IF /\ Cardinality(packageAddresses[u]) = Cardinality(contractAddresses[u])
                        /\ packageAddresses[u] = contractAddresses[u]
                     THEN "seeding" ELSE "over"]
    /\ UNCHANGED <<contract, iotAddressesHistory, proving, keysDrawn, proofs, jobs, iot, net>>

\* getBuffer fails: the package is undefined, and the promise is rejected where
\* its file is hashed.
_decodeWrappingPackageFailed(d, u) ==
    /\ "package" \in faults
    /\ package[d][u] = "downloading"
    /\ package' = [package EXCEPT ![d][u] = "over"]
    /\ UNCHANGED <<contract, iotAddressesHistory, proving, keysDrawn, proofs, jobs, iot, net>>

\* Mutant: the history is not updated.
_onChallengeSignature_no_history(w) ==
    LET d == Dis(w)
        i == Dev(w)
    IN  /\ ArrivesAtDistributor(w, "challenge_signature")
        /\ toDistributor' = [toDistributor EXCEPT ![w] = Tail(@)]
        /\ \/ /\ i \in iotAddressesHistory[d] \/ i \notin packageAddresses[Upd(w)]
              /\ SendToIoT(w, "reject")
              /\ UNCHANGED <<iotAddressesHistory, proving, keysDrawn>>
           \/ /\ i \notin iotAddressesHistory[d]
              /\ i \in packageAddresses[Upd(w)]
              /\ keysDrawn' = [keysDrawn EXCEPT ![w] = @ + 1]
              /\ proving' = proving \cup {w}
              /\ UNCHANGED <<iotAddressesHistory, toIoT>>
        /\ UNCHANGED <<package, contract, proofs, jobs, iot, open>>

_onChallengeSignature(w) ==
    LET d == Dis(w)
        i == Dev(w)
    IN  /\ ArrivesAtDistributor(w, "challenge_signature")
        /\ toDistributor' = [toDistributor EXCEPT ![w] = Tail(@)]
        /\ \/ /\ i \in iotAddressesHistory[d] \/ i \notin packageAddresses[Upd(w)]
              /\ SendToIoT(w, "reject")
              /\ UNCHANGED <<iotAddressesHistory, proving, keysDrawn>>
           \/ /\ i \notin iotAddressesHistory[d]
              /\ i \in packageAddresses[Upd(w)]
              /\ iotAddressesHistory' = [iotAddressesHistory EXCEPT ![d] = @ \cup {i}]
              /\ keysDrawn' = [keysDrawn EXCEPT ![w] = @ + 1]
              /\ proving' = proving \cup {w}
              /\ UNCHANGED toIoT
        /\ UNCHANGED <<package, contract, proofs, jobs, iot, open>>

\* The rest of _sendFile, once the proof has been computed.
_sendFile(w) ==
    /\ w \in proving
    /\ proving' = proving \ {w}
    /\ SendToIoT(w, "file")
    /\ UNCHANGED <<package, contract, iotAddressesHistory, keysDrawn, proofs, jobs, iot, open,
                   toDistributor>>

\* The prover ends with an error: the promise is rejected and nobody handles it.
ProveFailed(w) ==
    /\ "process" \in faults
    /\ w \in proving
    /\ proving' = proving \ {w}
    /\ UNCHANGED <<package, contract, iotAddressesHistory, keysDrawn, proofs, jobs, iot, net>>

\* 'proofOfDistribution' starts commit, which reads the address of the contract
\* before its first await.  The contract of another update refuses the commitment.
_onProofOfDistribution(w) ==
    /\ ArrivesAtDistributor(w, "proof")
    /\ toDistributor' = [toDistributor EXCEPT ![w] = Tail(@)]
    /\ proofs' = proofs \cup {w}
    /\ jobs' = IF contract[Dis(w)] = Upd(w) THEN jobs \cup {w} ELSE jobs
    /\ UNCHANGED <<package, contract, iotAddressesHistory, proving, keysDrawn, iot, open, toIoT>>

\* The commit and reveal of a job are over, one way or another (module PatchPool).
JobOver(w) ==
    /\ w \in jobs
    /\ jobs' = jobs \ {w}
    /\ UNCHANGED <<package, contract, iotAddressesHistory, proving, keysDrawn, proofs, iot, net>>

\* The distributor is restarted.  Of its state only the configuration file is left.
\* Contracts that were published before are not looked up again, and a job is over
\* unless its reveal was sent before (sent).
RestartDistributor(d) ==
    LET closed == {w \in open : Dis(w) = d}
        own == {w \in jobs : Dis(w) = d}
    IN  /\ "restart" \in faults
        /\ package' = [package EXCEPT ![d] =
                         [u \in Update |-> IF @[u] = "none" THEN "none" ELSE "over"]]
        /\ \E sent \in SUBSET own : jobs' = (jobs \ own) \cup sent
        /\ iotAddressesHistory' = [iotAddressesHistory EXCEPT ![d] = {}]
        /\ proving' = {w \in proving : Dis(w) # d}
        /\ open' = open \ closed
        /\ orphans' = orphans \cup (closed \cap verifying)
        /\ toIoT' = [w \in Wire |-> IF w \in closed THEN <<>> ELSE toIoT[w]]
        /\ toDistributor' = [w \in Wire |-> IF Dis(w) = d THEN <<>> ELSE toDistributor[w]]
        /\ UNCHANGED <<contract, keysDrawn, proofs, torrent, verifying, writing, keysHashes, lost>>

------------------------------------------------------------------------------
\* The device

_onNewUpdate(i, u) ==
    /\ torrent[i][u] = "none"
    /\ torrent' = [torrent EXCEPT ![i][u] = "active"]
    /\ UNCHANGED <<dist, verifying, orphans, writing, keysHashes, lost, net>>

_onChallenge(w) ==
    /\ ArrivesAtIoT(w, "challenge")
    /\ toIoT' = [toIoT EXCEPT ![w] = Tail(@)]
    /\ toDistributor' = [toDistributor EXCEPT ![w] = Append(@, "challenge_signature")]
    /\ UNCHANGED <<dist, iot, open>>

_onReject(w) ==
    /\ ArrivesAtIoT(w, "reject")
    /\ toIoT' = [toIoT EXCEPT ![w] = Tail(@)]
    /\ UNCHANGED <<dist, iot, open, toDistributor>>

\* Mutant: the proof of distribution is sent before the file has been verified.
_onFile_proof_first(w) ==
    /\ ArrivesAtIoT(w, "file")
    /\ toIoT' = [toIoT EXCEPT ![w] = Tail(@)]
    /\ verifying' = verifying \cup {w}
    /\ toDistributor' = [toDistributor EXCEPT ![w] = Append(@, "proof")]
    /\ UNCHANGED <<dist, torrent, orphans, writing, keysHashes, lost, open>>

\* _onFile up to its await.
_onFile(w) ==
    /\ ArrivesAtIoT(w, "file")
    /\ toIoT' = [toIoT EXCEPT ![w] = Tail(@)]
    /\ verifying' = verifying \cup {w}
    /\ UNCHANGED <<dist, torrent, orphans, writing, keysHashes, lost, open, toDistributor>>

\* The proof of distribution goes out on the wire that the file came from: the
\* object of a wire that was closed in the meantime sends nothing.
SendProof(w) ==
    toDistributor' = IF w \in open /\ w \notin orphans
                     THEN [toDistributor EXCEPT ![w] = Append(@, "proof")]
                     ELSE toDistributor

\* The wires that torrent.destroy() closes.
WiresOf(i, u) == {w \in open : Dev(w) = i /\ Upd(w) = u}

\* Mutants: only the wire of the file is closed; the torrent is destroyed before
\* the proof is sent; a closed wire is not forgotten.
_onEncryptedFile_wires_open(w) ==
    LET closed == {w} \cap open
    IN  /\ w \in verifying
        /\ SendProof(w)
        /\ torrent' = [torrent EXCEPT ![Dev(w)][Upd(w)] = "destroyed"]
        /\ open' = open \ closed
        /\ toIoT' = [v \in Wire |-> IF v \in closed THEN <<>> ELSE toIoT[v]]
        /\ verifying' = verifying \ {w}
        /\ orphans' = (orphans \cup (closed \cap verifying)) \ {w}
        /\ writing' = writing \cup {w}
        /\ UNCHANGED <<dist, keysHashes, lost>>

_onEncryptedFile_destroy_first(w) ==
    LET closed == WiresOf(Dev(w), Upd(w))
    IN  /\ w \in verifying
        /\ torrent' = [torrent EXCEPT ![Dev(w)][Upd(w)] = "destroyed"]
        /\ open' = open \ closed
        /\ toIoT' = [v \in Wire |-> IF v \in closed THEN <<>> ELSE toIoT[v]]
        /\ verifying' = verifying \ {w}
        /\ orphans' = (orphans \cup (closed \cap verifying)) \ {w}
        /\ writing' = writing \cup {w}
        /\ UNCHANGED <<dist, keysHashes, lost, toDistributor>>

_onEncryptedFile_orphans(w) ==
    LET closed == WiresOf(Dev(w), Upd(w))
    IN  /\ w \in verifying
        /\ SendProof(w)
        /\ torrent' = [torrent EXCEPT ![Dev(w)][Upd(w)] = "destroyed"]
        /\ open' = open \ closed
        /\ toIoT' = [v \in Wire |-> IF v \in closed THEN <<>> ELSE toIoT[v]]
        /\ verifying' = verifying \ {w}
        /\ orphans' = orphans \cup (closed \cap verifying)
        /\ writing' = writing \cup {w}
        /\ UNCHANGED <<dist, keysHashes, lost>>

\* _onFile after its await: the proof of distribution is sent, and 'encryptedFile'
\* runs up to its own await: it destroys the torrent, with all its wires, and starts
\* to write the file.
_onEncryptedFile(w) ==
    LET closed == WiresOf(Dev(w), Upd(w))
    IN  /\ w \in verifying
        /\ SendProof(w)
        /\ torrent' = [torrent EXCEPT ![Dev(w)][Upd(w)] = "destroyed"]
        /\ open' = open \ closed
        /\ toIoT' = [v \in Wire |-> IF v \in closed THEN <<>> ELSE toIoT[v]]
        /\ verifying' = verifying \ {w}
        /\ orphans' = (orphans \cup (closed \cap verifying)) \ {w}
        /\ writing' = writing \cup {w}
        /\ UNCHANGED <<dist, keysHashes, lost>>

\* The verifier cannot be run: a promise that is rejected here as well.
VerifyFailed(w) ==
    /\ "process" \in faults
    /\ w \in verifying
    /\ verifying' = verifying \ {w}
    /\ orphans' = orphans \ {w}
    /\ UNCHANGED <<dist, torrent, writing, keysHashes, lost, net>>

\* Mutant: one file at a time.
FileWritten_latest(w) ==
    /\ w \in writing
    /\ writing' = writing \ {w}
    /\ keysHashes' = [keysHashes EXCEPT ![Dev(w)] = {w}]
    /\ UNCHANGED <<dist, torrent, verifying, orphans, lost, net>>

\* The rest of _onEncryptedFile.
FileWritten(w) ==
    /\ w \in writing
    /\ writing' = writing \ {w}
    /\ keysHashes' = [keysHashes EXCEPT ![Dev(w)] = @ \cup {w}]
    /\ UNCHANGED <<dist, torrent, verifying, orphans, lost, net>>

\* writeFile fails: the error is printed and the file is forgotten.
WriteFailed(w) ==
    /\ "disk" \in faults
    /\ w \in writing
    /\ writing' = writing \ {w}
    /\ lost' = lost \cup {w}
    /\ UNCHANGED <<dist, torrent, verifying, orphans, keysHashes, net>>

\* When its key has come, the file cannot be read back, or the plain text not be
\* written (module PatchPool).
OpenFailed(w) ==
    /\ "disk" \in faults
    /\ w \in keysHashes[Dev(w)]
    /\ lost' = lost \cup {w}
    /\ UNCHANGED <<dist, torrent, verifying, orphans, writing, keysHashes, net>>

\* The device is restarted.  keysHashes is only in memory, and contracts that were
\* published before are not looked up again.
Crash(i) ==
    LET closed == {w \in open : Dev(w) = i}
    IN  /\ "crash" \in faults
        /\ torrent' = [torrent EXCEPT ![i] =
                         [u \in Update |-> IF @[u] = "none" THEN "none" ELSE "gone"]]
        /\ verifying' = {w \in verifying : Dev(w) # i}
        /\ orphans' = {w \in orphans : Dev(w) # i}
        /\ writing' = {w \in writing : Dev(w) # i}
        /\ keysHashes' = [keysHashes EXCEPT ![i] = {}]
        /\ lost' = lost \cup {w \in writing : Dev(w) = i} \cup keysHashes[i]
        /\ open' = open \ closed
        /\ toIoT' = [w \in Wire |-> IF w \in closed THEN <<>> ELSE toIoT[w]]
        /\ UNCHANGED <<dist, toDistributor>>

------------------------------------------------------------------------------
DistributorStep(w) == _onChallengeSignature(w) \/ _sendFile(w) \/ _onProofOfDistribution(w)

IoTStep(w) ==
    \/ _onChallenge(w)
    \/ _onReject(w)
    \/ _onFile(w)
    \/ _onEncryptedFile(w)
    \/ FileWritten(w)

Exchange ==
    \/ \E d \in Distributor, u \in Update :
          \/ _onNewContract(d, u)
          \/ _onWrappingPackageTorrentDone(d, u)
          \/ _decodeWrappingPackageFailed(d, u)
    \/ \E i \in IoT, u \in Update : _onNewUpdate(i, u)
    \/ \E w \in Wire :
          \/ _onWire(w) \/ Drop(w) \/ Lose(w)
          \/ DistributorStep(w)
          \/ IoTStep(w)
          \/ ProveFailed(w) \/ VerifyFailed(w) \/ WriteFailed(w)
    \/ \E d \in Distributor : RestartDistributor(d)

ZNext ==
    /\ \/ Exchange
       \/ \E w \in Wire : JobOver(w) \/ OpenFailed(w)
       \/ \E i \in IoT : Crash(i)
    /\ UNCHANGED faults

ZSpec == ZInit /\ [][ZNext]_zvars

------------------------------------------------------------------------------
\* A proof of distribution that is on its way or has arrived.
Signed == proofs \cup {w \in Wire : \E n \in 1..Len(toDistributor[w]) : toDistributor[w][n] = "proof"}

\* A distributor encrypts an update for a device once, however many wires the
\* device opens, drops and opens again, and although a restart clears the history
\* (DistributorZkcpBittorrentExtensionClient.js line 12) that is there to see to it.
OneKeyPerDevice == \A w \in Wire : keysDrawn[w] <= 1

\* A device hands out one proof of distribution per update at most, although it
\* exchanges with several distributors at once and _onFile awaits between the
\* file and the proof: the first one destroys the torrent and with it every
\* other wire that a proof could be sent on (IoT.js line 54).
OneProofPerUpdate ==
    \A v, w \in Signed : Dev(v) = Dev(w) /\ Upd(v) = Upd(w) => v = w

\* A device that has handed out a proof for s holds the file encrypted under s, or
\* is about to, or has lost it to a crash or to its disk since.
ProofHasFile == \A w \in Signed : w \in writing \cup keysHashes[Dev(w)] \cup lost
==============================================================================

------------------------------ MODULE PatchPool ------------------------------
(***************************************************************************)
(* The life of an update from the torrents to the decrypted file: module   *)
(* Zkcp, the chain that publishes the keys, and what devices and vendor do *)
(* when a key is published (IoT.js, IoTEthereumClient.js,                  *)
(* VendorEthereumClient.js).                                               *)
(*                                                                         *)
(* Commit and reveal are one step here, Reward of module RewardPool, which *)
(* module IotPC refines: of the distributors with a proof for a device one *)
(* reveals its key.                                                        *)
(***************************************************************************)
EXTENDS Zkcp, Decrypt

CONSTANTS
    file,   \* by update: its bytes
    Prompt  \* a file is written in less time than two blocks take

\* The key r of a wire goes by the name of the wire.
ASSUME PoolOK ==
    /\ file \in [Update -> Seq(Byte)]
    /\ \A u \in Update : Utf8(file[u]) \in Seq(Byte)
    /\ Wire \subseteq Key
    /\ Prompt \in BOOLEAN

VARIABLES
    KeyRevealed,        \* the wires whose key has been published
    iotEventsTxHashes,  \* by device: the KeyRevealed events it has seen
    opening,            \* the wires whose file is being decrypted
    plaintext,          \* by device: the files it has decrypted, by s
    eventsTxHashes,     \* the KeyRevealed events that the vendor has seen
    updated             \* what the vendor reported as successfully updated

keys == <<KeyRevealed, iotEventsTxHashes, opening, plaintext, eventsTxHashes, updated>>
pvars == <<zvars, keys>>

Event == Update \X IoT
Plaintext == [s : Wire, bytes : Seq(Byte)]

PTypeOK ==
    /\ KeyRevealed \subseteq Wire
    /\ iotEventsTxHashes \in [IoT -> SUBSET Wire]
    /\ opening \subseteq Wire
    /\ plaintext \in [IoT -> SUBSET Plaintext]
    /\ eventsTxHashes \subseteq Wire
    /\ updated \subseteq Event

PInit ==
    /\ ZInit
    /\ KeyRevealed = {}
    /\ iotEventsTxHashes = [i \in IoT |-> {}]
    /\ opening = {}
    /\ plaintext = [i \in IoT |-> {}]
    /\ eventsTxHashes = {}
    /\ updated = {}

------------------------------------------------------------------------------
\* A distributor that holds a proof has its commit and reveal mined.
Reveal(w) ==
    /\ JobOver(w)
    /\ \A v \in KeyRevealed : ~(Upd(v) = Upd(w) /\ Dev(v) = Dev(w))
    /\ Prompt => w \notin writing
    /\ KeyRevealed' = KeyRevealed \cup {w}
    /\ UNCHANGED <<faults, iotEventsTxHashes, opening, plaintext, eventsTxHashes, updated>>

\* reveal reads the attribute 'contract' once more: by now it may be another
\* contract, where nobody has committed.
RevealElsewhere(w) ==
    /\ JobOver(w)
    /\ contract[Dis(w)] # Upd(w)
    /\ UNCHANGED <<faults, keys>>

\* Mutant: the events of an update whose torrent was destroyed are ignored.
_onKeyRevealed_active(w) ==
    LET i == Dev(w)
    IN  /\ w \in KeyRevealed
        /\ torrent[i][Upd(w)] \in {"active", "destroyed"}
        /\ w \notin iotEventsTxHashes[i]
        /\ iotEventsTxHashes' = [iotEventsTxHashes EXCEPT ![i] = @ \cup {w}]
        /\ opening' = IF w \in keysHashes[i] /\ torrent[i][Upd(w)] = "active"
                      THEN opening \cup {w} ELSE opening
        /\ UNCHANGED <<zvars, KeyRevealed, plaintext, eventsTxHashes, updated>>

\* The event at the device, which has subscribed to the contracts it has seen.  The
\* provider may notify an event more than once (IoTEthereumClient.js lines 18 and 19).
\* A key whose file is not saved is dropped.
_onKeyRevealed(w) ==
    LET i == Dev(w)
    IN  /\ w \in KeyRevealed
        /\ torrent[i][Upd(w)] \in {"active", "destroyed"}
        /\ w \notin iotEventsTxHashes[i]
        /\ iotEventsTxHashes' = [iotEventsTxHashes EXCEPT ![i] = @ \cup {w}]
        /\ opening' = IF w \in keysHashes[i] THEN opening \cup {w} ELSE opening
        /\ UNCHANGED <<zvars, KeyRevealed, plaintext, eventsTxHashes, updated>>

\* The rest of IoT._onKeyRevealed: the file is read and decrypted, and the plain
\* text written.
PlaintextWritten(w) ==
    /\ w \in opening
    /\ opening' = opening \ {w}
    /\ plaintext' = [plaintext EXCEPT ![Dev(w)] = @ \cup
                       {[s |-> w,
                         bytes |-> Utf8(_decrypt(encrypted_update_data(file[Upd(w)], w), w))]}]
    /\ UNCHANGED <<zvars, KeyRevealed, iotEventsTxHashes, eventsTxHashes, updated>>

\* One of the files cannot be read or written: the error is printed.
PlaintextFailed(w) ==
    /\ OpenFailed(w)
    /\ w \in opening
    /\ opening' = opening \ {w}
    /\ UNCHANGED <<faults, KeyRevealed, iotEventsTxHashes, plaintext, eventsTxHashes, updated>>

\* A crash of the device takes this state along.
CrashIoT(i) ==
    /\ Crash(i)
    /\ opening' = {w \in opening : Dev(w) # i}
    /\ iotEventsTxHashes' = [iotEventsTxHashes EXCEPT ![i] = {}]
    /\ UNCHANGED <<faults, KeyRevealed, plaintext, eventsTxHashes, updated>>

\* Mutant: the vendor reports the device and not the update.
VendorOnKeyRevealed_pko(w) ==
    /\ w \in KeyRevealed
    /\ w \notin eventsTxHashes
    /\ eventsTxHashes' = eventsTxHashes \cup {w}
    /\ updated' = updated \cup {Dev(w)}
    /\ UNCHANGED <<zvars, KeyRevealed, iotEventsTxHashes, opening, plaintext>>

\* The event at the vendor, which counts the device as updated.
VendorOnKeyRevealed(w) ==
    /\ w \in KeyRevealed
    /\ w \notin eventsTxHashes
    /\ eventsTxHashes' = eventsTxHashes \cup {w}
    /\ updated' = updated \cup {<<Upd(w), Dev(w)>>}
    /\ UNCHANGED <<zvars, KeyRevealed, iotEventsTxHashes, opening, plaintext>>

IoTKeyStep(w) == _onKeyRevealed(w) \/ PlaintextWritten(w)

PNext ==
    \/ Exchange /\ UNCHANGED <<faults, keys>>
    \/ \E w \in Wire :
          \/ Reveal(w) \/ RevealElsewhere(w)
          \/ IoTKeyStep(w) \/ PlaintextFailed(w)
          \/ VendorOnKeyRevealed(w)
    \/ \E i \in IoT : CrashIoT(i)

PSpec == PInit /\ [][PNext]_pvars

\* Peers find each other (the torrent is announced and looked up again and
\* again), every event loop runs its continuations, and a provider delivers the
\* events of the contracts that a program has subscribed to.  A reveal for the
\* contract that the distributor knows of is mined.
PFairness ==
    /\ \A w \in Wire :
          /\ WF_pvars(_onWire(w) /\ UNCHANGED <<faults, keys>>)
          /\ WF_pvars(DistributorStep(w) /\ UNCHANGED <<faults, keys>>)
          /\ WF_pvars(IoTStep(w) /\ UNCHANGED <<faults, keys>>)
          /\ WF_pvars(Reveal(w) /\ contract[Dis(w)] = Upd(w))
          /\ WF_pvars(IoTKeyStep(w))
          /\ WF_pvars(VendorOnKeyRevealed(w))
    /\ \A d \in Distributor, u \in Update :
          /\ WF_pvars(_onNewContract(d, u) /\ UNCHANGED <<faults, keys>>)
          /\ WF_pvars(_onWrappingPackageTorrentDone(d, u) /\ UNCHANGED <<faults, keys>>)
    /\ \A i \in IoT, u \in Update : WF_pvars(_onNewUpdate(i, u) /\ UNCHANGED <<faults, keys>>)

PFairSpec == PSpec /\ PFairness

------------------------------------------------------------------------------
decrypted == UNION {{p.s : p \in plaintext[i]} : i \in IoT}

Has(i, u) == \E w \in decrypted : Upd(w) = u /\ Dev(w) = i

\* Whatever is lost, a key that is published and paid for is that of a file which
\* the device has verified and stored, unless a crash or its disk has lost the file
\* since, and a device decrypts a file only with a key that was published: neither
\* side of the exchange is cheated.
FairExchange ==
    /\ \A w \in KeyRevealed : w \in writing \cup keysHashes[Dev(w)] \cup lost
    /\ opening \cup decrypted \subseteq KeyRevealed

\* IoT.js line 77 drops a key that comes before its file.  If files are written in time
\* (Prompt), no key is dropped: as long as a file is not decrypted, being decrypted or
\* lost to a crash or the disk, it is saved under the hash that the published key has,
\* and the event is still to come to the device, which is subscribed to it.
KeyMeetsFile ==
    \A w \in KeyRevealed :
        \/ w \in opening \cup decrypted \cup lost
        \/ /\ w \in keysHashes[Dev(w)]
           /\ w \notin iotEventsTxHashes[Dev(w)]
           /\ torrent[Dev(w)][Upd(w)] = "destroyed"

\* The exchange is a fair trade (module FairTrade) of files for keys.
FT == INSTANCE FairTrade WITH
    Deal <- Wire,
    Rivals <- {p \in Wire \X Wire : Upd(p[1]) = Upd(p[2]) /\ Dev(p[1]) = Dev(p[2])},
    held <- writing \cup UNION {keysHashes[i] : i \in IoT},
    signed <- Signed,
    lost <- lost,
    published <- KeyRevealed,
    opened <- decrypted

\* Every step of wires, devices, distributors and chain is a step of the trade or
\* does not concern it: a device confirms one file per update and a key is published
\* for one of them, and files and confirmations that are lost change nothing of that.
ImplementsFairTrade == FT!Spec

\* What a device stores as plain text is the update, whatever its length, provided
\* the update is text: IoT.js line 87 writes file.toString(), which replaces bytes
\* that are not UTF-8.
PlaintextIsUpdate ==
    \A i \in IoT : \A p \in plaintext[i] :
        LET update == file[Upd(p.s)]
        IN  Utf8(update) = update => p.bytes = update

\* README.md line 5: the distributor "delivers it to the any iot devices
\* desired".  Of the updates that distributors learn of, every device of its
\* contract decrypts the last one, when nothing fails.  (The commitments for an
\* earlier update go to the contract of the later one.)
LastUpdateDelivered ==
    \A u \in Update, i \in IoT :
        /\ faults = {}
        /\ i \in contractAddresses[u]
        /\ contractAddresses[u] = packageAddresses[u]
        /\ <>[](\A d \in Distributor : contract[d] = u)
        => <>Has(i, u)

\* VendorEthereumClient.js line 111: "IoT ... successfully updated!".  The vendor
\* knows only that a key was published; whatever wires break, messages are lost and
\* distributors restart, the device then decrypts that file, unless a crash or its
\* disk has lost it, and provided the file is written in time (Prompt): IoT.js line
\* 77 drops a key that comes before the file.
UpdatedMeansDecrypted ==
    \A w \in Wire : w \in eventsTxHashes ~> w \in decrypted \cup lost
==============================================================================

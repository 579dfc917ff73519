----------------------------- MODULE ZkcpProofs -----------------------------
(* Proofs about the exchange of files for proofs of distribution, for any     *)
(* numbers of distributors, devices and updates, and under every disturbance  *)
(* of module Zkcp.                                                            *)
EXTENDS Zkcp, TLAPS

LEMMA WireParts == \A w \in Wire : Upd(w) \in Update /\ Dis(w) \in Distributor /\ Dev(w) \in IoT
BY DEF Wire, Upd, Dis, Dev

------------------------------------------------------------------------------
\* Types.  ZTypeOK is inductive: a message is appended to, or taken off, a
\* sequence of messages, and the sets of wires only ever receive wires.

LEMMA TypeInit == ZInit => ZTypeOK
BY WireParts DEF ZInit, ZTypeOK

LEMMA TypeSendToIoT ==
    ASSUME ZTypeOK, NEW w \in Wire, NEW m \in {"challenge", "file", "reject"}, SendToIoT(w, m)
    PROVE  toIoT' \in [Wire -> Seq({"challenge", "file", "reject"})]
BY DEF ZTypeOK, SendToIoT

LEMMA TypeDistributorStep ==
    ASSUME ZTypeOK, faults' = faults, NEW w \in Wire, DistributorStep(w)
    PROVE  ZTypeOK'
<1>1. CASE _onChallengeSignature(w)
  <2>1. toIoT' \in [Wire -> Seq({"challenge", "file", "reject"})]
    BY <1>1, TypeSendToIoT DEF _onChallengeSignature, ZTypeOK
  <2>2. toDistributor' \in [Wire -> Seq({"challenge_signature", "proof"})]
    BY <1>1 DEF _onChallengeSignature, ArrivesAtDistributor, ZTypeOK
  <2>3. Dis(w) \in Distributor /\ Dev(w) \in IoT
    BY WireParts
  <2>4. CASE UNCHANGED <<iotAddressesHistory, proving, keysDrawn>>
    BY <1>1, <2>1, <2>2, <2>4 DEF _onChallengeSignature, ZTypeOK, iot
  <2>5. CASE /\ iotAddressesHistory' = [iotAddressesHistory EXCEPT ![Dis(w)] = @ \cup {Dev(w)}]
             /\ keysDrawn' = [keysDrawn EXCEPT ![w] = @ + 1]
             /\ proving' = proving \cup {w}
    <3>1. iotAddressesHistory' \in [Distributor -> SUBSET IoT]
      BY <2>3, <2>5 DEF ZTypeOK
    <3>2. keysDrawn' \in [Wire -> Nat]
      BY <2>5 DEF ZTypeOK
    <3> QED BY <1>1, <2>1, <2>2, <2>5, <3>1, <3>2 DEF _onChallengeSignature, ZTypeOK, iot
  <2> QED BY <1>1, <2>4, <2>5 DEF _onChallengeSignature
<1>2. CASE _sendFile(w)
  <2>1. toIoT' \in [Wire -> Seq({"challenge", "file", "reject"})]
    BY <1>2, TypeSendToIoT DEF _sendFile
  <2> QED BY <1>2, <2>1 DEF _sendFile, ZTypeOK, iot
<1>3. CASE _onProofOfDistribution(w)
  BY <1>3 DEF _onProofOfDistribution, ArrivesAtDistributor, ZTypeOK, iot
<1> QED BY <1>1, <1>2, <1>3 DEF DistributorStep

LEMMA TypeIoTStep ==
    ASSUME ZTypeOK, faults' = faults, NEW w \in Wire, IoTStep(w)
    PROVE  ZTypeOK'
<1>1. CASE _onChallenge(w)
  BY <1>1 DEF _onChallenge, ArrivesAtIoT, ZTypeOK, dist, iot
<1>2. CASE _onReject(w)
  BY <1>2 DEF _onReject, ArrivesAtIoT, ZTypeOK, dist, iot
<1>3. CASE _onFile(w)
  BY <1>3 DEF _onFile, ArrivesAtIoT, ZTypeOK, dist
<1>4. CASE _onEncryptedFile(w)
  <2>1. torrent' \in [IoT -> [Update -> {"none", "active", "destroyed", "gone"}]]
    BY <1>4, WireParts DEF _onEncryptedFile, ZTypeOK
  <2>2. toDistributor' \in [Wire -> Seq({"challenge_signature", "proof"})]
    BY <1>4 DEF _onEncryptedFile, SendProof, ZTypeOK
  <2>3. toIoT' \in [Wire -> Seq({"challenge", "file", "reject"})]
    BY <1>4 DEF _onEncryptedFile, ZTypeOK
  <2>4. /\ {proving, proofs, jobs, verifying, orphans, writing, lost, open}' \subseteq SUBSET Wire
        /\ orphans' \subseteq verifying'
    BY <1>4 DEF _onEncryptedFile, ZTypeOK, dist
  <2> QED BY <1>4, <2>1, <2>2, <2>3, <2>4 DEF _onEncryptedFile, ZTypeOK, dist
<1>5. CASE FileWritten(w)
  BY <1>5, WireParts DEF FileWritten, ZTypeOK, dist, net
<1> QED BY <1>1, <1>2, <1>3, <1>4, <1>5 DEF IoTStep

LEMMA TypeWires ==
    ASSUME ZTypeOK, faults' = faults, NEW w \in Wire,
           \/ _onWire(w) \/ Drop(w) \/ Lose(w)
           \/ ProveFailed(w) \/ VerifyFailed(w) \/ WriteFailed(w)
           \/ JobOver(w) \/ OpenFailed(w)
    PROVE  ZTypeOK'
<1>1. CASE _onWire(w)
  BY <1>1 DEF _onWire, ZTypeOK, dist, iot
<1>2. CASE Drop(w)
  BY <1>2 DEF Drop, ZTypeOK
<1>3. CASE Lose(w)
  BY <1>3 DEF Lose, ZTypeOK, dist, iot
<1>4. CASE WriteFailed(w)
  BY <1>4 DEF WriteFailed, ZTypeOK, dist, net
<1>5. CASE ProveFailed(w)
  BY <1>5 DEF ProveFailed, ZTypeOK, iot, net
<1>6. CASE VerifyFailed(w)
  BY <1>6 DEF VerifyFailed, ZTypeOK, dist, net
<1>7. CASE JobOver(w)
  BY <1>7 DEF JobOver, ZTypeOK, iot, net
<1>8. CASE OpenFailed(w)
  BY <1>8 DEF OpenFailed, ZTypeOK, dist, net
<1> QED BY <1>1, <1>2, <1>3, <1>4, <1>5, <1>6, <1>7, <1>8

LEMMA TypePackage ==
    ASSUME ZTypeOK, faults' = faults, NEW d \in Distributor, NEW u \in Update,
           \/ _onNewContract(d, u)
           \/ _onWrappingPackageTorrentDone(d, u)
           \/ _decodeWrappingPackageFailed(d, u)
    PROVE  ZTypeOK'
<1>1. CASE _onNewContract(d, u)
  BY <1>1 DEF _onNewContract, ZTypeOK, iot, net
<1>2. CASE _onWrappingPackageTorrentDone(d, u)
  BY <1>2 DEF _onWrappingPackageTorrentDone, ZTypeOK, iot, net
<1>3. CASE _decodeWrappingPackageFailed(d, u)
  BY <1>3 DEF _decodeWrappingPackageFailed, ZTypeOK, iot, net
<1> QED BY <1>1, <1>2, <1>3

LEMMA TypeRestart ==
    ASSUME ZTypeOK, faults' = faults, NEW d \in Distributor, RestartDistributor(d)
    PROVE  ZTypeOK'
<1>1. package' \in [Distributor -> [Update -> {"none", "downloading", "seeding", "over"}]]
  BY DEF RestartDistributor, ZTypeOK
<1>2. /\ toIoT' \in [Wire -> Seq({"challenge", "file", "reject"})]
      /\ toDistributor' \in [Wire -> Seq({"challenge_signature", "proof"})]
  BY DEF RestartDistributor, ZTypeOK
<1>3. /\ {proving, proofs, jobs, verifying, orphans, writing, lost, open}' \subseteq SUBSET Wire
      /\ orphans' \subseteq verifying'
      /\ jobs' \subseteq proofs'
  BY DEF RestartDistributor, ZTypeOK
<1>4. iotAddressesHistory' \in [Distributor -> SUBSET IoT]
  BY DEF RestartDistributor, ZTypeOK
<1> QED BY <1>1, <1>2, <1>3, <1>4 DEF RestartDistributor, ZTypeOK

LEMMA TypeCrash ==
    ASSUME ZTypeOK, faults' = faults, NEW i \in IoT, Crash(i)
    PROVE  ZTypeOK'
<1>1. torrent' \in [IoT -> [Update -> {"none", "active", "destroyed", "gone"}]]
  BY DEF Crash, ZTypeOK
<1>2. toIoT' \in [Wire -> Seq({"challenge", "file", "reject"})]
  BY DEF Crash, ZTypeOK
<1>3. /\ {proving, proofs, jobs, verifying, orphans, writing, lost, open}' \subseteq SUBSET Wire
      /\ orphans' \subseteq verifying'
      /\ keysHashes' \in [IoT -> SUBSET Wire]
  BY DEF Crash, ZTypeOK, dist
<1> QED BY <1>1, <1>2, <1>3 DEF Crash, ZTypeOK, dist

LEMMA TypeNext == ZTypeOK /\ [ZNext]_zvars => ZTypeOK'
<1> SUFFICES ASSUME ZTypeOK, [ZNext]_zvars PROVE ZTypeOK'
  OBVIOUS
<1>1. CASE UNCHANGED zvars
  BY <1>1 DEF zvars, dist, iot, net, ZTypeOK
<1>2. CASE ZNext
  <2>1. ASSUME NEW i \in IoT, NEW u \in Update, _onNewUpdate(i, u), faults' = faults
        PROVE  ZTypeOK'
    BY <2>1 DEF _onNewUpdate, ZTypeOK, dist, net
  <2> QED
    BY <1>2, <2>1, TypePackage, TypeWires, TypeDistributorStep, TypeIoTStep, TypeRestart, TypeCrash
    DEF ZNext, Exchange
<1> QED BY <1>1, <1>2

\* Every variable keeps its type, and only wires whose verification still runs
\* are orphans.
THEOREM TypeCorrect == ZSpec => []ZTypeOK
BY TypeInit, TypeNext, PTL DEF ZSpec

------------------------------------------------------------------------------
\* One key per device.  The history alone does not tell, for a restart clears it;
\* but a restart closes the wires as well, and a package is never seeded again.

KeyDrawnOnce(w) ==
    \/ keysDrawn[w] = 0
    \/ /\ keysDrawn[w] = 1
       /\ \/ package[Dis(w)][Upd(w)] = "over"
          \/ /\ package[Dis(w)][Upd(w)] = "seeding"
             /\ Dev(w) \in iotAddressesHistory[Dis(w)]

KeyInv ==
    \A w \in Wire :
       /\ w \in open \/ toDistributor[w] # <<>> => package[Dis(w)][Upd(w)] = "seeding"
       /\ toIoT[w] # <<>> => w \in open
       /\ KeyDrawnOnce(w)

LEMMA KeyInvInit == ZInit => KeyInv
BY DEF ZInit, KeyInv, KeyDrawnOnce

\* What the steps at the devices and on the wires do to the messages.
LEMMA KeyInvIoT ==
    ASSUME ZTypeOK, KeyInv, UNCHANGED <<package, iotAddressesHistory, keysDrawn>>,
           \A w \in Wire :
              /\ w \in open' => w \in open \/ package[Dis(w)][Upd(w)] = "seeding"
              /\ toDistributor'[w] # <<>> => \/ toDistributor[w] # <<>>
                                             \/ w \in open
              /\ toIoT'[w] # <<>> => w \in open'
    PROVE  KeyInv'
BY DEF KeyInv, KeyDrawnOnce

LEMMA KeyInvChallenge ==
    ASSUME ZTypeOK, KeyInv, NEW w \in Wire, _onChallengeSignature(w)
    PROVE  KeyInv'
<1> DEFINE d == Dis(w)
           i == Dev(w)
<1>1. d \in Distributor /\ i \in IoT /\ Upd(w) \in Update
  BY WireParts
<1>2. package[d][Upd(w)] = "seeding" /\ UNCHANGED <<package, open>>
  BY DEF _onChallengeSignature, ArrivesAtDistributor, KeyInv
<1>3. \A v \in Wire : /\ toDistributor'[v] # <<>> => toDistributor[v] # <<>>
                      /\ toIoT'[v] # <<>> => v \in open
  BY DEF _onChallengeSignature, ArrivesAtDistributor, SendToIoT, ZTypeOK, KeyInv
<1>4. CASE UNCHANGED <<iotAddressesHistory, keysDrawn>>
  BY <1>2, <1>3, <1>4, KeyInvIoT
<1>5. CASE /\ i \notin iotAddressesHistory[d]
           /\ iotAddressesHistory' = [iotAddressesHistory EXCEPT ![d] = @ \cup {i}]
           /\ keysDrawn' = [keysDrawn EXCEPT ![w] = @ + 1]
  <2>1. keysDrawn[w] = 0
    BY <1>2, <1>5 DEF KeyInv, KeyDrawnOnce
  <2>2. KeyDrawnOnce(w)'
    <3>1. keysDrawn'[w] = 1 /\ i \in iotAddressesHistory'[d]
      BY <1>1, <1>5, <2>1 DEF ZTypeOK
    <3> QED BY <1>2, <3>1 DEF KeyDrawnOnce
  <2>3. ASSUME NEW v \in Wire, v # w PROVE KeyDrawnOnce(v)'
    <3>1. keysDrawn'[v] = keysDrawn[v] /\ iotAddressesHistory[Dis(v)] \subseteq iotAddressesHistory'[Dis(v)]
      BY <1>1, <1>5, <2>3, WireParts DEF ZTypeOK
    <3> QED BY <1>2, <3>1 DEF KeyInv, KeyDrawnOnce
  <2> QED BY <1>2, <1>3, <2>2, <2>3 DEF KeyInv
<1> QED BY <1>4, <1>5 DEF _onChallengeSignature

LEMMA KeyInvPackage ==
    ASSUME ZTypeOK, KeyInv, NEW d \in Distributor, NEW u \in Update,
           \/ _onNewContract(d, u)
           \/ _onWrappingPackageTorrentDone(d, u)
           \/ _decodeWrappingPackageFailed(d, u)
    PROVE  KeyInv'
<1>1. /\ package[d][u] \in {"none", "downloading"}
      /\ \E p : package' = [package EXCEPT ![d][u] = p]
      /\ UNCHANGED <<iotAddressesHistory, keysDrawn, open, toIoT, toDistributor>>
  BY DEF _onNewContract, _onWrappingPackageTorrentDone, _decodeWrappingPackageFailed, net
<1>2. \A w \in Wire : /\ Dis(w) = d /\ Upd(w) = u => package[Dis(w)][Upd(w)] \in {"none", "downloading"}
                      /\ ~(Dis(w) = d /\ Upd(w) = u) => package'[Dis(w)][Upd(w)] = package[Dis(w)][Upd(w)]
  BY <1>1, WireParts DEF ZTypeOK
<1> QED BY <1>1, <1>2 DEF KeyInv, KeyDrawnOnce

LEMMA KeyInvRestart ==
    ASSUME ZTypeOK, KeyInv, NEW d \in Distributor, RestartDistributor(d)
    PROVE  KeyInv'
<1>1. \A w \in Wire : Dis(w) # d =>
          /\ package'[Dis(w)] = package[Dis(w)]
          /\ iotAddressesHistory'[Dis(w)] = iotAddressesHistory[Dis(w)]
          /\ w \in open' => w \in open
          /\ toDistributor'[w] = toDistributor[w]
          /\ toIoT'[w] = toIoT[w] /\ (w \in open => w \in open')
  BY WireParts DEF RestartDistributor, ZTypeOK
<1>2. \A w \in Wire : Dis(w) = d =>
          /\ package[Dis(w)][Upd(w)] \in {"seeding", "over"} => package'[Dis(w)][Upd(w)] = "over"
          /\ w \notin open'
          /\ toDistributor'[w] = <<>>
          /\ toIoT'[w] # <<>> => toIoT[w] # <<>> /\ w \notin open
  BY WireParts DEF RestartDistributor, ZTypeOK
<1>3. keysDrawn' = keysDrawn
  BY DEF RestartDistributor
<1> QED BY <1>1, <1>2, <1>3 DEF KeyInv, KeyDrawnOnce

LEMMA KeyInvNext == ZTypeOK /\ KeyInv /\ [ZNext]_zvars => KeyInv'
<1> SUFFICES ASSUME ZTypeOK, KeyInv, [ZNext]_zvars PROVE KeyInv'
  OBVIOUS
<1>1. CASE UNCHANGED <<package, iotAddressesHistory, keysDrawn, net>>
  BY <1>1 DEF net, KeyInv, KeyDrawnOnce
<1>2. ASSUME NEW w \in Wire, _onWire(w) PROVE KeyInv'
  BY <1>2, KeyInvIoT DEF _onWire, ZTypeOK, dist, KeyInv
<1>3. ASSUME NEW w \in Wire, Drop(w) PROVE KeyInv'
  BY <1>3, KeyInvIoT DEF Drop, ZTypeOK, KeyInv
<1>4. ASSUME NEW w \in Wire, Lose(w) PROVE KeyInv'
  BY <1>4, KeyInvIoT DEF Lose, ZTypeOK, dist, KeyInv
<1>5. ASSUME NEW w \in Wire, _sendFile(w) PROVE KeyInv'
  BY <1>5, KeyInvIoT DEF _sendFile, SendToIoT, ZTypeOK, KeyInv
<1>6. ASSUME NEW w \in Wire, _onProofOfDistribution(w) PROVE KeyInv'
  BY <1>6, KeyInvIoT DEF _onProofOfDistribution, ArrivesAtDistributor, ZTypeOK, KeyInv
<1>7. ASSUME NEW w \in Wire, _onChallenge(w) \/ _onReject(w) \/ _onFile(w) PROVE KeyInv'
  BY <1>7, KeyInvIoT DEF _onChallenge, _onReject, _onFile, ArrivesAtIoT, ZTypeOK, dist, KeyInv
<1>8. ASSUME NEW w \in Wire, _onEncryptedFile(w) PROVE KeyInv'
  BY <1>8, KeyInvIoT DEF _onEncryptedFile, SendProof, ZTypeOK, dist, KeyInv
<1>9. ASSUME NEW i \in IoT, Crash(i) PROVE KeyInv'
  BY <1>9, KeyInvIoT DEF Crash, ZTypeOK, dist, KeyInv
<1>10. CASE ZNext
  BY <1>10, <1>1, <1>2, <1>3, <1>4, <1>5, <1>6, <1>7, <1>8, <1>9,
     KeyInvChallenge, KeyInvPackage, KeyInvRestart
  DEF ZNext, Exchange, dist, DistributorStep, IoTStep, _onNewUpdate, FileWritten,
      ProveFailed, VerifyFailed, WriteFailed, JobOver, OpenFailed
<1>11. CASE UNCHANGED zvars
  BY <1>1, <1>11 DEF zvars, dist
<1> QED BY <1>10, <1>11

\* A distributor draws at most one key for each wire, whatever breaks or restarts.
THEOREM OneKey == ZSpec => []OneKeyPerDevice
<1>1. KeyInv => OneKeyPerDevice
  BY DEF KeyInv, KeyDrawnOnce, OneKeyPerDevice
<1>2. ZInit => ZTypeOK /\ KeyInv
  BY TypeInit, KeyInvInit
<1>3. ZTypeOK /\ KeyInv /\ [ZNext]_zvars => (ZTypeOK /\ KeyInv)'
  BY TypeNext, KeyInvNext
<1> QED BY <1>1, <1>2, <1>3, PTL DEF ZSpec

------------------------------------------------------------------------------
\* One proof per update.  What is on its way to a distributor, and what a step
\* does to Signed: only _onEncryptedFile adds to it, and only its own wire.

LEMMA SignedParts ==
    ASSUME ZTypeOK
    PROVE  \A w \in Wire : w \in Signed <=>
               \/ w \in proofs
               \/ \E n \in 1..Len(toDistributor[w]) : toDistributor[w][n] = "proof"
BY DEF Signed, ZTypeOK

LEMMA SignedInWire == ZTypeOK => Signed \subseteq Wire
BY DEF Signed, ZTypeOK

\* A message that is taken off or appended, unless it is a proof, adds nothing.
LEMMA TailProof ==
    ASSUME NEW S, NEW q \in Seq(S), q # <<>>, NEW n \in 1..Len(Tail(q)), Tail(q)[n] = "proof"
    PROVE  \E k \in 1..Len(q) : q[k] = "proof"
<1>1. n + 1 \in 1..Len(q) /\ q[n + 1] = "proof"
  OBVIOUS
<1> QED BY <1>1

LEMMA AppendProof ==
    ASSUME NEW S, NEW q \in Seq(S), NEW m \in S, m # "proof",
           NEW n \in 1..Len(Append(q, m)), Append(q, m)[n] = "proof"
    PROVE  \E k \in 1..Len(q) : q[k] = "proof"
<1>1. n \in 1..Len(q) /\ q[n] = "proof"
  OBVIOUS
<1> QED BY <1>1

LEMMA SignedUnchanged ==
    ASSUME UNCHANGED <<proofs, toDistributor>>
    PROVE  Signed' = Signed
BY DEF Signed

\* Sequences that are emptied add nothing either.
LEMMA SignedEmptied ==
    ASSUME ZTypeOK, NEW w \in Wire,
           toDistributor' = [toDistributor EXCEPT ![w] = <<>>], proofs' = proofs
    PROVE  Signed' \subseteq Signed
BY DEF Signed, ZTypeOK

LEMMA SignedRestart ==
    ASSUME ZTypeOK, NEW d \in Distributor, RestartDistributor(d)
    PROVE  Signed' \subseteq Signed
<1>1. proofs' = proofs
  BY DEF RestartDistributor
<1>2. \A w \in Wire : toDistributor'[w] = <<>> \/ toDistributor'[w] = toDistributor[w]
  BY DEF RestartDistributor
<1> QED BY <1>1, <1>2 DEF Signed

LEMMA SignedTaken ==
    ASSUME ZTypeOK, NEW w \in Wire, toDistributor[w] # <<>>,
           toDistributor' = [toDistributor EXCEPT ![w] = Tail(@)],
           \/ proofs' = proofs
           \/ proofs' = proofs \cup {w} /\ Head(toDistributor[w]) = "proof"
    PROVE  Signed' \subseteq Signed
<1> SUFFICES ASSUME NEW v \in Signed' PROVE v \in Signed
  OBVIOUS
<1>1. CASE v \in proofs
  BY <1>1 DEF Signed
<1>2. CASE v = w /\ Head(toDistributor[w]) = "proof"
  <2>1. 1 \in 1..Len(toDistributor[w]) /\ toDistributor[w][1] = "proof"
    BY <1>2 DEF ZTypeOK
  <2> QED BY <1>2, <2>1 DEF Signed
<1>3. CASE v \in Wire /\ \E n \in 1..Len(toDistributor'[v]) : toDistributor'[v][n] = "proof"
  <2>1. CASE v = w
    <3>1. toDistributor[w] \in Seq({"challenge_signature", "proof"})
      BY DEF ZTypeOK
    <3>2. toDistributor'[w] = Tail(toDistributor[w])
      BY DEF ZTypeOK
    <3> QED BY <1>3, <2>1, <3>1, <3>2, TailProof DEF Signed
  <2>2. CASE v # w
    BY <1>3, <2>2 DEF Signed, ZTypeOK
  <2> QED BY <2>1, <2>2
<1> QED BY <1>1, <1>2, <1>3 DEF Signed

LEMMA SignedAnswered ==
    ASSUME ZTypeOK, NEW w \in Wire, proofs' = proofs,
           toDistributor' = [toDistributor EXCEPT ![w] = Append(@, "challenge_signature")]
    PROVE  Signed' \subseteq Signed
<1> SUFFICES ASSUME NEW v \in Wire,
                    \E n \in 1..Len(toDistributor'[v]) : toDistributor'[v][n] = "proof"
             PROVE  v \in Signed
  BY DEF Signed
<1>1. CASE v = w
  <2>1. toDistributor[w] \in Seq({"challenge_signature", "proof"})
    BY DEF ZTypeOK
  <2>2. toDistributor'[w] = Append(toDistributor[w], "challenge_signature")
    BY DEF ZTypeOK
  <2> QED BY <1>1, <2>1, <2>2, AppendProof DEF Signed
<1>2. CASE v # w
  BY <1>2 DEF Signed, ZTypeOK
<1> QED BY <1>1, <1>2

LEMMA SignedByFile ==
    ASSUME ZTypeOK, NEW w \in Wire, _onEncryptedFile(w)
    PROVE  Signed' \subseteq Signed \cup ({w} \cap open)
<1> SUFFICES ASSUME NEW v \in Wire, v # w \/ w \notin open,
                    \E n \in 1..Len(toDistributor'[v]) : toDistributor'[v][n] = "proof"
             PROVE  v \in Signed
  BY DEF Signed, _onEncryptedFile, dist
<1>1. toDistributor'[v] = toDistributor[v]
  BY DEF _onEncryptedFile, SendProof, ZTypeOK
<1> QED BY <1>1 DEF Signed

LEMMA SignedNext ==
    ASSUME ZTypeOK, [ZNext]_zvars
    PROVE  \/ Signed' \subseteq Signed
           \/ \E w \in Wire : _onEncryptedFile(w) /\ Signed' \subseteq Signed \cup ({w} \cap open)
<1>1. ASSUME NEW w \in Wire, _onWire(w) \/ Drop(w) \/ Lose(w) PROVE Signed' \subseteq Signed
  BY <1>1, SignedEmptied DEF _onWire, Drop, Lose, dist
<1>2. ASSUME NEW w \in Wire, _onChallengeSignature(w) PROVE Signed' \subseteq Signed
  BY <1>2, SignedTaken DEF _onChallengeSignature, ArrivesAtDistributor
<1>3. ASSUME NEW w \in Wire, _onProofOfDistribution(w) PROVE Signed' \subseteq Signed
  BY <1>3, SignedTaken DEF _onProofOfDistribution, ArrivesAtDistributor
<1>4. ASSUME NEW w \in Wire, _onChallenge(w) PROVE Signed' \subseteq Signed
  BY <1>4, SignedAnswered DEF _onChallenge, dist
<1>5. ASSUME NEW w \in Wire,
             _onEncryptedFile(w)
      PROVE  Signed' \subseteq Signed \cup ({w} \cap open)
  BY <1>5, SignedByFile
<1>6. CASE UNCHANGED <<proofs, toDistributor>>
  BY <1>6, SignedUnchanged
<1>7. ASSUME NEW d \in Distributor, RestartDistributor(d) PROVE Signed' \subseteq Signed
  BY <1>7, SignedRestart
<1>8. CASE ZNext
  BY <1>8, <1>1, <1>2, <1>3, <1>4, <1>5, <1>6, <1>7
  DEF ZNext, Exchange, dist, iot, net, DistributorStep, IoTStep, _onNewContract,
      _onWrappingPackageTorrentDone, _decodeWrappingPackageFailed, _onNewUpdate, _sendFile,
      _onReject, _onFile, FileWritten, ProveFailed, VerifyFailed, WriteFailed, JobOver,
      OpenFailed, Crash
<1>9. CASE UNCHANGED zvars
  BY <1>9, <1>6 DEF zvars, dist, net
<1> QED BY <1>8, <1>9

\* OneProofPerUpdate alone is not inductive: it takes that a proof destroys the
\* torrent, and that the wires of a torrent are open only while it is active.
ProofInv ==
    /\ \A w \in open : torrent[Dev(w)][Upd(w)] = "active"
    /\ \A w \in Signed : torrent[Dev(w)][Upd(w)] \in {"destroyed", "gone"}
    /\ OneProofPerUpdate

LEMMA ProofInvInit == ZInit => ProofInv
BY DEF ZInit, ProofInv, OneProofPerUpdate, Signed

\* A torrent that has ended does not come back, and wires open only for active ones.
TorrentGoal ==
    /\ \A w \in Wire : torrent[Dev(w)][Upd(w)] \in {"destroyed", "gone"} =>
                            torrent'[Dev(w)][Upd(w)] \in {"destroyed", "gone"}
    /\ \A w \in open' : torrent'[Dev(w)][Upd(w)] = "active"

LEMMA TorrentNext ==
    ASSUME ZTypeOK, [ZNext]_zvars, \A w \in open : torrent[Dev(w)][Upd(w)] = "active"
    PROVE  TorrentGoal
<1>1. ASSUME NEW w \in Wire, _onWire(w) PROVE TorrentGoal
  BY <1>1 DEF _onWire, iot, TorrentGoal
<1>2. ASSUME torrent' = torrent, open' \subseteq open PROVE TorrentGoal
  BY <1>2 DEF TorrentGoal
<1>3. ASSUME NEW w \in Wire, _onEncryptedFile(w) PROVE TorrentGoal
  <2>1. Dev(w) \in IoT /\ Upd(w) \in Update
    BY WireParts
  <2>2. \A v \in Wire : torrent'[Dev(v)][Upd(v)] =
            IF Dev(v) = Dev(w) /\ Upd(v) = Upd(w) THEN "destroyed" ELSE torrent[Dev(v)][Upd(v)]
    BY <1>3, <2>1, WireParts DEF _onEncryptedFile, ZTypeOK
  <2>3. open' = open \ WiresOf(Dev(w), Upd(w)) /\ open \subseteq Wire
    BY <1>3 DEF _onEncryptedFile, ZTypeOK
  <2> QED BY <2>2, <2>3 DEF WiresOf, TorrentGoal
<1>4. ASSUME NEW i \in IoT, NEW u \in Update, _onNewUpdate(i, u) PROVE TorrentGoal
  <2>1. \A v \in Wire : torrent'[Dev(v)][Upd(v)] =
            IF Dev(v) = i /\ Upd(v) = u THEN "active" ELSE torrent[Dev(v)][Upd(v)]
    BY <1>4, WireParts DEF _onNewUpdate, ZTypeOK
  <2>2. torrent[i][u] = "none" /\ open' = open /\ open \subseteq Wire
    BY <1>4 DEF _onNewUpdate, net, ZTypeOK
  <2> QED BY <2>1, <2>2 DEF TorrentGoal
<1>5. ASSUME NEW i \in IoT, Crash(i) PROVE TorrentGoal
  <2>1. \A v \in Wire : Dev(v) # i => torrent'[Dev(v)][Upd(v)] = torrent[Dev(v)][Upd(v)]
    BY <1>5, WireParts DEF Crash, ZTypeOK
  <2>2. \A v \in Wire : Dev(v) = i /\ torrent[Dev(v)][Upd(v)] # "none" =>
                            torrent'[Dev(v)][Upd(v)] = "gone"
    BY <1>5, WireParts DEF Crash, ZTypeOK
  <2>3. open' = {w \in open : Dev(w) # i} /\ open \subseteq Wire
    BY <1>5 DEF Crash, ZTypeOK
  <2> QED BY <2>1, <2>2, <2>3 DEF TorrentGoal
<1>6. CASE ZNext
  BY <1>6, <1>1, <1>2, <1>3, <1>4, <1>5
  DEF ZNext, Exchange, dist, iot, net, DistributorStep, IoTStep, _onNewContract,
      _onWrappingPackageTorrentDone, _decodeWrappingPackageFailed, RestartDistributor, Drop, Lose,
      _onChallengeSignature, _sendFile, _onProofOfDistribution, _onChallenge, _onReject, _onFile,
      FileWritten, ProveFailed, VerifyFailed, WriteFailed, JobOver, OpenFailed
<1>7. CASE UNCHANGED zvars
  BY <1>7, <1>2 DEF zvars, iot, net
<1> QED BY <1>6, <1>7

LEMMA ProofInvNext == ZTypeOK /\ ProofInv /\ [ZNext]_zvars => ProofInv'
<1> SUFFICES ASSUME ZTypeOK, ProofInv, [ZNext]_zvars PROVE ProofInv'
  OBVIOUS
<1>1. TorrentGoal
  BY TorrentNext DEF ProofInv
<1>2. CASE Signed' \subseteq Signed
  BY <1>1, <1>2, SignedInWire DEF ProofInv, OneProofPerUpdate, TorrentGoal
<1>3. ASSUME NEW w \in Wire, _onEncryptedFile(w),
             Signed' \subseteq Signed \cup ({w} \cap open)
      PROVE  ProofInv'
  <2>1. torrent'[Dev(w)][Upd(w)] = "destroyed"
    BY <1>3, WireParts DEF _onEncryptedFile, ZTypeOK
  <2>2. w \in open => \A v \in Signed : ~(Dev(v) = Dev(w) /\ Upd(v) = Upd(w))
    BY DEF ProofInv
  <2>3. \A v \in Signed' : torrent'[Dev(v)][Upd(v)] \in {"destroyed", "gone"}
    BY <1>1, <1>3, <2>1, SignedInWire DEF ProofInv, TorrentGoal
  <2>4. OneProofPerUpdate'
    BY <1>3, <2>2 DEF ProofInv, OneProofPerUpdate
  <2> QED BY <1>1, <2>3, <2>4 DEF ProofInv, TorrentGoal
<1> QED BY <1>2, <1>3, SignedNext

\* A device signs one proof of distribution per update at most, whatever wires
\* drop, messages are lost, devices restart and disks fail.
THEOREM OneProof == ZSpec => []OneProofPerUpdate
<1>1. ZTypeOK /\ ProofInv => OneProofPerUpdate
  BY DEF ProofInv
<1>2. ZInit => ZTypeOK /\ ProofInv
  BY TypeInit, ProofInvInit
<1>3. ZTypeOK /\ ProofInv /\ [ZNext]_zvars => (ZTypeOK /\ ProofInv)'
  BY TypeNext, ProofInvNext
<1> QED BY <1>1, <1>2, <1>3, PTL DEF ZSpec

------------------------------------------------------------------------------
\* A file behind every proof: inductive as it stands, for the proof is sent and
\* the file handed to writeFile in one step of the event loop, and what a crash or
\* the disk takes away is lost.

Accounted(w) == w \in writing \cup keysHashes[Dev(w)] \cup lost

LEMMA FilesNext ==
    ASSUME ZTypeOK, [ZNext]_zvars, NEW w \in Wire, Accounted(w)
    PROVE  Accounted(w)'
<1>1. ASSUME NEW v \in Wire, FileWritten(v) PROVE Accounted(w)'
  BY <1>1, WireParts DEF FileWritten, ZTypeOK, Accounted
<1>2. ASSUME NEW v \in Wire, _onEncryptedFile(v) PROVE Accounted(w)'
  BY <1>2 DEF _onEncryptedFile, Accounted
<1>3. ASSUME NEW v \in Wire, WriteFailed(v) \/ OpenFailed(v) PROVE Accounted(w)'
  BY <1>3 DEF WriteFailed, OpenFailed, Accounted
<1>4. ASSUME NEW i \in IoT, Crash(i) PROVE Accounted(w)'
  <2>1. CASE Dev(w) = i
    BY <1>4, <2>1 DEF Crash, Accounted
  <2>2. CASE Dev(w) # i
    BY <1>4, <2>2, WireParts DEF Crash, Accounted, ZTypeOK
  <2> QED BY <2>1, <2>2
<1>5. CASE UNCHANGED <<writing, keysHashes, lost>>
  BY <1>5 DEF Accounted
<1>6. CASE ZNext
  BY <1>6, <1>1, <1>2, <1>3, <1>4, <1>5
  DEF ZNext, Exchange, dist, iot, net, DistributorStep, IoTStep, _onNewContract,
      _onWrappingPackageTorrentDone, _decodeWrappingPackageFailed, RestartDistributor,
      _onNewUpdate, _onWire, Drop, Lose, _onChallengeSignature, _sendFile,
      _onProofOfDistribution, _onChallenge, _onReject, _onFile, ProveFailed, VerifyFailed, JobOver
<1>7. CASE UNCHANGED zvars
  BY <1>7, <1>5 DEF zvars, iot
<1> QED BY <1>6, <1>7

LEMMA ProofHasFileNext ==
    ASSUME ZTypeOK, ProofHasFile, [ZNext]_zvars
    PROVE  ProofHasFile'
<1>1. \A w \in Signed : Accounted(w) /\ Accounted(w)'
  BY FilesNext, SignedInWire DEF ProofHasFile, Accounted
<1>2. CASE Signed' \subseteq Signed
  BY <1>1, <1>2 DEF ProofHasFile, Accounted
<1>3. ASSUME NEW w \in Wire, _onEncryptedFile(w),
             Signed' \subseteq Signed \cup ({w} \cap open)
      PROVE  ProofHasFile'
  <2>1. w \in writing'
    BY <1>3 DEF _onEncryptedFile
  <2> QED BY <1>1, <1>3, <2>1 DEF ProofHasFile, Accounted
<1> QED BY <1>2, <1>3, SignedNext

\* Wires that drop, messages that are lost and distributors that restart never part
\* a proof from its file: that takes a device that crashes or a disk that fails.
THEOREM FileBehindProof == ZSpec => []ProofHasFile
<1>1. ZInit => ZTypeOK /\ ProofHasFile
  BY TypeInit DEF ZInit, ProofHasFile, Signed
<1>2. ZTypeOK /\ ProofHasFile /\ [ZNext]_zvars => (ZTypeOK /\ ProofHasFile)'
  BY TypeNext, ProofHasFileNext
<1> QED BY <1>1, <1>2, PTL DEF ZSpec
==============================================================================

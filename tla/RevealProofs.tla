----------------------------- MODULE RevealProofs -----------------------------
(* A distributor never publishes a key before its payment is certain: proofs  *)
(* that join what is proved of the clients with what is proved of the         *)
(* contract.                                                                  *)
EXTENDS DistributorProofs, IotPCProofs

\* The job has sent its reveal: it never sends another one.
Spent(d, pko) ==
    /\ job[d][pko].call = "reveal"
    /\ job[d][pko].pc \in {"sent", "mined", "reverted", "done", "failed", "lost"}

IsReveal(tx, d, pko) == tx.call = "reveal" /\ tx.from = d /\ tx.pko = pko

\* What estimateGas has made sure of when a job is about to send its reveal.
Ready(d, pko) ==
    job[d][pko].call = "reveal" /\ job[d][pko].pc = "send" =>
        job[d][pko].to = "this" /\ iot_devices[pko].pkd # NoAccount

PendingOK ==
    \A tx \in mempool : tx.call = "reveal" =>
        /\ tx.to = "this"
        /\ iot_devices[tx.pko].pkd # NoAccount
        /\ Spent(tx.from, tx.pko)

OneReveal ==
    \A t, u \in mempool :
        t.call = "reveal" /\ u.call = "reveal" /\ t.from = u.from /\ t.pko = u.pko => t = u

\* What the contract holds of a distributor: its own digest, until the key has
\* been revealed, by the only transaction that does so.
CommittedOK ==
    \A d \in Distributor, pko \in Device : iot_devices[pko].pkd = d =>
        \/ iot_devices[pko].s = sha256(rOf[d][pko])
        \/ /\ iot_devices[pko].s = REVEALED
           /\ Spent(d, pko)
           /\ \A tx \in mempool : ~ IsReveal(tx, d, pko)

\* A distributor commits with the hash of the device that it commits for.
HeldRegistered ==
    \A d \in Distributor, pko \in Device : iot_devices[pko].pkd = d => pko \in Registered

RevealInv ==
    /\ PendingOK
    /\ OneReveal
    /\ CommittedOK
    /\ HeldRegistered
    /\ \A d \in Distributor, pko \in Device : Ready(d, pko)

LEMMA AccountsKnown == Distributor \subseteq Account /\ NoAccount \notin Account
BY ClientOK, ConstantsOK

LEMMA RevealInvInit == DInit => RevealInv
BY AccountsKnown
DEF DInit, Init, RevealInv, PendingOK, OneReveal, CommittedOK, HeldRegistered, Ready

------------------------------------------------------------------------------
\* Steps of the jobs that leave contract and mempool alone.

LEMMA RevealInvJob ==
    ASSUME DTypeOK, RevealInv, UNCHANGED <<vars, mempool>>,
           \A d \in Distributor, pko \in Device : /\ Spent(d, pko) => Spent(d, pko)'
                                                  /\ Ready(d, pko)'
    PROVE  RevealInv'
<1>1. PendingOK'
  <2>1. \A tx \in mempool : tx.from \in Distributor /\ tx.pko \in Device
    BY DEF DTypeOK, Tx
  <2> QED BY <2>1 DEF RevealInv, PendingOK, vars
<1>2. OneReveal'
  BY DEF RevealInv, OneReveal
<1>3. CommittedOK'
  BY DEF RevealInv, CommittedOK, vars, IsReveal
<1>4. HeldRegistered'
  BY DEF RevealInv, HeldRegistered, vars
<1> QED BY <1>1, <1>2, <1>3, <1>4 DEF RevealInv

\* One job changes; the others are as they were.
LEMMA RevealInvOneJob ==
    ASSUME DTypeOK, RevealInv, UNCHANGED <<vars, mempool>>,
           NEW d \in Distributor, NEW pko \in Device,
           Spent(d, pko) => Spent(d, pko)', Ready(d, pko)',
           \A e \in Distributor, q \in Device : e # d \/ q # pko => job'[e][q] = job[e][q]
    PROVE  RevealInv'
<1>1. ASSUME NEW e \in Distributor, NEW q \in Device, e # d \/ q # pko
      PROVE  /\ Spent(e, q) => Spent(e, q)'
             /\ Ready(e, q)'
  <2>1. job'[e][q] = job[e][q]
    BY <1>1
  <2>2. Spent(e, q) => Spent(e, q)'
    BY <2>1 DEF Spent
  <2>3. Ready(e, q)'
    BY <2>1 DEF Ready, RevealInv, vars
  <2> QED BY <2>2, <2>3
<1> QED BY <1>1, RevealInvJob

LEMMA GotoKeeps ==
    ASSUME DTypeOK, NEW d \in Distributor, NEW pko \in Device, NEW pc \in Stage, Goto(d, pko, pc)
    PROVE  /\ job'[d][pko].pc = pc
           /\ job'[d][pko].call = job[d][pko].call /\ job'[d][pko].to = job[d][pko].to
           /\ \A e \in Distributor, q \in Device : e # d \/ q # pko => job'[e][q] = job[e][q]
<1>1. job[d][pko] \in Job
  BY DEF DTypeOK
<1>2. /\ job'[d][pko] = [job[d][pko] EXCEPT !.pc = pc]
      /\ \A e \in Distributor, q \in Device : e # d \/ q # pko => job'[e][q] = job[e][q]
  BY TypeGoto
<1> QED BY <1>1, <1>2 DEF Job

LEMMA RevealInvEstimate ==
    ASSUME DTypeOK, RevealInv, NEW d \in Distributor, NEW pko \in Device, estimateGas(d, pko)
    PROVE  RevealInv'
<1>1. job[d][pko].pc = "estimate" /\ UNCHANGED <<vars, mempool>>
  BY DEF estimateGas, At
<1>2. CASE Accepts(job[d][pko].call, job[d][pko].to, d, pko)
  <2>1. Goto(d, pko, "send")
    BY <1>2 DEF estimateGas
  <2>2. job[d][pko].call = "reveal" => job[d][pko].to = "this" /\ iot_devices[pko].pkd = d
    BY <1>2 DEF Accepts, reveal_requires
  <2>3. Ready(d, pko)'
    BY <1>1, <2>1, <2>2, GotoKeeps, AccountsKnown DEF Ready, Stage, vars
  <2> QED BY <1>1, <2>1, <2>3, GotoKeeps, RevealInvOneJob DEF Spent, Stage
<1>3. CASE ~ Accepts(job[d][pko].call, job[d][pko].to, d, pko)
  <2>1. Goto(d, pko, "failed")
    BY <1>3 DEF estimateGas
  <2> QED BY <1>1, <2>1, GotoKeeps, RevealInvOneJob DEF Spent, Ready, Stage
<1> QED BY <1>2, <1>3

LEMMA RevealInvSteps ==
    ASSUME DTypeOK, RevealInv, NEW d \in Distributor, NEW pko \in Device,
           \/ _onProofOfDistribution(d, pko) \/ getTransactionCount(d, pko)
           \/ _getNonce(d, pko) \/ _onReceipt(d, pko) \/ ReceiptTimeout(d, pko)
    PROVE  RevealInv'
<1>1. CASE _onProofOfDistribution(d, pko)
  <2>1. job[d][pko].pc = "idle" /\ UNCHANGED <<vars, mempool>>
    BY <1>1 DEF _onProofOfDistribution, At
  <2>2. CASE Call(d, pko, "commit")
    BY <2>1, <2>2, TypeCall, RevealInvOneJob DEF Spent, Ready
  <2>3. CASE Goto(d, pko, "failed")
    BY <2>1, <2>3, GotoKeeps, RevealInvOneJob DEF Spent, Ready, Stage
  <2> QED BY <1>1, <2>2, <2>3 DEF _onProofOfDistribution
<1>2. CASE getTransactionCount(d, pko)
  <2>1. job[d][pko].pc = "nonce" /\ UNCHANGED <<vars, mempool>>
    BY <1>2 DEF getTransactionCount, At
  <2> QED BY <1>2, <2>1, GetCount, RevealInvOneJob DEF Spent, Ready
<1>3. CASE _getNonce(d, pko)
  <2>1. job[d][pko].pc = "counted" /\ UNCHANGED <<vars, mempool>>
    BY <1>3 DEF _getNonce, At
  <2> QED BY <1>3, <2>1, GetNonce, RevealInvOneJob DEF Spent, Ready
<1>4. CASE _onReceipt(d, pko)
  <2>1. UNCHANGED <<vars, mempool>>
    BY <1>4 DEF _onReceipt
  <2>2. CASE job[d][pko].call = "commit" /\ Call(d, pko, "reveal")
    BY <2>1, <2>2, TypeCall, RevealInvOneJob DEF Spent, Ready
  <2>3. CASE \E pc \in {"done", "failed"} : Goto(d, pko, pc)
    <3>1. PICK pc \in {"done", "failed"} : Goto(d, pko, pc)
      BY <2>3
    <3> QED BY <2>1, <3>1, GotoKeeps, RevealInvOneJob DEF Spent, Ready, Stage
  <2> QED BY <1>4, <2>2, <2>3 DEF _onReceipt
<1>5. CASE ReceiptTimeout(d, pko)
  BY <1>5, GotoKeeps, RevealInvOneJob DEF ReceiptTimeout, Spent, Ready, Stage
<1> QED BY <1>1, <1>2, <1>3, <1>4, <1>5

LEMMA RevealInvRestart ==
    ASSUME DTypeOK, RevealInv, NEW d \in Distributor, Restart(d)
    PROVE  RevealInv'
<1>1. UNCHANGED <<vars, mempool>>
  BY DEF Restart
<1>2. ASSUME NEW e \in Distributor, NEW q \in Device
      PROVE  \/ job'[e][q] = job[e][q]
             \/ job'[e][q].pc = "lost" /\ job'[e][q].call = job[e][q].call
  <2>1. job[e][q] \in Job
    BY DEF DTypeOK
  <2>2. job' = [job EXCEPT ![d] = [p \in Device |->
                 IF job[d][p].pc = "idle" THEN job[d][p] ELSE [job[d][p] EXCEPT !.pc = "lost"]]]
    BY DEF Restart
  <2>3. job'[e][q] = job[e][q] \/ job'[e][q] = [job[e][q] EXCEPT !.pc = "lost"]
    BY <2>2 DEF DTypeOK
  <2> QED BY <2>1, <2>3 DEF Job
<1>3. \A e \in Distributor, q \in Device : Spent(e, q) => Spent(e, q)'
  BY <1>2 DEF Spent
<1>4. \A e \in Distributor, q \in Device : Ready(e, q)'
  BY <1>1, <1>2 DEF Ready, RevealInv, vars
<1> QED BY <1>1, <1>3, <1>4, RevealInvJob

------------------------------------------------------------------------------
\* Sending and mining.

LEMMA RevealInvSend ==
    ASSUME TypeInv, RevealInv, NEW d \in Distributor, NEW pko \in Device,
           sendSignedTransaction(d, pko)
    PROVE  RevealInv'
<1> DTypeOK
  BY DEF TypeInv
<1> DEFINE tx == SentTx(d, pko)
<1>1. UNCHANGED vars /\ job[d][pko].pc = "send"
  BY DEF sendSignedTransaction, At
<1>2. PICK pc \in {"failed", "sent"} : Goto(d, pko, pc)
  BY DEF sendSignedTransaction
<1>3. /\ job'[d][pko].pc = pc /\ job'[d][pko].call = job[d][pko].call
      /\ \A e \in Distributor, q \in Device : e # d \/ q # pko => job'[e][q] = job[e][q]
  BY <1>2, GotoKeeps DEF Stage
<1>4. /\ \A e \in Distributor, q \in Device : Spent(e, q) => Spent(e, q)'
      /\ \A e \in Distributor, q \in Device : Ready(e, q)'
  BY <1>1, <1>3 DEF Spent, Ready, RevealInv, vars
<1>5. CASE mempool' = mempool
  BY <1>1, <1>4, <1>5, RevealInvJob
<1>6. CASE mempool' = mempool \cup {tx}
  <2>1. /\ tx.from = d /\ tx.pko = pko /\ tx.call = job[d][pko].call /\ tx.to = job[d][pko].to
    BY DEF SentTx
  <2>2. ~ Spent(d, pko)
    BY <1>1 DEF Spent
  <2>3. \A t \in mempool : ~ IsReveal(t, d, pko)
    BY <2>2 DEF RevealInv, PendingOK, IsReveal
  <2>4. \A t \in mempool : t.from \in Distributor /\ t.pko \in Device
    BY DEF DTypeOK, Tx
  <2>5. tx.call = "reveal" => /\ tx.to = "this" /\ iot_devices[pko].pkd # NoAccount
                              /\ Spent(d, pko)'
    BY <1>1, <1>3, <2>1 DEF RevealInv, Ready, Spent
  <2> HIDE DEF tx
  <2>6. PendingOK'
    BY <1>1, <1>4, <1>6, <2>1, <2>4, <2>5 DEF RevealInv, PendingOK, vars
  <2>7. OneReveal'
    BY <1>6, <2>1, <2>3 DEF RevealInv, OneReveal, IsReveal
  <2>8. CommittedOK'
    <3> SUFFICES ASSUME NEW e \in Distributor, NEW q \in Device, iot_devices[q].pkd = e,
                        iot_devices[q].s # sha256(rOf[e][q])
                 PROVE  /\ iot_devices[q].s = REVEALED
                        /\ Spent(e, q)'
                        /\ \A t \in mempool' : ~ IsReveal(t, e, q)
      BY <1>1 DEF CommittedOK, vars, IsReveal
    <3>1. /\ iot_devices[q].s = REVEALED /\ Spent(e, q)
          /\ \A t \in mempool : ~ IsReveal(t, e, q)
      BY DEF RevealInv, CommittedOK
    <3>2. e # d \/ q # pko
      BY <2>2, <3>1
    <3> QED BY <1>4, <1>6, <2>1, <3>1, <3>2 DEF IsReveal
  <2>9. HeldRegistered'
    BY <1>1 DEF RevealInv, HeldRegistered, vars
  <2> QED BY <1>4, <2>6, <2>7, <2>8, <2>9 DEF RevealInv
<1> QED BY <1>5, <1>6, SendStep

\* What a call of the contract does to the commitment of one device.
LEMMA RevealInvContract ==
    ASSUME DTypeOK, RevealInv, mempool' \subseteq mempool,
           \A d \in Distributor, pko \in Device : Spent(d, pko) => Spent(d, pko)',
           \A d \in Distributor, pko \in Device :
              job'[d][pko].pc = "send" => job'[d][pko] = job[d][pko],
           NEW p \in Device,
           \A q \in Device : q # p => iot_devices'[q] = iot_devices[q],
           iot_devices[p].pkd # NoAccount => iot_devices'[p].pkd # NoAccount,
           \A d \in Distributor : iot_devices'[p].pkd = d =>
              iot_devices[p].pkd = d \/ p \in Registered,
           \A d \in Distributor : iot_devices'[p].pkd = d =>
              \/ iot_devices'[p] = iot_devices[p]
              \/ iot_devices'[p].s = sha256(rOf[d][p])
              \/ /\ iot_devices'[p].s = REVEALED
                 /\ Spent(d, p)
                 /\ \A tx \in mempool' : ~ IsReveal(tx, d, p)
    PROVE  RevealInv'
<1>1. \A tx \in mempool : tx.from \in Distributor /\ tx.pko \in Device
  BY DEF DTypeOK, Tx
<1>2. \A q \in Device : iot_devices[q].pkd # NoAccount => iot_devices'[q].pkd # NoAccount
  OBVIOUS
<1>3. PendingOK'
  BY <1>1, <1>2 DEF RevealInv, PendingOK
<1>4. OneReveal'
  BY DEF RevealInv, OneReveal
<1>5. CommittedOK'
  <2> SUFFICES ASSUME NEW d \in Distributor, NEW q \in Device, iot_devices'[q].pkd = d,
                      iot_devices'[q].s # sha256(rOf[d][q])
               PROVE  /\ iot_devices'[q].s = REVEALED
                      /\ Spent(d, q)'
                      /\ \A tx \in mempool' : ~ IsReveal(tx, d, q)
    BY DEF CommittedOK, IsReveal
  <2>1. CASE iot_devices'[q] = iot_devices[q]
    BY <2>1 DEF RevealInv, CommittedOK
  <2>2. CASE q = p /\ iot_devices'[q] # iot_devices[q]
    BY <2>2
  <2> QED BY <2>1, <2>2
<1>6. \A d \in Distributor, pko \in Device : Ready(d, pko)'
  BY <1>2 DEF RevealInv, Ready
<1>7. HeldRegistered'
  BY DEF RevealInv, HeldRegistered
<1> QED BY <1>3, <1>4, <1>5, <1>6, <1>7 DEF RevealInv

LEMMA CommitEffect ==
    ASSUME TypeOK, NEW pkd \in Account, NEW p \in Device, NEW h, NEW s, NEW sig,
           commit(pkd, p, h, s, sig)
    PROVE  /\ iot_devices'[p].pkd = pkd /\ iot_devices'[p].s = s
           /\ \A q \in Device : q # p => iot_devices'[q] = iot_devices[q]
BY DEF commit, TypeOK

LEMMA RevealEffect ==
    ASSUME TypeOK, NEW pkd \in Account, NEW p \in Device, NEW r, reveal(pkd, r, p)
    PROVE  /\ iot_devices[p].pkd = pkd
           /\ iot_devices'[p].pkd = pkd /\ iot_devices'[p].s = REVEALED
           /\ \A q \in Device : q # p => iot_devices'[q] = iot_devices[q]
<1>1. iot_devices[p] \in Approvement
  BY DEF TypeOK
<1>2. iot_devices' = [iot_devices EXCEPT ![p] = [iot_devices[p] EXCEPT !.s = REVEALED]]
  BY DEF reveal
<1>3. iot_devices[p].pkd = pkd
  BY DEF reveal, reveal_requires
<1> QED BY <1>1, <1>2, <1>3 DEF TypeOK, Approvement

LEMMA RevealInvOthers ==
    ASSUME TypeOK, DTypeOK, RevealInv, Others
    PROVE  RevealInv'
<1>1. UNCHANGED <<job, mempool>>
  BY DEF Others, client
<1>2. /\ \A d \in Distributor, pko \in Device : Spent(d, pko) => Spent(d, pko)'
      /\ \A d \in Distributor, pko \in Device : job'[d][pko] = job[d][pko]
  BY <1>1 DEF Spent
<1>3. ASSUME NEW pkd \in Account \ Distributor, NEW p \in Device,
             \/ \E h \in Device, s \in Digest, sig \in Signature : commit(pkd, p, h, s, sig)
             \/ \E r \in Key : reveal(pkd, r, p)
      PROVE  RevealInv'
  <2>1. /\ iot_devices'[p].pkd = pkd
        /\ \A q \in Device : q # p => iot_devices'[q] = iot_devices[q]
    BY <1>3, CommitEffect, RevealEffect
  <2> QED BY <1>1, <1>2, <2>1, AccountsKnown, RevealInvContract
<1>4. CASE iot_devices' = iot_devices
  BY <1>1, <1>4 DEF RevealInv, PendingOK, OneReveal, CommittedOK, HeldRegistered, Ready, Spent, IsReveal
<1> QED BY <1>3, <1>4 DEF Others, Fallback, withdraw_funds

LEMMA RevealInvMine ==
    ASSUME TypeOK, DTypeOK, RevealInv, NEW tx \in mempool, Mine(tx)
    PROVE  RevealInv'
<1> DEFINE d == tx.from
           p == tx.pko
<1>1. d \in Distributor /\ p \in Device /\ d \in Account /\ tx.call \in {"commit", "reveal"}
  BY AccountsKnown DEF DTypeOK, Tx
<1>2. mempool' = mempool \ {tx}
  BY DEF Mine
<1> HIDE DEF d, p
<1> DEFINE Goal == /\ \A e \in Distributor, q \in Device : Spent(e, q) => Spent(e, q)'
                   /\ \A e \in Distributor, q \in Device :
                          job'[e][q].pc = "send" => job'[e][q] = job[e][q]
<1>3. Goal
  <2>1. CASE UNCHANGED job
    BY <2>1 DEF Spent
  <2>2. ASSUME NEW pc \in {"mined", "reverted"}, Goto(d, p, pc)
        PROVE  Goal
    <3>1. /\ job'[d][p].pc = pc /\ job'[d][p].call = job[d][p].call
          /\ \A e \in Distributor, q \in Device : e # d \/ q # p => job'[e][q] = job[e][q]
      BY <1>1, <2>2, GotoKeeps DEF Stage
    <3> QED BY <3>1 DEF Spent
  <2> QED BY <2>1, <2>2 DEF Mine, d, p
<1>4. CASE UNCHANGED vars
  BY <1>1, <1>2, <1>3, <1>4, RevealInvContract DEF vars
<1>5. CASE Executes(tx)
  <2>1. CASE tx.call = "commit"
    <3>1. /\ iot_devices'[p].pkd = d /\ iot_devices'[p].s = sha256(rOf[d][p])
          /\ \A q \in Device : q # p => iot_devices'[q] = iot_devices[q]
      BY <1>1, <1>5, <2>1, CommitEffect DEF Executes, d, p
    <3>2. p \in Registered
      BY <1>5, <2>1 DEF Executes, commit, commit_requires, validate_pko, p
    <3> QED BY <1>1, <1>2, <1>3, <3>1, <3>2, AccountsKnown, RevealInvContract
  <2>2. CASE tx.call = "reveal"
    <3>1. /\ iot_devices[p].pkd = d
          /\ iot_devices'[p].pkd = d /\ iot_devices'[p].s = REVEALED
          /\ \A q \in Device : q # p => iot_devices'[q] = iot_devices[q]
      BY <1>1, <1>5, <2>2, RevealEffect DEF Executes, d, p
    <3>2. Spent(d, p)
      BY <2>2 DEF RevealInv, PendingOK, d, p
    <3>3. \A t \in mempool' : ~ IsReveal(t, d, p)
      BY <1>2, <2>2 DEF RevealInv, OneReveal, IsReveal, d, p
    <3> QED BY <1>1, <1>2, <1>3, <3>1, <3>2, <3>3, AccountsKnown, RevealInvContract
  <2> QED BY <1>1, <2>1, <2>2
<1> QED BY <1>4, <1>5 DEF Mine

LEMMA RevealInvNext == TypeOK /\ TypeInv /\ RevealInv /\ [DNext]_dvars => RevealInv'
<1> SUFFICES ASSUME TypeOK, TypeInv, RevealInv, [DNext]_dvars PROVE RevealInv'
  OBVIOUS
<1> DTypeOK
  BY DEF TypeInv
<1>1. CASE UNCHANGED <<iot_devices, job, mempool>>
  BY <1>1 DEF RevealInv, PendingOK, OneReveal, CommittedOK, HeldRegistered, Ready, Spent, IsReveal
<1> QED
  BY <1>1, RevealInvEstimate, RevealInvSteps, RevealInvSend, RevealInvRestart, RevealInvOthers,
     RevealInvMine
  DEF DNext, dvars, vars, client, Step, Clock, Tick, _onContractPublished

------------------------------------------------------------------------------
\* A registered device that has not been revealed leaves a reward, unless one went to
\* an address that is not registered.
LEMMA RewardLeft ==
    ASSUME IInv, Cardinality(Registered) <= N, ~ RewardsTaken,
           NEW p \in Registered, iot_devices[p].s # REVEALED
    PROVE  N - num_of_updated_objects > 0
<1>1. IsFiniteSet(Registered) /\ IsFiniteSet(Revealed)
  BY DevicesFinite, RevealedFinite, ConstantsOK, FS_Subset
<1>2. /\ IsFiniteSet(Registered \ {p})
      /\ Cardinality(Registered \ {p}) = Cardinality(Registered) - 1
  BY <1>1, FS_RemoveElement
<1>3. /\ Cardinality(Revealed) \in Nat /\ Cardinality(Registered) \in Nat /\ N \in Nat
      /\ Cardinality(Registered \ {p}) \in Nat
  BY <1>1, <1>2, FS_CardinalityType, NumbersOK
<1>4. num_of_updated_objects = Cardinality(Revealed) /\ num_of_updated_objects <= N
  BY DEF IInv, CountMatchesRevealed
<1>5. CASE num_of_updated_objects = N
  <2>1. Revealed \subseteq Registered \ {p}
    BY <1>5 DEF RewardsTaken, Revealed
  <2>2. Cardinality(Revealed) <= Cardinality(Registered \ {p})
    BY <1>2, <2>1, FS_Subset
  <2> QED BY <1>2, <1>3, <1>4, <1>5, <2>2
<1> QED BY <1>3, <1>4, <1>5

\* A contract with a reward for each device that it is for (_n and the Merkle root are
\* made of one list, VendorEthereumClient.js lines 30 and 35): a key that is on its way
\* to the chain is paid for if it arrives in time, or an address that the contract is
\* not for has taken a reward.  Rivals, timeouts, restarts and later contracts change
\* nothing in that.
THEOREM RevealsSucceed ==
    ASSUME Cardinality(Registered) <= N
    PROVE  DSpec => []RevealSucceedsInTime
<1>1. DInit => TypeInv /\ RevealInv
  BY TypeInvInit, RevealInvInit
<1>2. DSpec => []IInv
  BY ClientsUseContract, Inductive, PTL
<1>3. IInv => TypeOK
  BY DEF IInv
<1>4. TypeOK /\ TypeInv /\ RevealInv /\ [DNext]_dvars => (TypeInv /\ RevealInv)'
  BY TypeInvNext, RevealInvNext
<1>5. IInv /\ TypeInv /\ RevealInv => RevealSucceedsInTime
  <2> SUFFICES ASSUME IInv, TypeInv, RevealInv, NEW tx \in mempool, tx.call = "reveal"
               PROVE  /\ tx.to = "this"
                      /\ iot_devices[tx.pko].pkd # NoAccount
                      /\ \/ Expired
                         \/ RewardsTaken
                         \/ iot_devices[tx.pko].pkd # tx.from
                         \/ now - iot_devices[tx.pko].commit_time > DeltaToReveal
                         \/ reveal_requires(tx.from, rOf[tx.from][tx.pko], tx.pko)
    BY DEF RevealSucceedsInTime
  <2>1. tx.from \in Distributor /\ tx.pko \in Device
    BY DEF TypeInv, DTypeOK, Tx
  <2>2. tx.to = "this" /\ iot_devices[tx.pko].pkd # NoAccount
    BY DEF RevealInv, PendingOK
  <2>3. ASSUME ~ Expired, ~ RewardsTaken, iot_devices[tx.pko].pkd = tx.from,
               ~ (now - iot_devices[tx.pko].commit_time > DeltaToReveal)
        PROVE  reveal_requires(tx.from, rOf[tx.from][tx.pko], tx.pko)
    <3>1. iot_devices[tx.pko].s = sha256(rOf[tx.from][tx.pko])
      BY <2>1, <2>3 DEF RevealInv, CommittedOK, IsReveal
    <3>2. iot_devices[tx.pko].s # REVEALED
      BY <2>1, <3>1, ConstantsOK, ClientOK DEF Digest
    <3>3. N - num_of_updated_objects > 0
      <4>1. tx.pko \in Registered
        BY <2>1, <2>3 DEF RevealInv, HeldRegistered
      <4> QED BY <2>3, <3>2, <4>1, RewardLeft
    <3>4. now <= Deadline
      BY <2>3, DeadlineType DEF Expired, IInv, TypeOK
    <3>5. now - iot_devices[tx.pko].commit_time <= DeltaToReveal
      <4>1. /\ now \in Nat /\ iot_devices[tx.pko].commit_time \in Nat /\ DeltaToReveal \in Nat
        BY <2>1, NumbersOK DEF IInv, TypeOK, Approvement
      <4> QED BY <2>3, <4>1
    <3> QED BY <2>3, <3>1, <3>2, <3>3, <3>4, <3>5 DEF reveal_requires
  <2> QED BY <2>2, <2>3
<1> QED BY <1>1, <1>2, <1>3, <1>4, <1>5, PTL DEF DSpec
==============================================================================

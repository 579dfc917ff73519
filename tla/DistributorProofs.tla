-------------------------- MODULE DistributorProofs --------------------------
(* Proofs about the distributors' Ethereum clients, for any accounts, devices *)
(* and keys.                                                                  *)
EXTENDS DistributorEthereumClient, TLAPS

\* A job that holds a nonce it has not sent a transaction with.
Holds(d, pko) == job[d][pko].pc \in {"estimate", "send"}

------------------------------------------------------------------------------
\* Types.  That a transaction has a nonce in Nat takes that every job which is
\* about to send one has got it from _getNonce.

Counted(d, pko) == job[d][pko].pc = "counted"

TypeInv ==
    /\ DTypeOK
    /\ \A d \in Distributor : currentNonce[d] >= -1
    /\ \A d \in Distributor, pko \in Device :
          Holds(d, pko) \/ Counted(d, pko) => job[d][pko].nonce >= 0

LEMMA TypeInvInit == DInit => TypeInv
BY DEF DInit, TypeInv, DTypeOK, Holds, Counted, Job, Stage, Address

\* What changes in job when one job moves to another stage.
LEMMA TypeGoto ==
    ASSUME DTypeOK, NEW d \in Distributor, NEW pko \in Device, NEW pc \in Stage,
           Goto(d, pko, pc)
    PROVE  /\ job' \in [Distributor -> [Device -> Job]]
           /\ job'[d][pko] = [job[d][pko] EXCEPT !.pc = pc]
           /\ \A e \in Distributor, q \in Device :
                  e # d \/ q # pko => job'[e][q] = job[e][q]
<1>1. job[d][pko] \in Job
  BY DEF DTypeOK
<1>2. [job[d][pko] EXCEPT !.pc = pc] \in Job
  BY <1>1 DEF Job
<1>3. job' = [job EXCEPT ![d] = [job[d] EXCEPT ![pko] = [job[d][pko] EXCEPT !.pc = pc]]]
  BY DEF Goto
<1> QED BY <1>2, <1>3 DEF DTypeOK

LEMMA TypeCall ==
    ASSUME DTypeOK, NEW d \in Distributor, NEW pko \in Device,
           NEW call \in {"commit", "reveal"}, Call(d, pko, call)
    PROVE  /\ job' \in [Distributor -> [Device -> Job]]
           /\ job'[d][pko].pc = "nonce"
           /\ \A e \in Distributor, q \in Device :
                  e # d \/ q # pko => job'[e][q] = job[e][q]
<1> DEFINE j == [call |-> call, pc |-> "nonce", nonce |-> -1, to |-> contract[d]]
<1>1. j \in Job /\ j.pc = "nonce"
  BY DEF DTypeOK, Job, Stage
<1>2. job' = [job EXCEPT ![d] = [job[d] EXCEPT ![pko] = j]]
  BY DEF Call
<1> HIDE DEF j
<1> QED BY <1>1, <1>2 DEF DTypeOK

\* The node's answer is kept in the job.
LEMMA GetCount ==
    ASSUME DTypeOK, NEW d \in Distributor, NEW pko \in Device, getTransactionCount(d, pko)
    PROVE  /\ job' \in [Distributor -> [Device -> Job]]
           /\ job'[d][pko].nonce = transactionCount[d] /\ job'[d][pko].pc = "counted"
           /\ \A e \in Distributor, q \in Device :
                  e # d \/ q # pko => job'[e][q] = job[e][q]
           /\ UNCHANGED <<currentNonce, transactionCount, contract, mempool>>
<1> DEFINE j == [job[d][pko] EXCEPT !.pc = "counted", !.nonce = transactionCount[d]]
<1>1. j \in Job /\ j.nonce = transactionCount[d] /\ j.pc = "counted"
  <2>1. job[d][pko] \in Job /\ transactionCount[d] \in Int
    BY DEF DTypeOK
  <2> QED BY <2>1 DEF Job, Stage
<1>2. job' = [job EXCEPT ![d] = [job[d] EXCEPT ![pko] = j]]
  BY DEF getTransactionCount, DTypeOK
<1> HIDE DEF j
<1>3. /\ job' \in [Distributor -> [Device -> Job]]
      /\ job'[d][pko] = j
      /\ \A e \in Distributor, q \in Device : e # d \/ q # pko => job'[e][q] = job[e][q]
  BY <1>1, <1>2 DEF DTypeOK
<1> QED BY <1>1, <1>3 DEF getTransactionCount

\* _getNonce hands out the larger one of the count that the node answered with
\* and the successor of the last nonce handed out.
LEMMA GetNonce ==
    ASSUME DTypeOK, NEW d \in Distributor, NEW pko \in Device, _getNonce(d, pko)
    PROVE  /\ Counted(d, pko)
           /\ \E nonce \in Int :
                /\ nonce >= job[d][pko].nonce /\ nonce >= currentNonce[d] + 1
                /\ nonce = job[d][pko].nonce \/ nonce = currentNonce[d] + 1
                /\ currentNonce' = [currentNonce EXCEPT ![d] = nonce]
                /\ job' \in [Distributor -> [Device -> Job]]
                /\ job'[d][pko].nonce = nonce /\ job'[d][pko].pc = "estimate"
                /\ \A e \in Distributor, q \in Device :
                       e # d \/ q # pko => job'[e][q] = job[e][q]
<1> DEFINE count == job[d][pko].nonce
           nonce == IF count > currentNonce[d] + 1 THEN count ELSE currentNonce[d] + 1
           j == [job[d][pko] EXCEPT !.pc = "estimate", !.nonce = nonce]
<1>1. /\ nonce \in Int
      /\ nonce >= count /\ nonce >= currentNonce[d] + 1
      /\ nonce = count \/ nonce = currentNonce[d] + 1
  <2>1. count \in Int /\ currentNonce[d] \in Int
    BY DEF DTypeOK, Job
  <2> QED BY <2>1
<1>2. currentNonce' = [currentNonce EXCEPT ![d] = nonce]
  BY DEF _getNonce
<1>3. job' = [job EXCEPT ![d] = [job[d] EXCEPT ![pko] = j]]
  BY DEF _getNonce, DTypeOK
<1> HIDE DEF nonce
<1>4. j \in Job /\ j.nonce = nonce /\ j.pc = "estimate"
  <2>1. job[d][pko] \in Job
    BY DEF DTypeOK
  <2> QED BY <1>1, <2>1 DEF Job, Stage
<1> HIDE DEF j
<1>5. /\ job' \in [Distributor -> [Device -> Job]]
      /\ job'[d][pko] = j
      /\ \A e \in Distributor, q \in Device : e # d \/ q # pko => job'[e][q] = job[e][q]
  BY <1>3, <1>4 DEF DTypeOK
<1> QED BY <1>1, <1>2, <1>4, <1>5 DEF _getNonce, At, Counted

\* The transaction that sendSignedTransaction adds.
SentTx(d, pko) == [from |-> d, nonce |-> job[d][pko].nonce, call |-> job[d][pko].call,
                   to |-> job[d][pko].to, pko |-> pko]

\* What a step of a job does to the variables of the client, told by its effect
\* on one job: the nonce, the job's stage and the pending transactions.
LEMMA SendStep ==
    ASSUME TypeInv, NEW d \in Distributor, NEW pko \in Device, sendSignedTransaction(d, pko)
    PROVE  /\ job' \in [Distributor -> [Device -> Job]]
           /\ job[d][pko].pc = "send" /\ ~Holds(d, pko)' /\ ~Counted(d, pko)'
           /\ \A e \in Distributor, q \in Device :
                  e # d \/ q # pko => job'[e][q] = job[e][q]
           /\ SentTx(d, pko) \in Tx
           /\ \/ mempool' = mempool
              \/ /\ mempool' = mempool \cup {SentTx(d, pko)}
                 /\ \A tx \in mempool : tx.from = d => tx.nonce # job[d][pko].nonce
<1> DTypeOK
  BY DEF TypeInv
<1>1. PICK pc \in {"failed", "sent"} : Goto(d, pko, pc)
  BY DEF sendSignedTransaction
<1> pc \in Stage
  BY DEF Stage
<1>2. /\ job' \in [Distributor -> [Device -> Job]]
      /\ job'[d][pko] = [job[d][pko] EXCEPT !.pc = pc]
      /\ \A e \in Distributor, q \in Device : e # d \/ q # pko => job'[e][q] = job[e][q]
  BY <1>1, TypeGoto
<1>3. job[d][pko] \in Job /\ job[d][pko].pc = "send" /\ job[d][pko].nonce >= 0
  BY DEF TypeInv, DTypeOK, sendSignedTransaction, At, Holds
<1>4. job'[d][pko].pc = pc
  BY <1>2, <1>3 DEF Job
<1>5. SentTx(d, pko) \in Tx
  BY <1>3 DEF SentTx, Tx, Job
<1>6. \/ mempool' = mempool
      \/ /\ mempool' = mempool \cup {SentTx(d, pko)}
         /\ \A tx \in mempool : tx.from = d => tx.nonce # job[d][pko].nonce
  BY DEF sendSignedTransaction, SentTx
<1> QED BY <1>2, <1>3, <1>4, <1>5, <1>6 DEF Holds, Counted

\* A step after which the job holds, or was answered, no nonce but the one before.
Moves(d, pko) ==
    /\ job' \in [Distributor -> [Device -> Job]]
    /\ Holds(d, pko)' => Holds(d, pko)
    /\ Counted(d, pko)' => Counted(d, pko)
    /\ (Holds(d, pko) \/ Counted(d, pko))' => job'[d][pko].nonce = job[d][pko].nonce
    /\ \A e \in Distributor, q \in Device : e # d \/ q # pko => job'[e][q] = job[e][q]

LEMMA GotoMoves ==
    ASSUME DTypeOK, NEW d \in Distributor, NEW pko \in Device, NEW pc \in Stage,
           Goto(d, pko, pc), pc # "counted", Holds(d, pko) \/ pc \notin {"estimate", "send"}
    PROVE  Moves(d, pko)
<1>1. job[d][pko] \in Job
  BY DEF DTypeOK
<1>2. /\ job' \in [Distributor -> [Device -> Job]]
      /\ job'[d][pko] = [job[d][pko] EXCEPT !.pc = pc]
      /\ \A e \in Distributor, q \in Device : e # d \/ q # pko => job'[e][q] = job[e][q]
  BY TypeGoto
<1>3. job'[d][pko].pc = pc /\ job'[d][pko].nonce = job[d][pko].nonce
  BY <1>1, <1>2 DEF Job
<1> QED BY <1>2, <1>3 DEF Moves, Holds, Counted

LEMMA JobMoves ==
    ASSUME DTypeOK, NEW d \in Distributor, NEW pko \in Device,
           \/ _onProofOfDistribution(d, pko) \/ estimateGas(d, pko)
           \/ _onReceipt(d, pko) \/ ReceiptTimeout(d, pko)
    PROVE  Moves(d, pko) /\ UNCHANGED <<currentNonce, transactionCount, contract, mempool>>
<1>1. CASE _onProofOfDistribution(d, pko)
  <2>1. CASE Call(d, pko, "commit")
    BY <1>1, <2>1, TypeCall DEF _onProofOfDistribution, Moves, Holds, Counted
  <2>2. CASE Goto(d, pko, "failed")
    BY <1>1, <2>2, GotoMoves DEF _onProofOfDistribution, Stage
  <2> QED BY <1>1, <2>1, <2>2 DEF _onProofOfDistribution
<1>2. CASE estimateGas(d, pko)
  <2>1. Holds(d, pko)
    BY <1>2 DEF estimateGas, At, Holds
  <2>2. PICK pc \in {"send", "failed"} : Goto(d, pko, pc)
    BY <1>2 DEF estimateGas
  <2> QED BY <1>2, <2>1, <2>2, GotoMoves DEF estimateGas, Stage
<1>3. CASE _onReceipt(d, pko)
  <2>1. CASE Call(d, pko, "reveal")
    BY <1>3, <2>1, TypeCall DEF _onReceipt, Moves, Holds, Counted
  <2>2. CASE \E pc \in {"done", "failed"} : Goto(d, pko, pc)
    BY <1>3, <2>2, GotoMoves DEF _onReceipt, Stage
  <2> QED BY <1>3, <2>1, <2>2 DEF _onReceipt
<1>4. CASE ReceiptTimeout(d, pko)
  BY <1>4, GotoMoves DEF ReceiptTimeout, Stage
<1> QED BY <1>1, <1>2, <1>3, <1>4

\* A transaction is mined: the job that waits for its receipt moves on.
LEMMA MineMoves ==
    ASSUME DTypeOK, NEW tx \in mempool, Mine(tx)
    PROVE  /\ tx \in Tx /\ tx.nonce = transactionCount[tx.from]
           /\ mempool' = mempool \ {tx}
           /\ transactionCount' = [transactionCount EXCEPT ![tx.from] = @ + 1]
           /\ UNCHANGED <<currentNonce, contract>>
           /\ Moves(tx.from, tx.pko)
<1>1. tx \in Tx /\ tx.from \in Distributor /\ tx.pko \in Device
  BY DEF DTypeOK, Tx
<1>2. UNCHANGED job \/ \E pc \in {"mined", "reverted"} : Goto(tx.from, tx.pko, pc)
  BY DEF Mine
<1>3. ASSUME UNCHANGED job PROVE Moves(tx.from, tx.pko)
  BY <1>1, <1>3 DEF Moves, Holds, Counted, DTypeOK
<1>4. ASSUME NEW pc \in {"mined", "reverted"}, Goto(tx.from, tx.pko, pc)
      PROVE  Moves(tx.from, tx.pko)
  BY <1>1, <1>4, GotoMoves DEF Stage
<1> QED BY <1>1, <1>2, <1>3, <1>4 DEF Mine, Minable

\* A restart leaves no job that holds a nonce.
LEMMA RestartStep ==
    ASSUME DTypeOK, NEW d \in Distributor, Restart(d)
    PROVE  /\ job' \in [Distributor -> [Device -> Job]]
           /\ \A e \in Distributor, q \in Device :
                  IF e = d THEN ~Holds(e, q)' /\ ~Counted(e, q)' ELSE job'[e][q] = job[e][q]
<1>1. ASSUME NEW q \in Device
      PROVE  LET j == IF job[d][q].pc = "idle" THEN job[d][q] ELSE [job[d][q] EXCEPT !.pc = "lost"]
             IN  j \in Job /\ j.pc \notin {"counted", "estimate", "send"}
  <2>1. job[d][q] \in Job
    BY DEF DTypeOK
  <2> QED BY <2>1 DEF Job, Stage
<1>2. job' = [job EXCEPT ![d] = [q \in Device |->
                 IF job[d][q].pc = "idle" THEN job[d][q] ELSE [job[d][q] EXCEPT !.pc = "lost"]]]
  BY DEF Restart
<1> QED BY <1>1, <1>2 DEF DTypeOK, Holds, Counted

LEMMA TypeInvNext == TypeInv /\ [DNext]_dvars => TypeInv'
<1> SUFFICES ASSUME TypeInv, [DNext]_dvars PROVE TypeInv'
  OBVIOUS
<1> DTypeOK
  BY DEF TypeInv
<1> DEFINE JobsOK == \A d \in Distributor, pko \in Device : 
                        Holds(d, pko) \/ Counted(d, pko) => job[d][pko].nonce >= 0
           CountsOK == \A d \in Distributor : currentNonce[d] >= -1
<1>0. JobsOK /\ CountsOK
  BY DEF TypeInv
<1>a. ASSUME NEW d \in Distributor, NEW pko \in Device, Moves(d, pko)
      PROVE  job' \in [Distributor -> [Device -> Job]] /\ JobsOK'
  BY <1>a, <1>0 DEF Moves, Holds, Counted
<1>1. ASSUME NEW d \in Distributor, NEW pko \in Device, Moves(d, pko),
             UNCHANGED <<currentNonce, transactionCount, contract, mempool>>
      PROVE  TypeInv'
  BY <1>0, <1>1, <1>a DEF TypeInv, DTypeOK
<1>2. ASSUME NEW d \in Distributor, NEW pko \in Device, _getNonce(d, pko)
      PROVE  TypeInv'
  <2>1. UNCHANGED <<transactionCount, contract, mempool>>
    BY <1>2 DEF _getNonce
  <2>2. PICK nonce \in Int :
             /\ Counted(d, pko) /\ nonce >= job[d][pko].nonce
             /\ currentNonce' = [currentNonce EXCEPT ![d] = nonce]
             /\ job' \in [Distributor -> [Device -> Job]]
             /\ job'[d][pko].nonce = nonce
             /\ \A e \in Distributor, q \in Device :
                    e # d \/ q # pko => job'[e][q] = job[e][q]
    BY <1>2, GetNonce
  <2>3. nonce >= 0
    BY <1>0, <2>2 DEF DTypeOK, Job
  <2>4. currentNonce' \in [Distributor -> Int] /\ CountsOK'
    BY <1>0, <2>2, <2>3 DEF DTypeOK
  <2>5. JobsOK'
    BY <1>0, <2>2, <2>3 DEF Holds, Counted
  <2> QED BY <2>1, <2>2, <2>4, <2>5 DEF TypeInv, DTypeOK
<1>8. ASSUME NEW d \in Distributor, NEW pko \in Device, getTransactionCount(d, pko)
      PROVE  TypeInv'
  <2>1. transactionCount[d] >= 0
    BY DEF DTypeOK
  <2>2. job' \in [Distributor -> [Device -> Job]] /\ JobsOK'
    BY <1>0, <1>8, <2>1, GetCount DEF Holds, Counted
  <2> QED BY <1>0, <1>8, <2>2, GetCount DEF TypeInv, DTypeOK
<1>3. ASSUME NEW d \in Distributor, NEW pko \in Device, sendSignedTransaction(d, pko)
      PROVE  TypeInv'
  <2>1. UNCHANGED <<currentNonce, transactionCount, contract>>
    BY <1>3 DEF sendSignedTransaction
  <2>2. /\ job' \in [Distributor -> [Device -> Job]]
        /\ ~Holds(d, pko)' /\ ~Counted(d, pko)'
        /\ \A e \in Distributor, q \in Device : e # d \/ q # pko => job'[e][q] = job[e][q]
        /\ mempool' \subseteq mempool \cup {SentTx(d, pko)} /\ SentTx(d, pko) \in Tx
    BY <1>3, SendStep
  <2>3. JobsOK'
    BY <1>0, <2>2 DEF Holds, Counted
  <2> QED BY <1>0, <2>1, <2>2, <2>3 DEF TypeInv, DTypeOK
<1>4. ASSUME NEW tx \in mempool, Mine(tx) PROVE TypeInv'
  <2>1. tx.from \in Distributor /\ tx.pko \in Device
    BY DEF DTypeOK, Tx
  <2>2. /\ mempool' = mempool \ {tx}
        /\ transactionCount' = [transactionCount EXCEPT ![tx.from] = @ + 1]
        /\ UNCHANGED <<currentNonce, contract>>
        /\ Moves(tx.from, tx.pko)
    BY <1>4, MineMoves
  <2>3. job' \in [Distributor -> [Device -> Job]] /\ JobsOK'
    BY <2>1, <2>2, <1>a
  <2>4. /\ transactionCount' \in [Distributor -> Nat]
        /\ mempool' \subseteq Tx
    BY <2>1, <2>2 DEF DTypeOK
  <2>5. currentNonce' \in [Distributor -> Int] /\ contract' \in [Distributor -> Address] /\ CountsOK'
    BY <1>0, <2>2 DEF DTypeOK
  <2> QED BY <2>3, <2>4, <2>5 DEF TypeInv, DTypeOK
<1>5. ASSUME NEW d \in Distributor, Restart(d) PROVE TypeInv'
  <2>1. /\ currentNonce' = [currentNonce EXCEPT ![d] = -1]
        /\ UNCHANGED <<transactionCount, contract, mempool>>
    BY <1>5 DEF Restart
  <2>2. job' \in [Distributor -> [Device -> Job]] /\ JobsOK'
    BY <1>0, <1>5, RestartStep DEF Holds, Counted
  <2>3. currentNonce' \in [Distributor -> Int] /\ CountsOK'
    BY <1>0, <2>1 DEF DTypeOK
  <2> QED BY <2>1, <2>2, <2>3 DEF TypeInv, DTypeOK
<1>6. ASSUME NEW d \in Distributor, _onContractPublished(d) PROVE TypeInv'
  BY <1>6 DEF _onContractPublished, TypeInv, DTypeOK, Holds, Counted, Address
<1>7. CASE UNCHANGED client
  BY <1>7 DEF client, TypeInv, DTypeOK, Holds, Counted
<1> QED
  BY <1>1, <1>2, <1>3, <1>4, <1>5, <1>6, <1>7, <1>8, JobMoves
  DEF DNext, dvars, Step, Others, Clock

\* Every variable of the clients and the chain keeps its type; above all no
\* transaction is sent without a nonce, whatever times out or restarts.
THEOREM ClientTypeCorrect == DSpec => []DTypeOK
<1>1. TypeInv => DTypeOK
  BY DEF TypeInv
<1> QED BY <1>1, TypeInvInit, TypeInvNext, PTL DEF DSpec

------------------------------------------------------------------------------
\* Nonces.  NoncesUnique says nothing of two pending transactions, nor of what
\* _getNonce will hand out next, so it is not inductive.  NonceInv adds that all
\* nonces in use lie between the count of mined transactions and the last one
\* handed out, and that a count the node answered with, however old, is at most
\* the successor of the last nonce handed out.

InUse(d, nonce) == transactionCount[d] <= nonce /\ nonce <= currentNonce[d]

NonceInv ==
    /\ \A d \in Distributor : transactionCount[d] <= currentNonce[d] + 1
    /\ \A tx \in mempool : InUse(tx.from, tx.nonce)
    /\ \A t, u \in mempool : t.from = u.from /\ t.nonce = u.nonce => t = u
    /\ \A d \in Distributor, pko \in Device : Holds(d, pko) => InUse(d, job[d][pko].nonce)
    /\ \A d \in Distributor, pko \in Device :
          Counted(d, pko) => job[d][pko].nonce <= currentNonce[d] + 1
    /\ NoncesUnique

LEMMA NonceInvInit == DInit => NonceInv
BY DEF DInit, NonceInv, NoncesUnique, Holds, Counted

\* What NoncesUnique says of one job.
Unique(d, pko) ==
    Holds(d, pko) =>
        /\ job[d][pko].nonce >= transactionCount[d]
        /\ \A tx \in mempool : tx.from = d => tx.nonce # job[d][pko].nonce
        /\ \A q \in Device \ {pko} : Holds(d, q) => job[d][q].nonce # job[d][pko].nonce

LEMMA UniqueForAll == NoncesUnique <=> \A d \in Distributor, pko \in Device : Unique(d, pko)
BY DEF NoncesUnique, Unique, Holds

LEMMA NonceInvMoves ==
    ASSUME DTypeOK, NonceInv, NEW d \in Distributor, NEW pko \in Device, Moves(d, pko),
           UNCHANGED <<currentNonce, transactionCount, mempool>>
    PROVE  NonceInv'
<1>1. \A e \in Distributor, q \in Device :
          Holds(e, q)' => Holds(e, q) /\ job'[e][q].nonce = job[e][q].nonce
  BY DEF Moves, Holds
<1>2. NoncesUnique'
  BY <1>1, UniqueForAll DEF NonceInv, NoncesUnique, Unique, Holds
<1>3. \A e \in Distributor, q \in Device :
          Counted(e, q)' => Counted(e, q) /\ job'[e][q].nonce = job[e][q].nonce
  BY DEF Moves, Counted
<1> QED BY <1>1, <1>2, <1>3 DEF NonceInv, InUse

LEMMA NonceInvCount ==
    ASSUME DTypeOK, NonceInv, NEW d \in Distributor, NEW pko \in Device,
           getTransactionCount(d, pko)
    PROVE  NonceInv'
<1>1. /\ UNCHANGED <<currentNonce, transactionCount, mempool>>
      /\ job'[d][pko].nonce = transactionCount[d]
      /\ \A e \in Distributor, q \in Device : e # d \/ q # pko => job'[e][q] = job[e][q]
  BY GetCount
<1>2. \A e \in Distributor, q \in Device :
          Holds(e, q)' => Holds(e, q) /\ job'[e][q].nonce = job[e][q].nonce
  BY GetCount DEF Holds
<1>3. NoncesUnique'
  BY <1>1, <1>2, UniqueForAll DEF NonceInv, NoncesUnique, Unique, Holds
<1>4. \A e \in Distributor, q \in Device :
          Counted(e, q)' => job'[e][q].nonce <= currentNonce'[e] + 1
  BY <1>1 DEF NonceInv, Counted
<1> QED BY <1>1, <1>2, <1>3, <1>4 DEF NonceInv, InUse

LEMMA NonceInvGetNonce ==
    ASSUME DTypeOK, NonceInv, NEW d \in Distributor, NEW pko \in Device, _getNonce(d, pko)
    PROVE  NonceInv'
<1>1. PICK nonce \in Int :
             /\ nonce = currentNonce[d] + 1 /\ nonce >= transactionCount[d]
             /\ currentNonce' = [currentNonce EXCEPT ![d] = nonce]
             /\ job' \in [Distributor -> [Device -> Job]]
             /\ job'[d][pko].nonce = nonce /\ job'[d][pko].pc = "estimate"
             /\ \A e \in Distributor, q \in Device :
                    e # d \/ q # pko => job'[e][q] = job[e][q]
  <2>1. PICK nonce \in Int :
             /\ nonce >= currentNonce[d] + 1
             /\ nonce = job[d][pko].nonce \/ nonce = currentNonce[d] + 1
             /\ currentNonce' = [currentNonce EXCEPT ![d] = nonce]
             /\ job' \in [Distributor -> [Device -> Job]]
             /\ job'[d][pko].nonce = nonce /\ job'[d][pko].pc = "estimate"
             /\ \A e \in Distributor, q \in Device :
                    e # d \/ q # pko => job'[e][q] = job[e][q]
    BY GetNonce
  <2>2. job[d][pko].nonce <= currentNonce[d] + 1
    BY GetNonce DEF NonceInv
  <2>3. /\ currentNonce[d] \in Int /\ transactionCount[d] \in Int
        /\ transactionCount[d] <= currentNonce[d] + 1
    BY DEF DTypeOK, NonceInv
  <2>4. nonce = currentNonce[d] + 1
    <3>1. CASE nonce = job[d][pko].nonce
      <4>1. nonce <= currentNonce[d] + 1 /\ nonce >= currentNonce[d] + 1
        BY <2>1, <2>2, <3>1
      <4> QED BY <2>3, <4>1
    <3> QED BY <2>1, <3>1
  <2>5. nonce >= transactionCount[d]
    BY <2>1, <2>3
  <2> QED BY <2>1, <2>4, <2>5
<1>2. UNCHANGED <<transactionCount, mempool>>
  BY DEF _getNonce
<1>3. currentNonce'[d] = nonce /\ \A e \in Distributor : e # d => currentNonce'[e] = currentNonce[e]
  BY <1>1 DEF DTypeOK
<1>4. \A e \in Distributor : /\ transactionCount'[e] <= currentNonce'[e] + 1
                             /\ currentNonce[e] <= currentNonce'[e]
                             /\ currentNonce'[e] \in Int /\ transactionCount[e] \in Nat
  BY <1>1, <1>2, <1>3 DEF NonceInv, DTypeOK
<1>5. \A e \in Distributor, n \in Int : InUse(e, n) => InUse(e, n)'
  BY <1>2, <1>4 DEF InUse, DTypeOK
<1>6. \A tx \in mempool' : tx.from \in Distributor /\ tx.nonce \in Int /\ InUse(tx.from, tx.nonce)'
  BY <1>2, <1>5 DEF NonceInv, DTypeOK, Tx
<1>7. \A e \in Distributor, q \in Device : Holds(e, q)' => InUse(e, job[e][q].nonce)'
  <2>1. InUse(d, job[d][pko].nonce)'
    BY <1>1, <1>2, <1>3 DEF InUse
  <2>2. ASSUME NEW e \in Distributor, NEW q \in Device, e # d \/ q # pko, Holds(e, q)'
        PROVE  InUse(e, job[e][q].nonce)'
    <3>1. job[e][q].nonce \in Int /\ InUse(e, job[e][q].nonce)
      BY <1>1, <2>2 DEF NonceInv, Holds, DTypeOK, Job
    <3> QED BY <1>1, <1>5, <2>2, <3>1
  <2> QED BY <2>1, <2>2
<1>8. /\ \A tx \in mempool : tx.from = d => tx.nonce # nonce
      /\ \A q \in Device \ {pko} : Holds(d, q) => job[d][q].nonce # nonce
  <2>1. \A n \in Int : InUse(d, n) => n # nonce
    BY <1>1 DEF InUse, DTypeOK
  <2>2. \A q \in Device : job[d][q].nonce \in Int
    BY DEF DTypeOK, Job
  <2> QED BY <2>1, <2>2 DEF NonceInv, DTypeOK, Tx
<1>9. NoncesUnique'
  <2>1. Unique(d, pko)'
    BY <1>1, <1>2, <1>8 DEF Unique, Holds
  <2>2. ASSUME NEW e \in Distributor, NEW q \in Device, e # d \/ q # pko
        PROVE  Unique(e, q)'
    <3>1. Unique(e, q)
      BY UniqueForAll DEF NonceInv
    <3> QED BY <1>1, <1>2, <1>8, <2>2, <3>1 DEF Unique, Holds
  <2>3. \A e \in Distributor, q \in Device : Unique(e, q)'
    BY <2>1, <2>2
  <2> QED BY <2>3 DEF Unique, NoncesUnique, Holds
<1>10. \A e \in Distributor, q \in Device :
          Counted(e, q)' => job'[e][q].nonce <= currentNonce'[e] + 1
  <2>1. ASSUME NEW e \in Distributor, NEW q \in Device, Counted(e, q)'
        PROVE  job'[e][q].nonce <= currentNonce'[e] + 1
    <3>1. job'[e][q] = job[e][q] /\ Counted(e, q)
      BY <1>1, <2>1 DEF Counted
    <3>2. job[e][q].nonce \in Int /\ currentNonce[e] \in Int
      BY DEF DTypeOK, Job
    <3> QED BY <1>4, <3>1, <3>2 DEF NonceInv
  <2> QED BY <2>1
<1> QED BY <1>2, <1>4, <1>6, <1>7, <1>9, <1>10 DEF NonceInv

LEMMA NonceInvSend ==
    ASSUME TypeInv, NonceInv, NEW d \in Distributor, NEW pko \in Device,
           sendSignedTransaction(d, pko)
    PROVE  NonceInv'
<1> DTypeOK
  BY DEF TypeInv
<1>1. UNCHANGED <<currentNonce, transactionCount>>
  BY DEF sendSignedTransaction
<1>2. /\ job[d][pko].pc = "send" /\ ~Holds(d, pko)' /\ ~Counted(d, pko)'
      /\ \A e \in Distributor, q \in Device :
             e # d \/ q # pko => job'[e][q] = job[e][q]
      /\ \/ mempool' = mempool
         \/ /\ mempool' = mempool \cup {SentTx(d, pko)}
            /\ \A tx \in mempool : tx.from = d => tx.nonce # job[d][pko].nonce
  BY SendStep
<1>3. Holds(d, pko) /\ SentTx(d, pko).from = d /\ SentTx(d, pko).nonce = job[d][pko].nonce
  BY <1>2 DEF Holds, SentTx
<1>4. \A tx \in mempool' : InUse(tx.from, tx.nonce)
  BY <1>2, <1>3 DEF NonceInv
<1>5. \A t, u \in mempool' : t.from = u.from /\ t.nonce = u.nonce => t = u
  BY <1>2, <1>3 DEF NonceInv
<1>6. ASSUME NEW e \in Distributor, NEW q \in Device, Holds(e, q)'
      PROVE  /\ InUse(e, job'[e][q].nonce)
             /\ Unique(e, q)'
  <2>1. (e # d \/ q # pko) /\ Holds(e, q) /\ job'[e][q] = job[e][q]
    BY <1>2, <1>6 DEF Holds
  <2>2. Unique(e, q)
    BY UniqueForAll DEF NonceInv
  <2>3. \A p \in Device : Holds(e, p)' => Holds(e, p) /\ job'[e][p] = job[e][p]
    BY <1>2 DEF Holds
  <2>4. \A tx \in mempool' : tx.from = e => tx.nonce # job[e][q].nonce
    BY <1>2, <1>3, <2>1, <2>2 DEF Unique
  <2> QED BY <1>1, <2>1, <2>2, <2>3, <2>4 DEF NonceInv, Unique
<1>7. NoncesUnique'
  <2>1. \A e \in Distributor, q \in Device : Unique(e, q)'
    BY <1>6 DEF Unique
  <2> QED BY <2>1 DEF Unique, NoncesUnique, Holds
<1>8. \A e \in Distributor, q \in Device :
          Counted(e, q)' => Counted(e, q) /\ job'[e][q] = job[e][q]
  BY <1>2 DEF Counted
<1> QED BY <1>1, <1>4, <1>5, <1>6, <1>7, <1>8 DEF NonceInv, InUse

LEMMA NonceInvMine ==
    ASSUME DTypeOK, NonceInv, NEW tx \in mempool, Mine(tx)
    PROVE  NonceInv'
<1> DEFINE d == tx.from
<1>1. d \in Distributor /\ tx.pko \in Device
  BY DEF DTypeOK, Tx
<1>2. /\ tx.nonce = transactionCount[d]
      /\ mempool' = mempool \ {tx}
      /\ transactionCount' = [transactionCount EXCEPT ![d] = @ + 1]
      /\ UNCHANGED currentNonce
      /\ Moves(d, tx.pko)
  BY MineMoves
<1> HIDE DEF d
<1>3. \A e \in Distributor : transactionCount'[e] =
          IF e = d THEN transactionCount[e] + 1 ELSE transactionCount[e]
  BY <1>1, <1>2 DEF DTypeOK
<1>4. tx.from = d /\ InUse(d, tx.nonce)
  BY DEF NonceInv, d
<1>5. \A e \in Distributor : transactionCount'[e] <= currentNonce'[e] + 1
  BY <1>1, <1>2, <1>3, <1>4 DEF NonceInv, InUse, DTypeOK
<1>6. \A e \in Distributor, n \in Int :
          InUse(e, n) /\ (e = d => n # tx.nonce) => InUse(e, n)'
  <2>1. \A e \in Distributor : transactionCount[e] \in Nat /\ currentNonce'[e] = currentNonce[e]
    BY <1>2 DEF DTypeOK
  <2>2. tx.nonce = transactionCount[d]
    BY <1>2
  <2> QED BY <1>3, <2>1, <2>2 DEF InUse
<1>7. \A t \in mempool' : InUse(t.from, t.nonce)'
  BY <1>2, <1>4, <1>6 DEF NonceInv, DTypeOK, Tx
<1>8. \A e \in Distributor, q \in Device :
          Holds(e, q)' => Holds(e, q) /\ job'[e][q].nonce = job[e][q].nonce
  BY <1>1, <1>2 DEF Moves, Holds
<1>9. ASSUME NEW e \in Distributor, NEW q \in Device, Holds(e, q)'
      PROVE  InUse(e, job[e][q].nonce)' /\ Unique(e, q)'
  <2>1. Unique(e, q) /\ Holds(e, q) /\ InUse(e, job[e][q].nonce)
    BY <1>8, <1>9, UniqueForAll DEF NonceInv
  <2>2. job[e][q].nonce \in Int /\ transactionCount'[e] \in Int /\ currentNonce'[e] \in Int
    BY <1>2, <1>3 DEF DTypeOK, Job
  <2>3. e = d => job[e][q].nonce # tx.nonce
    BY <1>4, <2>1 DEF Unique
  <2>4. InUse(e, job[e][q].nonce)'
    BY <1>6, <1>8, <1>9, <2>1, <2>2, <2>3
  <2>5. job'[e][q].nonce >= transactionCount'[e]
    BY <1>8, <1>9, <2>2, <2>4 DEF InUse
  <2> QED BY <1>2, <1>8, <1>9, <2>1, <2>4, <2>5 DEF Unique
<1>10. NoncesUnique'
  <2>1. \A e \in Distributor, q \in Device : Unique(e, q)'
    BY <1>9 DEF Unique
  <2> QED BY <2>1 DEF Unique, NoncesUnique, Holds
<1>11. \A e \in Distributor, q \in Device :
          Counted(e, q)' => Counted(e, q) /\ job'[e][q].nonce = job[e][q].nonce
  BY <1>1, <1>2 DEF Moves, Counted
<1> QED BY <1>2, <1>5, <1>7, <1>9, <1>10, <1>11 DEF NonceInv

LEMMA NonceInvNext ==
    ASSUME "restart" \notin Faults, TypeInv, NonceInv, [DNext]_dvars
    PROVE  NonceInv'
<1> DTypeOK
  BY DEF TypeInv
<1>1. CASE UNCHANGED <<currentNonce, transactionCount, job, mempool>>
  BY <1>1 DEF NonceInv, NoncesUnique, Holds, Counted, InUse
<1> QED
  BY <1>1, JobMoves, NonceInvMoves, NonceInvCount, NonceInvGetNonce, NonceInvSend, NonceInvMine
  DEF DNext, dvars, client, Step, Others, Clock, _onContractPublished, Restart

\* As long as a distributor's process runs, no nonce is handed out twice and no
\* transaction of its own makes the node reject another.
THEOREM Nonces ==
    ASSUME "restart" \notin Faults
    PROVE  DSpec => []NoncesUnique
<1>1. DInit => TypeInv /\ NonceInv
  BY TypeInvInit, NonceInvInit
<1>2. TypeInv /\ NonceInv /\ [DNext]_dvars => (TypeInv /\ NonceInv)'
  BY TypeInvNext, NonceInvNext
<1>3. NonceInv => NoncesUnique
  BY DEF NonceInv
<1> QED BY <1>1, <1>2, <1>3, PTL DEF DSpec

------------------------------------------------------------------------------
\* The contract underneath.  What is proved of module IotPC for every sender and
\* every argument holds under the distributors' clients and the accounts beside
\* them, for what they have mined are calls of the contract.

LEMMA ExecutesCalls ==
    ASSUME NEW tx \in Tx, Executes(tx)
    PROVE  Commit \/ Reveal
<1> tx.from \in Account /\ tx.pko \in Device
  BY ClientOK DEF Tx
<1> rOf[tx.from][tx.pko] \in Key /\ sha256(rOf[tx.from][tx.pko]) \in Digest
  BY ClientOK DEF Tx, Digest
<1>1. CASE tx.call = "commit"
  BY <1>1 DEF Executes, Signed, Commit
<1>2. CASE tx.call = "reveal"
  BY <1>2 DEF Executes, Reveal
<1> QED BY <1>1, <1>2 DEF Executes

LEMMA OthersCall == ASSUME Others PROVE [Next]_vars
<1>1. CASE \E value \in Deposit : Fallback(value)
  BY <1>1 DEF Next
<1>2. CASE withdraw_funds(Owner)
  BY <1>2, ConstantsOK DEF Next
<1>3. ASSUME NEW pkd \in Account, NEW pko \in Device,
             \/ \E pko_hash \in Device, s \in Digest, sig \in Signature :
                    commit(pkd, pko, pko_hash, s, sig)
             \/ \E r \in Key : reveal(pkd, r, pko)
      PROVE  Commit \/ Reveal
  BY <1>3 DEF Commit, Reveal
<1> QED BY <1>1, <1>2, <1>3 DEF Others, Next

LEMMA ClientStepIsCall == DTypeOK /\ [DNext]_dvars => [Next]_vars
<1> SUFFICES ASSUME DTypeOK, [DNext]_dvars PROVE [Next]_vars
  OBVIOUS
<1>1. ASSUME NEW tx \in mempool, Mine(tx) PROVE [Next]_vars
  <2>1. CASE UNCHANGED vars
    BY <2>1
  <2>2. CASE Executes(tx)
    BY <2>2, ExecutesCalls DEF DTypeOK, Next
  <2> QED BY <1>1, <2>1, <2>2 DEF Mine
<1>2. CASE Clock
  BY <1>2 DEF Clock, Next
<1>3. CASE UNCHANGED vars
  BY <1>3
<1>4. ASSUME NEW d \in Distributor, NEW pko \in Device,
             _onProofOfDistribution(d, pko) \/ Step(d, pko) \/ ReceiptTimeout(d, pko)
      PROVE  UNCHANGED vars
  BY <1>4 DEF Step, _onProofOfDistribution, getTransactionCount, _getNonce, estimateGas,
              sendSignedTransaction, _onReceipt, ReceiptTimeout
<1> QED
  BY <1>1, <1>2, <1>3, <1>4, OthersCall DEF DNext, dvars, _onContractPublished, Restart

\* Every behaviour of the clients is a behaviour of the contract.
THEOREM ClientsUseContract == DSpec => Spec
<1>1. DInit => Init
  BY DEF DInit
<1> QED BY <1>1, ClientTypeCorrect, ClientStepIsCall, PTL DEF DSpec, Spec
==============================================================================

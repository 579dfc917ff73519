---------------------- MODULE DistributorEthereumClient ----------------------
(***************************************************************************)
(* The distributors' Ethereum clients                                      *)
(* (src/Distributor/DistributorEthereumClient.js, and the callbacks of     *)
(* src/Distributor/Distributor.js lines 73 to 87 that drive it), with the  *)
(* chain between them and the contract: account nonces and pending         *)
(* transactions.                                                           *)
(*                                                                         *)
(* A proof of distribution starts a job: commit and then reveal, two async *)
(* functions that give up the event loop at every await.  The jobs of one  *)
(* distributor, one per device, share the module's currentNonce and the    *)
(* configuration's attribute 'contract'.  getGasPrice and getBalance       *)
(* (lines 96 to 99) touch no state and are part of the step that sends.    *)
(***************************************************************************)
EXTENDS IotPC

CONSTANTS
    Distributor,  \* the accounts that run this client
    LowerCase,    \* devices whose address has no capitals in the wrapping package
    rOf,          \* rOf[d][pko]: the key that d drew for pko (crypto.randomBytes)
    Faults,       \* the disturbances that may happen
    Prompt        \* the clock does not move while a job or the chain can

ASSUME ClientOK ==
    /\ Distributor \subseteq Account
    /\ LowerCase \subseteq Device
    /\ rOf \in [Distributor -> [Device -> Key]]
    /\ Faults \subseteq {"timeout", "restart", "later"}
    /\ Prompt \in BOOLEAN

VARIABLES
    currentNonce,      \* by distributor: the last nonce handed out, -1 at first
    transactionCount,  \* by distributor: what getTransactionCount returns
    contract,          \* by distributor: the attribute 'contract' of its configuration
    job,               \* by distributor and device
    mempool            \* the transactions sent and not mined

client == <<currentNonce, transactionCount, contract, job, mempool>>
dvars == <<vars, client>>

\* The contract of module IotPC, and one for another update published later.
Address == {"this", "later"}

\* Where a job stands: in _getNonce before and after the node has answered, before
\* estimateGas or sendSignedTransaction, waiting for the receipt, or over.
Stage == {"idle", "nonce", "counted", "estimate", "send", "sent", "mined", "reverted",
          "done", "failed", "lost"}
Running == {"nonce", "counted", "estimate", "send", "mined", "reverted"}
Job == [call : {"commit", "reveal"}, pc : Stage, nonce : Int, to : Address]
Tx == [from : Distributor, nonce : Nat, call : {"commit", "reveal"},
       to : Address, pko : Device]

DTypeOK ==
    /\ currentNonce \in [Distributor -> Int]
    /\ transactionCount \in [Distributor -> Nat]
    /\ contract \in [Distributor -> Address]
    /\ job \in [Distributor -> [Device -> Job]]
    /\ mempool \subseteq Tx

DInit ==
    /\ Init
    /\ currentNonce = [d \in Distributor |-> -1]
    /\ transactionCount = [d \in Distributor |-> 0]
    /\ contract = [d \in Distributor |-> "this"]
    /\ job = [d \in Distributor |-> [pko \in Device |->
                [call |-> "commit", pc |-> "idle", nonce |-> -1, to |-> "this"]]]
    /\ mempool = {}

------------------------------------------------------------------------------
\* The contract as a transaction of a distributor finds it.  Nothing that is
\* meant for this contract succeeds in the other one: the signature holds this
\* contract's _uid, and nobody has committed there for the device.
Signed(d, pko) ==
    {sig \in Signature : verify_signature(msgHash(Uid, sha256(rOf[d][pko]), d), sig, pko)}

Accepts(call, to, d, pko) ==
    /\ to = "this"
    /\ \/ call = "commit" /\ \E sig \in Signed(d, pko) :
              commit_requires(d, pko, pko, sha256(rOf[d][pko]), sig)
       \/ call = "reveal" /\ reveal_requires(d, rOf[d][pko], pko)

Executes(tx) ==
    \/ /\ tx.call = "commit"
       /\ \E sig \in Signed(tx.from, tx.pko) :
              commit(tx.from, tx.pko, tx.pko, sha256(rOf[tx.from][tx.pko]), sig)
    \/ /\ tx.call = "reveal"
       /\ reveal(tx.from, rOf[tx.from][tx.pko], tx.pko)

\* The next transaction of its account.
Minable(tx) == tx.nonce = transactionCount[tx.from]

------------------------------------------------------------------------------
\* The client.  At is the job of distributor d for device pko.
At(d, pko, pc) == job[d][pko].pc = pc
Goto(d, pko, pc) == job' = [job EXCEPT ![d][pko].pc = pc]

\* Mutant: the attribute that is read is not in the configuration file.
Call_undefined(d, pko, call) ==
    job' = [job EXCEPT ![d][pko] =
              [call |-> call, pc |-> "nonce", nonce |-> -1, to |-> "undefined"]]

\* commit and reveal first read the address of the contract (lines 88, 129).
Call(d, pko, call) ==
    job' = [job EXCEPT ![d][pko] =
              [call |-> call, pc |-> "nonce", nonce |-> -1, to |-> contract[d]]]

\* generateMerkleProof looks for the device's address, in lower case, in the list of
\* the wrapping package; for one that is not there it has no element to prove.
generateMerkleProof(pko) == pko \in LowerCase

\* 'proofOfDistribution' from a wire; a wire draws a key of its own.  commit starts;
\* without a Merkle proof it throws before its try block and nobody is called back.
_onProofOfDistribution(d, pko) ==
    /\ At(d, pko, "idle")
    /\ Signed(d, pko) # {}
    /\ IF generateMerkleProof(pko) THEN Call(d, pko, "commit") ELSE Goto(d, pko, "failed")
    /\ UNCHANGED <<vars, currentNonce, transactionCount, contract, mempool>>

\* The node answers getTransactionCount.
getTransactionCount(d, pko) ==
    /\ At(d, pko, "nonce")
    /\ job' = [job EXCEPT ![d][pko].pc = "counted", ![d][pko].nonce = transactionCount[d]]
    /\ UNCHANGED <<vars, currentNonce, transactionCount, contract, mempool>>

\* Mutant: the count of mined transactions alone.
_getNonce_from_count(d, pko) ==
    /\ At(d, pko, "counted")
    /\ currentNonce' = [currentNonce EXCEPT ![d] = job[d][pko].nonce]
    /\ Goto(d, pko, "estimate")
    /\ UNCHANGED <<vars, transactionCount, contract, mempool>>

\* _getNonce after its await: the answer may be out of date by now.
_getNonce(d, pko) ==
    /\ At(d, pko, "counted")
    /\ LET count == job[d][pko].nonce
           nonce == IF count > currentNonce[d] + 1 THEN count ELSE currentNonce[d] + 1
       IN  /\ currentNonce' = [currentNonce EXCEPT ![d] = nonce]
           /\ job' = [job EXCEPT ![d][pko].pc = "estimate", ![d][pko].nonce = nonce]
    /\ UNCHANGED <<vars, transactionCount, contract, mempool>>

\* Mutant: the gas is not estimated.
estimateGas_skipped(d, pko) ==
    /\ At(d, pko, "estimate")
    /\ Goto(d, pko, "send")
    /\ UNCHANGED <<vars, currentNonce, transactionCount, contract, mempool>>

\* A call that would fail makes estimateGas throw: commit passes the error to
\* its callback, which gives up; reveal throws it.  The nonce stays used.
estimateGas(d, pko) ==
    /\ At(d, pko, "estimate")
    /\ Goto(d, pko, IF Accepts(job[d][pko].call, job[d][pko].to, d, pko)
                    THEN "send" ELSE "failed")
    /\ UNCHANGED <<vars, currentNonce, transactionCount, contract, mempool>>

\* The node rejects a transaction whose nonce is mined or pending already.
sendSignedTransaction(d, pko) ==
    /\ At(d, pko, "send")
    /\ LET j == job[d][pko]
           taken == \/ j.nonce < transactionCount[d]
                    \/ \E tx \in mempool : tx.from = d /\ tx.nonce = j.nonce
       IN  \/ /\ taken
              /\ Goto(d, pko, "failed")
              /\ UNCHANGED mempool
           \/ /\ ~taken
              /\ Goto(d, pko, "sent")
              /\ mempool' = mempool \cup {[from |-> d, nonce |-> j.nonce,
                                           call |-> j.call, to |-> j.to, pko |-> pko]}
    /\ UNCHANGED <<vars, currentNonce, transactionCount, contract>>

\* Mutant: the callback of commit does not reveal.
_onReceipt_no_reveal(d, pko) ==
    /\ \/ At(d, pko, "mined") /\ Goto(d, pko, "done")
       \/ At(d, pko, "reverted") /\ Goto(d, pko, "failed")
    /\ UNCHANGED <<vars, currentNonce, transactionCount, contract, mempool>>

\* The receipt.  A successful commit calls back and starts reveal; a reverted
\* transaction is an error.
_onReceipt(d, pko) ==
    /\ \/ /\ At(d, pko, "mined") /\ job[d][pko].call = "commit"
          /\ Call(d, pko, "reveal")
       \/ /\ At(d, pko, "mined") /\ job[d][pko].call = "reveal"
          /\ Goto(d, pko, "done")
       \/ /\ At(d, pko, "reverted")
          /\ Goto(d, pko, "failed")
    /\ UNCHANGED <<vars, currentNonce, transactionCount, contract, mempool>>

\* web3 gives up on a transaction that is not mined in time; it stays pending.
ReceiptTimeout(d, pko) ==
    /\ "timeout" \in Faults
    /\ At(d, pko, "sent")
    /\ Goto(d, pko, "failed")
    /\ UNCHANGED <<vars, currentNonce, transactionCount, contract, mempool>>

\* Another contract is published: the attribute 'contract' is overwritten.
_onContractPublished(d) ==
    /\ "later" \in Faults
    /\ contract[d] = "this"
    /\ contract' = [contract EXCEPT ![d] = "later"]
    /\ UNCHANGED <<vars, currentNonce, transactionCount, job, mempool>>

\* The process is restarted: the jobs and their keys were only in memory.
Restart(d) ==
    /\ "restart" \in Faults
    /\ currentNonce' = [currentNonce EXCEPT ![d] = -1]
    /\ job' = [job EXCEPT ![d] = [pko \in Device |->
                 IF @[pko].pc = "idle" THEN @[pko] ELSE [@[pko] EXCEPT !.pc = "lost"]]]
    /\ UNCHANGED <<vars, transactionCount, contract, mempool>>

------------------------------------------------------------------------------
\* The chain.  A transaction that fails a require() is mined as well: it uses
\* up its nonce and changes nothing else.
Mine(tx) ==
    /\ Minable(tx)
    /\ mempool' = mempool \ {tx}
    /\ transactionCount' = [transactionCount EXCEPT ![tx.from] = @ + 1]
    /\ LET awaited == At(tx.from, tx.pko, "sent") /\ job[tx.from][tx.pko].nonce = tx.nonce
           Receipt(pc) == IF awaited THEN Goto(tx.from, tx.pko, pc) ELSE UNCHANGED job
       IN  \/ /\ Accepts(tx.call, tx.to, tx.from, tx.pko)
              /\ Executes(tx)
              /\ Receipt("mined")
           \/ /\ ~Accepts(tx.call, tx.to, tx.from, tx.pko)
              /\ UNCHANGED vars
              /\ Receipt("reverted")
    /\ UNCHANGED <<currentNonce, contract>>

\* Accounts that run other software send the contract what they like: also a
\* commitment for one address with the hash of another (commit does not compare them).
Others ==
    /\ \/ \E value \in Deposit : Fallback(value)
       \/ withdraw_funds(Owner)
       \/ \E pkd \in Account \ Distributor, pko \in Device :
             \/ \E pko_hash \in Device, s \in Digest, sig \in Signature :
                    commit(pkd, pko, pko_hash, s, sig)
             \/ \E r \in Key : reveal(pkd, r, pko)
    /\ UNCHANGED client

Clock ==
    /\ Prompt => /\ \A d \in Distributor, pko \in Device : job[d][pko].pc \notin Running
                 /\ \A tx \in mempool : ~Minable(tx)
    /\ Tick
    /\ UNCHANGED client

Step(d, pko) ==
    \/ getTransactionCount(d, pko)
    \/ _getNonce(d, pko)
    \/ estimateGas(d, pko)
    \/ sendSignedTransaction(d, pko)
    \/ _onReceipt(d, pko)

DNext ==
    \/ \E d \in Distributor, pko \in Device :
          \/ _onProofOfDistribution(d, pko)
          \/ Step(d, pko)
          \/ ReceiptTimeout(d, pko)
    \/ \E d \in Distributor : _onContractPublished(d) \/ Restart(d)
    \/ \E tx \in mempool : Mine(tx)
    \/ Others
    \/ Clock

DSpec == DInit /\ [][DNext]_dvars

\* Node's event loop runs every continuation, and miners take what they can.
DFairness ==
    /\ \A d \in Distributor, pko \in Device : WF_dvars(Step(d, pko))
    /\ \A d \in Distributor : WF_dvars(\E tx \in mempool : tx.from = d /\ Mine(tx))

DFairSpec == DSpec /\ DFairness

------------------------------------------------------------------------------
\* However the awaits of a distributor's jobs interleave, _getNonce (line 176)
\* never hands out a nonce that another transaction of the account has: no
\* transaction is rejected by the node or replaces another one.
NoncesUnique ==
    \A d \in Distributor, pko \in Device :
        job[d][pko].pc \in {"estimate", "send"} =>
            /\ job[d][pko].nonce >= transactionCount[d]
            /\ \A tx \in mempool : tx.from = d => tx.nonce # job[d][pko].nonce
            /\ \A q \in Device \ {pko} : job[d][q].pc \in {"estimate", "send"} =>
                   job[d][q].nonce # job[d][pko].nonce

\* validate_pko (IotPC.sol line 88) computes the hash of the address and does not use
\* it: addresses that the contract is not for can take rewards.  All rewards are gone,
\* and one of them that way.
RewardsTaken == num_of_updated_objects = N /\ Revealed \ Registered # {}

\* The key is in the open as soon as a reveal is pending.  By then the device is
\* committed to the distributor in the contract that the transaction is for, and
\* a reveal that is mined before its window and the contract end is paid, whatever
\* rivals, timeouts, restarts and later contracts do in the meantime, unless an
\* address that is not registered has taken a reward and none is left (then the
\* key is lost: line 80 of the contract).  Distributor.js line 82 asks for a check
\* before reveal; that the device does not change hands inside the window is
\* CommitmentIsExclusive.
RevealSucceedsInTime ==
    \A tx \in mempool : tx.call = "reveal" =>
        /\ tx.to = "this"
        /\ iot_devices[tx.pko].pkd # NoAccount
        /\ \/ Expired
           \/ RewardsTaken
           \/ iot_devices[tx.pko].pkd # tx.from
           \/ now - iot_devices[tx.pko].commit_time > DeltaToReveal
           \/ reveal_requires(tx.from, rOf[tx.from][tx.pko], tx.pko)

\* README.md line 5: the distributor "submits those proofs to a smart contract
\* and gets his payment".  A device that has signed a proof for a distributor
\* sees a key revealed and paid for, whatever becomes of the other jobs, if its
\* address is in lower case in the package.
ProofIsPaid ==
    \A d \in Distributor, pko \in LowerCase :
        job[d][pko].pc # "idle" ~> pko \in Revealed
==============================================================================

------------------------- MODULE VendorUploadProofs -------------------------
(***************************************************************************)
(* Proofs about the vendor's pipeline, for uploads that overlap in any way *)
(* and fail at any point: its types, that a contract describes its upload, *)
(* and which transactions and contracts an upload ends in.                 *)
(***************************************************************************)
EXTENDS VendorUpload, FiniteSetTheorems, TLAPS

Progressing == [pc : Stage, keysFor : File, file : File, early : SUBSET {"keys", "file"},
                infoHash : InfoHash, package : Package \cup {NoPackage}]
Call == [pc : {"nonce", "send", "over", "failed"}, nonce : Int, contract : Contract]
Tx == [nonce : Nat, contract : Contract]

\* The uploads whose keys were generated, or that failed to be.
Generated == {u \in Upload : upload[u].pc \notin {"idle", "read", "gen"}}

WebT ==
    /\ updateFile \in File
    /\ moving \subseteq Upload
    /\ iot_addresses \subseteq IoT /\ iotAddresses \subseteq IoT
    /\ restarts \in 0..MaxRestarts
    /\ overlapped \subseteq Upload

PipelineT ==
    /\ upload \in [Upload -> Progressing]
    /\ wrappingPackage \in Package \cup {NoPackage}
    /\ seeding \subseteq Package
    /\ \A u \in Upload : At(u, "seed") => wrappingPackage \in Package
    /\ \A u \in Upload : At(u, "ready") => upload[u].package \in Package

\* Each listener was added by an upload that is past the generator.
ListenersT == listeners \in Nat /\ listeners <= Cardinality(Generated)

AccountT ==
    /\ deployment \in [Upload -> [Listener -> Call \cup {NoDeployment}]]
    /\ \A u \in Upload, k \in Listener : Deploys(u, k, "send") => deployment[u][k].nonce \in Nat
    /\ listening \in BOOLEAN
    /\ transactionCount \in Nat
    /\ mempool \subseteq Tx

EventsT ==
    /\ contracts \subseteq Tx
    /\ notified \cup subscribed \subseteq {c.nonce : c \in contracts}

TypeInv == WebT /\ PipelineT /\ ListenersT /\ AccountT /\ EventsT

LEMMA TypeInvImplies == TypeInv => VTypeOK
<1> SUFFICES ASSUME TypeInv PROVE VTypeOK  OBVIOUS
<1> USE DEF TypeInv
<1>1. Cardinality(Generated) <= Cardinality(Upload) /\ Cardinality(Upload) \in Nat
  BY VendorOK, FS_Subset, FS_CardinalityType DEF Generated
<1>2. listeners \in Listener \cup {0}
  <2>1. Cardinality(Generated) \in Nat
    BY VendorOK, FS_Subset, FS_CardinalityType DEF Generated
  <2> QED  BY <1>1, <2>1 DEF ListenersT, Listener
<1>3. \A u \in Upload :
          /\ upload[u].pc \in Stage
          /\ {upload[u].keysFor, upload[u].file} \subseteq File
          /\ upload[u].early \subseteq {"keys", "file"}
          /\ upload[u].infoHash \in InfoHash
          /\ upload[u].package \in Package \cup {NoPackage}
  BY DEF PipelineT, Progressing
<1>4. \A u \in Upload, k \in Listener : deployment[u][k] # NoDeployment =>
          /\ deployment[u][k].pc \in {"nonce", "send", "over", "failed"}
          /\ deployment[u][k].contract \in Contract
  BY DEF AccountT, Call
<1>5. \A tx \in mempool : tx.nonce \in Nat /\ tx.contract \in Contract
  BY DEF AccountT, Tx
<1> QED  BY <1>2, <1>3, <1>4, <1>5 DEF VTypeOK, WebT, PipelineT, AccountT, EventsT

LEMMA TypeInvInit == VInit => TypeInv
<1> SUFFICES ASSUME VInit PROVE TypeInv  OBVIOUS
<1> USE VendorOK DEF VInit
<1>1. WebT  BY DEF WebT
<1>2. PipelineT
  <2>1. upload \in [Upload -> Progressing]  BY DEF Progressing, Stage, InfoHash
  <2>2. \A u \in Upload : upload[u].pc = "idle"  OBVIOUS
  <2> QED  BY <2>1, <2>2 DEF PipelineT, At
<1>3. ListenersT
  <2>1. Cardinality(Generated) \in Nat  BY FS_Subset, FS_CardinalityType DEF Generated
  <2> QED  BY <2>1 DEF ListenersT
<1>4. AccountT  BY DEF AccountT, Deploys
<1>5. EventsT  BY DEF EventsT
<1> QED  BY <1>1, <1>2, <1>3, <1>4, <1>5 DEF TypeInv

LEMMA ListenersKept ==
    ASSUME ListenersT, listeners' = listeners, Generated \subseteq Generated'
    PROVE  ListenersT'
<1>1. IsFiniteSet(Generated)  BY VendorOK, FS_Subset DEF Generated
<1>2. IsFiniteSet(Generated')  BY VendorOK, FS_Subset DEF Generated
<1>3. Cardinality(Generated) <= Cardinality(Generated')  BY <1>2, FS_Subset
<1>4. Cardinality(Generated) \in Nat /\ Cardinality(Generated') \in Nat
  BY <1>1, <1>2, FS_CardinalityType
<1> QED  BY <1>3, <1>4 DEF ListenersT

\* gen adds its upload and a listener.
LEMMA ListenersGrow ==
    ASSUME ListenersT, NEW u \in Upload, u \notin Generated,
           Generated' = Generated \cup {u}, listeners' = listeners + 1
    PROVE  ListenersT'
<1>1. IsFiniteSet(Generated)  BY VendorOK, FS_Subset DEF Generated
<1>2. Cardinality(Generated') = Cardinality(Generated) + 1  BY <1>1, FS_AddElement
<1> QED  BY <1>1, <1>2, FS_CardinalityType DEF ListenersT

\* What a step of an upload leaves alone, and where it leads.
LEMMA PipelineFrame ==
    ASSUME TypeInv, NEW u \in Upload, Pipeline(u) \/ Fails(u)
    PROVE  /\ UNCHANGED <<web, iotAddresses, listening, transactionCount, mempool, events, past>>
           /\ \A v \in Upload : v # u => upload'[v] = upload[v]
           /\ UNCHANGED deployment \/ infoHashReady(u)
           /\ upload[u].pc \notin {"idle", "done", "failed"}
           /\ \/ upload[u].pc = "read" /\ upload'[u].pc = "gen"
              \/ upload'[u].pc \notin {"idle", "read", "gen"}
<1>0. upload \in [Upload -> Progressing]  BY DEF TypeInv, PipelineT
<1>1. CASE readFile(u) \/ gen(u) \/ createTorrent(u)
  <2>1. UNCHANGED <<web, iotAddresses, account, events, past>>
    BY <1>1 DEF readFile, gen, createTorrent
  <2>2. \A v \in Upload : v # u => upload'[v] = upload[v]
    BY <1>0, <1>1 DEF readFile, gen, createTorrent
  <2>3. CASE readFile(u)
    <3>1. upload[u].pc = "read" /\ upload'[u].pc = "gen"
      BY <1>0, <2>3 DEF readFile, At, Progressing
    <3> QED  BY <2>1, <2>2, <3>1 DEF account
  <2>4. CASE gen(u)
    <3>1. upload[u].pc = "gen" /\ upload'[u].pc = "torrent"
      BY <1>0, <2>4 DEF gen, At, Progressing
    <3> QED  BY <2>1, <2>2, <3>1 DEF account
  <2>5. CASE createTorrent(u)
    <3>1. upload[u].pc = "torrent" /\ upload'[u].pc = "package"
      BY <1>0, <2>5 DEF createTorrent, At, Progressing
    <3> QED  BY <2>1, <2>2, <3>1 DEF account
  <2> QED  BY <1>1, <2>3, <2>4, <2>5
<1>2. CASE writeFile(u) \/ seed(u) \/ Fails(u)
  <2>1. UNCHANGED <<web, iotAddresses, account, events, past>>
    BY <1>2 DEF writeFile, seed, Fails, uploadFileFails, createTorrentFails
  <2>2. \A v \in Upload : v # u => upload'[v] = upload[v]
    BY <1>0, <1>2 DEF writeFile, seed, Fails, uploadFileFails, createTorrentFails
  <2>3. /\ upload[u].pc \in {"read", "gen", "torrent", "package", "seed"}
        /\ upload'[u].pc \in {"seed", "ready", "failed"}
    BY <1>0, <1>2 DEF writeFile, seed, Fails, uploadFileFails, createTorrentFails, At, Progressing
  <2> QED  BY <2>1, <2>2, <2>3 DEF account
<1>3. CASE infoHashReady(u)
  BY <1>0, <1>3 DEF infoHashReady, At, Progressing
<1> QED  BY <1>1, <1>2, <1>3 DEF Pipeline

LEMMA ReadsTypes == TypeInv => Reads \subseteq File
BY VendorOK DEF TypeInv, WebT, Reads

\* What an upload has read and made is of its type.
LEMMA ProgressTypes ==
    ASSUME TypeInv, NEW u \in Upload, Pipeline(u) \/ Fails(u)
    PROVE  upload' \in [Upload -> Progressing]
<1>0. upload \in [Upload -> Progressing] /\ iotAddresses \subseteq IoT
  BY DEF TypeInv, PipelineT, WebT
<1>1. CASE readFile(u)
  <2> PICK file \in Reads :
         upload' = [upload EXCEPT ![u].pc = "gen", ![u].keysFor = file,
                                  ![u].early = Reading(u, "keys")]
    BY <1>1 DEF readFile
  <2>1. file \in File  BY ReadsTypes
  <2>2. Reading(u, "keys") \in SUBSET {"keys", "file"}  BY <1>0 DEF Reading, Progressing
  <2>3. [upload[u] EXCEPT !.pc = "gen", !.keysFor = file, !.early = Reading(u, "keys")] \in Progressing
    BY <1>0, <2>1, <2>2 DEF Progressing, Stage
  <2> QED  BY <1>0, <2>3
<1>2. CASE gen(u)
  <2> PICK file \in Reads :
         upload' = [upload EXCEPT ![u].pc = "torrent", ![u].file = utf8[file],
                                  ![u].early = Reading(u, "file")]
    BY <1>2 DEF gen
  <2>1. utf8[file] \in File  BY ReadsTypes, VendorOK
  <2>2. Reading(u, "file") \in SUBSET {"keys", "file"}  BY <1>0 DEF Reading, Progressing
  <2>3. [upload[u] EXCEPT !.pc = "torrent", !.file = utf8[file], !.early = Reading(u, "file")]
          \in Progressing
    BY <1>0, <2>1, <2>2 DEF Progressing, Stage
  <2> QED  BY <1>0, <2>3
<1>3. CASE createTorrent(u)
  <2> PICK file \in Reads :
         upload' = [upload EXCEPT ![u].pc = "package",
                                  ![u].infoHash = [content |-> file, name |-> upload[u].file]]
    BY <1>3 DEF createTorrent
  <2> DEFINE hash == [content |-> file, name |-> upload[u].file]
  <2>1. hash \in InfoHash  BY <1>0, ReadsTypes DEF Progressing, InfoHash
  <2>2. upload' = [upload EXCEPT ![u].pc = "package", ![u].infoHash = hash]  OBVIOUS
  <2> HIDE DEF hash
  <2>3. [upload[u] EXCEPT !.pc = "package", !.infoHash = hash] \in Progressing
    BY <1>0, <2>1 DEF Progressing, Stage
  <2> QED  BY <1>0, <2>2, <2>3
<1>4. CASE writeFile(u)  BY <1>0, <1>4 DEF writeFile, Progressing, Stage
<1>5. CASE seed(u)
  <2>1. wrappingPackage \in Package  BY <1>5 DEF seed, TypeInv, PipelineT
  <2>2. [upload[u] EXCEPT !.pc = "ready", !.package = wrappingPackage] \in Progressing
    BY <1>0, <2>1 DEF Progressing, Stage
  <2>3. upload' = [upload EXCEPT ![u] = [upload[u] EXCEPT !.pc = "ready", !.package = wrappingPackage]]
    BY <1>0, <1>5 DEF seed
  <2> QED  BY <1>0, <2>2, <2>3
<1>6. CASE infoHashReady(u)  BY <1>0, <1>6 DEF infoHashReady, Progressing, Stage
<1>7. CASE Fails(u)
  BY <1>0, <1>7 DEF Fails, uploadFileFails, createTorrentFails, Progressing, Stage
<1> QED  BY <1>1, <1>2, <1>3, <1>4, <1>5, <1>6, <1>7 DEF Pipeline

\* The steps of an upload touch at most upload, wrappingPackage, seeding and listeners.
LEMMA PipelineTypes ==
    ASSUME TypeInv, NEW u \in Upload, Pipeline(u) \/ Fails(u)
    PROVE  PipelineT' /\ ListenersT'
<1>0. /\ upload \in [Upload -> Progressing] /\ upload' \in [Upload -> Progressing]
      /\ iotAddresses \subseteq IoT
  BY ProgressTypes DEF TypeInv, PipelineT, WebT
<1>1. \A v \in Upload : v # u => upload'[v] = upload[v]  BY PipelineFrame
<1>2. CASE writeFile(u)
  <2>1. upload'[u].pc = "seed"  BY <1>0, <1>2 DEF writeFile, Progressing
  <2>2. wrappingPackage' \in Package /\ seeding' = {}
    BY <1>0, <1>2 DEF writeFile, packageOf, Progressing, Package
  <2>3. PipelineT'  BY <1>0, <1>1, <2>1, <2>2 DEF TypeInv, PipelineT, At
  <2>4. Generated \subseteq Generated'  BY <1>1, <2>1 DEF Generated
  <2> QED  BY <1>2, <2>3, <2>4, ListenersKept DEF writeFile, TypeInv
<1>3. CASE seed(u)
  <2>1. upload'[u].pc = "ready" /\ upload'[u].package = wrappingPackage
    BY <1>0, <1>3 DEF seed, Progressing
  <2>2. wrappingPackage \in Package  BY <1>3 DEF seed, TypeInv, PipelineT
  <2>3. wrappingPackage' = wrappingPackage /\ seeding' \subseteq Package
    BY <1>3, <2>2 DEF seed
  <2>4. PipelineT'  BY <1>0, <1>1, <2>1, <2>2, <2>3 DEF TypeInv, PipelineT, At
  <2>5. Generated \subseteq Generated'  BY <1>1, <2>1 DEF Generated
  <2> QED  BY <1>3, <2>4, <2>5, ListenersKept DEF seed, TypeInv
<1>4. CASE ~writeFile(u) /\ ~seed(u)
  <2>1. UNCHANGED <<wrappingPackage, seeding>>
    BY <1>4 DEF Pipeline, readFile, gen, createTorrent, infoHashReady,
                Fails, uploadFileFails, createTorrentFails
  <2>2. upload'[u].pc \notin {"seed", "ready"}
    <3>1. CASE readFile(u)  BY <1>0, <3>1 DEF readFile, Progressing
    <3>2. CASE gen(u)  BY <1>0, <3>2 DEF gen, Progressing
    <3>3. CASE createTorrent(u)  BY <1>0, <3>3 DEF createTorrent, Progressing
    <3>4. CASE infoHashReady(u) \/ Fails(u)
      BY <1>0, <3>4 DEF infoHashReady, Fails, uploadFileFails, createTorrentFails, Progressing
    <3> QED  BY <1>4, <3>1, <3>2, <3>3, <3>4 DEF Pipeline
  <2>3. PipelineT'  BY <1>0, <1>1, <2>1, <2>2 DEF TypeInv, PipelineT, At
  <2>4. CASE gen(u)
    <3>1. upload[u].pc = "gen" /\ upload'[u].pc = "torrent"
      BY <1>0, <2>4 DEF gen, At, Progressing
    <3>2. u \notin Generated /\ Generated' = Generated \cup {u}
      BY <1>1, <3>1 DEF Generated
    <3> QED  BY <2>3, <2>4, <3>2, ListenersGrow DEF gen, TypeInv
  <2>5. CASE ~gen(u)
    <3>1. listeners' = listeners
      BY <1>4, <2>5 DEF Pipeline, readFile, createTorrent, infoHashReady,
                        Fails, uploadFileFails, createTorrentFails
    <3>2. Generated \subseteq Generated'  BY <1>1, PipelineFrame DEF Generated
    <3> QED  BY <2>3, <3>1, <3>2, ListenersKept DEF TypeInv
  <2> QED  BY <2>4, <2>5
<1> QED  BY <1>2, <1>3, <1>4

LEMMA infoHashReadyTypes ==
    ASSUME TypeInv, NEW u \in Upload, infoHashReady(u)
    PROVE  AccountT'
<1> DEFINE contract == [upload |-> u, package |-> upload[u].package,
                        fileHash |-> upload[u].infoHash, iotAddresses |-> iot_addresses]
<1> USE DEF TypeInv, AccountT
<1>1. contract \in Contract
  <2>1. upload[u].package \in Package  BY DEF infoHashReady, PipelineT
  <2>2. upload[u].infoHash \in InfoHash  BY DEF PipelineT, Progressing
  <2> QED  BY <2>1, <2>2 DEF WebT, Contract
<1>2. [pc |-> "nonce", nonce |-> -1, contract |-> contract] \in Call
  BY <1>1 DEF Call
<1>3. deployment' \in [Upload -> [Listener -> Call \cup {NoDeployment}]]
  BY <1>2 DEF infoHashReady
<1>4. ASSUME NEW v \in Upload, NEW k \in Listener, Deploys(v, k, "send")'
      PROVE  deployment'[v][k].nonce \in Nat
  <2>1. v # u  BY <1>4 DEF infoHashReady, Deploys
  <2>2. deployment'[v][k] = deployment[v][k]  BY <2>1 DEF infoHashReady
  <2> QED  BY <1>4, <2>2 DEF Deploys
<1> QED  BY <1>3, <1>4 DEF infoHashReady

\* A call of deployContract moves on alone, and keeps the contract it was given.
LEMMA DeployFrame ==
    ASSUME TypeInv, NEW u \in Upload, NEW k \in Listener, Deploy(u, k) \/ deployFails(u, k)
    PROVE  /\ UNCHANGED <<web, iotAddresses, pipeline, transactionCount, events, past>>
           /\ deployment[u][k] \in Call
           /\ Deploys(u, k, "nonce") \/ Deploys(u, k, "send")
           /\ deployment' \in [Upload -> [Listener -> Call \cup {NoDeployment}]]
           /\ \A v \in Upload, j \in Listener :
                 <<v, j>> # <<u, k>> => deployment'[v][j] = deployment[v][j]
           /\ deployment'[u][k].contract = deployment[u][k].contract
           /\ \/ /\ getTransactionCount(u, k) /\ mempool' = mempool
                 /\ deployment'[u][k].pc = "send" /\ deployment'[u][k].nonce = transactionCount
              \/ /\ sendSignedTransaction(u, k)
                 /\ deployment'[u][k].pc = "over"
                 /\ \/ mempool' = mempool
                    \/ mempool' = mempool \cup {[nonce |-> deployment[u][k].nonce,
                                                 contract |-> deployment[u][k].contract]}
              \/ deployFails(u, k) /\ mempool' = mempool /\ deployment'[u][k].pc = "failed"
<1>0. /\ deployment \in [Upload -> [Listener -> Call \cup {NoDeployment}]]
      /\ transactionCount \in Nat
  BY DEF TypeInv, AccountT
<1>1. Deploys(u, k, "nonce") \/ Deploys(u, k, "send")
  BY DEF Deploy, getTransactionCount, sendSignedTransaction, deployFails
<1>2. deployment[u][k] \in Call  BY <1>0, <1>1 DEF Deploys
<1>3. UNCHANGED <<web, iotAddresses, pipeline, transactionCount, events, past>>
  BY DEF Deploy, getTransactionCount, sendSignedTransaction, deployFails
<1>4. \A v \in Upload, j \in Listener : <<v, j>> # <<u, k>> => deployment'[v][j] = deployment[v][j]
  <2>1. CASE getTransactionCount(u, k)  BY <1>0, <2>1 DEF getTransactionCount
  <2>2. CASE sendSignedTransaction(u, k)  BY <1>0, <2>2 DEF sendSignedTransaction
  <2>3. CASE deployFails(u, k)  BY <1>0, <2>3 DEF deployFails
  <2> QED  BY <2>1, <2>2, <2>3 DEF Deploy
<1> USE DEF Call
<1>5. CASE getTransactionCount(u, k)
  <2>1. deployment' = [deployment EXCEPT ![u][k].pc = "send", ![u][k].nonce = transactionCount]
    BY <1>5 DEF getTransactionCount
  <2>2. deployment' \in [Upload -> [Listener -> Call \cup {NoDeployment}]]  BY <1>0, <1>2, <2>1
  <2>3. /\ deployment'[u][k].pc = "send" /\ deployment'[u][k].nonce = transactionCount
        /\ deployment'[u][k].contract = deployment[u][k].contract
    BY <1>0, <1>2, <2>1
  <2>4. mempool' = mempool  BY <1>5 DEF getTransactionCount
  <2> QED  BY <1>1, <1>2, <1>3, <1>4, <1>5, <2>2, <2>3, <2>4
<1>6. CASE sendSignedTransaction(u, k)
  <2>1. deployment' = [deployment EXCEPT ![u][k].pc = "over", ![u][k].nonce = -1]
    BY <1>6 DEF sendSignedTransaction
  <2>2. deployment' \in [Upload -> [Listener -> Call \cup {NoDeployment}]]  BY <1>0, <1>2, <2>1
  <2>3. /\ deployment'[u][k].pc = "over"
        /\ deployment'[u][k].contract = deployment[u][k].contract
    BY <1>0, <1>2, <2>1
  <2>4. \/ mempool' = mempool
        \/ mempool' = mempool \cup {[nonce |-> deployment[u][k].nonce,
                                     contract |-> deployment[u][k].contract]}
    BY <1>6 DEF sendSignedTransaction, Receives
  <2> QED  BY <1>1, <1>2, <1>3, <1>4, <1>6, <2>2, <2>3, <2>4
<1>7. CASE deployFails(u, k)
  <2>1. deployment' = [deployment EXCEPT ![u][k].pc = "failed", ![u][k].nonce = -1]
    BY <1>7 DEF deployFails
  <2>2. deployment' \in [Upload -> [Listener -> Call \cup {NoDeployment}]]  BY <1>0, <1>2, <2>1
  <2>3. /\ deployment'[u][k].pc = "failed"
        /\ deployment'[u][k].contract = deployment[u][k].contract
    BY <1>0, <1>2, <2>1
  <2>4. mempool' = mempool  BY <1>7 DEF deployFails
  <2> QED  BY <1>1, <1>2, <1>3, <1>4, <1>7, <2>2, <2>3, <2>4
<1> QED  BY <1>5, <1>6, <1>7 DEF Deploy

LEMMA DeployTypes ==
    ASSUME TypeInv, NEW u \in Upload, NEW k \in Listener, Deploy(u, k) \/ deployFails(u, k)
    PROVE  AccountT'
<1> USE DEF TypeInv, AccountT
<1>1. \A v \in Upload, j \in Listener : Deploys(v, j, "send")' => deployment'[v][j].nonce \in Nat
  <2> SUFFICES ASSUME NEW v \in Upload, NEW j \in Listener, Deploys(v, j, "send")'
               PROVE  deployment'[v][j].nonce \in Nat
    OBVIOUS
  <2>1. CASE <<v, j>> = <<u, k>>  BY <2>1, DeployFrame DEF Deploys
  <2>2. CASE <<v, j>> # <<u, k>>
    <3>1. deployment'[v][j] = deployment[v][j]  BY <2>2, DeployFrame
    <3> QED  BY <3>1 DEF Deploys
  <2> QED  BY <2>1, <2>2
<1>2. mempool' \subseteq Tx
  <2>1. CASE mempool' = mempool  BY <2>1
  <2>2. CASE sendSignedTransaction(u, k)
    <3>1. deployment[u][k] \in Call /\ deployment[u][k].nonce \in Nat
      BY <2>2, DeployFrame DEF sendSignedTransaction
    <3>2. [nonce |-> deployment[u][k].nonce, contract |-> deployment[u][k].contract] \in Tx
      BY <3>1 DEF Call, Tx
    <3> QED  BY <2>2, <3>2 DEF sendSignedTransaction, Receives
  <2> QED  BY <2>1, <2>2, DeployFrame
<1>3. listening' \in BOOLEAN
  BY DEF Deploy, getTransactionCount, sendSignedTransaction, deployFails
<1> QED  BY <1>1, <1>2, <1>3, DeployFrame

\* The calls that a restart leaves are those that ended.
LEMMA RestartTypes ==
    ASSUME TypeInv, Restart
    PROVE  TypeInv'
<1> USE DEF TypeInv, Restart
<1>1. WebT'  BY VendorOK, ReadsTypes DEF WebT
<1>2. PipelineT'
  <2>1. upload \in [Upload -> Progressing]  BY DEF PipelineT
  <2>2. upload' \in [Upload -> Progressing]  BY <2>1 DEF Progressing, Stage
  <2>3. \A u \in Upload : upload'[u].pc \in {"idle", "done", "failed"}
    BY <2>1 DEF Progressing, Over
  <2> QED  BY <2>2, <2>3 DEF PipelineT, At
<1>3. ListenersT'
  <2>1. Cardinality(Generated') \in Nat
    BY VendorOK, FS_Subset, FS_CardinalityType DEF Generated
  <2> QED  BY <2>1 DEF ListenersT
<1>4. AccountT'
  <2>1. deployment' \in [Upload -> [Listener -> Call \cup {NoDeployment}]]
    BY DEF AccountT
  <2>2. \A u \in Upload, k \in Listener :
           deployment'[u][k] = NoDeployment \/ deployment'[u][k] = deployment[u][k]
    OBVIOUS
  <2>3. \A u \in Upload, k \in Listener : Deploys(u, k, "send")' => deployment'[u][k].nonce \in Nat
    BY <2>2 DEF Deploys, AccountT
  <2> QED  BY <2>1, <2>3 DEF AccountT
<1>5. EventsT'  BY DEF EventsT
<1> QED  BY <1>1, <1>2, <1>3, <1>4, <1>5

LEMMA TypeInvNext == TypeInv /\ [VNext]_vvars => TypeInv'
<1> SUFFICES ASSUME TypeInv, [VNext]_vvars PROVE TypeInv'  OBVIOUS
<1> USE DEF TypeInv
<1>b. UNCHANGED <<upload, wrappingPackage, seeding, listeners>> => PipelineT' /\ ListenersT'
  BY DEF PipelineT, ListenersT, At, Generated
<1>c. UNCHANGED account => AccountT'
  BY DEF account, AccountT, Deploys
<1>d. UNCHANGED events => EventsT'
  BY DEF events, EventsT
<1>e. UNCHANGED <<web, iotAddresses, past>> => WebT'
  BY DEF web, past, WebT
<1>1. CASE \E u \in Upload : uploadFile(u)
  <2> PICK u \in Upload : uploadFile(u)  BY <1>1
  <2>1. WebT'  BY DEF uploadFile, WebT
  <2>2. upload \in [Upload -> Progressing]  BY DEF PipelineT
  <2>3. upload' \in [Upload -> Progressing]  BY <2>2 DEF uploadFile, Progressing, Stage
  <2>4. \A v \in Upload : upload'[v].pc = (IF v = u THEN "read" ELSE upload[v].pc)
                          /\ upload'[v].package = upload[v].package
    BY <2>2 DEF uploadFile, Progressing
  <2>5. PipelineT'  BY <2>3, <2>4 DEF uploadFile, PipelineT, At
  <2>6. Generated \subseteq Generated'  BY <2>4 DEF uploadFile, Generated, At
  <2>7. ListenersT'  BY <2>6, ListenersKept DEF uploadFile
  <2> QED  BY <2>1, <2>5, <2>7, <1>c, <1>d DEF uploadFile
<1>2. CASE \E u \in Upload : mv(u)
  <2> PICK u \in Upload : mv(u)  BY <1>2
  <2>1. WebT'  BY VendorOK DEF mv, WebT, past
  <2> QED  BY <2>1, <1>b, <1>c, <1>d DEF mv, pipeline
<1>3. CASE \E i \in IoT : sendIotAddress(i)
  <2> PICK i \in IoT : sendIotAddress(i)  BY <1>3
  <2>1. WebT'  BY DEF sendIotAddress, WebT, past
  <2> QED  BY <2>1, <1>b, <1>c, <1>d DEF sendIotAddress, pipeline
<1>4. CASE \E u \in Upload : Pipeline(u) \/ Fails(u)
  <2> PICK u \in Upload : Pipeline(u) \/ Fails(u)  BY <1>4
  <2>1. PipelineT' /\ ListenersT'  BY PipelineTypes
  <2>2. AccountT'
    <3>1. infoHashReady(u) \/ UNCHANGED account  BY PipelineFrame DEF account
    <3> QED  BY <3>1, infoHashReadyTypes, <1>c
  <2> QED  BY <2>1, <2>2, <1>d, <1>e, PipelineFrame
<1>5. CASE \E u \in Upload, k \in Listener : Deploy(u, k) \/ deployFails(u, k)
  <2> PICK u \in Upload, k \in Listener : Deploy(u, k) \/ deployFails(u, k)  BY <1>5
  <2>1. AccountT'  BY DeployTypes
  <2>2. UNCHANGED <<web, iotAddresses, pipeline, events, past>>  BY DeployFrame
  <2> QED  BY <2>1, <2>2, <1>b, <1>d, <1>e DEF pipeline
<1>6. CASE \E tx \in mempool : createContract(tx)
  <2> PICK tx \in mempool : createContract(tx)  BY <1>6
  <2>1. AccountT'  BY DEF createContract, AccountT, Deploys
  <2>2. EventsT'  BY DEF createContract, AccountT, EventsT
  <2> QED  BY <2>1, <2>2, <1>b, <1>e DEF createContract, pipeline
<1>7. CASE \E nonce \in notified : _onContractPublished(nonce)
  <2>1. EventsT'  BY <1>7 DEF _onContractPublished, EventsT
  <2> QED  BY <1>7, <2>1, <1>b, <1>c, <1>e DEF _onContractPublished, pipeline
<1>8. CASE Restart
  BY <1>8, RestartTypes
<1>9. CASE UNCHANGED vvars
  BY <1>9, <1>b, <1>c, <1>d, <1>e DEF vvars, pipeline
<1> QED  BY <1>1, <1>2, <1>3, <1>4, <1>5, <1>6, <1>7, <1>8, <1>9 DEF VNext

\* The files, packages, calls, transactions and contracts of the pipeline have their
\* types, and there are never more listeners of infoHashReady than uploads, however
\* uploads overlap or fail and wherever the server is started again.
THEOREM UploadTypeCorrect == VSpec => []VTypeOK
<1>1. VSpec => []TypeInv
  BY TypeInvInit, TypeInvNext, PTL DEF VSpec
<1> QED  BY <1>1, TypeInvImplies, PTL

------------------------------------------------------------------------------
(* What is deployed and sent for an upload, and which uploads are alone.       *)

Pending(u) == {k \in Listener : Deploys(u, k, "nonce") \/ Deploys(u, k, "send")}
Sent(u) == {tx \in mempool \cup contracts : tx.contract.upload = u}

\* Nothing is deployed for an upload before its info hash is ready, and what is
\* deployed is its own.
OriginInv ==
    \A u \in Upload :
       /\ \A k \in Listener : deployment[u][k] # NoDeployment => deployment[u][k].contract.upload = u
       /\ upload[u].pc \notin {"done", "failed"} =>
             Sent(u) = {} /\ \A k \in Listener : deployment[u][k] = NoDeployment

LEMMA OriginInvInit == VInit => OriginInv
BY DEF VInit, OriginInv, Sent

\* An upload that is done or has failed stays so.
LEMMA EndedKept ==
    ASSUME TypeInv, [VNext]_vvars
    PROVE  \A u \in Upload : upload[u].pc \in {"done", "failed"} =>
              upload'[u].pc \in {"done", "failed"} /\ upload'[u].early = upload[u].early
<1>0. upload \in [Upload -> Progressing]  BY DEF TypeInv, PipelineT
<1>1. CASE UNCHANGED upload  BY <1>1
<1>2. ASSUME NEW u \in Upload, uploadFile(u) PROVE \A v \in Upload :
         upload[v].pc \in {"done", "failed"} => upload'[v] = upload[v]
  BY <1>0, <1>2 DEF uploadFile, At
<1>3. ASSUME NEW u \in Upload, Pipeline(u) \/ Fails(u) PROVE \A v \in Upload :
         upload[v].pc \in {"done", "failed"} => upload'[v] = upload[v]
  BY <1>3, PipelineFrame
<1>4. ASSUME Restart PROVE \A u \in Upload : upload[u].pc \in {"done", "failed"} =>
         upload'[u].pc \in {"done", "failed"} /\ upload'[u].early = upload[u].early
  BY <1>0, <1>4 DEF Restart, Progressing
<1>5. ASSUME NEW u \in Upload, mv(u) PROVE UNCHANGED upload  BY <1>5 DEF mv, pipeline
<1>6. ASSUME NEW i \in IoT, sendIotAddress(i) PROVE UNCHANGED upload
  BY <1>6 DEF sendIotAddress, pipeline
<1>7. ASSUME NEW u \in Upload, NEW k \in Listener, Deploy(u, k) \/ deployFails(u, k)
      PROVE  UNCHANGED upload
  BY <1>7, DeployFrame DEF pipeline
<1>8. ASSUME NEW tx \in mempool, createContract(tx) PROVE UNCHANGED upload
  BY <1>8 DEF createContract, pipeline
<1>9. ASSUME NEW nonce \in notified, _onContractPublished(nonce) PROVE UNCHANGED upload
  BY <1>9 DEF _onContractPublished, pipeline
<1>10. CASE UNCHANGED vvars  BY <1>1, <1>10 DEF vvars, pipeline
<1> QED
  BY <1>1, <1>2, <1>3, <1>4, <1>5, <1>6, <1>7, <1>8, <1>9, <1>10 DEF VNext

\* infoHashReady calls deployContract once for each listener.
LEMMA infoHashReadyStep ==
    ASSUME TypeInv, NEW u \in Upload, infoHashReady(u)
    PROVE  /\ upload[u].pc = "ready" /\ upload'[u].pc = "done"
           /\ \A v \in Upload : v # u => upload'[v] = upload[v] /\ deployment'[v] = deployment[v]
           /\ \A k \in Listener :
                 IF k <= listeners
                 THEN /\ deployment'[u][k].pc = "nonce" /\ deployment'[u][k].contract.upload = u
                 ELSE deployment'[u][k] = NoDeployment
<1>0. upload \in [Upload -> Progressing] /\ deployment \in [Upload -> [Listener -> Call \cup {NoDeployment}]]
  BY DEF TypeInv, PipelineT, AccountT
<1>1. upload[u].pc = "ready" /\ upload'[u].pc = "done" /\ \A v \in Upload : v # u => upload'[v] = upload[v]
  BY <1>0 DEF infoHashReady, At, Progressing
<1>2. \A v \in Upload : v # u => deployment'[v] = deployment[v]
  BY <1>0 DEF infoHashReady
<1>3. \A k \in Listener :
         IF k <= listeners
         THEN /\ deployment'[u][k].pc = "nonce" /\ deployment'[u][k].contract.upload = u
         ELSE deployment'[u][k] = NoDeployment
  BY <1>0 DEF infoHashReady
<1> QED  BY <1>1, <1>2, <1>3

\* What a call of deployContract adds is a transaction of its upload.
LEMMA SentByDeploy ==
    ASSUME TypeInv, OriginInv, NEW u \in Upload, NEW k \in Listener, Deploy(u, k) \/ deployFails(u, k)
    PROVE  /\ upload[u].pc \in {"done", "failed"} /\ k \in Pending(u)
           /\ \/ mempool' = mempool
              \/ \E tx : tx.contract.upload = u /\ mempool' = mempool \cup {tx}
                         /\ deployment'[u][k].pc = "over"
           /\ \A v \in Upload : v # u => Sent(v)' = Sent(v)
           /\ \A v \in Upload : Sent(v) \subseteq Sent(v)'
<1>1. deployment[u][k] # NoDeployment /\ k \in Pending(u)
  BY DeployFrame DEF Deploys, Pending
<1>2. upload[u].pc \in {"done", "failed"} /\ deployment[u][k].contract.upload = u
  BY <1>1 DEF OriginInv
<1>3. \/ mempool' = mempool
      \/ \E tx : tx.contract.upload = u /\ mempool' = mempool \cup {tx} /\ deployment'[u][k].pc = "over"
  <2> DEFINE tx == [nonce |-> deployment[u][k].nonce, contract |-> deployment[u][k].contract]
  <2>1. mempool' = mempool \/ (mempool' = mempool \cup {tx} /\ deployment'[u][k].pc = "over")
    BY DeployFrame
  <2>2. tx.contract.upload = u  BY <1>2
  <2> HIDE DEF tx
  <2> QED  BY <2>1, <2>2
<1>4. contracts' = contracts  BY DeployFrame DEF events
<1>5. /\ \A v \in Upload : v # u => Sent(v)' = Sent(v)
      /\ \A v \in Upload : Sent(v) \subseteq Sent(v)'
  BY <1>3, <1>4 DEF Sent
<1> QED  BY <1>1, <1>2, <1>3, <1>5

LEMMA OriginInvNext == TypeInv /\ OriginInv /\ [VNext]_vvars => OriginInv'
<1> SUFFICES ASSUME TypeInv, OriginInv, [VNext]_vvars PROVE OriginInv'  OBVIOUS
<1> USE DEF OriginInv
<1>0. \A v \in Upload : upload[v].pc \in {"done", "failed"} => upload'[v].pc \in {"done", "failed"}
  BY EndedKept
<1>a. ASSUME UNCHANGED <<deployment, mempool, contracts>> PROVE OriginInv'
  BY <1>0, <1>a DEF Sent
<1>1. CASE \E u \in Upload : uploadFile(u) \/ mv(u)
  BY <1>1, <1>a DEF uploadFile, mv, account, events
<1>2. CASE \E i \in IoT : sendIotAddress(i)
  BY <1>2, <1>a DEF sendIotAddress, account, events
<1>3. ASSUME NEW u \in Upload, Pipeline(u) \/ Fails(u) PROVE OriginInv'
  <2>1. UNCHANGED <<mempool, contracts>>  BY <1>3, PipelineFrame DEF events
  <2>2. CASE UNCHANGED deployment  BY <2>1, <2>2, <1>a
  <2>3. CASE infoHashReady(u)
    <3>1. \A v \in Upload : Sent(v)' = Sent(v)  BY <2>1 DEF Sent
    <3> QED  BY <2>3, <3>1, infoHashReadyStep
  <2> QED  BY <1>3, <2>2, <2>3, PipelineFrame
<1>4. ASSUME NEW u \in Upload, NEW k \in Listener, Deploy(u, k) \/ deployFails(u, k)
      PROVE  OriginInv'
  <2>0. upload[u].pc \in {"done", "failed"} /\ deployment[u][k] # NoDeployment
    BY <1>4, SentByDeploy DEF Pending, Deploys
  <2>1. /\ \A v \in Upload, j \in Listener : <<v, j>> # <<u, k>> => deployment'[v][j] = deployment[v][j]
        /\ deployment'[u][k].contract = deployment[u][k].contract
        /\ upload' = upload
    BY <1>4, DeployFrame DEF pipeline
  <2>2. \A v \in Upload : v # u => Sent(v)' = Sent(v)  BY <1>4, SentByDeploy
  <2>3. \A v \in Upload, j \in Listener : deployment'[v][j] # NoDeployment =>
           deployment'[v][j].contract.upload = v
    <3> SUFFICES ASSUME NEW v \in Upload, NEW j \in Listener, deployment'[v][j] # NoDeployment
                 PROVE  deployment'[v][j].contract.upload = v
      OBVIOUS
    <3>1. CASE v = u /\ j = k
      <4>1. deployment[u][k].contract.upload = u  BY <2>0
      <4>2. deployment'[u][k].contract.upload = u  BY <4>1, <2>1
      <4> QED  BY <3>1, <4>2
    <3>2. CASE ~(v = u /\ j = k)
      <4>1. deployment'[v][j] = deployment[v][j]  BY <2>1, <3>2
      <4> QED  BY <4>1
    <3> QED  BY <3>1, <3>2
  <2>4. \A v \in Upload : upload'[v].pc \notin {"done", "failed"} =>
           Sent(v)' = {} /\ \A j \in Listener : deployment'[v][j] = NoDeployment
    BY <2>0, <2>1, <2>2
  <2> QED  BY <2>3, <2>4
<1>5. CASE \E tx \in mempool : createContract(tx)
  <2>1. UNCHANGED <<upload, deployment>>  BY <1>5 DEF createContract, pipeline
  <2>2. mempool' \cup contracts' = mempool \cup contracts  BY <1>5 DEF createContract
  <2> QED  BY <2>1, <2>2 DEF Sent
<1>6. CASE \E nonce \in notified : _onContractPublished(nonce)
  BY <1>6, <1>a DEF _onContractPublished, account
<1>7. CASE Restart
  <2>1. \A u \in Upload, k \in Listener :
           deployment'[u][k] = NoDeployment \/ deployment'[u][k] = deployment[u][k]
    BY <1>7 DEF Restart
  <2>2. \A u \in Upload : Sent(u)' = Sent(u)  BY <1>7 DEF Restart, Sent
  <2>3. \A u \in Upload : upload'[u].pc \notin {"done", "failed"} => upload[u].pc \notin {"done", "failed"}
    BY <1>0
  <2> QED  BY <2>1, <2>2, <2>3
<1>8. CASE UNCHANGED vvars
  BY <1>8, <1>a DEF vvars, account, events
<1> QED  BY <1>1, <1>2, <1>3, <1>4, <1>5, <1>6, <1>7, <1>8 DEF VNext

\* Two uploads that are under way at the same time are both in the history.
OverlapInv == \A u, v \in Upload : Busy(u) /\ Busy(v) /\ u # v => {u, v} \subseteq overlapped

LEMMA OverlapInvInit == VInit => OverlapInv
BY DEF VInit, OverlapInv, Busy, Over, Deploys

\* Only a new upload becomes busy.
LEMMA BusyKept ==
    ASSUME TypeInv, OriginInv, [VNext]_vvars, ~\E u \in Upload : uploadFile(u)
    PROVE  overlapped' = overlapped /\ \A v \in Upload : Busy(v)' => Busy(v)
<1>a. ASSUME UNCHANGED <<upload, deployment>>, moving' \subseteq moving, mempool' \subseteq mempool
      PROVE  \A v \in Upload : Busy(v)' => Busy(v)
  BY <1>a DEF Busy, Over, Deploys
<1>1. CASE \E u \in Upload : mv(u)
  <2>1. UNCHANGED <<upload, deployment, mempool, overlapped>> /\ moving' \subseteq moving
    BY <1>1 DEF mv, pipeline, account, past
  <2> QED  BY <2>1, <1>a
<1>2. CASE \E i \in IoT : sendIotAddress(i)
  <2>1. UNCHANGED <<upload, deployment, mempool, overlapped, moving>>
    BY <1>2 DEF sendIotAddress, pipeline, account, past
  <2> QED  BY <2>1, <1>a
<1>3. ASSUME NEW u \in Upload, Pipeline(u) \/ Fails(u)
      PROVE  overlapped' = overlapped /\ \A v \in Upload : Busy(v)' => Busy(v)
  <2>1. UNCHANGED <<moving, mempool, overlapped>> /\ \A v \in Upload : v # u => upload'[v] = upload[v]
    BY <1>3, PipelineFrame DEF web, past
  <2>2. Busy(u)  BY <1>3, PipelineFrame DEF Busy, Over
  <2>3. \A v \in Upload : v # u => \A k \in Listener : deployment'[v][k] = deployment[v][k]
    BY <1>3, PipelineFrame, infoHashReadyStep
  <2>4. ASSUME NEW v \in Upload, v # u, Busy(v)' PROVE Busy(v)
    BY <2>1, <2>3, <2>4 DEF Busy, Over, Deploys
  <2> QED  BY <2>1, <2>2, <2>4
<1>4. ASSUME NEW u \in Upload, NEW k \in Listener, Deploy(u, k) \/ deployFails(u, k)
      PROVE  overlapped' = overlapped /\ \A v \in Upload : Busy(v)' => Busy(v)
  <2>1. UNCHANGED <<moving, upload, overlapped>>  BY <1>4, DeployFrame DEF web, pipeline, past
  <2>2. Busy(u)  BY <1>4, DeployFrame DEF Busy, Over
  <2>3. \A v \in Upload : v # u => \A j \in Listener : deployment'[v][j] = deployment[v][j]
    BY <1>4, DeployFrame
  <2>4. mempool' = mempool \/ \E tx : tx.contract.upload = u /\ mempool' = mempool \cup {tx}
    BY <1>4, SentByDeploy
  <2>5. ASSUME NEW v \in Upload, v # u, Busy(v)' PROVE Busy(v)
    BY <2>1, <2>3, <2>4, <2>5 DEF Busy, Over, Deploys
  <2> QED  BY <2>1, <2>2, <2>5
<1>5. CASE \E tx \in mempool : createContract(tx)
  <2>1. UNCHANGED <<upload, deployment, overlapped, moving>> /\ mempool' \subseteq mempool
    BY <1>5 DEF createContract, web, pipeline, past
  <2> QED  BY <2>1, <1>a
<1>6. CASE \E nonce \in notified : _onContractPublished(nonce)
  <2>1. UNCHANGED <<upload, deployment, mempool, overlapped, moving>>
    BY <1>6 DEF _onContractPublished, web, pipeline, account, past
  <2> QED  BY <2>1, <1>a
<1>7. CASE Restart
  <2>1. overlapped' = overlapped /\ mempool' = mempool /\ moving' = {}  BY <1>7 DEF Restart
  <2>2. upload \in [Upload -> Progressing]  BY DEF TypeInv, PipelineT
  <2>3. \A v \in Upload : upload'[v].pc \in {"idle", "done", "failed"}
    BY <1>7, <2>2 DEF Restart, Over, Progressing
  <2>4. \A v \in Upload, k \in Listener : ~Deploys(v, k, "nonce")' /\ ~Deploys(v, k, "send")'
    BY <1>7 DEF Restart, Over, Deploys
  <2> QED  BY <2>1, <2>3, <2>4 DEF Busy, Over
<1>8. CASE UNCHANGED vvars
  <2>1. UNCHANGED <<upload, deployment, mempool, overlapped, moving>>
    BY <1>8 DEF vvars, web, pipeline, account, past
  <2> QED  BY <2>1, <1>a
<1> QED  BY <1>1, <1>2, <1>3, <1>4, <1>5, <1>6, <1>7, <1>8 DEF VNext

\* What a new upload finds under way has overlapped with it.
LEMMA uploadFileStep ==
    ASSUME TypeInv, NEW u \in Upload, uploadFile(u)
    PROVE  /\ UNCHANGED <<updateFile, iot_addresses, iotAddresses, wrappingPackage, seeding,
                          listeners, account, events, restarts>>
           /\ moving' = moving \cup {u}
           /\ upload[u].pc = "idle" /\ upload'[u].pc = "read" /\ upload'[u].early = upload[u].early
           /\ \A v \in Upload : v # u => upload'[v] = upload[v] /\ (Busy(v)' <=> Busy(v))
           /\ overlapped \subseteq overlapped'
           /\ \A v \in Upload : Busy(v) => {u, v} \subseteq overlapped'
<1>0. upload \in [Upload -> Progressing]  BY DEF TypeInv, PipelineT
<1>1. /\ UNCHANGED <<updateFile, iot_addresses, iotAddresses, wrappingPackage, seeding,
                     listeners, account, events, restarts>>
      /\ moving' = moving \cup {u}
  BY DEF uploadFile
<1>2. /\ upload[u].pc = "idle" /\ upload'[u].pc = "read" /\ upload'[u].early = upload[u].early
      /\ \A v \in Upload : v # u => upload'[v] = upload[v]
  BY <1>0 DEF uploadFile, At, Progressing
<1>3. \A v \in Upload : v # u => (Busy(v)' <=> Busy(v))
  BY <1>1, <1>2 DEF Busy, Over, Deploys, account
<1>4. overlapped \subseteq overlapped' /\ \A v \in Upload : Busy(v) => {u, v} \subseteq overlapped'
  <2> DEFINE busy == {v \in Upload : Busy(v)}
  <2>1. overlapped' = IF busy = {} THEN overlapped ELSE overlapped \cup busy \cup {u}
    BY DEF uploadFile
  <2>2. CASE busy = {}  BY <2>1, <2>2
  <2>3. CASE busy # {}  BY <2>1, <2>3
  <2> QED  BY <2>2, <2>3
<1> QED  BY <1>1, <1>2, <1>3, <1>4

LEMMA OverlapInvNext == TypeInv /\ OriginInv /\ OverlapInv /\ [VNext]_vvars => OverlapInv'
<1> SUFFICES ASSUME TypeInv, OriginInv, OverlapInv, [VNext]_vvars PROVE OverlapInv'  OBVIOUS
<1>1. ASSUME NEW u \in Upload, uploadFile(u) PROVE OverlapInv'
  <2> SUFFICES ASSUME NEW v \in Upload, NEW w \in Upload, Busy(v)', Busy(w)', v # w
               PROVE  {v, w} \subseteq overlapped'
    BY DEF OverlapInv
  <2>1. CASE v = u  BY <1>1, <2>1, uploadFileStep
  <2>2. CASE w = u  BY <1>1, <2>2, uploadFileStep
  <2>3. CASE v # u /\ w # u  BY <1>1, <2>3, uploadFileStep DEF OverlapInv
  <2> QED  BY <2>1, <2>2, <2>3
<1>2. CASE ~\E u \in Upload : uploadFile(u)  BY <1>2, BusyKept DEF OverlapInv
<1> QED  BY <1>1, <1>2

\* An upload that has overlapped with none is the only one under way.
LEMMA Alone ==
    ASSUME OverlapInv, NEW u \in Upload, u \notin overlapped, Busy(u), NEW v \in Upload, Busy(v)
    PROVE  v = u
BY DEF OverlapInv

------------------------------------------------------------------------------
(* What an upload that is alone has read and written so far.                   *)

Text(u) == utf8[contentOf[u]]
Hash(u) == [content |-> contentOf[u], name |-> Text(u)]

\* Nothing else was under way, and the file was stored when uploadUpdate read it.
Own(u) == u \notin overlapped /\ "file" \notin upload[u].early

KeysOK(u, keysFor) == "keys" \notin upload[u].early => keysFor = contentOf[u]

\* A package, and where it is downloaded from.
PackageOK(u, package) ==
    /\ package.file = Text(u) /\ package.infoHash = Hash(u)
    /\ package.keysOf = u /\ KeysOK(u, package.keysFor)
Served(package) == restarts = 0 /\ wrappingPackage = package => package \in seeding

Stored(u) == u \notin overlapped /\ upload[u].pc \in {"read", "gen", "torrent"} =>
    u \in moving \/ updateFile = contentOf[u]
Keyed(u) == u \notin overlapped /\ upload[u].pc \in {"gen", "torrent", "package"} =>
    KeysOK(u, upload[u].keysFor)
Read(u) == Own(u) /\ upload[u].pc \in {"torrent", "package"} =>
    u \notin moving /\ upload[u].file = Text(u)
Hashed(u) == Own(u) /\ upload[u].pc \in {"package", "seed", "ready"} => upload[u].infoHash = Hash(u)
Written(u) == Own(u) /\ upload[u].pc = "seed" => PackageOK(u, wrappingPackage)
Seeded(u) == Own(u) /\ upload[u].pc = "ready" =>
    PackageOK(u, upload[u].package) /\ Served(upload[u].package)

Carries(u) == Stored(u) /\ Keyed(u) /\ Read(u) /\ Hashed(u) /\ Written(u) /\ Seeded(u)

Described(c) == Own(c.upload) => Describes(c)

ContentInv ==
    /\ \A u \in Upload : Carries(u)
    /\ \A u \in Upload, k \in Listener :
          deployment[u][k] # NoDeployment => Described(deployment[u][k].contract)
    /\ \A tx \in mempool \cup contracts : Described(tx.contract)

\* Describes, in the terms of an upload.
LEMMA DescribesPackage ==
    ASSUME NEW c
    PROVE  Describes(c) <=> /\ PackageOK(c.upload, c.package) /\ c.fileHash = Hash(c.upload)
                            /\ Served(c.package)
BY DEF Describes, PackageOK, KeysOK, Hash, Text, Served

\* An upload that is over, or not alone, carries nothing.
LEMMA Inactive ==
    ASSUME NEW u \in Upload, u \in overlapped \/ upload[u].pc \in {"idle", "done", "failed"}
    PROVE  Carries(u)
BY DEF Carries, Own, Stored, Keyed, Read, Hashed, Written, Seeded

LEMMA ContentInvInit == VInit => ContentInv
<1> SUFFICES ASSUME VInit PROVE ContentInv  OBVIOUS
<1>1. \A u \in Upload : upload[u].pc = "idle"  BY DEF VInit
<1>2. \A u \in Upload : Carries(u)  BY <1>1, Inactive
<1>3. \A u \in Upload, k \in Listener : deployment[u][k] = NoDeployment  BY DEF VInit
<1>4. mempool \cup contracts = {}  BY DEF VInit
<1> QED  BY <1>2, <1>3, <1>4 DEF ContentInv

\* What an upload carries is its own to change: the steps of others leave it alone.
LEMMA CarriesKept ==
    ASSUME NEW u \in Upload, Carries(u), upload'[u] = upload[u],
           u \notin overlapped' => u \notin overlapped,
           \/ upload[u].pc \in {"idle", "done", "failed"}
           \/ u \in overlapped'
           \/ /\ UNCHANGED <<updateFile, wrappingPackage, seeding, restarts>>
              /\ u \in moving' <=> u \in moving
    PROVE  Carries(u)'
<1>1. CASE upload[u].pc \in {"idle", "done", "failed"} \/ u \in overlapped'
  BY <1>1 DEF Carries, Own, Stored, Keyed, Read, Hashed, Written, Seeded
<1>2. CASE /\ UNCHANGED <<updateFile, wrappingPackage, seeding, restarts>>
           /\ u \in moving' <=> u \in moving
  <2>1. Own(u)' => Own(u)  BY DEF Own
  <2>2. \A x : KeysOK(u, x)' <=> KeysOK(u, x)  BY DEF KeysOK
  <2>3. \A p : (PackageOK(u, p) => PackageOK(u, p)') /\ (Served(p) <=> Served(p)')
    BY <1>2 DEF PackageOK, KeysOK, Hash, Text, Served
  <2>4. Stored(u)' /\ Keyed(u)' /\ Read(u)' /\ Hashed(u)'
    BY <1>2, <2>1, <2>2 DEF Carries, Stored, Keyed, Read, Hashed, Hash, Text
  <2>5. Written(u)' /\ Seeded(u)'
    BY <1>2, <2>1, <2>3 DEF Carries, Written, Seeded
  <2> QED  BY <2>4, <2>5 DEF Carries
<1> QED  BY <1>1, <1>2

\* A step of an upload, for what it carries itself.
LEMMA PipelineCarries ==
    ASSUME TypeInv, OverlapInv, ContentInv, NEW u \in Upload, Pipeline(u) \/ Fails(u)
    PROVE  Carries(u)'
<1> SUFFICES ASSUME u \notin overlapped PROVE Carries(u)'
  <2>1. overlapped' = overlapped  BY PipelineFrame DEF past
  <2> QED  BY <2>1 DEF Carries, Own, Stored, Keyed, Read, Hashed, Written, Seeded
<1>0. /\ upload \in [Upload -> Progressing]
      /\ UNCHANGED <<updateFile, moving, restarts, overlapped>>
  BY PipelineFrame DEF TypeInv, PipelineT, web, past
<1>a. Busy(u)  BY PipelineFrame DEF Busy, Over
<1>b. u \notin moving => Reads = {updateFile}
  <2> SUFFICES ASSUME u \notin moving PROVE moving = {}  BY DEF Reads
  <2>1. \A v \in moving : v \in Upload /\ Busy(v)  BY DEF Busy, TypeInv, WebT
  <2> QED  BY <1>a, <2>1, Alone
<1>c. Carries(u)  BY DEF ContentInv
<1>1. CASE readFile(u)
  <2> PICK file \in Reads :
         upload' = [upload EXCEPT ![u].pc = "gen", ![u].keysFor = file,
                                  ![u].early = Reading(u, "keys")]
    BY <1>1 DEF readFile
  <2>1. /\ upload'[u].pc = "gen" /\ upload'[u].keysFor = file
        /\ upload'[u].early = Reading(u, "keys")
    BY <1>0 DEF Progressing
  <2>2. u \notin moving => updateFile = contentOf[u] /\ file = contentOf[u]
    BY <1>1, <1>b, <1>c DEF readFile, At, Carries, Stored
  <2>3. u \in moving => "keys" \in Reading(u, "keys")  BY DEF Reading
  <2> QED
    BY <1>0, <2>1, <2>2, <2>3 DEF Carries, Stored, Keyed, Read, Hashed, Written, Seeded, KeysOK
<1>2. CASE gen(u)
  <2> PICK file \in Reads :
         upload' = [upload EXCEPT ![u].pc = "torrent", ![u].file = utf8[file],
                                  ![u].early = Reading(u, "file")]
    BY <1>2 DEF gen
  <2>1. /\ upload'[u].pc = "torrent" /\ upload'[u].file = utf8[file]
        /\ upload'[u].keysFor = upload[u].keysFor /\ upload'[u].early = Reading(u, "file")
    BY <1>0 DEF Progressing
  <2>2. u \notin moving => updateFile = contentOf[u] /\ file = contentOf[u]
    BY <1>2, <1>b, <1>c DEF gen, At, Carries, Stored
  <2>3. /\ u \in moving => "file" \in Reading(u, "file")
        /\ "keys" \in upload[u].early => "keys" \in Reading(u, "file")
    BY DEF Reading
  <2>4. KeysOK(u, upload[u].keysFor)  BY <1>2, <1>c DEF gen, At, Carries, Keyed
  <2>5. KeysOK(u, upload[u].keysFor)'  BY <2>1, <2>3, <2>4 DEF KeysOK
  <2>6. Read(u)'  BY <1>0, <2>1, <2>2, <2>3 DEF Read, Own, Text
  <2> QED
    BY <1>0, <2>1, <2>2, <2>5, <2>6 DEF Carries, Stored, Keyed, Hashed, Written, Seeded
<1>3. CASE createTorrent(u)
  <2> PICK file \in Reads :
         upload' = [upload EXCEPT ![u].pc = "package",
                                  ![u].infoHash = [content |-> file, name |-> upload[u].file]]
    BY <1>3 DEF createTorrent
  <2>1. /\ upload'[u].pc = "package" /\ upload'[u].file = upload[u].file
        /\ upload'[u].infoHash = [content |-> file, name |-> upload[u].file]
        /\ upload'[u].keysFor = upload[u].keysFor /\ upload'[u].early = upload[u].early
    BY <1>0 DEF Progressing
  <2>2. Own(u)' => u \notin moving /\ upload[u].file = Text(u)
    BY <1>0, <1>3, <1>c, <2>1 DEF createTorrent, At, Carries, Read, Own
  <2>3. Own(u)' => file = contentOf[u]
    BY <1>3, <1>b, <1>c, <2>2 DEF createTorrent, At, Carries, Stored
  <2>4. KeysOK(u, upload[u].keysFor)  BY <1>3, <1>c DEF createTorrent, At, Carries, Keyed
  <2>5. KeysOK(u, upload[u].keysFor)'  BY <2>1, <2>4 DEF KeysOK
  <2>6. Read(u)' /\ Hashed(u)'  BY <1>0, <2>1, <2>2, <2>3 DEF Read, Hashed, Hash, Text
  <2> QED  BY <2>1, <2>5, <2>6 DEF Carries, Stored, Keyed, Written, Seeded
<1>4. CASE writeFile(u)
  <2>1. /\ upload'[u].pc = "seed" /\ upload'[u].infoHash = upload[u].infoHash
        /\ upload'[u].early = upload[u].early
    BY <1>0, <1>4 DEF writeFile, Progressing
  <2>2. /\ wrappingPackage'.file = upload[u].file /\ wrappingPackage'.infoHash = upload[u].infoHash
        /\ wrappingPackage'.keysOf = u /\ wrappingPackage'.keysFor = upload[u].keysFor
    BY <1>4 DEF writeFile, packageOf
  <2>3. Own(u)' => upload[u].file = Text(u) /\ upload[u].infoHash = Hash(u)
    BY <1>0, <1>4, <1>c, <2>1 DEF writeFile, At, Carries, Read, Hashed, Own
  <2>4. KeysOK(u, upload[u].keysFor)  BY <1>4, <1>c DEF writeFile, At, Carries, Keyed
  <2>5. Own(u)' => PackageOK(u, wrappingPackage)'
    BY <2>1, <2>2, <2>3, <2>4 DEF PackageOK, KeysOK, Hash, Text
  <2> QED  BY <2>1, <2>3, <2>5 DEF Carries, Stored, Keyed, Read, Hashed, Written, Seeded, Hash, Text
<1>5. CASE seed(u)
  <2>1. /\ upload'[u].pc = "ready" /\ upload'[u].infoHash = upload[u].infoHash
        /\ upload'[u].early = upload[u].early /\ upload'[u].package = wrappingPackage
    BY <1>0, <1>5 DEF seed, Progressing
  <2>2. wrappingPackage' = wrappingPackage /\ wrappingPackage \in seeding'  BY <1>5 DEF seed
  <2>3. Own(u)' => upload[u].infoHash = Hash(u) /\ PackageOK(u, wrappingPackage)
    BY <1>0, <1>5, <1>c, <2>1 DEF seed, At, Carries, Hashed, Written, Own
  <2>4. Own(u)' => PackageOK(u, upload[u].package)' /\ Served(upload[u].package)'
    BY <2>1, <2>2, <2>3 DEF PackageOK, KeysOK, Hash, Text, Served
  <2> QED  BY <2>1, <2>3, <2>4 DEF Carries, Stored, Keyed, Read, Hashed, Written, Seeded, Hash, Text
<1>6. CASE infoHashReady(u)
  <2>1. upload'[u].pc = "done"  BY <1>6, infoHashReadyStep
  <2> QED  BY <2>1 DEF Carries, Stored, Keyed, Read, Hashed, Written, Seeded
<1>7. CASE Fails(u)
  <2>1. upload'[u].pc = "failed"
    BY <1>0, <1>7 DEF Fails, uploadFileFails, createTorrentFails, Progressing
  <2> QED  BY <2>1 DEF Carries, Stored, Keyed, Read, Hashed, Written, Seeded
<1> QED  BY <1>1, <1>2, <1>3, <1>4, <1>5, <1>6, <1>7 DEF Pipeline

\* The contract of an upload is made of what the upload carries.
LEMMA ReadyContract ==
    ASSUME TypeInv, ContentInv, NEW u \in Upload, infoHashReady(u)
    PROVE  \A k \in Listener : deployment'[u][k] # NoDeployment =>
              Described(deployment'[u][k].contract)
<1> DEFINE contract == [upload |-> u, package |-> upload[u].package,
                        fileHash |-> upload[u].infoHash, iotAddresses |-> iot_addresses]
<1>1. Described(contract)
  <2> SUFFICES ASSUME Own(u) PROVE Describes(contract)  BY DEF Described
  <2>1. Carries(u) /\ upload[u].pc = "ready"  BY DEF infoHashReady, At, ContentInv
  <2>2. /\ upload[u].infoHash = Hash(u)
        /\ PackageOK(u, upload[u].package) /\ Served(upload[u].package)
    BY <2>1 DEF Carries, Hashed, Seeded
  <2> QED  BY <2>2, DescribesPackage
<1> HIDE DEF contract
<1>2. \A k \in Listener :
         \/ deployment'[u][k] = [pc |-> "nonce", nonce |-> -1, contract |-> contract]
         \/ deployment'[u][k] = NoDeployment
  BY DEF infoHashReady, TypeInv, AccountT, contract
<1> QED  BY <1>1, <1>2

\* What a contract says stays true: its upload has ended, and a package that replaces
\* the one on disk is of another upload.
LEMMA DescribedKept ==
    ASSUME TypeInv, OriginInv, [VNext]_vvars, NEW c, Described(c),
           c.upload \in Upload, upload[c.upload].pc \in {"done", "failed"}
    PROVE  Described(c)'
<1> DEFINE u == c.upload
<1>1. upload'[u].early = upload[u].early  BY EndedKept
<1>2. overlapped \subseteq overlapped'
  BY uploadFileStep, BusyKept
<1> SUFFICES ASSUME Own(u)' PROVE Describes(c)'  BY DEF Described
<1>3. Describes(c)  BY <1>1, <1>2 DEF Described, Own
<1>4. PackageOK(u, c.package)' /\ c.fileHash = Hash(u) /\ c.package.keysOf = u
  BY <1>1, <1>3, DescribesPackage DEF PackageOK, KeysOK, Hash, Text
<1>5. Served(c.package)'
  <2>0. Served(c.package)  BY <1>3, DescribesPackage
  <2>a. CASE UNCHANGED <<restarts, wrappingPackage, seeding>>  BY <2>0, <2>a DEF Served
  <2>1. ASSUME NEW v \in Upload, writeFile(v) PROVE Served(c.package)'
    <3>1. v # u  BY <2>1 DEF writeFile, At
    <3>2. wrappingPackage'.keysOf = v  BY <2>1 DEF writeFile, packageOf
    <3> QED  BY <1>4, <3>1, <3>2 DEF Served
  <2>2. ASSUME NEW v \in Upload, seed(v) PROVE Served(c.package)'
    BY <2>2 DEF seed, Served
  <2>3. ASSUME NEW v \in Upload, Pipeline(v) \/ Fails(v), ~writeFile(v), ~seed(v)
        PROVE  UNCHANGED <<restarts, wrappingPackage, seeding>>
    BY <2>3 DEF Pipeline, Fails, readFile, gen, createTorrent, infoHashReady, uploadFileFails,
                createTorrentFails, past
  <2>4. ASSUME NEW v \in Upload, uploadFile(v) \/ mv(v)
        PROVE  UNCHANGED <<restarts, wrappingPackage, seeding>>
    BY <2>4 DEF uploadFile, mv, pipeline, past
  <2>5. ASSUME NEW i \in IoT, sendIotAddress(i)
        PROVE  UNCHANGED <<restarts, wrappingPackage, seeding>>
    BY <2>5 DEF sendIotAddress, pipeline, past
  <2>6. ASSUME NEW v \in Upload, NEW k \in Listener, Deploy(v, k) \/ deployFails(v, k)
        PROVE  UNCHANGED <<restarts, wrappingPackage, seeding>>
    BY <2>6, DeployFrame DEF pipeline, past
  <2>7. ASSUME NEW tx \in mempool, createContract(tx)
        PROVE  UNCHANGED <<restarts, wrappingPackage, seeding>>
    BY <2>7 DEF createContract, pipeline, past
  <2>8. ASSUME NEW nonce \in notified, _onContractPublished(nonce)
        PROVE  UNCHANGED <<restarts, wrappingPackage, seeding>>
    BY <2>8 DEF _onContractPublished, pipeline, past
  <2>9. CASE Restart
    <3>1. restarts' # 0  BY <2>9 DEF Restart, TypeInv, WebT
    <3> QED  BY <3>1 DEF Served
  <2>10. CASE UNCHANGED vvars  BY <2>a, <2>10 DEF vvars, pipeline, past
  <2> QED  BY <2>a, <2>1, <2>2, <2>3, <2>4, <2>5, <2>6, <2>7, <2>8, <2>9, <2>10 DEF VNext
<1> QED  BY <1>4, <1>5, DescribesPackage DEF Describes, PackageOK, KeysOK, Hash, Text, Served

\* Calls and transactions are of uploads that have ended.
LEMMA CarriersEnded ==
    ASSUME TypeInv, OriginInv
    PROVE  /\ \A u \in Upload, k \in Listener : deployment[u][k] # NoDeployment =>
                 /\ deployment[u][k].contract.upload = u
                 /\ upload[u].pc \in {"done", "failed"}
           /\ \A tx \in mempool \cup contracts :
                 tx.contract.upload \in Upload /\ upload[tx.contract.upload].pc \in {"done", "failed"}
<1>1. \A tx \in mempool \cup contracts : tx.contract.upload \in Upload
  BY DEF TypeInv, AccountT, EventsT, Tx, Contract
<1>2. \A tx \in mempool \cup contracts : tx \in Sent(tx.contract.upload)  BY DEF Sent
<1> QED  BY <1>1, <1>2 DEF OriginInv

LEMMA ContentInvNext ==
    TypeInv /\ OriginInv /\ OverlapInv /\ ContentInv /\ [VNext]_vvars => ContentInv'
<1> SUFFICES ASSUME TypeInv, OriginInv, OverlapInv, ContentInv, [VNext]_vvars PROVE ContentInv'
  OBVIOUS
<1>0. upload \in [Upload -> Progressing]  BY DEF TypeInv, PipelineT
<1>1. \A u \in Upload, k \in Listener : \A c :
         deployment[u][k] # NoDeployment /\ c = deployment[u][k].contract => Described(c)'
  BY CarriersEnded, DescribedKept DEF ContentInv
<1>2. \A tx \in mempool \cup contracts : Described(tx.contract)'
  BY CarriersEnded, DescribedKept DEF ContentInv
<1>3. \A u \in Upload : Carries(u)  BY DEF ContentInv
<1>a. ASSUME UNCHANGED <<upload, overlapped, updateFile, moving, wrappingPackage, seeding, restarts>>
      PROVE  \A u \in Upload : Carries(u)'
  BY <1>3, <1>a, CarriesKept
<1>b. ASSUME UNCHANGED <<deployment, mempool, contracts>>, \A u \in Upload : Carries(u)'
      PROVE  ContentInv'
  BY <1>1, <1>2, <1>b DEF ContentInv
<1>c. ASSUME UNCHANGED <<mempool, contracts>>, \A u \in Upload : Carries(u)',
             \A u \in Upload, k \in Listener : \A c :
                deployment'[u][k] # NoDeployment /\ c = deployment'[u][k].contract => Described(c)'
      PROVE  ContentInv'
  BY <1>2, <1>c DEF ContentInv
<1>4. ASSUME NEW u \in Upload, uploadFile(u) PROVE ContentInv'
  <2>1. ASSUME NEW v \in Upload, v # u PROVE Carries(v)'
    <3>1. CASE Busy(v)  BY <1>3, <1>4, <2>1, <3>1, uploadFileStep, CarriesKept
    <3>2. CASE ~Busy(v)
      <4>1. upload[v].pc \in {"idle", "done", "failed"}  BY <3>2 DEF Busy, Over
      <4> QED  BY <1>3, <1>4, <2>1, <4>1, uploadFileStep, CarriesKept
    <3> QED  BY <3>1, <3>2
  <2>2. Carries(u)'
    BY <1>4, uploadFileStep DEF Carries, Stored, Keyed, Read, Hashed, Written, Seeded
  <2> QED  BY <1>4, <1>b, <2>1, <2>2, uploadFileStep DEF account, events
<1>5. ASSUME NEW u \in Upload, mv(u) PROVE ContentInv'
  <2>1. /\ UNCHANGED <<upload, overlapped, wrappingPackage, seeding, restarts,
                       deployment, mempool, contracts>>
        /\ moving' = moving \ {u} /\ updateFile' = contentOf[u] /\ Busy(u)
    BY <1>5 DEF mv, pipeline, account, events, past, Busy
  <2>2. ASSUME NEW v \in Upload, v # u PROVE Carries(v)'
    <3>1. v \in overlapped \/ upload[v].pc \in {"idle", "done", "failed"}
      BY <2>1, <2>2, Alone DEF Busy, Over
    <3> QED  BY <1>3, <2>1, <3>1, CarriesKept
  <2>3. Carries(u)'
    <3>1. Carries(u)  BY <1>3
    <3>2. /\ Own(u)' <=> Own(u)
          /\ \A x : KeysOK(u, x)' <=> KeysOK(u, x)
          /\ \A p : (PackageOK(u, p)' <=> PackageOK(u, p)) /\ (Served(p)' <=> Served(p))
      BY <2>1 DEF Own, PackageOK, KeysOK, Hash, Text, Served
    <3>3. Stored(u)' /\ Keyed(u)' /\ Read(u)'
      BY <2>1, <3>1, <3>2 DEF Carries, Stored, Keyed, Read, Text
    <3>4. Hashed(u)' /\ Written(u)' /\ Seeded(u)'
      BY <2>1, <3>1, <3>2 DEF Carries, Hashed, Written, Seeded, Hash, Text
    <3> QED  BY <3>3, <3>4 DEF Carries
  <2> QED  BY <1>b, <2>1, <2>2, <2>3
<1>6. CASE \E i \in IoT : sendIotAddress(i)
  BY <1>6, <1>a, <1>b DEF sendIotAddress, pipeline, account, events, past
<1>7. ASSUME NEW u \in Upload, Pipeline(u) \/ Fails(u) PROVE ContentInv'
  <2>1. /\ UNCHANGED <<updateFile, moving, restarts, overlapped, mempool, contracts>>
        /\ \A v \in Upload : v # u => upload'[v] = upload[v]
    BY <1>7, PipelineFrame DEF web, events, past
  <2>2. Busy(u)  BY <1>7, PipelineFrame DEF Busy, Over
  <2>3. ASSUME NEW v \in Upload, v # u PROVE Carries(v)'
    <3>1. v \in overlapped \/ upload[v].pc \in {"idle", "done", "failed"}
      BY <2>2, <2>3, Alone DEF Busy, Over
    <3> QED  BY <1>3, <2>1, <2>3, <3>1, CarriesKept
  <2>4. Carries(u)'  BY <1>7, PipelineCarries
  <2>5. CASE UNCHANGED deployment  BY <1>b, <2>1, <2>3, <2>4, <2>5
  <2>6. CASE infoHashReady(u)
    <3>1. \A v \in Upload, k \in Listener : v # u => deployment'[v][k] = deployment[v][k]
      BY <2>6, infoHashReadyStep
    <3>2. \A k \in Listener : \A c : deployment'[u][k] # NoDeployment /\ c = deployment'[u][k].contract
             => Described(c)'
      <4>1. ASSUME NEW c, c.upload = u, Described(c) PROVE Described(c)'
        <5>1. UNCHANGED <<restarts, wrappingPackage, seeding, overlapped>>
              /\ upload'[u].early = upload[u].early
          BY <1>0, <2>6 DEF infoHashReady, past, Progressing
        <5> QED  BY <4>1, <5>1 DEF Described, Own, Describes
      <4>2. \A k \in Listener : deployment'[u][k] # NoDeployment =>
               deployment'[u][k].contract.upload = u
        BY <2>6, infoHashReadyStep
      <4> QED  BY <2>6, <4>1, <4>2, ReadyContract
    <3>3. ASSUME NEW v \in Upload, NEW k \in Listener, NEW c,
                 deployment'[v][k] # NoDeployment, c = deployment'[v][k].contract
          PROVE  Described(c)'
      <4>1. CASE v = u  BY <3>2, <3>3, <4>1
      <4>2. CASE v # u  BY <1>1, <3>1, <3>3, <4>2
      <4> QED  BY <4>1, <4>2
    <3> QED  BY <1>c, <2>1, <2>3, <2>4, <3>3
  <2> QED  BY <1>7, <2>5, <2>6, PipelineFrame
<1>8. ASSUME NEW u \in Upload, NEW k \in Listener, Deploy(u, k) \/ deployFails(u, k)
      PROVE  ContentInv'
  <2>1. /\ UNCHANGED <<upload, overlapped, updateFile, moving, wrappingPackage, seeding, restarts,
                       contracts>>
        /\ \A v \in Upload, j \in Listener : <<v, j>> # <<u, k>> => deployment'[v][j] = deployment[v][j]
        /\ deployment'[u][k].contract = deployment[u][k].contract
        /\ deployment[u][k] # NoDeployment
    BY <1>8, DeployFrame DEF web, pipeline, events, past, Deploys
  <2>2. \A c : c = deployment[u][k].contract => Described(c)'  BY <1>1, <2>1
  <2>3. ASSUME NEW v \in Upload, NEW j \in Listener, NEW c,
               deployment'[v][j] # NoDeployment, c = deployment'[v][j].contract
        PROVE  Described(c)'
    <3>1. CASE v = u /\ j = k
      <4>1. c = deployment[u][k].contract  BY <2>1, <2>3, <3>1
      <4> QED  BY <2>2, <4>1
    <3>2. CASE ~(v = u /\ j = k)
      <4>1. deployment'[v][j] = deployment[v][j]  BY <2>1, <3>2
      <4> QED  BY <1>1, <2>3, <4>1
    <3> QED  BY <3>1, <3>2
  <2>4. \A tx \in mempool' \cup contracts' :
           tx \in mempool \cup contracts \/ tx.contract = deployment[u][k].contract
    BY <1>8, <2>1, DeployFrame
  <2>5. \A tx \in mempool' \cup contracts' : Described(tx.contract)'  BY <1>2, <2>2, <2>4
  <2>6. \A v \in Upload : Carries(v)'  BY <1>a, <2>1
  <2> QED  BY <2>3, <2>5, <2>6 DEF ContentInv
<1>9. CASE \E tx \in mempool : createContract(tx)
  <2>1. /\ UNCHANGED <<upload, overlapped, updateFile, moving, wrappingPackage, seeding, restarts,
                       deployment>>
        /\ mempool' \cup contracts' \subseteq mempool \cup contracts
    BY <1>9 DEF createContract, web, pipeline, past
  <2> QED  BY <1>1, <1>2, <1>a, <2>1 DEF ContentInv
<1>10. CASE \E nonce \in notified : _onContractPublished(nonce)
  BY <1>10, <1>a, <1>b DEF _onContractPublished, web, pipeline, account, past
<1>11. CASE Restart
  <2>1. \A u \in Upload : upload'[u].pc \in {"idle", "done", "failed"}
    BY <1>0, <1>11 DEF Restart, Over, Progressing
  <2>2. \A u \in Upload : Carries(u)'
    BY <2>1 DEF Carries, Stored, Keyed, Read, Hashed, Written, Seeded
  <2>3. \A u \in Upload, k \in Listener :
           deployment'[u][k] = NoDeployment \/ deployment'[u][k] = deployment[u][k]
    BY <1>11 DEF Restart
  <2>4. UNCHANGED <<mempool, contracts>>  BY <1>11 DEF Restart
  <2> QED  BY <1>1, <1>2, <2>2, <2>3, <2>4 DEF ContentInv
<1>12. CASE UNCHANGED vvars
  BY <1>12, <1>a, <1>b DEF vvars, web, pipeline, account, events, past
<1> QED
  BY <1>4, <1>5, <1>6, <1>7, <1>8, <1>9, <1>10, <1>11, <1>12 DEF VNext

\* Every contract of an upload that no other has overlapped with is for its file, with
\* the hash of that file and the package made of it and with its keys, if the file was
\* stored when uploadUpdate read it; whatever other uploads do before and after, and
\* wherever uploads fail or the server is started again.
THEOREM ContractsDescribeUploads == VSpec => []ContractDescribesUpload
<1>1. ContentInv => ContractDescribesUpload
  BY DEF ContentInv, ContractDescribesUpload, Published, Described, Own
<1>2. TypeInv /\ OriginInv /\ OverlapInv /\ ContentInv /\ [VNext]_vvars
        => TypeInv' /\ OriginInv' /\ OverlapInv' /\ ContentInv'
  BY TypeInvNext, OriginInvNext, OverlapInvNext, ContentInvNext
<1> QED
  BY <1>1, <1>2, TypeInvInit, OriginInvInit, OverlapInvInit, ContentInvInit, PTL DEF VSpec
------------------------------------------------------------------------------
(* Nonces: what is pending is the next transaction, whatever overlaps.          *)

NonceInv ==
    /\ OneTransactionPending
    /\ \A u \in Upload, k \in Listener :
          Deploys(u, k, "send") => deployment[u][k].nonce <= transactionCount
    /\ \A c \in contracts : c.nonce < transactionCount

LEMMA NonceInvInit == VInit => NonceInv
BY DEF VInit, NonceInv, OneTransactionPending, Deploys

LEMMA NonceInvDeploy ==
    ASSUME TypeInv, NonceInv, NEW u \in Upload, NEW k \in Listener, Deploy(u, k) \/ deployFails(u, k)
    PROVE  NonceInv'
<1> USE DEF NonceInv, OneTransactionPending
<1>0. UNCHANGED <<transactionCount, contracts>> /\ transactionCount \in Nat
  BY DeployFrame DEF events, TypeInv, AccountT
<1>1. \A v \in Upload, j \in Listener : Deploys(v, j, "send")' =>
         deployment'[v][j].nonce <= transactionCount
  <2> SUFFICES ASSUME NEW v \in Upload, NEW j \in Listener, Deploys(v, j, "send")'
               PROVE  deployment'[v][j].nonce <= transactionCount
    OBVIOUS
  <2>1. CASE <<v, j>> = <<u, k>>
    <3>1. deployment'[u][k].nonce = transactionCount  BY <2>1, DeployFrame DEF Deploys
    <3> QED  BY <1>0, <2>1, <3>1
  <2>2. CASE <<v, j>> # <<u, k>>
    <3>1. deployment'[v][j] = deployment[v][j]  BY <2>2, DeployFrame
    <3> QED  BY <3>1 DEF Deploys
  <2> QED  BY <2>1, <2>2
<1>2. OneTransactionPending'
  <2>1. CASE mempool' = mempool  BY <1>0, <2>1
  <2>2. CASE mempool' # mempool
    <3> DEFINE tx == [nonce |-> deployment[u][k].nonce, contract |-> deployment[u][k].contract]
    <3>1. sendSignedTransaction(u, k)  BY <2>2, DeployFrame
    <3>2. tx.nonce \in Nat /\ tx.nonce <= transactionCount
      BY <3>1 DEF sendSignedTransaction, TypeInv, AccountT
    <3>3. mempool' = IF tx.nonce < transactionCount \/ \E other \in mempool : other.nonce = tx.nonce
                     THEN mempool ELSE mempool \cup {tx}
      BY <3>1 DEF sendSignedTransaction, Receives
    <3> HIDE DEF tx
    <3>4. /\ mempool' = mempool \cup {tx} /\ ~(tx.nonce < transactionCount)
          /\ \A other \in mempool : other.nonce # tx.nonce
      BY <2>2, <3>3
    <3>5. tx.nonce = transactionCount  BY <1>0, <3>2, <3>4
    <3>6. mempool = {}  BY <3>4, <3>5
    <3> QED  BY <1>0, <3>4, <3>5, <3>6
  <2> QED  BY <2>1, <2>2
<1> QED  BY <1>0, <1>1, <1>2

LEMMA NonceInvNext == TypeInv /\ NonceInv /\ [VNext]_vvars => NonceInv'
<1> SUFFICES ASSUME TypeInv, NonceInv, [VNext]_vvars PROVE NonceInv'  OBVIOUS
<1> USE DEF NonceInv, OneTransactionPending
<1>a. ASSUME UNCHANGED <<deployment, transactionCount, mempool, contracts>> PROVE NonceInv'
  BY <1>a DEF Deploys
<1>1. CASE \E u \in Upload : uploadFile(u) \/ mv(u)
  BY <1>1, <1>a DEF uploadFile, mv, account, events
<1>2. ASSUME NEW u \in Upload, Pipeline(u) \/ Fails(u) PROVE NonceInv'
  <2>1. UNCHANGED <<transactionCount, mempool, contracts>>  BY <1>2, PipelineFrame DEF events
  <2>2. CASE infoHashReady(u)
    <3> SUFFICES ASSUME NEW v \in Upload, NEW k \in Listener, Deploys(v, k, "send")'
                 PROVE  Deploys(v, k, "send") /\ deployment'[v][k] = deployment[v][k]
      BY <2>1
    <3>1. v # u  BY <2>2, infoHashReadyStep DEF Deploys
    <3>2. deployment'[v][k] = deployment[v][k]  BY <2>2, <3>1, infoHashReadyStep
    <3> QED  BY <3>2 DEF Deploys
  <2>3. CASE UNCHANGED deployment  BY <2>1, <2>3, <1>a
  <2> QED  BY <1>2, <2>2, <2>3, PipelineFrame
<1>3. CASE \E i \in IoT : sendIotAddress(i)
  BY <1>3, <1>a DEF sendIotAddress, account, events
<1>4. CASE \E u \in Upload, k \in Listener : Deploy(u, k) \/ deployFails(u, k)
  BY <1>4, NonceInvDeploy
<1>5. CASE \E tx \in mempool : createContract(tx)
  <2> PICK tx \in mempool : createContract(tx)  BY <1>5
  <2>1. mempool' = {} /\ transactionCount' = transactionCount + 1 /\ deployment' = deployment
    BY DEF createContract
  <2>2. contracts' = contracts \cup {tx} /\ tx.nonce = transactionCount  BY DEF createContract
  <2>3. transactionCount \in Nat /\ \A c \in contracts : c.nonce \in Nat
    BY DEF TypeInv, AccountT, EventsT, Tx
  <2>4. \A c \in contracts' : c.nonce < transactionCount'  BY <2>1, <2>2, <2>3
  <2>5. \A v \in Upload, j \in Listener :
           Deploys(v, j, "send")' => deployment'[v][j].nonce <= transactionCount'
    BY <2>1, <2>3 DEF Deploys, TypeInv, AccountT
  <2> QED  BY <2>1, <2>4, <2>5
<1>6. CASE \E nonce \in notified : _onContractPublished(nonce)
  BY <1>6, <1>a DEF _onContractPublished, account
<1>7. CASE Restart
  <2>1. \A u \in Upload, k \in Listener : Deploys(u, k, "send")' =>
           Deploys(u, k, "send") /\ deployment'[u][k] = deployment[u][k]
    BY <1>7 DEF Restart, Deploys
  <2>2. UNCHANGED <<transactionCount, mempool, contracts>>  BY <1>7 DEF Restart
  <2> QED  BY <2>1, <2>2
<1>8. CASE UNCHANGED vvars
  BY <1>8, <1>a DEF vvars, account, events
<1> QED  BY <1>1, <1>2, <1>3, <1>4, <1>5, <1>6, <1>7, <1>8 DEF VNext

\* However uploads overlap and wherever the server is restarted, the node holds at most
\* one transaction of the vendor, and it is the next to be mined: although the nonce is
\* read long before it is used, it is never ahead.
THEOREM NeverAhead == VSpec => []OneTransactionPending
<1>1. TypeInv /\ NonceInv /\ [VNext]_vvars => TypeInv' /\ NonceInv'
  BY TypeInvNext, NonceInvNext
<1>2. NonceInv => OneTransactionPending  BY DEF NonceInv
<1> QED  BY <1>1, <1>2, TypeInvInit, NonceInvInit, PTL DEF VSpec
------------------------------------------------------------------------------
(* No more contracts than listeners, and at least one transaction. *)

LEMMA FinitePending ==
    ASSUME NEW u \in Upload
    PROVE  IsFiniteSet(Pending(u)) /\ Cardinality(Pending(u)) \in Nat
<1>1. Cardinality(Upload) \in Nat  BY VendorOK, FS_CardinalityType
<1>2. IsFiniteSet(Listener)  BY <1>1, FS_Interval DEF Listener
<1> QED  BY <1>2, FS_Subset, FS_CardinalityType DEF Pending

LEMMA FiniteGenerated == IsFiniteSet(Generated) /\ Cardinality(Generated) \in Nat
BY VendorOK, FS_Subset, FS_CardinalityType DEF Generated

LEMMA FiniteGeneratedAfter == IsFiniteSet(Generated') /\ Cardinality(Generated') \in Nat
BY VendorOK, FS_Subset, FS_CardinalityType DEF Generated

\* Each transaction of an upload was sent by a call of its own, and there were no
\* more calls than listeners, which uploads past the generator have added.
BoundInv ==
    \A u \in Upload :
       /\ IsFiniteSet(Sent(u))
       /\ Cardinality(Sent(u)) + Cardinality(Pending(u)) <= Cardinality(Generated)

LEMMA BoundInvInit == VInit => BoundInv
<1> SUFFICES ASSUME VInit, NEW u \in Upload
             PROVE  IsFiniteSet(Sent(u))
                    /\ Cardinality(Sent(u)) + Cardinality(Pending(u)) <= Cardinality(Generated)
  BY DEF BoundInv
<1>1. Sent(u) = {} /\ Pending(u) = {}  BY DEF VInit, Sent, Pending, Deploys
<1> QED  BY <1>1, FS_EmptySet, FiniteGenerated

LEMMA GeneratedGrows == TypeInv /\ [VNext]_vvars => Cardinality(Generated) <= Cardinality(Generated')
<1> SUFFICES ASSUME TypeInv, [VNext]_vvars PROVE Generated \subseteq Generated'
  BY FiniteGeneratedAfter, FS_Subset
<1>0. upload \in [Upload -> Progressing]  BY DEF TypeInv, PipelineT
<1>1. CASE UNCHANGED upload  BY <1>1 DEF Generated
<1>2. ASSUME NEW u \in Upload, uploadFile(u) PROVE Generated \subseteq Generated'
  BY <1>2, uploadFileStep DEF Generated
<1>3. ASSUME NEW u \in Upload, Pipeline(u) \/ Fails(u) PROVE Generated \subseteq Generated'
  BY <1>3, PipelineFrame DEF Generated
<1>4. CASE Restart
  BY <1>0, <1>4 DEF Restart, Generated, Progressing
<1>5. ASSUME NEW u \in Upload, NEW k \in Listener, Deploy(u, k) \/ deployFails(u, k)
      PROVE  UNCHANGED upload
  BY <1>5, DeployFrame DEF pipeline
<1> QED
  BY <1>1, <1>2, <1>3, <1>4, <1>5
  DEF VNext, mv, sendIotAddress, createContract, _onContractPublished, vvars, pipeline

\* Nothing more is sent or pending for an upload.
LEMMA BoundKept ==
    ASSUME BoundInv, NEW u \in Upload, Cardinality(Generated) <= Cardinality(Generated'),
           Sent(u)' = Sent(u), Pending(u)' \subseteq Pending(u)
    PROVE  IsFiniteSet(Sent(u)')
           /\ Cardinality(Sent(u)') + Cardinality(Pending(u)') <= Cardinality(Generated')
<1>1. Cardinality(Pending(u)') <= Cardinality(Pending(u)) /\ Cardinality(Pending(u)') \in Nat
  BY FinitePending, FS_Subset, FS_CardinalityType
<1>2. Cardinality(Sent(u)) \in Nat  BY FS_CardinalityType DEF BoundInv
<1>3. IsFiniteSet(Sent(u))
      /\ Cardinality(Sent(u)) + Cardinality(Pending(u)) <= Cardinality(Generated)
  BY DEF BoundInv
<1> QED  BY <1>1, <1>2, <1>3, FinitePending, FiniteGenerated, FiniteGeneratedAfter

LEMMA BoundInvReady ==
    ASSUME TypeInv, OriginInv, BoundInv, NEW u \in Upload, infoHashReady(u),
           Cardinality(Generated) <= Cardinality(Generated')
    PROVE  BoundInv'
<1>1. UNCHANGED <<mempool, contracts>>  BY PipelineFrame DEF Pipeline, events
<1>2. \A v \in Upload : Sent(v)' = Sent(v)  BY <1>1 DEF Sent
<1>3. ASSUME NEW v \in Upload, v # u
      PROVE  IsFiniteSet(Sent(v)')
             /\ Cardinality(Sent(v)') + Cardinality(Pending(v)') <= Cardinality(Generated')
  <2>1. Pending(v)' = Pending(v)  BY <1>3, infoHashReadyStep DEF Pending, Deploys
  <2> QED  BY <1>2, <2>1, BoundKept
<1>4. IsFiniteSet(Sent(u)')
      /\ Cardinality(Sent(u)') + Cardinality(Pending(u)') <= Cardinality(Generated')
  <2>1. Sent(u) = {}  BY infoHashReadyStep DEF OriginInv
  <2>2. Pending(u)' \subseteq 1..listeners
    <3> SUFFICES ASSUME NEW k \in Listener, deployment'[u][k] # NoDeployment PROVE k \in 1..listeners
      BY DEF Pending, Deploys
    <3>1. k <= listeners  BY infoHashReadyStep
    <3> QED  BY <3>1, VendorOK, FS_CardinalityType DEF Listener, TypeInv, ListenersT
  <2>3. listeners \in Nat /\ listeners <= Cardinality(Generated)  BY DEF TypeInv, ListenersT
  <2>4. IsFiniteSet(1..listeners) /\ Cardinality(1..listeners) = listeners
    BY <2>3, FS_Interval
  <2>5. Cardinality(Pending(u)') <= listeners /\ Cardinality(Pending(u)') \in Nat
    BY <2>2, <2>4, FS_Subset, FS_CardinalityType
  <2>6. IsFiniteSet({}) /\ Cardinality({}) = 0  BY FS_EmptySet
  <2> QED  BY <1>2, <2>1, <2>3, <2>5, <2>6, FiniteGenerated, FiniteGeneratedAfter
<1> QED  BY <1>3, <1>4 DEF BoundInv

LEMMA BoundInvDeploy ==
    ASSUME TypeInv, OriginInv, BoundInv, NEW u \in Upload, NEW k \in Listener,
           Deploy(u, k) \/ deployFails(u, k), Cardinality(Generated) <= Cardinality(Generated')
    PROVE  BoundInv'
<1>1. /\ contracts' = contracts
      /\ \A v \in Upload, j \in Listener : <<v, j>> # <<u, k>> => deployment'[v][j] = deployment[v][j]
      /\ k \in Pending(u)
      /\ mempool' = mempool \/ \E tx : /\ tx.contract.upload = u /\ mempool' = mempool \cup {tx}
                                       /\ deployment'[u][k].pc = "over"
  BY DeployFrame, SentByDeploy DEF events
<1>2. ASSUME NEW v \in Upload, v # u
      PROVE  IsFiniteSet(Sent(v)')
             /\ Cardinality(Sent(v)') + Cardinality(Pending(v)') <= Cardinality(Generated')
  <2>1. Pending(v)' = Pending(v)  BY <1>1, <1>2 DEF Pending, Deploys
  <2>2. Sent(v)' = Sent(v)  BY <1>2, SentByDeploy
  <2> QED  BY <2>1, <2>2, BoundKept
<1>3. \A j \in Listener : j # k => deployment'[u][j] = deployment[u][j]  BY <1>1
<1>4. IsFiniteSet(Sent(u)')
      /\ Cardinality(Sent(u)') + Cardinality(Pending(u)') <= Cardinality(Generated')
  <2>1. CASE mempool' = mempool
    <3>1. Sent(u)' = Sent(u)  BY <1>1, <2>1 DEF Sent
    <3>2. Pending(u)' \subseteq Pending(u)  BY <1>1, <1>3 DEF Pending, Deploys
    <3> QED  BY <3>1, <3>2, BoundKept
  <2>2. CASE mempool' # mempool
    <3>1. PICK tx : /\ tx.contract.upload = u /\ mempool' = mempool \cup {tx}
                    /\ deployment'[u][k].pc = "over"
      BY <1>1, <2>2
    <3>2. Sent(u)' = Sent(u) \cup {tx} /\ tx \notin mempool  BY <1>1, <2>2, <3>1 DEF Sent
    <3>3. k \notin Pending(u)'  BY <3>1 DEF Pending, Deploys
    <3>4. Pending(u)' = Pending(u) \ {k}  BY <1>3, <3>3 DEF Pending, Deploys
    <3>5. IsFiniteSet(Sent(u)) /\ Cardinality(Sent(u)) \in Nat
          /\ Cardinality(Sent(u)) + Cardinality(Pending(u)) <= Cardinality(Generated)
      BY FS_CardinalityType DEF BoundInv
    <3>6. IsFiniteSet(Sent(u)') /\ Cardinality(Sent(u)') \in Nat
          /\ Cardinality(Sent(u)') <= Cardinality(Sent(u)) + 1
      <4>1. IsFiniteSet(Sent(u) \cup {tx})
            /\ Cardinality(Sent(u) \cup {tx}) =
                 IF tx \in Sent(u) THEN Cardinality(Sent(u)) ELSE Cardinality(Sent(u)) + 1
        BY <3>5, FS_AddElement
      <4> QED  BY <3>2, <3>5, <4>1
    <3>7. Cardinality(Pending(u)') = Cardinality(Pending(u)) - 1
      BY <1>1, <3>4, FinitePending, FS_RemoveElement
    <3> QED  BY <3>5, <3>6, <3>7, FinitePending, FiniteGenerated, FiniteGeneratedAfter
  <2> QED  BY <2>1, <2>2
<1> QED  BY <1>2, <1>4 DEF BoundInv

LEMMA BoundInvNext == TypeInv /\ OriginInv /\ BoundInv /\ [VNext]_vvars => BoundInv'
<1> SUFFICES ASSUME TypeInv, OriginInv, BoundInv, [VNext]_vvars PROVE BoundInv'  OBVIOUS
<1>0. Cardinality(Generated) <= Cardinality(Generated')  BY GeneratedGrows
<1>a. ASSUME \A u \in Upload : Sent(u)' = Sent(u) /\ Pending(u)' \subseteq Pending(u)
      PROVE  BoundInv'
  <2> SUFFICES ASSUME NEW u \in Upload
               PROVE  IsFiniteSet(Sent(u)')
                      /\ Cardinality(Sent(u)') + Cardinality(Pending(u)') <= Cardinality(Generated')
    BY DEF BoundInv
  <2> QED  BY <1>0, <1>a, BoundKept
<1>b. ASSUME UNCHANGED <<deployment, mempool, contracts>> PROVE BoundInv'
  BY <1>a, <1>b DEF Sent, Pending, Deploys
<1>1. CASE \E u \in Upload : uploadFile(u) \/ mv(u)
  BY <1>1, <1>b DEF uploadFile, mv, account, events
<1>2. ASSUME NEW u \in Upload, Pipeline(u) \/ Fails(u) PROVE BoundInv'
  <2>1. CASE UNCHANGED deployment  BY <1>2, <1>b, <2>1, PipelineFrame DEF events
  <2>2. CASE infoHashReady(u)  BY <1>0, <2>2, BoundInvReady
  <2> QED  BY <1>2, <2>1, <2>2, PipelineFrame
<1>3. CASE \E i \in IoT : sendIotAddress(i)
  BY <1>3, <1>b DEF sendIotAddress, account, events
<1>4. CASE \E u \in Upload, k \in Listener : Deploy(u, k) \/ deployFails(u, k)
  BY <1>0, <1>4, BoundInvDeploy
<1>5. CASE \E tx \in mempool : createContract(tx)
  <2>1. deployment' = deployment /\ mempool' \cup contracts' = mempool \cup contracts
    BY <1>5 DEF createContract
  <2> QED  BY <2>1, <1>a DEF Sent, Pending, Deploys
<1>6. CASE \E nonce \in notified : _onContractPublished(nonce)
  BY <1>6, <1>b DEF _onContractPublished, account
<1>7. CASE Restart
  <2>1. \A u \in Upload : Pending(u)' \subseteq Pending(u) /\ Sent(u)' = Sent(u)
    BY <1>7 DEF Restart, Pending, Sent, Deploys
  <2> QED  BY <2>1, <1>a
<1>8. CASE UNCHANGED vvars
  BY <1>8, <1>b DEF vvars, account, events
<1> QED  BY <1>1, <1>2, <1>3, <1>4, <1>5, <1>6, <1>7, <1>8 DEF VNext

\* A listener of infoHashReady stays when its upload is over (uploadUpdate adds one each
\* time), so an upload may be deployed by those of others too; but by each of them once:
\* it ends in no more contracts than uploads got past the generator or failed, however
\* uploads overlap and wherever the server is started again.
THEOREM ContractsPerUpload ==
    VSpec => [](\A u \in Upload :
                   Cardinality({c \in contracts : c.contract.upload = u}) <= Cardinality(Generated))
<1>1. BoundInv => \A u \in Upload :
         Cardinality({c \in contracts : c.contract.upload = u}) <= Cardinality(Generated)
  <2> SUFFICES ASSUME BoundInv, NEW u \in Upload
               PROVE  Cardinality({c \in contracts : c.contract.upload = u}) <= Cardinality(Generated)
    OBVIOUS
  <2> DEFINE C == {c \in contracts : c.contract.upload = u}
  <2>1. IsFiniteSet(Sent(u)) /\ Cardinality(Sent(u)) + Cardinality(Pending(u)) <= Cardinality(Generated)
    BY DEF BoundInv
  <2>2. C \subseteq Sent(u)  BY DEF Sent
  <2>3. Cardinality(C) <= Cardinality(Sent(u)) /\ Cardinality(C) \in Nat /\ Cardinality(Sent(u)) \in Nat
    BY <2>1, <2>2, FS_Subset, FS_CardinalityType
  <2> QED  BY <2>1, <2>3, FinitePending, FiniteGenerated
<1>2. TypeInv /\ OriginInv /\ BoundInv /\ [VNext]_vvars => TypeInv' /\ OriginInv' /\ BoundInv'
  BY TypeInvNext, OriginInvNext, BoundInvNext
<1> QED  BY <1>1, <1>2, TypeInvInit, OriginInvInit, BoundInvInit, PTL DEF VSpec

\* So until a second upload gets past the key generator or fails, each has one contract.
THEOREM FirstUploadOneContract ==
    VSpec => [](Cardinality(Generated) <= 1 => OneContractPerUpload)
<1>1. TypeInv /\ BoundInv /\ Cardinality(Generated) <= 1 => OneContractPerUpload
  <2> SUFFICES ASSUME TypeInv, BoundInv, Cardinality(Generated) <= 1,
                      NEW c \in contracts, NEW d \in contracts,
                      c.contract.upload = d.contract.upload
               PROVE  c = d
    BY DEF OneContractPerUpload
  <2> DEFINE u == c.contract.upload
  <2>1. u \in Upload  BY DEF TypeInv, EventsT, Tx, Contract
  <2>2. IsFiniteSet(Sent(u)) /\ Cardinality(Sent(u)) + Cardinality(Pending(u)) <= Cardinality(Generated)
    BY <2>1 DEF BoundInv
  <2>3. Cardinality(Sent(u)) \in Nat /\ Cardinality(Sent(u)) <= 1
    BY <2>1, <2>2, FinitePending, FiniteGenerated, FS_CardinalityType
  <2>4. {c, d} \subseteq Sent(u)  BY DEF Sent
  <2>5. IsFiniteSet({c, d}) /\ Cardinality({c, d}) <= 1
    BY <2>2, <2>3, <2>4, FS_Subset, FS_CardinalityType
  <2>6. IsFiniteSet({c}) /\ Cardinality({c}) = 1  BY FS_Singleton
  <2>7. c # d => Cardinality({c} \cup {d}) = Cardinality({c}) + 1  BY <2>6, FS_AddElement
  <2>8. {c} \cup {d} = {c, d}  OBVIOUS
  <2> QED  BY <2>5, <2>6, <2>7, <2>8
<1>2. TypeInv /\ OriginInv /\ BoundInv /\ [VNext]_vvars => TypeInv' /\ OriginInv' /\ BoundInv'
  BY TypeInvNext, OriginInvNext, BoundInvNext
<1> QED  BY <1>1, <1>2, TypeInvInit, OriginInvInit, BoundInvInit, PTL DEF VSpec
------------------------------------------------------------------------------
(* An upload that is alone: the nonce that was read is still the next.         *)

\* The count of mined transactions stays what the first call of an upload has read
\* until one of its transactions is sent, and a call that ends without an error leaves
\* one of them behind.
SendInv ==
    \A u \in Upload \ overlapped, k \in Listener :
       /\ Deploys(u, k, "send") /\ Sent(u) = {} => deployment[u][k].nonce = transactionCount
       /\ Deploys(u, k, "over") => Sent(u) # {}

LEMMA SendInvInit == VInit => SendInv
BY DEF VInit, SendInv, Deploys

\* A call that waits to send belongs to an upload that is busy.
LEMMA SendingIsBusy ==
    ASSUME NEW u \in Upload, NEW k \in Listener, Deploys(u, k, "send")
    PROVE  Busy(u)
BY DEF Busy, Over

\* Only transactions of an upload that is alone are pending while it is under way.
LEMMA AlonePending ==
    ASSUME TypeInv, OverlapInv, NEW u \in Upload \ overlapped, Busy(u)
    PROVE  \A tx \in mempool : tx.contract.upload = u
<1> SUFFICES ASSUME NEW tx \in mempool PROVE tx.contract.upload = u  OBVIOUS
<1>1. tx.contract.upload \in Upload  BY DEF TypeInv, AccountT, Tx, Contract
<1>2. Busy(tx.contract.upload)  BY DEF Busy
<1> QED  BY <1>1, <1>2, Alone

LEMMA SendInvDeploy ==
    ASSUME TypeInv, OriginInv, OverlapInv, SendInv,
           NEW u \in Upload, NEW k \in Listener, Deploy(u, k) \/ deployFails(u, k)
    PROVE  SendInv'
<1>1. UNCHANGED <<transactionCount, overlapped, contracts>>  BY DeployFrame DEF past, events
<1>2. \A v \in Upload : Sent(v) \subseteq Sent(v)'  BY SentByDeploy
<1> SUFFICES ASSUME NEW v \in Upload \ overlapped, NEW j \in Listener
             PROVE  /\ Deploys(v, j, "send")' /\ Sent(v)' = {}
                          => deployment'[v][j].nonce = transactionCount
                    /\ Deploys(v, j, "over")' => Sent(v)' # {}
  BY <1>1 DEF SendInv
<1>3. CASE <<v, j>> # <<u, k>>
  <2>1. deployment'[v][j] = deployment[v][j]  BY <1>3, DeployFrame
  <2> QED  BY <1>2, <2>1 DEF SendInv, Deploys
<1>4. CASE <<v, j>> = <<u, k>>
  <2>1. CASE deployment'[u][k].pc = "send"
    <3>1. deployment'[u][k].nonce = transactionCount  BY <2>1, DeployFrame
    <3> QED  BY <1>4, <2>1, <3>1 DEF Deploys
  <2>2. CASE deployment'[u][k].pc = "failed"  BY <1>4, <2>2 DEF Deploys
  <2>3. CASE deployment'[u][k].pc = "over"
    <3> SUFFICES ASSUME Sent(u) = {} PROVE Sent(u)' # {}
      BY <1>2, <1>4, <2>3 DEF Deploys
    <3> DEFINE tx == [nonce |-> deployment[u][k].nonce, contract |-> deployment[u][k].contract]
    <3>1. sendSignedTransaction(u, k)  BY <2>3, DeployFrame
    <3>2. Deploys(u, k, "send")  BY <3>1 DEF sendSignedTransaction
    <3>3. tx.nonce = transactionCount  BY <1>4, <3>2 DEF SendInv
    <3>4. mempool = {}
      BY <1>4, <3>2, SendingIsBusy, AlonePending DEF Sent
    <3>5. ~(tx.nonce < transactionCount)  BY <3>3 DEF TypeInv, AccountT
    <3>6. mempool' = mempool \cup {tx}
      BY <3>1, <3>4, <3>5 DEF sendSignedTransaction, Receives
    <3>7. tx.contract.upload = u  BY <3>2 DEF OriginInv, Deploys
    <3> QED  BY <3>6, <3>7 DEF Sent
  <2> QED  BY <2>1, <2>2, <2>3, DeployFrame
<1> QED  BY <1>3, <1>4

LEMMA SendInvNext ==
    TypeInv /\ OriginInv /\ OverlapInv /\ SendInv /\ [VNext]_vvars => SendInv'
<1> SUFFICES ASSUME TypeInv, OriginInv, OverlapInv, SendInv, [VNext]_vvars PROVE SendInv'
  OBVIOUS
<1>0. overlapped \subseteq overlapped'  BY uploadFileStep, BusyKept
<1>a. ASSUME UNCHANGED <<deployment, transactionCount, mempool, contracts>> PROVE SendInv'
  BY <1>0, <1>a DEF SendInv, Deploys, Sent
<1>1. CASE \E u \in Upload : uploadFile(u) \/ mv(u)
  BY <1>1, <1>a DEF uploadFile, mv, account, events
<1>2. CASE \E i \in IoT : sendIotAddress(i)
  BY <1>2, <1>a DEF sendIotAddress, account, events
<1>3. ASSUME NEW u \in Upload, Pipeline(u) \/ Fails(u) PROVE SendInv'
  <2>1. UNCHANGED <<mempool, contracts, transactionCount>>  BY <1>3, PipelineFrame DEF events
  <2>2. CASE UNCHANGED deployment  BY <2>1, <2>2, <1>a
  <2>3. CASE infoHashReady(u)
    <3>1. \A k \in Listener : ~Deploys(u, k, "send")' /\ ~Deploys(u, k, "over")'
      BY <2>3, infoHashReadyStep DEF Deploys
    <3>2. \A v \in Upload, k \in Listener : v # u => deployment'[v][k] = deployment[v][k]
      BY <2>3, infoHashReadyStep
    <3> QED  BY <1>0, <2>1, <3>1, <3>2 DEF SendInv, Deploys, Sent
  <2> QED  BY <1>3, <2>2, <2>3, PipelineFrame
<1>4. CASE \E u \in Upload, k \in Listener : Deploy(u, k) \/ deployFails(u, k)
  BY <1>4, SendInvDeploy
<1>5. ASSUME NEW tx \in mempool, createContract(tx) PROVE SendInv'
  <2>1. /\ UNCHANGED <<deployment, overlapped>> /\ mempool' \cup contracts' = mempool \cup contracts
    BY <1>5 DEF createContract, past
  <2>2. \A v \in Upload : Sent(v)' = Sent(v)  BY <2>1 DEF Sent
  <2>3. ASSUME NEW v \in Upload \ overlapped, NEW j \in Listener, Deploys(v, j, "send")
        PROVE  Sent(v) # {}
    <3>1. tx.contract.upload = v  BY <2>3, SendingIsBusy, AlonePending
    <3> QED  BY <3>1 DEF Sent
  <2> QED  BY <2>1, <2>2, <2>3 DEF SendInv, Deploys
<1>6. CASE \E nonce \in notified : _onContractPublished(nonce)
  BY <1>6, <1>a DEF _onContractPublished, account
<1>7. CASE Restart
  <2>1. \A u \in Upload, k \in Listener :
           deployment'[u][k] = NoDeployment \/ deployment'[u][k] = deployment[u][k]
    BY <1>7 DEF Restart
  <2>2. UNCHANGED <<mempool, contracts, transactionCount, overlapped>>  BY <1>7 DEF Restart
  <2> QED  BY <2>1, <2>2 DEF SendInv, Deploys, Sent
<1>8. CASE UNCHANGED vvars
  BY <1>8, <1>a DEF vvars, account, events
<1> QED  BY <1>1, <1>2, <1>3, <1>4, <1>5, <1>6, <1>7, <1>8 DEF VNext

\* When a call of deployContract ends without an error, a transaction of its upload is
\* pending or mined, if the upload has overlapped with no other: the calls made for it
\* race for one nonce, the winner's transaction is sent, and the nonce is never an old
\* one; whichever of the other calls fail, and wherever the server is started again.
THEOREM DeploymentsAreSent == VSpec => []DeploymentIsSent
<1>1. SendInv => DeploymentIsSent
  <2> SUFFICES ASSUME SendInv, NEW u \in Upload \ overlapped,
                      NEW k \in Listener, Deploys(u, k, "over")
               PROVE  \E tx \in mempool \cup contracts : tx.contract.upload = u
    BY DEF DeploymentIsSent
  <2>1. Sent(u) # {}  BY DEF SendInv
  <2> QED  BY <2>1 DEF Sent
<1>2. TypeInv /\ OriginInv /\ OverlapInv /\ SendInv /\ [VNext]_vvars
        => TypeInv' /\ OriginInv' /\ OverlapInv' /\ SendInv'
  BY TypeInvNext, OriginInvNext, OverlapInvNext, SendInvNext
<1> QED
  BY <1>1, <1>2, TypeInvInit, OriginInvInit, OverlapInvInit, SendInvInit, PTL DEF VSpec
------------------------------------------------------------------------------
(* The devices of a package and of its contract.                               *)

\* The devices in the package are in the contract, and are all of them if none can
\* register meanwhile.
Agree(package, devices) ==
    /\ package.iotAddresses \subseteq devices
    /\ Register = FALSE => package.iotAddresses = devices

AgreedContract(c) == Agree(c.package, c.iotAddresses)

DevicesInv ==
    /\ iotAddresses \subseteq iot_addresses
    /\ Register = FALSE => iotAddresses = iot_addresses
    /\ \A u \in Upload : At(u, "seed") => Agree(wrappingPackage, iot_addresses)
    /\ \A u \in Upload : At(u, "ready") => Agree(upload[u].package, iot_addresses)
    /\ \A u \in Upload, k \in Listener :
          deployment[u][k] # NoDeployment => AgreedContract(deployment[u][k].contract)
    /\ \A tx \in mempool \cup contracts : AgreedContract(tx.contract)

LEMMA DevicesInvInit == VInit => DevicesInv
BY DEF VInit, DevicesInv, At

LEMMA DevicesInvPipeline ==
    ASSUME TypeInv, DevicesInv, NEW u \in Upload, Pipeline(u) \/ Fails(u)
    PROVE  DevicesInv'
<1>0. /\ upload \in [Upload -> Progressing]
      /\ deployment \in [Upload -> [Listener -> Call \cup {NoDeployment}]]
  BY DEF TypeInv, PipelineT, AccountT
<1>1. UNCHANGED <<iotAddresses, iot_addresses, mempool, contracts>>
  BY PipelineFrame DEF web, events
<1>2. \A v \in Upload : v # u => upload'[v] = upload[v]
  BY PipelineFrame
<1> USE DEF DevicesInv, At
<1>3. CASE writeFile(u)
  <2>1. upload'[u].pc = "seed"  BY <1>0, <1>3 DEF writeFile, Progressing
  <2>2. wrappingPackage'.iotAddresses = iotAddresses /\ deployment' = deployment
    BY <1>3 DEF writeFile, packageOf, account
  <2>3. Agree(wrappingPackage', iot_addresses)  BY <2>2 DEF Agree
  <2> QED  BY <1>1, <1>2, <2>1, <2>2, <2>3
<1>4. CASE seed(u)
  <2>1. upload'[u].pc = "ready" /\ upload'[u].package = wrappingPackage
    BY <1>0, <1>4 DEF seed, Progressing
  <2>2. wrappingPackage' = wrappingPackage /\ deployment' = deployment
        /\ Agree(wrappingPackage, iot_addresses)
    BY <1>4 DEF seed, account
  <2> QED  BY <1>1, <1>2, <2>1, <2>2
<1>5. CASE infoHashReady(u)
  <2> DEFINE contract == [upload |-> u, package |-> upload[u].package,
                          fileHash |-> upload[u].infoHash, iotAddresses |-> iot_addresses]
  <2>1. upload'[u].pc = "done" /\ wrappingPackage' = wrappingPackage
    BY <1>0, <1>5 DEF infoHashReady, Progressing
  <2>2. AgreedContract(contract)
    <3>1. Agree(upload[u].package, iot_addresses)  BY <1>5 DEF infoHashReady
    <3> QED  BY <3>1 DEF AgreedContract
  <2> HIDE DEF contract
  <2>3. ASSUME NEW v \in Upload, NEW k \in Listener, deployment'[v][k] # NoDeployment
        PROVE  AgreedContract(deployment'[v][k].contract)
    <3>1. \/ deployment'[v][k] = [pc |-> "nonce", nonce |-> -1, contract |-> contract]
          \/ deployment'[v][k] = deployment[v][k]
      BY <1>0, <1>5, <2>3 DEF infoHashReady, contract
    <3> QED  BY <2>2, <2>3, <3>1
  <2> QED  BY <1>1, <1>2, <2>1, <2>3
<1>6. CASE readFile(u) \/ gen(u) \/ createTorrent(u) \/ Fails(u)
  <2>1. upload'[u].pc \notin {"seed", "ready"}
    <3>1. CASE readFile(u)  BY <1>0, <3>1 DEF readFile, Progressing
    <3>2. CASE gen(u)  BY <1>0, <3>2 DEF gen, Progressing
    <3>3. CASE createTorrent(u)  BY <1>0, <3>3 DEF createTorrent, Progressing
    <3>4. CASE Fails(u)
      BY <1>0, <3>4 DEF Fails, uploadFileFails, createTorrentFails, Progressing
    <3> QED  BY <1>6, <3>1, <3>2, <3>3, <3>4
  <2>2. wrappingPackage' = wrappingPackage /\ deployment' = deployment
    BY <1>6 DEF readFile, gen, createTorrent, Fails, uploadFileFails, createTorrentFails, account
  <2> QED  BY <1>1, <1>2, <2>1, <2>2
<1> QED  BY <1>3, <1>4, <1>5, <1>6 DEF Pipeline

LEMMA DevicesInvNext == TypeInv /\ DevicesInv /\ [VNext]_vvars => DevicesInv'
<1> SUFFICES ASSUME TypeInv, DevicesInv, [VNext]_vvars PROVE DevicesInv'  OBVIOUS
<1>0. upload \in [Upload -> Progressing]  BY DEF TypeInv, PipelineT
<1> USE DEF DevicesInv, At
<1>a. ASSUME UNCHANGED <<iot_addresses, iotAddresses, upload, wrappingPackage,
                         deployment, mempool, contracts>>
      PROVE  DevicesInv'
  BY <1>a
<1>1. ASSUME NEW u \in Upload, uploadFile(u) PROVE DevicesInv'
  <2>1. \A v \in Upload : upload'[v] = IF v = u THEN [upload[u] EXCEPT !.pc = "read"] ELSE upload[v]
    BY <1>0, <1>1 DEF uploadFile
  <2>2. upload'[u].pc = "read"  BY <1>0, <2>1 DEF Progressing
  <2> QED  BY <1>1, <2>1, <2>2 DEF uploadFile, account, events
<1>2. CASE \E u \in Upload : mv(u)
  BY <1>2, <1>a DEF mv, pipeline, account, events
<1>3. CASE \E u \in Upload : Pipeline(u) \/ Fails(u)
  BY <1>3, DevicesInvPipeline
<1>4. CASE \E i \in IoT : sendIotAddress(i)
  <2>1. Register /\ iot_addresses \subseteq iot_addresses'
        /\ UNCHANGED <<iotAddresses, upload, wrappingPackage, deployment, mempool, contracts>>
    BY <1>4 DEF sendIotAddress, pipeline, account, events
  <2>2. \A p : Agree(p, iot_addresses) => Agree(p, iot_addresses')
    BY <2>1 DEF Agree
  <2> QED  BY <2>1, <2>2
<1>5. ASSUME NEW u \in Upload, NEW k \in Listener, Deploy(u, k) \/ deployFails(u, k)
      PROVE  DevicesInv'
  <2>0. deployment[u][k] # NoDeployment  BY <1>5, DeployFrame DEF Deploys
  <2>1. /\ UNCHANGED <<iot_addresses, iotAddresses, upload, wrappingPackage, contracts>>
        /\ \A v \in Upload, j \in Listener : <<v, j>> # <<u, k>> => deployment'[v][j] = deployment[v][j]
        /\ deployment'[u][k].contract = deployment[u][k].contract
    BY <1>5, DeployFrame DEF web, pipeline, events
  <2>2. AgreedContract(deployment[u][k].contract)  BY <2>0
  <2>3. ASSUME NEW v \in Upload, NEW j \in Listener, deployment'[v][j] # NoDeployment
        PROVE  AgreedContract(deployment'[v][j].contract)
    <3>1. CASE v = u /\ j = k
      <4>1. deployment'[u][k].contract = deployment[u][k].contract  BY <2>1
      <4> QED  BY <2>2, <3>1, <4>1
    <3>2. CASE ~(v = u /\ j = k)
      <4>1. deployment'[v][j] = deployment[v][j]  BY <2>1, <3>2
      <4> QED  BY <2>3, <4>1
    <3> QED  BY <3>1, <3>2
  <2>4. \A tx \in mempool' : tx \in mempool \/ tx.contract = deployment[u][k].contract
    BY <1>5, DeployFrame
  <2> QED  BY <2>1, <2>2, <2>3, <2>4
<1>6. CASE \E tx \in mempool : createContract(tx)
  <2>1. UNCHANGED <<iot_addresses, iotAddresses, upload, wrappingPackage, deployment>>
    BY <1>6 DEF createContract, web, pipeline
  <2>2. mempool' \cup contracts' = mempool \cup contracts  BY <1>6 DEF createContract
  <2> QED  BY <2>1, <2>2
<1>7. CASE \E nonce \in notified : _onContractPublished(nonce)
  BY <1>7, <1>a DEF _onContractPublished, web, pipeline, account
<1>8. CASE Restart
  <2>1. \A u \in Upload : upload'[u].pc \in {"idle", "done", "failed"}
    BY <1>0, <1>8 DEF Restart, Over, Progressing
  <2>2. \A u \in Upload, k \in Listener :
           deployment'[u][k] = NoDeployment \/ deployment'[u][k] = deployment[u][k]
    BY <1>8 DEF Restart
  <2>3. iotAddresses' = iot_addresses' /\ UNCHANGED <<mempool, contracts>>  BY <1>8 DEF Restart
  <2> QED  BY <2>1, <2>2, <2>3
<1>9. CASE UNCHANGED vvars
  BY <1>9, <1>a DEF vvars, web, pipeline, account, events
<1> QED  BY <1>1, <1>2, <1>3, <1>4, <1>5, <1>6, <1>7, <1>8, <1>9 DEF VNext

\* Every device in a package is in its contract, whenever devices register, uploads
\* overlap or the server is started again.
THEOREM PackagesWithinContracts == VSpec => []PackageWithinContract
<1>1. DevicesInv => PackageWithinContract
  BY DEF DevicesInv, AgreedContract, Agree, PackageWithinContract, Published
<1> QED  BY <1>1, TypeInvInit, TypeInvNext, DevicesInvInit, DevicesInvNext, PTL DEF VSpec

\* A package is for the devices of its contract, so distributors serve it, if no device
\* registers while the server runs: a registration is all that can part them.
THEOREM PackagesMatchContracts ==
    ASSUME Register = FALSE
    PROVE  VSpec => []PackageMatchesContract
<1>1. DevicesInv => PackageMatchesContract
  BY DEF DevicesInv, AgreedContract, Agree, PackageMatchesContract, Published
<1> QED  BY <1>1, TypeInvInit, TypeInvNext, DevicesInvInit, DevicesInvNext, PTL DEF VSpec
=============================================================================

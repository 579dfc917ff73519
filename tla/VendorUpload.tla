---------------------------- MODULE VendorUpload ----------------------------
(***************************************************************************)
(* The vendor's pipeline from an uploaded file to a published contract:    *)
(* the web server (Vendor/index.js), uploadFile (Vendor.js), uploadUpdate  *)
(* (VendorWebtorrentClient.js) and deployContract (VendorEthereumClient.js)*)
(*                                                                         *)
(* An upload runs through callbacks and awaits, and shares with the other  *)
(* uploads the files updateFile and wrappingPackage.json, one event        *)
(* emitter, and the nonces of the vendor's account.  Uploads may overlap,  *)
(* and each may fail at several points.  A hash stands for what was hashed.*)
(***************************************************************************)
EXTENDS Integers, FiniteSets

CONSTANTS
    IoT,              \* addresses of devices
    File,             \* contents of update files
    Upload,           \* requests to /uploadFile
    contentOf,        \* by upload: the file that comes with the request
    OldFile,          \* what updateFile holds before the first one
    Partial,          \* what a read of a file that is being written returns
    utf8,             \* by file: what it is after it was read as UTF-8
    Long,             \* the files of more than MAX_UPDATE_SIZE bytes
    OldDevices,       \* iot_addresses in the configuration file at the start
    NoPackage,        \* wrappingPackage.json before the first upload
    NoDeployment,     \* a call of deployContract that does not exist
    Register,         \* devices may register while the server runs
    Meanwhile,        \* bound: where other uploads may be when one is called
    MaxRestarts       \* bound: restarts of the vendor's server

\* The stages of an upload.
Stage == {"idle", "read", "gen", "torrent", "package", "seed", "ready", "done", "failed"}

ASSUME VendorOK ==
    /\ IsFiniteSet(Upload)
    /\ contentOf \in [Upload -> File]
    /\ {OldFile, Partial} \subseteq File
    /\ utf8 \in [File -> File]
    /\ Long \subseteq File
    /\ OldDevices \subseteq IoT
    /\ Register \in BOOLEAN
    /\ Meanwhile \subseteq Stage
    /\ MaxRestarts \in Nat

VARIABLES
    updateFile,       \* the file that index.js stores
    moving,           \* the uploads whose mv has not finished
    iot_addresses,    \* in the configuration file
    iotAddresses,     \* vendor.iotAddresses, read by the constructor
    upload,           \* by upload: how far it is, and what it has read
    wrappingPackage,  \* the file wrappingPackage.json
    seeding,          \* packages that can be downloaded from the vendor's WebTorrent client
    listeners,        \* listeners of infoHashReady on the shared emitter
    deployment,       \* by upload and listener: its call of deployContract
    listening,        \* deployContract has subscribed to ContractPublished
    transactionCount, \* of the vendor's account
    mempool,          \* transactions sent and not mined
    contracts,        \* the contracts that were created
    notified,         \* those whose ContractPublished was under way to the vendor
    subscribed,       \* those whose KeyRevealed events the vendor subscribed to
    restarts,         \* times that the server was started again
    overlapped        \* history: the uploads that another one has overlapped with

web == <<updateFile, moving, iot_addresses>>
pipeline == <<upload, wrappingPackage, seeding, listeners>>
account == <<deployment, listening, transactionCount, mempool>>
events == <<contracts, notified, subscribed>>
past == <<restarts, overlapped>>
vvars == <<web, iotAddresses, pipeline, account, events, past>>

\* The info hash of a torrent made from content under a name, the SHA-256 of file.
\* The keys in a package were generated for an upload, and for a file of some length.
InfoHash == [content : File, name : File]
Package == [file : File, keysOf : Upload, keysFor : File, infoHash : InfoHash,
            iotAddresses : SUBSET IoT]
Contract == [upload : Upload, package : Package, fileHash : InfoHash, iotAddresses : SUBSET IoT]

Listener == 1..Cardinality(Upload)

VTypeOK ==
    /\ updateFile \in File
    /\ moving \subseteq Upload
    /\ {iot_addresses, iotAddresses} \subseteq SUBSET IoT
    /\ \A u \in Upload :
          /\ upload[u].pc \in Stage
          /\ {upload[u].keysFor, upload[u].file} \subseteq File
          /\ upload[u].early \subseteq {"keys", "file"}
          /\ upload[u].infoHash \in InfoHash
          /\ upload[u].package \in Package \cup {NoPackage}
    /\ wrappingPackage \in Package \cup {NoPackage}
    /\ seeding \subseteq Package
    /\ listeners \in Listener \cup {0}
    /\ \A u \in Upload, k \in Listener : deployment[u][k] # NoDeployment =>
          /\ deployment[u][k].pc \in {"nonce", "send", "over", "failed"}
          /\ deployment[u][k].contract \in Contract
    /\ listening \in BOOLEAN
    /\ transactionCount \in Nat
    /\ \A tx \in mempool : tx.nonce \in Nat /\ tx.contract \in Contract
    /\ notified \cup subscribed \subseteq {c.nonce : c \in contracts}
    /\ restarts \in 0..MaxRestarts
    /\ overlapped \subseteq Upload

VInit ==
    /\ updateFile = OldFile
    /\ moving = {}
    /\ iot_addresses = OldDevices
    /\ iotAddresses = OldDevices
    /\ upload = [u \in Upload |->
                   [pc |-> "idle", keysFor |-> OldFile, file |-> OldFile, early |-> {},
                    infoHash |-> [content |-> OldFile, name |-> OldFile],
                    package |-> NoPackage]]
    /\ wrappingPackage = NoPackage
    /\ seeding = {}
    /\ listeners = 0
    /\ deployment = [u \in Upload |-> [k \in Listener |-> NoDeployment]]
    /\ listening = FALSE
    /\ transactionCount = 0
    /\ mempool = {}
    /\ contracts = {} /\ notified = {} /\ subscribed = {}
    /\ restarts = 0
    /\ overlapped = {}

------------------------------------------------------------------------------
\* At says where upload u is, Deploys where its call of deployContract made by
\* listener k is.
At(u, pc) == upload[u].pc = pc
Deploys(u, k, pc) == deployment[u][k] # NoDeployment /\ deployment[u][k].pc = pc

\* The server has nothing left to do for the upload.
Over(u) ==
    /\ upload[u].pc \in {"idle", "done", "failed"}
    /\ \A k \in Listener : ~Deploys(u, k, "nonce") /\ ~Deploys(u, k, "send")

\* Something of the upload is still under way: in the server or on the chain.
Busy(u) ==
    \/ u \in moving
    \/ ~Over(u)
    \/ \E tx \in mempool : tx.contract.upload = u

------------------------------------------------------------------------------
\* The web server

\* POST /uploadFile starts to store the file and calls uploadFile at once; nothing
\* keeps it from doing so while another upload is under way.
uploadFile(u) ==
    /\ At(u, "idle")
    /\ \A v \in Upload : upload[v].pc \in Meanwhile
    /\ moving' = moving \cup {u}
    /\ upload' = [upload EXCEPT ![u].pc = "read"]
    /\ LET busy == {v \in Upload : Busy(v)}
       IN  overlapped' = IF busy = {} THEN overlapped ELSE overlapped \cup busy \cup {u}
    /\ UNCHANGED <<updateFile, iot_addresses, iotAddresses, wrappingPackage, seeding,
                   listeners, account, events, restarts>>

mv(u) ==
    /\ u \in moving
    /\ moving' = moving \ {u}
    /\ updateFile' = contentOf[u]
    /\ UNCHANGED <<iot_addresses, iotAddresses, pipeline, account, events, past>>

\* Mutant: the list is written anew.
sendIotAddress_anew(i) ==
    /\ Register
    /\ i \notin iot_addresses
    /\ iot_addresses' = {i}
    /\ UNCHANGED <<updateFile, moving, iotAddresses, pipeline, account, events, past>>

\* POST /sendIotAddress reads and writes the configuration file in one step.
sendIotAddress(i) ==
    /\ Register
    /\ i \notin iot_addresses
    /\ iot_addresses' = iot_addresses \cup {i}
    /\ UNCHANGED <<updateFile, moving, iotAddresses, pipeline, account, events, past>>

------------------------------------------------------------------------------
\* uploadFile and uploadUpdate

\* What a read of updateFile may return: its content, or while a file is moved there
\* what has been written of that one.
Reads == {updateFile} \cup (IF moving = {} THEN {} ELSE {Partial})

\* What is read while the upload's own file is not stored yet is read too early.
Reading(u, what) == IF u \in moving THEN upload[u].early \cup {what} ELSE upload[u].early

\* uploadFile reads the file for its length, and asks for keys of that size.
readFile(u) ==
    /\ At(u, "read")
    /\ \E file \in Reads :
          upload' = [upload EXCEPT ![u].pc = "gen", ![u].keysFor = file,
                                   ![u].early = Reading(u, "keys")]
    /\ UNCHANGED <<web, iotAddresses, wrappingPackage, seeding, listeners, account, events, past>>

\* readFile fails, or the generator rejects: the length is too large, or gen.x86_64
\* ends with an error.
uploadFileFails(u) ==
    /\ At(u, "read") \/ At(u, "gen")
    /\ upload' = [upload EXCEPT ![u].pc = "failed"]
    /\ UNCHANGED <<web, iotAddresses, wrappingPackage, seeding, listeners, account, events, past>>

\* Mutant: no listener is added.
gen_no_listener(u) ==
    /\ At(u, "gen")
    /\ upload[u].keysFor \notin Long
    /\ \E file \in Reads :
          upload' = [upload EXCEPT ![u].pc = "torrent", ![u].file = utf8[file],
                                   ![u].early = Reading(u, "file")]
    /\ UNCHANGED <<web, iotAddresses, wrappingPackage, seeding, listeners, account, events, past>>

\* The keys are there: uploadUpdate reads the file again, as text, starts
\* createTorrent and returns, and a listener of infoHashReady is added.
gen(u) ==
    /\ At(u, "gen")
    /\ upload[u].keysFor \notin Long
    /\ \E file \in Reads :
          upload' = [upload EXCEPT ![u].pc = "torrent", ![u].file = utf8[file],
                                   ![u].early = Reading(u, "file")]
    /\ listeners' = listeners + 1
    /\ UNCHANGED <<web, iotAddresses, wrappingPackage, seeding, account, events, past>>

\* Mutant: what is passed on is the torrent and not its info hash.
createTorrent_unparsed(u) ==
    /\ At(u, "torrent")
    /\ upload' = [upload EXCEPT ![u].pc = "package", ![u].infoHash = updateFile]
    /\ UNCHANGED <<web, iotAddresses, wrappingPackage, seeding, listeners, account, events, past>>

\* createTorrent reads the file a third time, as bytes; the name is the hash of the text.
createTorrent(u) ==
    /\ At(u, "torrent")
    /\ \E file \in Reads :
          upload' = [upload EXCEPT ![u].pc = "package",
                                   ![u].infoHash = [content |-> file, name |-> upload[u].file]]
    /\ UNCHANGED <<web, iotAddresses, wrappingPackage, seeding, listeners, account, events, past>>

\* An error of createTorrent is dropped, one of the read before it is a rejected
\* promise that nobody awaits: the upload ends and leaves its listener behind.
createTorrentFails(u) ==
    /\ At(u, "torrent")
    /\ upload' = [upload EXCEPT ![u].pc = "failed"]
    /\ UNCHANGED <<web, iotAddresses, wrappingPackage, seeding, listeners, account, events, past>>

\* The wrapping package of an upload.
packageOf(u) ==
    [file |-> upload[u].file, keysOf |-> u, keysFor |-> upload[u].keysFor,
     infoHash |-> upload[u].infoHash, iotAddresses |-> iotAddresses]

\* Mutant: the package is not on disk yet when seeding starts.
writeFile_late(u) ==
    /\ At(u, "package")
    /\ upload' = [upload EXCEPT ![u].pc = "seed"]
    /\ wrappingPackage' = IF wrappingPackage = NoPackage THEN packageOf(u) ELSE wrappingPackage
    /\ UNCHANGED <<web, iotAddresses, seeding, listeners, account, events, past>>

\* The callback of createTorrent signs, and writes the wrapping package over the one
\* before, which was served from this file.
writeFile(u) ==
    /\ At(u, "package")
    /\ upload' = [upload EXCEPT ![u].pc = "seed"]
    /\ wrappingPackage' = packageOf(u)
    /\ seeding' = {}
    /\ UNCHANGED <<web, iotAddresses, listeners, account, events, past>>

\* client.seed reads the package from the disk, and serves it from there.
seed(u) ==
    /\ At(u, "seed")
    /\ upload' = [upload EXCEPT ![u].pc = "ready", ![u].package = wrappingPackage]
    /\ seeding' = {wrappingPackage}
    /\ UNCHANGED <<web, iotAddresses, wrappingPackage, listeners, account, events, past>>

\* 'infoHashReady': every listener that was ever added calls deployContract, with
\* the devices that are in the configuration file now.
infoHashReady(u) ==
    /\ At(u, "ready")
    /\ upload' = [upload EXCEPT ![u].pc = "done"]
    /\ deployment' = [deployment EXCEPT ![u] = [k \in Listener |->
          IF k <= listeners
          THEN [pc |-> "nonce", nonce |-> -1,
                contract |-> [upload |-> u, package |-> upload[u].package,
                              fileHash |-> upload[u].infoHash, iotAddresses |-> iot_addresses]]
          ELSE NoDeployment]]
    /\ UNCHANGED <<web, iotAddresses, wrappingPackage, seeding, listeners,
                   listening, transactionCount, mempool, events, past>>

------------------------------------------------------------------------------
\* deployContract

\* Mutants: the nonce of the first transaction is kept; the nonce is one too high.
getTransactionCount_kept(u, k) ==
    /\ Deploys(u, k, "nonce")
    /\ deployment' = [deployment EXCEPT ![u][k].pc = "send", ![u][k].nonce = 0]
    /\ UNCHANGED <<web, iotAddresses, pipeline, listening, transactionCount, mempool, events, past>>

getTransactionCount_next(u, k) ==
    /\ Deploys(u, k, "nonce")
    /\ deployment' = [deployment EXCEPT ![u][k].pc = "send", ![u][k].nonce = transactionCount + 1]
    /\ UNCHANGED <<web, iotAddresses, pipeline, listening, transactionCount, mempool, events, past>>

\* The transactions that are pending do not count.
getTransactionCount(u, k) ==
    /\ Deploys(u, k, "nonce")
    /\ deployment' = [deployment EXCEPT ![u][k].pc = "send", ![u][k].nonce = transactionCount]
    /\ UNCHANGED <<web, iotAddresses, pipeline, listening, transactionCount, mempool, events, past>>

\* What the node does with a transaction: its nonce may be mined or pending already.
Receives(tx) ==
    mempool' = IF tx.nonce < transactionCount \/ \E other \in mempool : other.nonce = tx.nonce
               THEN mempool ELSE mempool \cup {tx}

\* deployContract subscribes to ContractPublished and sends its transaction.  The
\* promise is for the receipt; what is made of it, or of the error, is only printed.
sendSignedTransaction(u, k) ==
    /\ Deploys(u, k, "send")
    /\ listening' = TRUE
    /\ Receives([nonce |-> deployment[u][k].nonce, contract |-> deployment[u][k].contract])
    /\ deployment' = [deployment EXCEPT ![u][k].pc = "over", ![u][k].nonce = -1]
    /\ UNCHANGED <<web, iotAddresses, pipeline, transactionCount, events, past>>

\* The catch: the nonce is not answered, estimateGas rejects (the account does not
\* cover the deposit), another request fails, or the node is gone when the transaction
\* is sent, before or after the subscription.  Nothing is sent and nothing tried again.
deployFails(u, k) ==
    /\ \/ Deploys(u, k, "nonce") /\ UNCHANGED listening
       \/ Deploys(u, k, "send") /\ listening' \in {listening, TRUE}
    /\ deployment' = [deployment EXCEPT ![u][k].pc = "failed", ![u][k].nonce = -1]
    /\ UNCHANGED <<web, iotAddresses, pipeline, transactionCount, mempool, events, past>>

\* createContract of the factory contract.
createContract(tx) ==
    /\ tx.nonce = transactionCount
    /\ mempool' = mempool \ {tx}
    /\ transactionCount' = transactionCount + 1
    /\ contracts' = contracts \cup {tx}
    /\ notified' = IF listening THEN notified \cup {tx.nonce} ELSE notified
    /\ UNCHANGED <<web, iotAddresses, pipeline, deployment, listening, subscribed, past>>

\* Mutant: the event is waited for once.
_onContractPublished_once(nonce) ==
    /\ nonce \in notified \ subscribed
    /\ subscribed = {}
    /\ subscribed' = subscribed \cup {nonce}
    /\ UNCHANGED <<web, iotAddresses, pipeline, account, contracts, notified, past>>

_onContractPublished(nonce) ==
    /\ nonce \in notified \ subscribed
    /\ subscribed' = subscribed \cup {nonce}
    /\ UNCHANGED <<web, iotAddresses, pipeline, account, contracts, notified, past>>

------------------------------------------------------------------------------
\* The server stops, at any point, and is started again: what callbacks, listeners
\* and subscriptions it had is gone and nothing is resumed or seeded.  Uploads that
\* were not over have failed; of the others the calls that ended are kept.  The files
\* and the transactions that were sent are still there, a file that was being moved
\* in part, and the constructor reads the devices from the configuration file.  An
\* exception in a callback stops the server too: a package that cannot be written or
\* seeded, or an mv that fails and answers the request a second time.
Restart ==
    /\ restarts < MaxRestarts
    /\ restarts' = restarts + 1
    /\ moving' = {}
    /\ updateFile' \in Reads
    /\ iotAddresses' = iot_addresses
    /\ upload' = [u \in Upload |->
          IF Over(u) THEN upload[u] ELSE [upload[u] EXCEPT !.pc = "failed"]]
    /\ seeding' = {}
    /\ listeners' = 0
    /\ deployment' = [u \in Upload |-> [k \in Listener |->
          IF Over(u) THEN deployment[u][k] ELSE NoDeployment]]
    /\ listening' = FALSE
    /\ notified' = {} /\ subscribed' = {}
    /\ UNCHANGED <<iot_addresses, wrappingPackage, transactionCount, mempool, contracts, overlapped>>

------------------------------------------------------------------------------
Pipeline(u) ==
    \/ readFile(u)
    \/ gen(u)
    \/ createTorrent(u)
    \/ writeFile(u)
    \/ seed(u)
    \/ infoHashReady(u)

Deploy(u, k) == getTransactionCount(u, k) \/ sendSignedTransaction(u, k)

Fails(u) == uploadFileFails(u) \/ createTorrentFails(u)

VNext ==
    \/ \E u \in Upload : uploadFile(u) \/ mv(u) \/ Pipeline(u) \/ Fails(u)
    \/ \E i \in IoT : sendIotAddress(i)
    \/ \E u \in Upload, k \in Listener : Deploy(u, k) \/ deployFails(u, k)
    \/ \E tx \in mempool : createContract(tx)
    \/ \E nonce \in notified : _onContractPublished(nonce)
    \/ Restart

VSpec == VInit /\ [][VNext]_vvars

\* Node's event loop runs every callback and continuation, and miners mine.  Each
\* upload takes finitely many of these steps, so that none of them is passed over for
\* ever as long as some are taken.
Progress ==
    \/ \E u \in Upload : mv(u) \/ Pipeline(u)
    \/ \E u \in Upload, k \in Listener : Deploy(u, k)
    \/ \E tx \in mempool : createContract(tx)
    \/ \E nonce \in notified : _onContractPublished(nonce)

VFairness == WF_vvars(Progress)

VFairSpec == VSpec /\ VFairness

------------------------------------------------------------------------------
Published == {c.contract : c \in contracts}

\* What c says of its upload: the file and its hashes are those of what was uploaded,
\* read as bytes in the contract and as text in the package; the keys are its own, and
\* for its file unless it was read too early for that; and the package is seeded, until
\* a restart or until the file that it is served from is written anew.
Describes(c) ==
    LET file == contentOf[c.upload]
    IN  /\ c.package.file = utf8[file]
        /\ c.fileHash = [content |-> file, name |-> utf8[file]]
        /\ c.package.infoHash = c.fileHash
        /\ c.package.keysOf = c.upload
        /\ "keys" \notin upload[c.upload].early => c.package.keysFor = file
        /\ restarts = 0 /\ wrappingPackage = c.package => c.package \in seeding

\* README.md line 5: a vendor "uploads the update via our webApp, and publishes
\* Ethereum smart contract".  A contract is for the file of its upload, although the
\* pipeline reads updateFile three times and the package goes through a file that all
\* uploads share, and wherever a restart or an error cuts uploads short.  It takes
\* either another upload under way at the same time, or a file that is not stored when
\* its keys have been generated, to break this: nothing in the code keeps them out.
ContractDescribesUpload ==
    \A c \in Published :
        c.upload \notin overlapped /\ "file" \notin upload[c.upload].early => Describes(c)

PastGenerator(u) == upload[u].pc \in {"torrent", "package", "seed", "ready", "done"}

\* All calls of deployContract made for the upload ran into an error.
NotDeployed(u) ==
    /\ \E k \in Listener : Deploys(u, k, "failed")
    /\ \A k \in Listener : deployment[u][k] # NoDeployment => Deploys(u, k, "failed")

\* An upload that got past the key generator ends in a contract, after a restart too,
\* and whatever the race between listeners.  What ends it without one, silently, is an
\* error of createTorrent or a restart before it is over (it has failed then), an error
\* in every call of deployContract made for it, or another upload at the same time.
UploadIsPublished ==
    []<>(\A u \in Upload \ overlapped :
            PastGenerator(u) /\ ~NotDeployed(u) => \E c \in Published : c.upload = u)

\* No contract whose creation the vendor waits for is created unnoticed: as long as it
\* waits, all that was sent is mined in the end, and the vendor subscribes to the
\* KeyRevealed events of every contract mined since.
EveryContractIsWatched == []<>(listening => mempool = {} /\ notified \subseteq subscribed)

\* Nonces are those of mined transactions (VendorEthereumClient.js line 39), and a
\* listener too many lets two calls of deployContract race.  What the node accepts is
\* nevertheless the next transaction to be mined, and the only one: no gap in the
\* nonces ever stops the account, and the loser of a race is dropped.
OneTransactionPending ==
    \A tx \in mempool : tx.nonce = transactionCount /\ \A other \in mempool : other = tx

\* An upload is not lost in such a race: when its calls of deployContract have all
\* ended, and one of them without an error, a transaction of the upload is on its way or
\* mined; unless it raced with the calls for another upload.
DeploymentIsSent ==
    \A u \in Upload \ overlapped :
        (\E k \in Listener : Deploys(u, k, "over"))
        => \E tx \in mempool \cup contracts : tx.contract.upload = u

\* README.md line 48: "each time a vendor releases new patch update, a
\* corresponding Ethereum smart contract is being created".
OneContractPerUpload == \A c, d \in contracts : c.contract.upload = d.contract.upload => c = d

\* Distributor.js lines 42 to 50: the devices in the wrapping package are the
\* devices of the contract, or no distributor serves the update.
PackageMatchesContract == \A c \in Published : c.package.iotAddresses = c.iotAddresses

\* The devices of a package are those that the constructor read (Vendor.js line 19), the
\* devices of its contract are read again for each upload (line 45).  They part in one
\* direction only: a contract pays for every device that its package is for.
PackageWithinContract == \A c \in Published : c.package.iotAddresses \subseteq c.iotAddresses
==============================================================================

# IoTPatchPool: TLA+ models, model checking and proofs

IoTPatchPool delivers a vendor's software update to devices through
distributors that are paid by an Ethereum contract. A distributor downloads the
update from the vendor over BitTorrent, sends it to each device encrypted under a
fresh key, together with a zero-knowledge proof that the cipher text is the
update, gets a signed proof of distribution back, commits to the key in the
contract and then reveals it there: the reveal pays the distributor and gives the
device its key. This directory holds TLA+ models of that system, TLC
configurations that check them on small instances, and TLAPS proofs of their
main properties. Line numbers refer to the files below `src/`.

## The system

| Part | State | Operations | Talks to |
|---|---|---|---|
| IotPC contract (`Files/Contracts/IotPC.sol` 4-106) | `iot_devices`, `_num_of_updated_objects`, its balance, the event log | constructor, fallback, `commit`, `reveal`, `withdraw_funds` | called by accounts; events to devices and vendor |
| IotPCFactory (`IotPC.sol` 108-117) | none | `createContract` | called by the vendor; `ContractPublished` to all |
| Distributor, Ethereum client (`Distributor/DistributorEthereumClient.js`) | `currentNonce`, attribute `contract` of the configuration file | `commit`, `reveal`, `_getNonce`, `_onContractPublished` | the contract, through a node |
| Distributor, exchange (`Distributor.js`, `DistributorZkcpBittorrentExtensionClient.js`) | `iotAddressesHistory`, per wire: challenge, `r`, `s` | `_onWrappingPackageTorrentDone`, `_onChallengeSignature`, `_sendFile`, `_onProofOfDistribution` | devices over wires; starts `commit` |
| Device, exchange (`IoT/IoT.js`, `IoTZkcpBittorrentExtensionClient.js`) | torrents, `keysHashes`, files | `_onNewUpdate`, `_onChallenge`, `_onFile`, `_onEncryptedFile` | distributors over wires |
| Device, Ethereum client (`IoT/IoTEthereumClient.js`) | `eventsTxHashes` | `_onContractPublished`, `_onKeyRevealed` | the chain's events |
| Vendor, pipeline (`Vendor/Vendor.js`, `VendorWebtorrentClient.js`, `VendorZkcpGenerator.js`) | `updateFile`, `wrappingPackage.json`, `iotAddresses`, listeners of `infoHashReady` | `uploadFile`, `uploadUpdate` | the web server; BitTorrent; `deployContract` |
| Vendor, Ethereum client (`Vendor/VendorEthereumClient.js`) | `eventsTxHashes`, subscriptions | `deployContract`, `_onContractPublished`, `_onKeyRevealed` | factory and contracts |
| Vendor, web server (`Vendor/index.js`) | configuration file, one WebSocket connection | `POST /uploadFile`, `POST /sendIotAddress`, `GET /Map`, `GET /getIoTAddresses`, forwarding of events | the pipeline; pages |
| Web page with the map (`Vendor/WebPages/JS/screen2.js`, `KBmapmarkers.js`) | per tab: counter, `currentJson`, markers and their elements | callbacks of the request, `onmessage`, `newUpdate` | the web server |
| Utils, Setup, configuration generators, deployment, manual tests | | | see *Not modelled* |

All three programs are single-threaded Node.js processes: what happens between
two awaits or callbacks is one step, and everything else interleaves. What is
hard here:

- **awaits**: `commit` and `reveal` give up the event loop five times each, and
  all jobs of a distributor share one nonce counter; the device awaits the
  verifier between the file and its proof of distribution, and then the disk;
- **several parties and one contract**: rivals commit for the same device,
  windows and deadlines open and close with block time;
- **connections** that break, are opened again, or are destroyed by the device
  right after it has written its last message;
- **restarts** of all three programs: keys, jobs, nonces, history, `keysHashes`,
  listeners and subscriptions are only in memory, and no program looks up the
  events it has missed;
- **one attribute for the contract**: a later contract overwrites the address that
  jobs for the earlier one still have to read;
- **shared files**: all uploads at the vendor share `updateFile`,
  `wrappingPackage.json`, one emitter and the nonces of one account.

What would make each part correct, and how far the code gets there: the contract
pays once per device, never more than its share and never after expiration, and no
commitment can be displaced inside its window (all of this holds). A client does not
reuse a nonce (holds until it is restarted) and sends a reveal, which shows its key,
only when the commitment is in place; whether the key is then paid for depends on time and on
addresses outside the Merkle tree, which can use up the rewards. A distributor makes
one key per device, a device signs once per update and only for a file it holds
(holds, but a distributor serves a device only once, whatever the update). The
contract of an upload describes it, if no other upload is under way and the file is
stored by the time it is read; an upload may end in no contract after an error, and
from the second one on in several. The page shows each device once and counts what it
marks. `PROJECT.json` lists the hazards line by line with the properties that catch
them, or why none does.

## Modules

| Module | Models | Uses |
|---|---|---|
| `RewardPool` | abstract: what the contract promises | |
| `IotPC` | the contract and block time | refines `RewardPool` |
| `DistributorEthereumClient` | clients of the contract, mempool and miners | extends `IotPC` |
| `Zkcp` | the exchange between distributors and devices | |
| `Decrypt` | the key stream and `_decrypt` | |
| `FairTrade` | abstract: what the exchange of files for keys promises | |
| `PatchPool` | `Zkcp` with publication of keys, decryption, the vendor's reports | extends `Zkcp` and `Decrypt`, refines `FairTrade` |
| `VendorUpload` | the vendor from the upload to the published contract | |
| `UpdateMap` | the web server's events and the page that shows them | |
| `IotPCProofs`, `DistributorProofs`, `RevealProofs`, `ZkcpProofs`, `DecryptProofs`, `PatchPoolProofs`, `VendorUploadProofs`, `UpdateMapProofs` | theorems about the above | extend them and `TLAPS` |
| `MCIotPC`, `MCDistributor`, `MCPatchPool`, `MCVendorUpload`, `MCUpdateMap` | instances for TLC | extend them |

**IotPC.** A transaction that fails a `require()` changes nothing, so each public
function is one action whose guard is the conjunction of its requirements, kept
apart as `commit_requires` and `reveal_requires` because the client module asks
the node about them (`estimateGas`). `sha256` is a free constructor; a signature
is a record of signer and message; a Merkle proof is membership of `pko_hash` in
`Registered`. Anyone may call with any arguments. `now` advances by `Tick`.
`received` and `KeyRevealed` record transfers and events. The fallback carries
`MaxBalance` and time `MaxTime` as bounds for TLC. `uint` arithmetic is over
the naturals: `CountMatchesRevealed` shows that the one subtraction that could
wrap around, line 79, does not; the sums would need balances near 2^256.

**DistributorEthereumClient.** One job per distributor and device. Its stages are
the points at which `commit` and `reveal` wait: `nonce` (the request of
`getTransactionCount` is out), `counted` (the answer is there but the
continuation has not run: the answer may be stale), `estimate`, `send`, `sent`
(waiting for the receipt), `mined` or `reverted`, and the final ones. `currentNonce`
and the attribute `contract` are per distributor. `commit` starts with
`generateMerkleProof`, which looks for the address in lower case in the list as it
was registered: for a device outside `LowerCase` it throws, and the job is over.
The chain takes transactions of an account in the order of their nonces; a
transaction that fails a requirement is mined and uses up its nonce. The node
refuses a nonce that is mined or pending (to replace a pending transaction it
would need a higher gas price). `getGasPrice` and `getBalance` touch no state and
belong to the step that sends. `Faults` switches on receipt timeouts, restarts
and a later contract that overwrites the attribute. `Others` are the accounts that use
the contract without this client: they commit and reveal with any arguments, an
address outside the tree under a registered hash included, since `validate_pko`
accepts it.

**Zkcp.** A wire `<<u, d, i>>` is a connection for update `u` between distributor
`d` and device `i`; it can close and come up again, with new extension objects.
Messages of a wire are a FIFO queue in each direction (TCP). The key is drawn per
wire, so a wire stands for `s` and for the file encrypted under it as well. Both
ends run the repository's code, so messages say what their senders computed.
`_onFile` is split at its await: `verifying` holds the wires whose verifier runs,
and `orphans` those that were closed meanwhile (the object still exists and its
send goes nowhere). `_onEncryptedFile` is the rest of `_onFile` and the handler
it emits to, up to the next await; `FileWritten` and `WriteFailed` are the two
outcomes of that. A verified proof of distribution becomes a job only if the
attribute `contract` still names its contract, because `commit` reads it at once
and any other contract refuses the signature; `JobOver` is where a job ends.

The variable `faults` is chosen at the start and stays: no disturbance, or all of
`Faults`. One run thus covers the undisturbed system, which liveness is about, and
the disturbed one. The disturbances are wires that break (`Drop`), a proof that
was written to a connection destroyed right afterwards (`Lose`), programs that
end with an error and whose promises are rejected unhandled (`ProveFailed`,
`VerifyFailed`), a package that does not decode (`_decodeWrappingPackageFailed`),
files that cannot be written or read (`WriteFailed`, `OpenFailed`), and restarts
(`Crash` of a device, `RestartDistributor`). `lost` records the files that a crash or
a disk has taken: it is the only history variable that the properties need.

**Decrypt.** `_decrypt` position by position: `Round` is the block of a position,
`KeyStream` the byte that its round makes for it with the round's number modulo
256 in the key, and `LastRound` the last round that the loop runs. A position
whose round is not run keeps the zero of `Buffer.alloc`. `sha256`, XOR and the
conversion through a string are parameters with the assumptions `CipherOK`. The
cipher text is what the prover, a program outside the repository, has to produce
for the device to read it (`encrypted_update_data`).

**PatchPool.** Commit and reveal are one step, `Reveal`: of the distributors that
hold a proof one has its key published, once per update and device. That
abstraction is the one that `RewardPool` states and `IotPC` is proved to refine.
`RevealElsewhere` is a `reveal` that finds the attribute `contract` overwritten.
`_onKeyRevealed` is the handler of the device's Ethereum client with
`IoT._onKeyRevealed`, which it calls through the emitter, up to its first await: a
key whose file is not in `keysHashes` is dropped. `PlaintextWritten` and
`PlaintextFailed` are the two ways in which that goes on.

**FairTrade.** A deal is a file encrypted for a device under a key of its own. The
device confirms one deal per good, confirmations and files may be lost, a key is
published once per good and only for a confirmed deal, and a file is opened only
with its published key.

**VendorUpload.** An upload moves through the callbacks of `uploadFile` and
`uploadUpdate`; `keysFor`, `file` and `infoHash` are what its three reads of
`updateFile` saw. While an upload's `mv` is under way (`moving`) a read may return
what the file holds or, half written, `Partial`; `early` records which reads came
before the upload's own file was stored. The second read decodes the bytes as UTF-8
(`utf8`), and what it returns goes into the package, while `createTorrent` hashes the
bytes. `writeFile` writes over the package before, which was served from the same path
and is so no longer; `seed` reads the file back from the disk. Every listener of
`infoHashReady` calls `deployContract`, so an upload has a deployment per listener,
each with a nonce of its own. A hash stands for what was hashed.

Where the code ends without a contract the model does: `uploadFileFails` (the read or
the generator), `createTorrentFails` (`if (!err)` without an `else`, or the rejected
promise of the read before it; the listener stays), `deployFails` (the catch of
`deployContract`: no answer, `estimateGas` rejects because the account does not cover
the deposit, the node is gone, before or after the subscription). `Restart` may come at
any point: callbacks, listeners and subscriptions are gone, files and transactions
that were sent stay, and so do the outcomes of uploads that were over. `overlapped` is the
history of uploads that met another one while it was `Busy`: stored, in the pipeline, in a
deployment or pending on the chain. It restricts nothing; properties that the code
cannot keep for overlapping uploads name it.

**UpdateMap.** Each tab holds a page with its own scripts: `closed`, `loading`
(the request for the addresses is out), `ready`, or `failed` (more devices than
markers, `initJsonVar` throws). The WebSocket is opened independently, and the
server sends only to the one it accepted last. `mapMarkers` are the markers by
name and `elements` what is drawn under a name; `newUpdate` is one step, as the
page's scripts run without interruption: it marks, removes all markers by name,
imports and draws them again, and counts. A message that finds no map throws and
is lost. An address is a device and whether it is in lower case, since the page
compares with `toLowerCase()`; the same device may be registered in both ways.

## Runs

| Run | Instance | What it shows |
|---|---|---|
| `contract` | 2 rewards, 2 distributors, 2 devices, a third address outside the tree that competes for the rewards, a vendor; 7 ether units, deposits of 1; expiration after 4 days and a window of 2 | counting, one key per device, solvency, payment, exclusive windows, and that the contract implements `RewardPool` |
| `contract_outsider` | a third account that is not registered has signed | violation: `validate_pko` checks the hash that the caller passes and not the hash of `pko` |
| `distributor_restart` | 1 distributor with jobs for 2 registered devices, 2 rewards, another account that commits and reveals one of them and an address outside the tree, every fault, free clock | a reveal is sent only when the commitment is in place, and one that is mined in time is paid, unless an address outside the tree has taken the last reward |
| `distributor_alone` | 1 distributor, 3 devices of which one is registered with capitals, no faults, fair | no nonce twice; every proof of the other two is paid for |
| `distributor_rivals` | 2 distributors with proofs for one device | violation: the loser's `estimateGas` throws after a nonce was used up, and its job for the other device is never mined |
| `exchange` | 2 distributors, 1 device, an update for it and one for other devices, every fault | a key per wire; a proof per update; a file behind each proof; a fair exchange that implements `FairTrade`; no key comes before its file; the plain text is the update |
| `delivery` | 2 distributors, 1 device, 1 update, without faults and with all of them, fair | without faults the device decrypts the update; with them what the vendor reports is decrypted or lost |
| `two_updates` | 1 distributor, 1 device, 2 updates | violation: the history of devices is never cleared |
| `vendor_upload` | 2 uploads, one of a file that is not UTF-8 and one of a file that is too long; the second may come as soon as the pipeline of the first is over, whatever is still stored, deployed or mined; devices register, the server restarts once, every request and callback may fail; fair | contract, package, keys and file agree; every upload that has keys is published; every contract is watched; the one pending transaction has the next nonce; calls that race and end without an error leave one transaction; the devices of a package are in its contract. Each with the errors and overlaps that it names as exceptions |
| `vendor_listeners` | the same, the uploads overlapping anywhere, without registrations and restarts | violation: when one of the two calls of `deployContract` for the second upload gets its nonce after the transaction of the other is mined, there are two contracts |
| `vendor_devices` | 1 upload, a device registers | violation: package and contract list different devices |
| `update_map` | 2 devices, 2 contracts, 2 tabs, 2 places on the map; lists of devices with both devices, with one device twice, with more than the map holds | the map shows each device once; counter and markers agree; what a page was told survives the redrawing; a reveal reaches the page that holds the connection |

Two rewards and two devices are enough for an order among deliveries and for a
division with a remainder (7 / 2); expiration is far enough away for a window to
close and a second one to open. Two jobs share a nonce counter, which is where
nonces can clash; the third can only get in their way. Two distributors are what
one device needs to have wires that compete, and the second update is what it
takes to overwrite the attribute `contract` at every moment of the first one's
exchange. Hashes of two bytes and bytes of two bits give updates that end inside
a block and at the end of one, and key streams that differ from round to round;
all other lengths are a theorem. Two uploads are what it takes to have one
listener too many, and one restart can come between any two of their steps. In
`vendor_upload` `Meanwhile` keeps the second upload out while the first is inside
the pipeline: such uploads are `overlapped`, and of the properties only
`EveryContractIsWatched` neither excepts them nor is proved for them; `vendor_listeners` has
no such bound. The half-written file and
the file before the first upload are one model value, an empty file, which is all that
tells them apart from the uploads. Two tabs are what it takes to lose a connection; two reveals, each notified at most
twice (`MaxReveals`, `MaxNotices`), to have a repeated event before and after
another one; two connections (`MaxConnections`) for one tab to take it from the
other or for a page to lose its own by a reload.

Deadlock is not checked: when the clock has reached `MaxTime`, the last upload or
update is over, or every event was notified, the models stop, as the programs then
wait for ever.

### Assumptions in the runs

- `Prompt` in the distributor runs with liveness: block time does not move while a
  job or a miner can act. Without it a commitment may simply expire.
- `Prompt` in `exchange` and `delivery`: a file is on the device's disk before
  two blocks have been mined. With `Prompt = FALSE` TLC finds a key that arrives
  first and is dropped (`IoT.js` 77), and a device that the vendor reports as
  updated and that never decrypts. Of the theorems only `NoKeyDropped` assumes it.
- `RevealSucceedsInTime` excepts the case that all rewards are gone and one of them
  went to an address outside the tree (`RewardsTaken`). Without the exception TLC finds
  a commitment in place, a reveal in time and line 80 of the contract that refuses it,
  with the key in the open.
- `ContractDescribesUpload` and `DeploymentIsSent` except uploads that another one has
  `overlapped`, and the former those whose file was not stored when `uploadUpdate` read it
  (`index.js` 69, 75): TLC finds a contract for the file of the upload before, and
  deployments of two uploads with one nonce of which the node keeps one. Neither is an assumption:
  both cases occur in the run.
- `UploadIsPublished` excepts overlaps, too, and uploads that an error or a restart ended:
  those that failed before `infoHashReady`, and those whose calls of `deployContract`
  all ran into the catch.
- `CountMatchesMarkers` excepts devices that are not on the list in lower case and
  devices that were updated twice: `newUpdate` counts messages (line 95) and marks
  devices (line 113), and TLC finds both cases without the exceptions.

### Fairness

Weak fairness of every continuation of a process (Node's event loop runs each
callback that is ready; in `VendorUpload` these and the miner together, `Progress`,
are one condition, which amounts to the same as each upload takes finitely many steps), of the miners per account (a transaction whose nonce is
next is mined at some point), and of a wire between a seeding distributor and a
downloading device (the torrent is announced and looked up again and again). In
`PatchPool` the reveal of a job is fair only while the attribute `contract` names
its contract, and in instances with few enough devices for no job to be left
behind a nonce gap, the case of `distributor_rivals`: a distributor there has at
most one job that can commit. Event delivery by the provider is fair; duplicates
are filtered by transaction hash. In `UpdateMap` every event is notified and every
message of an open WebSocket is delivered. No fairness for faults and restarts,
for the arrival of uploads, proofs, registrations, pages and connections, for the
clock, or for other accounts.

## Proofs

Every theorem is for all values of the constants that the named assumptions
allow (`ConstantsOK`, `NumbersOK`, `ClientOK`, `ZkcpOK`, `CipherOK`, `PoolOK`,
`VendorOK`, `MapOK`), which say no more than the types of the constants, that markers differ
from digests, and that XOR undoes itself. Where a theorem needs more it says so
in its statement.

**The contract** (`IotPCProofs`). `TypeCorrect` carries the strengthening that
everything else needs: the balance stays a natural number, because a reward is a
quotient of it by a positive divisor. `CountCorrect`: the counter is the
cardinality of `Revealed`; `reveal` adds a device that was not in it. `KeysCorrect`:
events and marks grow together. `Solvent`: if `b >= k * v` then
`b - b \div k >= (k - 1) * v`, a lemma about division that also gives
`DeliveriesPaid`, as each reward is then at least `v`, until expiration and
so at every reveal. `Exclusive` is an action property of `commit` and `reveal`.
`Refinement` maps `rewarded` to the revealed devices, `pool` to the balance and
`open` to "not expired": `commit` and most ticks stutter, the tick that passes the
deadline is `Close`.

**The client** (`DistributorProofs`, `RevealProofs`). `ClientTypeCorrect` first.
`Nonces` needs three facts besides `NoncesUnique` itself (`NonceInv`): every pending
transaction and every job with a nonce is at most at `currentNonce`, and a mined
count is at most one above it. With them a new nonce, `max(count, currentNonce + 1)`,
is above everything in use however old the count is. The theorem assumes that no
distributor restarts, and a restart is exactly what breaks it. `ClientsUseContract`
shows that clients, mempool and miners only ever take steps of the contract, so
that the theorems of `IotPCProofs` hold in their presence. `RevealsSucceed` uses
that: its invariant (`RevealInv`) says that a job about to send its reveal, and
every pending reveal, is for this contract and for a device that somebody has
committed to; that a distributor has at most one reveal pending per device; and
that a device held by a distributor carries the digest of that distributor's own
key until this reveal has been mined. A pending reveal then fails only
by time, by a change of hands after its window, or because no reward is left. In a
contract that was created with a reward per registered device,
`Cardinality(Registered) <= N`, the last takes an unregistered address that was paid:
by `CountCorrect` the paid devices are then `N`, and they cannot all be registered, as
the one that is waiting is (`HeldRegistered`: this client only commits for
registered devices) and is not among them.

**The exchange** (`ZkcpProofs`, `DecryptProofs`, `PatchPoolProofs`), all with any
faults. `OneKey`: a key was drawn for a device only if it is in the history, or the
distributor was restarted since and never seeds that package again (`KeyInv`).
`OneProof`: a proof exists for `<<u, i>>` only if its torrent is destroyed or gone,
and wires of a torrent are open only while it is active (`ProofInv`): a
verification that ends later finds its wire closed, which is why the await in
`_onFile` is harmless. `FileBehindProof` follows the file from `writing` to
`keysHashes` or `lost`. `DecryptInverts`: `LastRound` is at least the round of the
last position, by two lemmas about quotients; a round too many is harmless.
`PoolUsesZkcp` carries the theorems about `Zkcp` over to `PatchPool`, where `Fair`
adds that jobs and published keys belong to proofs (`ExchangeInv`), and
`PlaintextCorrect` that a plain text is the decryption of its file. `NoKeyDropped`
is the safety half of `UpdatedMeansDecrypted`, under `Prompt`: its invariant
(`MeetInv`) adds that a stored file has its torrent destroyed, so that the device is
subscribed to the contract (`StoredDestroyed`), and that a device has only seen
events of published keys, so that the filter cannot swallow the first. `Refinement` shows
that each step is one of `FairTrade` or a stutter: `_onEncryptedFile` is `Confirm` when
its wire is open and `Deliver` when it is not; what takes messages away is `Astray`;
crashes and disk failures are `Lose`.

**The vendor** (`VendorUploadProofs`), for any uploads, overlapping or not, any
registrations, errors and restarts. `UploadTypeCorrect` needs that each listener
belongs to an upload that got past the key generator (`TypeInv`), or
`listeners` could leave its type. Nothing is deployed for an upload before its info
hash is ready, and what is deployed is its own (`OriginInv`); two uploads that are
busy at the same time are both in `overlapped` (`OverlapInv`). With these
`ContractsDescribeUploads` needs no assumption: its invariant (`ContentInv`) is that an
upload that has met no other and did not read too early carries its own content at every
stage (`Carries`: stored, keyed, read, hashed, written, seeded, one conjunct for each),
and that deployments, pending transactions and contracts describe their uploads. The step
that matters is that of another upload, which the history turns into an exception or
excludes. `NeverAhead`: a nonce that was read is at most the next one (`NonceInv`), and of
all that compete for it the node keeps the first. `DeploymentsAreSent`: as long as an
upload that has met no other has sent nothing, its calls that are about to send hold the
nonce that is next (`SendInv`), and nothing else is pending, so that the first of
them is accepted; a call that ended without an error therefore leaves a transaction,
its own or the one that it lost against. The two violated claims get their positive
counterparts. `ContractsPerUpload`: an upload's transactions and its calls that may still
send one are together at most as many as the uploads that got past the generator or
failed (`BoundInv`, `Generated`), hence
`FirstUploadOneContract`. `PackagesWithinContracts` and `PackagesMatchContracts`
follow a package from the list that the constructor read to its contract
(`DevicesInv`): the list in memory is always within the one in the file, and equal to
it if no device registers, which is the only assumption of the second.

**The browser** (`UpdateMapProofs`), for any tabs, lists and events. Between two messages
the names on the map are exactly the places of `currentJson`, with one element each
(`Drawn`): lemmas about `Draw` and `removeCurrMap` show that tearing down by name
leaves nothing behind and drawing again repeats nothing. A marker is active only for an
event that was sent, of its own device (`Truthful`). No event is twice on its way to a
page, nor on its way to a page that shows it (`OnceOnly`), which is where the
server's filter and the closing of the old WebSocket on a reload are needed. From these
the counter follows (`CountOK`): each message makes one more marker active, unless the
device is one of the excepted. `EventsStayKnown` is an action property from the same
invariant (`MapInv`).

**Only model-checked**: the liveness properties (`ProofIsPaid`,
`LastUpdateDelivered`, `UpdatedMeansDecrypted`, `UploadIsPublished`,
`EveryContractIsWatched`, `RevealIsShown`), since fairness and ENABLED are outside
this prover's reach. The five claims that runs find violated are of course not
theorems; `FirstUploadOneContract` and `PackagesMatchContracts` say under which
condition two of them hold.

## What the models show beside the properties

- The keys of an upload are normally made for the length of the file *before*: `index.js`
  starts the `mv` and calls `uploadFile` in the same turn (69, 75), and its first read
  (`Vendor.js` 31) is the next callback. The package then holds keys for another file
  (`keysFor`), at the first upload those for whatever the directory held. The property
  says that keys fit if that read came late enough, and that they are the upload's own.
- An update that is not UTF-8 text does not reach the devices as it was uploaded: the
  package holds the decoded string (`VendorWebtorrentClient.js` 28, 48), in which each
  invalid byte was replaced, and the info hash in the contract is that of the bytes (33).
- Once a second upload has written its package, the first one, whose contract may be open
  for days, is not served by the vendor any more (54).
- An upload can end without a contract and without a message to the user: its web
  page was answered before, and all errors are logged or dropped.
- Accounts outside the tree can take rewards, so that a distributor's key may be public and
  unpaid for.

## Not modelled

- Gas: the limit of 1000000 for `createContract` (`VendorEthereumClient.js` 50) is taken to be
  enough, and a mined `createContract` to succeed.
- What the zero-knowledge programs compute: binaries without source. That they
  take time and may fail is part of the models, and `Decrypt` states what cipher
  text the prover must produce.
- Peers that run other software: the checks that only they can fail (Merkle
  proof, signatures, zero-knowledge proof, invalid messages) are passed.
- The hashes of Merkle trees and proofs: membership stands for them.
- The duplicate filter of `ContractPublished` at devices and distributors (each
  event is taken once), and catching up with events that were missed, for which
  the code has functions that nothing calls (`subscribeToPastContracts`).
- Files that a stopping process leaves half written, and corrupted configuration
  files. Configuration files are otherwise read and written synchronously.
- Of the web pages: the form of `screen1.html`, the modals and the placement of
  markers in `KBmapmarkers.js` and `KBmapmarkersCords.js`, layout.
- `Setup.js`, `ConfigCreation.js`, `createConfig.js`: scripts that run once, from top to
  bottom, and leave a configuration file or a factory contract; the deployment
  scripts; the scripts in `TestsAndAttacks`, which are run by hand. None has state
  that outlives it or meets another process.
- `jquery-3.3.1.js` (10368 lines), `bootstrap-filestyle.js` and other libraries that
  are checked in, and `mapMarkersJson.js`, 506 lines of coordinates. They are four
  fifths of the lines of the repository. The system's own programs have about
  1900 lines, of which the models cover those that change state.

----------------------------- MODULE UpdateMap -----------------------------
(***************************************************************************)
(* What the vendor's browser shows of an update: the web server's          *)
(* WebSocket and /getIoTAddresses (Vendor/index.js), the page /Map         *)
(* (WebPages/JS/screen2.js) and its map of markers (KBmapmarkers.js).      *)
(*                                                                         *)
(* A page asks for the addresses of the devices and opens its WebSocket at *)
(* the same time.  The server keeps one connection, the one opened last,   *)
(* and sends it each KeyRevealed event of the vendor's contracts once.     *)
(***************************************************************************)
EXTENDS Naturals, FiniteSets, SequencesExt

CONSTANTS
    Device,
    Update,       \* the contracts whose KeyRevealed events the vendor receives
    Reveal,       \* the transactions that may reveal a key
    Tab,          \* tabs of the vendor's browser
    Lists,        \* what iot_addresses may hold when the vendor starts
    Places,       \* markers in mapMarkersJson.js
    NoReveal,     \* a marker without a transaction
    MaxReveals,   \* bound: keys revealed
    MaxConnections,     \* bound: WebSockets that pages open
    MaxNotices    \* bound: times that the provider notifies one event

\* The browser compares with toLowerCase(): what matters of the way in which an
\* address was registered is whether it has capitals; a device may be there twice.
Address == [device : Device, lower : BOOLEAN]
Lower(d) == [device |-> d, lower |-> TRUE]

ASSUME MapOK ==
    /\ Reveal \subseteq [contract : Update, pko : Device]
    /\ {Places, MaxReveals, MaxConnections, MaxNotices} \subseteq Nat
    /\ NoReveal \notin Reveal
    /\ \A list \in Lists : list \in Seq(Address) /\ IsInjective(list)

VARIABLES
    iotAddresses,     \* vendor.iotAddresses
    revealed,         \* the transactions that revealed keys
    notices,          \* by transaction: times that its event was notified
    eventsTxHashes,   \* of the vendor's Ethereum client
    connection,       \* the WebSocket that the server sends to, 0 before the first
    page,             \* by tab: the page in it
    inbox             \* by tab: messages under way to its WebSocket

server == <<iotAddresses, notices, eventsTxHashes, connection>>
mvars == <<revealed, server, page, inbox>>

Marker == [address : Address, markerUrl : Reveal \cup {NoReveal}]
Active(marker) == marker.markerUrl # NoReveal

\* WebSockets are numbered; a page has opened its own (ws) or not yet (0).
Phase == {"closed", "loading", "ready", "failed"}
Closed == [phase |-> "closed", ws |-> 0, numOfUpdatedDevices |-> 0,
           currentJson |-> <<>>, mapMarkers |-> <<>>, elements |-> <<>>]

UTypeOK ==
    /\ \A i \in DOMAIN iotAddresses : iotAddresses[i] \in Address
    /\ eventsTxHashes \subseteq revealed /\ revealed \subseteq Reveal
    /\ connection \in 0..MaxConnections
    /\ \A t \in Tab :
          /\ page[t].phase \in Phase
          /\ page[t].ws \in 0..connection
          /\ page[t].numOfUpdatedDevices \in Nat
          /\ \A i \in DOMAIN page[t].currentJson : page[t].currentJson[i] \in Marker
          /\ \A name \in DOMAIN page[t].mapMarkers : page[t].mapMarkers[name] \in Marker
          /\ page[t].phase = "ready" => Len(page[t].currentJson) = Len(iotAddresses)
          /\ ToSet(inbox[t]) \subseteq eventsTxHashes

UInit ==
    /\ iotAddresses \in Lists
    /\ revealed = {}
    /\ notices = [r \in Reveal |-> 0]
    /\ eventsTxHashes = {}
    /\ connection = 0
    /\ page = [t \in Tab |-> Closed]
    /\ inbox = [t \in Tab |-> <<>>]

------------------------------------------------------------------------------
\* The map: named markers and what is drawn of them, by name the icons of the
\* elements with that name.

\* A name that is taken is replaced by a random one: another one for each marker.
generateUniqueMarkerName(mapMarkers, name) ==
    IF name \in DOMAIN mapMarkers THEN Places + name ELSE name

importJSON(mapMarkers, json) ==
    LET name == [i \in DOMAIN json |-> generateUniqueMarkerName(mapMarkers, i)]
    IN  [k \in DOMAIN mapMarkers \cup Range(name) |->
            IF k \in DOMAIN mapMarkers THEN mapMarkers[k]
            ELSE json[CHOOSE i \in DOMAIN json : name[i] = k]]

showAllMapMarkers(elements, mapMarkers) ==
    LET old(k) == IF k \in DOMAIN elements THEN elements[k] ELSE <<>>
        new(k) == IF k \in DOMAIN mapMarkers THEN <<Active(mapMarkers[k])>> ELSE <<>>
    IN  [k \in DOMAIN elements \cup DOMAIN mapMarkers |-> old(k) \o new(k)]

\* Mutant: the marker is forgotten and its element stays on the map.
removeCurrMap_elements_stay(p) ==
    [p EXCEPT !.mapMarkers = Restrict(@, DOMAIN @ \ DOMAIN p.currentJson)]

\* The markers are removed by their names, the first numOfDevices ones.
removeCurrMap(p) ==
    [p EXCEPT !.mapMarkers = Restrict(@, DOMAIN @ \ DOMAIN p.currentJson),
              !.elements = Restrict(@, DOMAIN @ \ DOMAIN p.currentJson)]

Draw(p) ==
    LET map == importJSON(p.mapMarkers, p.currentJson)
    IN  [p EXCEPT !.mapMarkers = map, !.elements = showAllMapMarkers(@, map)]

------------------------------------------------------------------------------
\* The page

initJsonVar(addresses) ==
    [i \in DOMAIN addresses |-> [address |-> addresses[i], markerUrl |-> NoReveal]]

\* Mutant: the URL is made of the address.
updateMapMarkerInCurrJson_address(json, r) ==
    [i \in DOMAIN json |->
        IF json[i].address = Lower(r.pko) THEN [json[i] EXCEPT !.markerUrl = r.pko] ELSE json[i]]

\* Mutant: the markers that were active are not kept.
updateMapMarkerInCurrJson_anew(json, r) ==
    [i \in DOMAIN json |->
        [json[i] EXCEPT !.markerUrl = IF json[i].address = Lower(r.pko) THEN r ELSE NoReveal]]

\* The first marker with the address in lower case becomes active.
updateMapMarkerInCurrJson(json, r) ==
    [i \in DOMAIN json |->
        IF json[i].address = Lower(r.pko) /\ \A j \in 1..i - 1 : json[j].address # json[i].address
        THEN [json[i] EXCEPT !.markerUrl = r] ELSE json[i]]

newUpdate(p, r) ==
    Draw(removeCurrMap([p EXCEPT !.currentJson = updateMapMarkerInCurrJson(@, r),
                                 !.numOfUpdatedDevices = @ + 1]))

\* GET /Map, the redirect after an upload, or a reload: scripts start from nothing,
\* and the WebSocket of the page before is closed.
Load(t) ==
    /\ page' = [page EXCEPT ![t] = [Closed EXCEPT !.phase = "loading"]]
    /\ inbox' = [inbox EXCEPT ![t] = <<>>]
    /\ UNCHANGED <<revealed, server>>

\* The server accepts the page's WebSocket and forgets the one before.
onRequest(t) ==
    /\ page[t].phase # "closed"
    /\ page[t].ws = 0
    /\ connection < MaxConnections
    /\ connection' = connection + 1
    /\ page' = [page EXCEPT ![t].ws = connection + 1]
    /\ UNCHANGED <<iotAddresses, notices, eventsTxHashes, revealed, inbox>>

\* The answer of /getIoTAddresses: counter, map and markers are made.  With more
\* devices than places initJsonVar throws, and there is never a map.
getIoTAddresses(t) ==
    /\ page[t].phase = "loading"
    /\ page' = [page EXCEPT ![t] =
          IF Len(iotAddresses) > Places THEN [@ EXCEPT !.phase = "failed"]
          ELSE Draw([@ EXCEPT !.phase = "ready", !.currentJson = initJsonVar(iotAddresses),
                              !.numOfUpdatedDevices = 0])]
    /\ UNCHANGED <<revealed, server, inbox>>

\* A message that finds no map makes newUpdate throw, and is lost.
onmessage(t) ==
    /\ inbox[t] # <<>>
    /\ inbox' = [inbox EXCEPT ![t] = Tail(@)]
    /\ page' = [page EXCEPT ![t] = IF @.phase = "ready" THEN newUpdate(@, Head(inbox[t])) ELSE @]
    /\ UNCHANGED <<revealed, server>>

------------------------------------------------------------------------------
\* The server

\* reveal succeeds on the chain, at most once per device and contract.
KeyRevealed(r) ==
    /\ r \notin revealed
    /\ Cardinality(revealed) < MaxReveals
    /\ revealed' = revealed \cup {r}
    /\ UNCHANGED <<server, page, inbox>>

\* What sendUTF of _onKeyRevealedEvent puts under way.
Sent(r) == [t \in Tab |-> IF page[t].ws = connection /\ connection # 0
                          THEN Append(inbox[t], r) ELSE inbox[t]]

\* Mutant: events that were seen are not filtered.
_onKeyRevealed_again(r) ==
    /\ r \in revealed
    /\ notices[r] < MaxNotices
    /\ notices' = [notices EXCEPT ![r] = @ + 1]
    /\ eventsTxHashes' = eventsTxHashes \cup {r}
    /\ inbox' = Sent(r)
    /\ UNCHANGED <<revealed, iotAddresses, connection, page>>

\* Mutant: the filter remembers contracts, not transactions.
_onKeyRevealed_contract(r) ==
    /\ r \in revealed
    /\ notices[r] < MaxNotices
    /\ notices' = [notices EXCEPT ![r] = @ + 1]
    /\ eventsTxHashes' = eventsTxHashes \cup {r}
    /\ inbox' = IF \E s \in eventsTxHashes : s.contract = r.contract THEN inbox ELSE Sent(r)
    /\ UNCHANGED <<revealed, iotAddresses, connection, page>>

\* The provider notifies an event, perhaps again: the Ethereum client drops what it
\* has seen, and _onKeyRevealedEvent sends the rest to the connection, if there is one.
_onKeyRevealed(r) ==
    /\ r \in revealed
    /\ notices[r] < MaxNotices
    /\ notices' = [notices EXCEPT ![r] = @ + 1]
    /\ eventsTxHashes' = eventsTxHashes \cup {r}
    /\ inbox' = IF r \in eventsTxHashes THEN inbox ELSE Sent(r)
    /\ UNCHANGED <<revealed, iotAddresses, connection, page>>

UNext ==
    \/ \E t \in Tab : Load(t) \/ onRequest(t) \/ getIoTAddresses(t) \/ onmessage(t)
    \/ \E r \in Reveal : KeyRevealed(r) \/ _onKeyRevealed(r)

\* Every event is notified at least once, and messages arrive.
UFairness ==
    /\ \A r \in Reveal : WF_notices(_onKeyRevealed(r))
    /\ \A t \in Tab : WF_inbox(onmessage(t))

USpec == UInit /\ [][UNext]_mvars /\ UFairness

------------------------------------------------------------------------------
Ready(t) == page[t].phase = "ready"

\* The map is torn down and drawn again for every message (screen2.js, newUpdate):
\* afterwards each registered address has one element and one marker, under one
\* name, none is left over, and an element looks active just when a click on it
\* opens a transaction that revealed the key of that very device.
MapShowsDevices ==
    \A t \in Tab : Ready(t) =>
        LET p == page[t]
        IN  /\ DOMAIN p.elements = DOMAIN p.mapMarkers
            /\ \A k \in DOMAIN p.elements : p.elements[k] = <<Active(p.mapMarkers[k])>>
            /\ Cardinality(DOMAIN p.mapMarkers) = Len(iotAddresses)
            /\ {p.mapMarkers[k].address : k \in DOMAIN p.mapMarkers} = ToSet(iotAddresses)
            /\ \A k \in DOMAIN p.mapMarkers : LET marker == p.mapMarkers[k] IN Active(marker) =>
                  /\ marker.markerUrl \in revealed
                  /\ marker.markerUrl.pko = marker.address.device

\* The label "Updating file x/y": x is the number of active markers, however often
\* the provider notifies an event and whenever messages meet a page that is loading,
\* as long as every device that was updated has its address in lower case on the
\* list and was updated once.
CountMatchesMarkers ==
    \A t \in Tab : Ready(t) =>
        \/ page[t].numOfUpdatedDevices = 
               Cardinality({k \in DOMAIN page[t].elements : TRUE \in ToSet(page[t].elements[k])})
        \/ \E r \in eventsTxHashes :
              \/ Lower(r.pko) \notin ToSet(iotAddresses)
              \/ \E s \in eventsTxHashes \ {r} : s.pko = r.pko

Shows(t, r) == \E k \in DOMAIN page[t].mapMarkers : page[t].mapMarkers[k].markerUrl = r

\* What a page that is ready has been told of a device on the list is not lost in the
\* redrawing of the map: an event that is under way to the page or shown by it still is
\* after every step, unless the page is loaded again, or shows another event of the same
\* device in its place.
EventsAreKept ==
    [][\A t \in Tab, r \in Reveal :
          ( /\ Ready(t) /\ Lower(r.pko) \in ToSet(iotAddresses)
            /\ r \in ToSet(inbox[t]) \/ Shows(t, r) )
          => \/ r \in ToSet(inbox'[t]) \/ Shows(t, r)'
             \/ ~Ready(t)'
             \/ \E s \in Reveal \ {r} : s.pko = r.pko /\ Shows(t, s)']_mvars

\* A key that is revealed while a page is ready and holds the server's connection
\* is shown there, unless the page is loaded again or another page takes the
\* connection before.
RevealIsShown ==
    \A t \in Tab, r \in Reveal :
        ( /\ r \in revealed \ eventsTxHashes
          /\ Ready(t) /\ page[t].ws = connection /\ connection # 0
          /\ Lower(r.pko) \in ToSet(iotAddresses) )
        ~> (~Ready(t) \/ page[t].ws # connection \/ Shows(t, r))
==============================================================================

--------------------------- MODULE UpdateMapProofs ---------------------------
(***************************************************************************)
(* Proofs about the vendor's browser, for any tabs, devices, updates and   *)
(* lists of addresses: the types, that the map shows the devices, and that *)
(* the counter agrees with it.                                             *)
(***************************************************************************)
EXTENDS UpdateMap, FiniteSetTheorems, SequenceTheorems, TLAPS

Page == [phase : Phase, ws : Nat, numOfUpdatedDevices : Nat,
         currentJson : Seq(Marker), mapMarkers : Seq(Marker), elements : Seq(Seq(BOOLEAN))]

\* One element for each marker, under the name that is its place in the list.
Icons(json) == [i \in DOMAIN json |-> <<Active(json[i])>>]
Actives(json) == {i \in DOMAIN json : Active(json[i])}
UrlsOf(json) == {json[i].markerUrl : i \in Actives(json)}

ServerOK ==
    /\ iotAddresses \in Lists
    /\ eventsTxHashes \subseteq revealed /\ revealed \subseteq Reveal
    /\ connection \in 0..MaxConnections

\* Between two messages the map repeats currentJson, which has a marker for each
\* address and none before the list has arrived.
Drawn(p) ==
    /\ p.mapMarkers = p.currentJson
    /\ p.elements = Icons(p.currentJson)
    /\ IF p.phase = "ready"
       THEN /\ DOMAIN p.currentJson = DOMAIN iotAddresses
            /\ \A i \in DOMAIN iotAddresses : p.currentJson[i].address = iotAddresses[i]
       ELSE p.currentJson = <<>>

\* A marker is active only for an event that was sent, of its own device.
Truthful(json) ==
    \A i \in Actives(json) :
       /\ json[i].markerUrl \in eventsTxHashes
       /\ json[i].address = Lower(json[i].markerUrl.pko)

\* No event is under way twice to one page, nor to a page that shows it already.
OnceOnly(t) ==
    /\ inbox[t] \in Seq(eventsTxHashes)
    /\ IsInjective(inbox[t])
    /\ ToSet(inbox[t]) \cap UrlsOf(page[t].currentJson) = {}

PageOK(t) ==
    /\ page[t].ws <= connection
    /\ Drawn(page[t])
    /\ Truthful(page[t].currentJson)
    /\ OnceOnly(t)

PagesT == page \in [Tab -> Page] /\ inbox \in [Tab -> Seq(Reveal)]

\* A device that was updated and is not on the list as its event names it, or
\* that was updated twice.
Miscounted ==
    \E r \in eventsTxHashes :
       \/ Lower(r.pko) \notin ToSet(iotAddresses)
       \/ \E s \in eventsTxHashes \ {r} : s.pko = r.pko

CountOK(t) ==
    Ready(t) => \/ page[t].numOfUpdatedDevices = Cardinality(Actives(page[t].currentJson))
                \/ Miscounted

MapInv == ServerOK /\ PagesT /\ \A t \in Tab : PageOK(t) /\ CountOK(t)
------------------------------------------------------------------------------
(* The map: what importJSON, showAllMapMarkers and removeCurrMap return where  *)
(* the page calls them, with a map from which every marker was removed.        *)

LEMMA JsonDomain ==
    ASSUME NEW json \in Seq(Marker)
    PROVE  /\ Len(json) \in Nat /\ DOMAIN json = 1..Len(json)
           /\ json = [k \in 1..Len(json) |-> json[k]]
           /\ \A k \in DOMAIN json : json[k] \in Marker
BY LenProperties, ElementOfSeq

\* A function on 1..n is a sequence.
LEMMA IsSequence ==
    ASSUME NEW S, NEW n \in Nat, NEW f, f = [k \in 1..n |-> f[k]], \A k \in 1..n : f[k] \in S
    PROVE  f \in Seq(S) /\ Len(f) = n
<1>1. f \in [1..n -> S]  OBVIOUS
<1> QED  BY <1>1, SeqDef, LenProperties

LEMMA IntervalCardinality == \A n \in Nat : Cardinality(1..n) = n
BY FS_Interval

\* No name is taken: each marker gets its place in the list for a name.
LEMMA importJSONOnEmpty ==
    ASSUME NEW mapMarkers, DOMAIN mapMarkers = {}, NEW json \in Seq(Marker)
    PROVE  importJSON(mapMarkers, json) = json
<1> DEFINE name == [i \in DOMAIN json |-> generateUniqueMarkerName(mapMarkers, i)]
<1>1. \A i \in DOMAIN json : name[i] = i  BY DEF generateUniqueMarkerName
<1>2. Range(name) = DOMAIN json  BY <1>1 DEF Range
<1>3. \A k \in DOMAIN json : (CHOOSE i \in DOMAIN json : name[i] = k) = k  BY <1>1
<1>4. json = [k \in DOMAIN json |-> json[k]]  BY JsonDomain
<1> HIDE DEF name
<1>5. importJSON(mapMarkers, json) =
        [k \in DOMAIN mapMarkers \cup Range(name) |->
            IF k \in DOMAIN mapMarkers THEN mapMarkers[k]
            ELSE json[CHOOSE i \in DOMAIN json : name[i] = k]]
  BY DEF importJSON, name
<1>6. importJSON(mapMarkers, json) = [k \in DOMAIN json |-> json[k]]
  BY <1>2, <1>3, <1>5
<1> QED  BY <1>4, <1>6

LEMMA showAllMapMarkersOnEmpty ==
    ASSUME NEW elements, DOMAIN elements = {}, NEW json \in Seq(Marker)
    PROVE  showAllMapMarkers(elements, json) = Icons(json)
<1>1. \A k \in DOMAIN json : <<>> \o <<Active(json[k])>> = <<Active(json[k])>>
  <2> SUFFICES ASSUME NEW k \in DOMAIN json
               PROVE  <<>> \o <<Active(json[k])>> = <<Active(json[k])>>
    OBVIOUS
  <2>1. <<Active(json[k])>> \in Seq({Active(json[k])})  OBVIOUS
  <2> QED  BY <2>1, ConcatEmptySeq
<1> QED  BY <1>1 DEF showAllMapMarkers, Icons

LEMMA IconsType ==
    ASSUME NEW json \in Seq(Marker)
    PROVE  Icons(json) \in Seq(Seq(BOOLEAN)) /\ DOMAIN Icons(json) = DOMAIN json
<1>1. Len(json) \in Nat /\ DOMAIN json = 1..Len(json)  BY JsonDomain
<1>2. \A k \in 1..Len(json) : Icons(json)[k] \in Seq(BOOLEAN)
  BY <1>1 DEF Icons, Active
<1>3. Icons(json) = [k \in 1..Len(json) |-> Icons(json)[k]]  BY <1>1 DEF Icons
<1> QED  BY <1>1, <1>2, <1>3, IsSequence DEF Icons

LEMMA DrawOnEmpty ==
    ASSUME NEW p, p.currentJson \in Seq(Marker), DOMAIN p.mapMarkers = {}, DOMAIN p.elements = {}
    PROVE  Draw(p) = [p EXCEPT !.mapMarkers = p.currentJson, !.elements = Icons(p.currentJson)]
<1>1. importJSON(p.mapMarkers, p.currentJson) = p.currentJson  BY importJSONOnEmpty
<1>2. showAllMapMarkers(p.elements, p.currentJson) = Icons(p.currentJson)
  BY showAllMapMarkersOnEmpty
<1> QED  BY <1>1, <1>2 DEF Draw

\* An update keeps the addresses, and changes no URL but those of its device.
LEMMA updateMapMarker ==
    ASSUME NEW json \in Seq(Marker), NEW r \in Reveal
    PROVE  LET new == updateMapMarkerInCurrJson(json, r)
           IN  /\ new \in Seq(Marker) /\ DOMAIN new = DOMAIN json
               /\ \A i \in DOMAIN json :
                     /\ new[i].address = json[i].address
                     /\ \/ new[i].markerUrl = json[i].markerUrl
                        \/ new[i].markerUrl = r /\ json[i].address = Lower(r.pko)
<1> DEFINE new == updateMapMarkerInCurrJson(json, r)
<1>0. Len(json) \in Nat /\ DOMAIN json = 1..Len(json) /\ \A i \in DOMAIN json : json[i] \in Marker
  BY JsonDomain
<1>1. DOMAIN new = DOMAIN json  BY DEF updateMapMarkerInCurrJson
<1>2. \A i \in DOMAIN json :
         \/ new[i] = json[i]
         \/ new[i] = [json[i] EXCEPT !.markerUrl = r] /\ json[i].address = Lower(r.pko)
  BY DEF updateMapMarkerInCurrJson
<1>3. \A i \in DOMAIN json :
         /\ new[i] \in Marker
         /\ new[i].address = json[i].address
         /\ \/ new[i].markerUrl = json[i].markerUrl
            \/ new[i].markerUrl = r /\ json[i].address = Lower(r.pko)
  BY <1>0, <1>2 DEF Marker
<1>4. new = [i \in 1..Len(json) |-> new[i]]  BY <1>0 DEF updateMapMarkerInCurrJson
<1>5. new \in Seq(Marker)
  <2> HIDE DEF new
  <2> QED  BY <1>0, <1>3, <1>4, IsSequence
<1> QED  BY <1>1, <1>3, <1>5

\* What a message does to a page whose map repeats currentJson.
LEMMA newUpdateRedraws ==
    ASSUME NEW p \in Page, Drawn(p), NEW r \in Reveal
    PROVE  LET new == updateMapMarkerInCurrJson(p.currentJson, r)
           IN  newUpdate(p, r) = [p EXCEPT !.currentJson = new,
                                           !.numOfUpdatedDevices = p.numOfUpdatedDevices + 1,
                                           !.mapMarkers = new, !.elements = Icons(new)]
<1> DEFINE new == updateMapMarkerInCurrJson(p.currentJson, r)
           q == [p EXCEPT !.currentJson = new, !.numOfUpdatedDevices = p.numOfUpdatedDevices + 1]
           e == removeCurrMap(q)
<1>1. new \in Seq(Marker) /\ DOMAIN new = DOMAIN p.currentJson
  BY updateMapMarker DEF Page
<1>2. DOMAIN p.mapMarkers = DOMAIN new /\ DOMAIN p.elements = DOMAIN new
  BY <1>1 DEF Drawn, Icons
<1> HIDE DEF new
<1>3. q.currentJson = new /\ q.mapMarkers = p.mapMarkers /\ q.elements = p.elements
  BY DEF Page
<1>4. e = [q EXCEPT !.mapMarkers = Restrict(q.mapMarkers, DOMAIN q.mapMarkers \ DOMAIN q.currentJson),
                    !.elements = Restrict(q.elements, DOMAIN q.elements \ DOMAIN q.currentJson)]
  BY DEF removeCurrMap
<1>5. e.currentJson = new /\ DOMAIN e.mapMarkers = {} /\ DOMAIN e.elements = {}
  BY <1>2, <1>3, <1>4 DEF Restrict, Page
<1>6. Draw(e) = [e EXCEPT !.mapMarkers = new, !.elements = Icons(new)]
  <2> HIDE DEF e
  <2> QED  BY <1>1, <1>5, DrawOnEmpty
<1>7. [e EXCEPT !.mapMarkers = new, !.elements = Icons(new)] =
        [p EXCEPT !.currentJson = new, !.numOfUpdatedDevices = p.numOfUpdatedDevices + 1,
                  !.mapMarkers = new, !.elements = Icons(new)]
  BY <1>4 DEF Page
<1>8. newUpdate(p, r) = Draw(e)  BY DEF newUpdate, new
<1> QED  BY <1>6, <1>7, <1>8 DEF new
------------------------------------------------------------------------------
(* The invariant *)

LEMMA Addresses ==
    ASSUME ServerOK
    PROVE  iotAddresses \in Seq(Address) /\ IsInjective(iotAddresses)
BY MapOK DEF ServerOK

LEMMA IconsEmpty == Icons(<<>>) = <<>>
<1>1. <<>> \in Seq(Marker)  BY EmptySeq
<1>2. Icons(<<>>) \in Seq(Seq(BOOLEAN)) /\ DOMAIN Icons(<<>>) = {}
  <2>1. DOMAIN <<>> = {}  OBVIOUS
  <2> QED  BY <1>1, <2>1, IconsType
<1>3. Len(Icons(<<>>)) = 0
  <2>1. Len(Icons(<<>>)) \in Nat /\ DOMAIN Icons(<<>>) = 1..Len(Icons(<<>>))
    BY <1>2, LenProperties
  <2> QED  BY <1>2, <2>1
<1> QED  BY <1>2, <1>3, EmptySeq

LEMMA ActivesEmpty == Actives(<<>>) = {} /\ UrlsOf(<<>>) = {}
<1>1. Actives(<<>>) = {}  BY DEF Actives
<1> QED  BY <1>1 DEF UrlsOf

LEMMA PageType ==
    ASSUME PagesT, NEW t \in Tab
    PROVE  page[t] \in Page /\ page[t].currentJson \in Seq(Marker) /\ inbox[t] \in Seq(Reveal)
BY DEF PagesT, Page

LEMMA EmptyInjective == IsInjective(<<>>)
BY DEF IsInjective

\* A page is as before when the server does something else.
LEMMA PageKept ==
    ASSUME NEW t \in Tab, PageOK(t), CountOK(t), PagesT, ServerOK, ServerOK',
           page'[t] = page[t], inbox'[t] = inbox[t], iotAddresses' = iotAddresses,
           connection <= connection', eventsTxHashes \subseteq eventsTxHashes'
    PROVE  PageOK(t)' /\ CountOK(t)'
<1>1. page[t].ws \in Nat  BY DEF PagesT, Page
<1>2. page'[t].ws <= connection'  BY <1>1 DEF PageOK, ServerOK
<1>3. Drawn(page[t])'  BY DEF PageOK, Drawn
<1>4. Truthful(page[t].currentJson)'  BY DEF PageOK, Truthful
<1>5. OnceOnly(t)'  BY SeqMonotonic DEF PageOK, OnceOnly
<1>6. Miscounted => Miscounted'  BY DEF Miscounted
<1> QED  BY <1>2, <1>3, <1>4, <1>5, <1>6 DEF PageOK, CountOK, Ready

LEMMA MapInvInit == UInit => MapInv
<1> SUFFICES ASSUME UInit PROVE MapInv  OBVIOUS
<1> USE DEF UInit
<1>1. ServerOK  BY MapOK DEF ServerOK
<1>2. PagesT
  <2>1. Closed \in Page  BY EmptySeq DEF Closed, Page, Phase
  <2> QED  BY <2>1, EmptySeq DEF PagesT
<1>3. ASSUME NEW t \in Tab PROVE PageOK(t) /\ CountOK(t)
  <2>1. page[t].ws <= connection  BY DEF Closed
  <2>2. Drawn(page[t])  BY IconsEmpty DEF Drawn, Closed
  <2>3. Truthful(page[t].currentJson)  BY ActivesEmpty DEF Truthful, Closed
  <2>4. OnceOnly(t)  BY EmptySeq, EmptyInjective, ActivesEmpty DEF OnceOnly, Closed
  <2> QED  BY <2>1, <2>2, <2>3, <2>4 DEF PageOK, CountOK, Ready, Closed
<1> QED  BY <1>1, <1>2, <1>3 DEF MapInv

LEMMA LoadKeeps ==
    ASSUME MapInv, NEW t \in Tab, Load(t)
    PROVE  MapInv'
<1> USE DEF MapInv
<1> DEFINE new == [Closed EXCEPT !.phase = "loading"]
<1>0. UNCHANGED <<revealed, iotAddresses, eventsTxHashes, connection>>  BY DEF Load, server
<1>1. ServerOK'  BY <1>0 DEF ServerOK
<1>2. new \in Page  BY EmptySeq DEF Closed, Page, Phase
<1>3. page' = [page EXCEPT ![t] = new] /\ inbox' = [inbox EXCEPT ![t] = <<>>]  BY DEF Load
<1>4. new.currentJson = <<>> /\ new.mapMarkers = <<>> /\ new.elements = <<>>
      /\ new.phase = "loading" /\ new.ws = 0
  BY DEF Closed
<1> HIDE DEF new
<1>5. PagesT'  BY <1>2, <1>3, EmptySeq DEF PagesT
<1>6. page'[t] = new /\ inbox'[t] = <<>>  BY <1>3 DEF PagesT
<1>7. PageOK(t)' /\ CountOK(t)'
  <2>1. page'[t].ws <= connection'  BY <1>1, <1>4, <1>6, MapOK DEF ServerOK
  <2>2. Drawn(page[t])'  BY <1>4, <1>6, IconsEmpty DEF Drawn
  <2>3. Truthful(page[t].currentJson)'  BY <1>4, <1>6, ActivesEmpty DEF Truthful
  <2>4. OnceOnly(t)'  BY <1>4, <1>6, EmptySeq, EmptyInjective, ActivesEmpty DEF OnceOnly
  <2> QED  BY <1>4, <1>6, <2>1, <2>2, <2>3, <2>4 DEF PageOK, CountOK, Ready
<1>8. \A v \in Tab \ {t} : PageOK(v)' /\ CountOK(v)'
  <2> SUFFICES ASSUME NEW v \in Tab \ {t} PROVE PageOK(v)' /\ CountOK(v)'  OBVIOUS
  <2>1. page'[v] = page[v] /\ inbox'[v] = inbox[v]  BY <1>3 DEF PagesT
  <2>2. connection <= connection'  BY <1>0, MapOK DEF ServerOK
  <2> QED  BY <1>0, <1>1, <2>1, <2>2, PageKept
<1> QED  BY <1>1, <1>5, <1>7, <1>8

\* The other pages do not notice what happens to page t.
LEMMA OthersKept ==
    ASSUME MapInv, ServerOK', NEW t \in Tab, iotAddresses' = iotAddresses,
           connection <= connection', eventsTxHashes' = eventsTxHashes,
           \A v \in Tab \ {t} : page'[v] = page[v] /\ inbox'[v] = inbox[v]
    PROVE  \A v \in Tab \ {t} : PageOK(v)' /\ CountOK(v)'
<1> SUFFICES ASSUME NEW v \in Tab \ {t} PROVE PageOK(v)' /\ CountOK(v)'  OBVIOUS
<1>1. PageOK(v) /\ CountOK(v) /\ PagesT /\ ServerOK  BY DEF MapInv
<1> QED  BY <1>1, PageKept

LEMMA onRequestKeeps ==
    ASSUME MapInv, NEW t \in Tab, onRequest(t)
    PROVE  MapInv'
<1> USE DEF MapInv
<1>0. UNCHANGED <<revealed, iotAddresses, eventsTxHashes, inbox>>  BY DEF onRequest
<1>1. connection \in Nat /\ connection' = connection + 1 /\ connection' \in 0..MaxConnections
  BY MapOK DEF onRequest, ServerOK
<1>2. ServerOK'  BY <1>0, <1>1 DEF ServerOK
<1>3. page[t] \in Page  BY PageType
<1>4. page' = [page EXCEPT ![t] = [page[t] EXCEPT !.ws = connection']]
  BY <1>1 DEF onRequest
<1>5. [page[t] EXCEPT !.ws = connection'] \in Page
  <2>1. \A n \in Nat : [page[t] EXCEPT !.ws = n] \in Page  BY <1>3 DEF Page
  <2> QED  BY <1>1, <2>1
<1>6. PagesT'  BY <1>0, <1>4, <1>5 DEF PagesT
<1>7. page'[t] = [page[t] EXCEPT !.ws = connection']  BY <1>4 DEF PagesT
<1>8. PageOK(t)' /\ CountOK(t)'
  <2>0. /\ page'[t].phase = page[t].phase /\ page'[t].currentJson = page[t].currentJson
        /\ page'[t].mapMarkers = page[t].mapMarkers /\ page'[t].elements = page[t].elements
        /\ page'[t].numOfUpdatedDevices = page[t].numOfUpdatedDevices /\ page'[t].ws = connection'
    BY <1>3, <1>7 DEF Page
  <2>1. page'[t].ws <= connection'  BY <1>1, <2>0
  <2>2. Drawn(page[t])'  BY <1>0, <2>0 DEF PageOK, Drawn
  <2>3. Truthful(page[t].currentJson)'  BY <1>0, <2>0 DEF PageOK, Truthful
  <2>4. OnceOnly(t)'  BY <1>0, <2>0 DEF PageOK, OnceOnly
  <2>5. CountOK(t)'  BY <1>0, <2>0 DEF CountOK, Ready, Miscounted
  <2> QED  BY <2>1, <2>2, <2>3, <2>4, <2>5 DEF PageOK
<1>9. \A v \in Tab \ {t} : PageOK(v)' /\ CountOK(v)'
  <2>1. \A v \in Tab \ {t} : page'[v] = page[v] /\ inbox'[v] = inbox[v]
    BY <1>0, <1>4 DEF PagesT
  <2> QED  BY <1>0, <1>1, <1>2, <2>1, OthersKept
<1> QED  BY <1>2, <1>6, <1>8, <1>9

LEMMA initJson ==
    ASSUME ServerOK
    PROVE  LET json == initJsonVar(iotAddresses)
           IN  /\ json \in Seq(Marker) /\ DOMAIN json = DOMAIN iotAddresses
               /\ \A i \in DOMAIN iotAddresses : json[i].address = iotAddresses[i]
               /\ Actives(json) = {} /\ UrlsOf(json) = {}
<1> DEFINE json == initJsonVar(iotAddresses)
<1>1. Len(iotAddresses) \in Nat /\ DOMAIN iotAddresses = 1..Len(iotAddresses)
      /\ \A i \in DOMAIN iotAddresses : iotAddresses[i] \in Address
  BY Addresses, LenProperties, ElementOfSeq
<1>2. DOMAIN json = DOMAIN iotAddresses /\ json = [i \in 1..Len(iotAddresses) |-> json[i]]
  BY <1>1 DEF initJsonVar
<1>3. \A i \in DOMAIN iotAddresses :
         json[i] \in Marker /\ json[i].address = iotAddresses[i] /\ ~Active(json[i])
  BY <1>1 DEF initJsonVar, Marker, Active
<1> HIDE DEF json
<1>4. json \in Seq(Marker)  BY <1>1, <1>2, <1>3, IsSequence
<1>5. Actives(json) = {}  BY <1>2, <1>3 DEF Actives
<1>6. UrlsOf(json) = {}  BY <1>5 DEF UrlsOf
<1> QED  BY <1>2, <1>3, <1>4, <1>5, <1>6 DEF json

\* The list arrives: either the page fails and keeps its empty map, or it draws one
\* that has a marker for each address, none of them active.
LEMMA getIoTAddressesDraws ==
    ASSUME MapInv, NEW t \in Tab, getIoTAddresses(t)
    PROVE  LET json == initJsonVar(iotAddresses)
           IN  \/ page'[t] = [page[t] EXCEPT !.phase = "failed"]
               \/ page'[t] = [page[t] EXCEPT !.phase = "ready", !.currentJson = json,
                                 !.numOfUpdatedDevices = 0, !.mapMarkers = json,
                                 !.elements = Icons(json)]
<1> DEFINE json == initJsonVar(iotAddresses)
           q == [page[t] EXCEPT !.phase = "ready", !.currentJson = json, !.numOfUpdatedDevices = 0]
<1>1. page[t] \in Page /\ Drawn(page[t]) /\ page[t].phase = "loading"
  BY PageType DEF MapInv, PageOK, getIoTAddresses
<1>2. page[t].mapMarkers = <<>> /\ page[t].elements = <<>>
  BY <1>1, IconsEmpty DEF Drawn
<1>3. json \in Seq(Marker)  BY initJson DEF MapInv
<1> HIDE DEF json
<1>4. q.currentJson = json /\ DOMAIN q.mapMarkers = {} /\ DOMAIN q.elements = {}
  BY <1>1, <1>2 DEF Page
<1>5. Draw(q) = [q EXCEPT !.mapMarkers = json, !.elements = Icons(json)]
  <2> HIDE DEF q
  <2> QED  BY <1>3, <1>4, DrawOnEmpty
<1>6. [q EXCEPT !.mapMarkers = json, !.elements = Icons(json)] =
        [page[t] EXCEPT !.phase = "ready", !.currentJson = json, !.numOfUpdatedDevices = 0,
                        !.mapMarkers = json, !.elements = Icons(json)]
  BY <1>1 DEF Page
<1>7. page'[t] = [page[t] EXCEPT !.phase = "failed"] \/ page'[t] = Draw(q)
  BY DEF getIoTAddresses, MapInv, PagesT, json
<1> QED  BY <1>5, <1>6, <1>7 DEF json

LEMMA getIoTAddressesKeeps ==
    ASSUME MapInv, NEW t \in Tab, getIoTAddresses(t)
    PROVE  MapInv'
<1> USE DEF MapInv
<1> DEFINE json == initJsonVar(iotAddresses)
<1>0. UNCHANGED <<revealed, iotAddresses, eventsTxHashes, connection, inbox>>
  BY DEF getIoTAddresses, server
<1>1. ServerOK'  BY <1>0 DEF ServerOK
<1>2. page[t] \in Page /\ page[t].phase = "loading"  BY PageType DEF getIoTAddresses
<1>3. /\ json \in Seq(Marker) /\ DOMAIN json = DOMAIN iotAddresses
      /\ \A i \in DOMAIN iotAddresses : json[i].address = iotAddresses[i]
      /\ Actives(json) = {} /\ UrlsOf(json) = {}
  BY initJson
<1> HIDE DEF json
<1>4. \/ page'[t] = [page[t] EXCEPT !.phase = "failed"]
      \/ page'[t] = [page[t] EXCEPT !.phase = "ready", !.currentJson = json,
                        !.numOfUpdatedDevices = 0, !.mapMarkers = json,
                        !.elements = Icons(json)]
  BY getIoTAddressesDraws DEF json
<1>5. page'[t] \in Page
  <2>1. [page[t] EXCEPT !.phase = "failed"] \in Page  BY <1>2 DEF Page, Phase
  <2>2. \A icons \in Seq(Seq(BOOLEAN)) :
           [page[t] EXCEPT !.phase = "ready", !.currentJson = json, !.numOfUpdatedDevices = 0,
                           !.mapMarkers = json, !.elements = icons] \in Page
    BY <1>2, <1>3 DEF Page, Phase
  <2>3. Icons(json) \in Seq(Seq(BOOLEAN))  BY <1>3, IconsType
  <2> QED  BY <1>4, <2>1, <2>2, <2>3
<1>6. page' = [page EXCEPT ![t] = page'[t]]  BY DEF getIoTAddresses, PagesT
<1>7. PagesT'  BY <1>0, <1>5, <1>6 DEF PagesT
<1>8. PageOK(t)' /\ CountOK(t)'
  <2>1. CASE page'[t] = [page[t] EXCEPT !.phase = "failed"]
    <3>0. /\ page'[t].phase = "failed" /\ page'[t].currentJson = page[t].currentJson
          /\ page'[t].mapMarkers = page[t].mapMarkers /\ page'[t].elements = page[t].elements
          /\ page'[t].ws = page[t].ws
      BY <1>2, <2>1 DEF Page
    <3>1. Drawn(page[t])'  BY <1>2, <3>0 DEF PageOK, Drawn
    <3>2. Truthful(page[t].currentJson)'  BY <1>0, <3>0 DEF PageOK, Truthful
    <3>3. OnceOnly(t)'  BY <1>0, <3>0 DEF PageOK, OnceOnly
    <3> QED  BY <1>0, <3>0, <3>1, <3>2, <3>3 DEF PageOK, CountOK, Ready
  <2>2. CASE page'[t] = [page[t] EXCEPT !.phase = "ready", !.currentJson = json,
                            !.numOfUpdatedDevices = 0, !.mapMarkers = json,
                            !.elements = Icons(json)]
    <3>0. /\ page'[t].phase = "ready" /\ page'[t].currentJson = json
          /\ page'[t].mapMarkers = json /\ page'[t].elements = Icons(json)
          /\ page'[t].ws = page[t].ws /\ page'[t].numOfUpdatedDevices = 0
      BY <1>2, <2>2 DEF Page
    <3>1. Drawn(page[t])'  BY <1>0, <1>3, <3>0 DEF Drawn
    <3>2. Truthful(page[t].currentJson)'  BY <1>3, <3>0 DEF Truthful
    <3>3. OnceOnly(t)'  BY <1>0, <1>3, <3>0 DEF PageOK, OnceOnly
    <3>4. CountOK(t)'  BY <1>3, <3>0, FS_EmptySet DEF CountOK
    <3> QED  BY <1>0, <3>0, <3>1, <3>2, <3>3, <3>4 DEF PageOK
  <2> QED  BY <1>4, <2>1, <2>2
<1>9. \A v \in Tab \ {t} : PageOK(v)' /\ CountOK(v)'
  <2>1. \A v \in Tab \ {t} : page'[v] = page[v] /\ inbox'[v] = inbox[v]
    BY <1>0, <1>6 DEF PagesT
  <2>2. connection <= connection'  BY <1>0, MapOK DEF ServerOK
  <2> QED  BY <1>0, <1>1, <2>1, <2>2, OthersKept
<1> QED  BY <1>1, <1>7, <1>8, <1>9

\* The message taken is neither under way any more nor was it shown.
LEMMA TailOfInbox ==
    ASSUME NEW S, NEW s \in Seq(S), s # <<>>, IsInjective(s)
    PROVE  /\ Head(s) \in S /\ Head(s) \in ToSet(s)
           /\ Tail(s) \in Seq(S) /\ IsInjective(Tail(s))
           /\ ToSet(Tail(s)) \subseteq ToSet(s) \ {Head(s)}
<1>1. Len(s) \in Nat \ {0} /\ DOMAIN s = 1..Len(s)  BY EmptySeq, LenProperties
<1>2. Head(s) = s[1] /\ Head(s) \in S /\ Tail(s) \in Seq(S)  BY HeadTailProperties, ElementOfSeq
<1>3. DOMAIN Tail(s) = 1..(Len(s) - 1)
  BY <1>1, <1>2, HeadTailProperties, LenProperties
<1>4. \A i \in 1..(Len(s) - 1) : Tail(s)[i] = s[i + 1]  BY <1>1, HeadTailProperties
<1>5. IsInjective(Tail(s))
  <2> SUFFICES ASSUME NEW i \in 1..(Len(s) - 1), NEW j \in 1..(Len(s) - 1), Tail(s)[i] = Tail(s)[j]
               PROVE  i = j
    BY <1>3 DEF IsInjective
  <2>1. s[i + 1] = s[j + 1] /\ i + 1 \in DOMAIN s /\ j + 1 \in DOMAIN s  BY <1>1, <1>4
  <2>2. i + 1 = j + 1  BY <2>1 DEF IsInjective
  <2> QED  BY <1>1, <2>2
<1>6. ToSet(Tail(s)) \subseteq ToSet(s) \ {Head(s)}
  <2> SUFFICES ASSUME NEW i \in 1..(Len(s) - 1)
               PROVE  Tail(s)[i] \in ToSet(s) /\ Tail(s)[i] # Head(s)
    BY <1>3 DEF ToSet
  <2>1. Tail(s)[i] = s[i + 1] /\ i + 1 \in DOMAIN s /\ 1 \in DOMAIN s /\ i + 1 # 1  BY <1>1, <1>4
  <2>2. s[i + 1] # s[1]  BY <2>1 DEF IsInjective
  <2> QED  BY <1>2, <2>1, <2>2 DEF ToSet
<1>7. Head(s) \in ToSet(s)
  <2>1. 1 \in DOMAIN s  BY <1>1
  <2> QED  BY <1>2, <2>1 DEF ToSet
<1> QED  BY <1>2, <1>5, <1>6, <1>7

LEMMA AppendToInbox ==
    ASSUME NEW S, NEW s \in Seq(S), IsInjective(s), NEW r \in S, r \notin ToSet(s)
    PROVE  /\ Append(s, r) \in Seq(S) /\ IsInjective(Append(s, r))
           /\ ToSet(Append(s, r)) = ToSet(s) \cup {r}
<1> DEFINE n == Len(s)
           new == Append(s, r)
<1>1. n \in Nat /\ DOMAIN s = 1..n  BY LenProperties
<1>2. new \in Seq(S) /\ Len(new) = n + 1 /\ new[n + 1] = r /\ \A i \in 1..n : new[i] = s[i]
  BY <1>1, AppendProperties
<1>3. DOMAIN new = 1..(n + 1)  BY <1>2, LenProperties
<1> HIDE DEF new
<1>4. \A i \in 1..n : new[i] # r  BY <1>1, <1>2 DEF ToSet
<1>5. IsInjective(new)
  <2> SUFFICES ASSUME NEW i \in 1..(n + 1), NEW j \in 1..(n + 1), new[i] = new[j]
               PROVE  i = j
    BY <1>3 DEF IsInjective
  <2>1. CASE i = n + 1  BY <1>1, <1>2, <1>4, <2>1
  <2>2. CASE j = n + 1  BY <1>1, <1>2, <1>4, <2>2
  <2>3. CASE i \in 1..n /\ j \in 1..n  BY <1>1, <1>2, <2>3 DEF IsInjective
  <2> QED  BY <1>1, <2>1, <2>2, <2>3
<1>6. ToSet(new) = ToSet(s) \cup {r}
  <2>1. \A i \in 1..(n + 1) : i \in 1..n \/ i = n + 1  BY <1>1
  <2>2. 1..n \subseteq 1..(n + 1) /\ n + 1 \in 1..(n + 1)  BY <1>1
  <2> QED  BY <1>1, <1>2, <1>3, <2>1, <2>2 DEF ToSet
<1> QED  BY <1>2, <1>5, <1>6 DEF new

\* An event of a device on the list, the first one of that device, makes exactly
\* one more marker active.
LEMMA OneMoreActive ==
    ASSUME ServerOK, NEW json \in Seq(Marker), NEW r \in eventsTxHashes,
           DOMAIN json = DOMAIN iotAddresses,
           \A i \in DOMAIN iotAddresses : json[i].address = iotAddresses[i],
           Truthful(json), r \notin UrlsOf(json), ~Miscounted
    PROVE  Cardinality(Actives(updateMapMarkerInCurrJson(json, r))) = Cardinality(Actives(json)) + 1
<1> DEFINE new == updateMapMarkerInCurrJson(json, r)
<1>0. r \in Reveal /\ Len(json) \in Nat /\ DOMAIN json = 1..Len(json)
      /\ \A i \in DOMAIN json : json[i] \in Marker
  BY JsonDomain DEF ServerOK
<1>1. PICK i \in DOMAIN json : json[i].address = Lower(r.pko)
  <2>1. Lower(r.pko) \in ToSet(iotAddresses)  BY DEF Miscounted
  <2> QED  BY <2>1 DEF ToSet
<1>2. \A j \in DOMAIN json : json[j].address = json[i].address => j = i
  BY Addresses DEF IsInjective
<1>3. ~Active(json[i])
  <2> SUFFICES ASSUME Active(json[i]) PROVE FALSE  OBVIOUS
  <2>1. i \in Actives(json)  BY DEF Actives
  <2> DEFINE s == json[i].markerUrl
  <2>2. s \in eventsTxHashes /\ Lower(s.pko) = Lower(r.pko) /\ s \in UrlsOf(json)
    BY <1>1, <2>1 DEF Truthful, UrlsOf
  <2>3. s.pko = r.pko  BY <2>2 DEF Lower
  <2>4. s # r  BY <2>2
  <2> QED  BY <2>2, <2>3, <2>4 DEF Miscounted
<1>4. new[i] = [json[i] EXCEPT !.markerUrl = r]
  <2>1. \A j \in 1..i - 1 : j \in DOMAIN json /\ j # i  BY <1>0
  <2> QED  BY <1>1, <1>2, <2>1 DEF updateMapMarkerInCurrJson
<1>5. Active(new[i])
  <2>1. new[i].markerUrl = r  BY <1>0, <1>4 DEF Marker
  <2> QED  BY <1>0, <2>1, MapOK DEF Active
<1>6. DOMAIN new = DOMAIN json /\ \A j \in DOMAIN json \ {i} : new[j] = json[j]
  BY <1>1, <1>2 DEF updateMapMarkerInCurrJson
<1> HIDE DEF new
<1>7. Actives(new) = Actives(json) \cup {i} /\ i \notin Actives(json)
  BY <1>3, <1>5, <1>6 DEF Actives
<1>8. IsFiniteSet(Actives(json))
  <2>1. IsFiniteSet(1..Len(json))  BY <1>0, FS_Interval
  <2>2. Actives(json) \subseteq 1..Len(json)  BY <1>0 DEF Actives
  <2> QED  BY <2>1, <2>2, FS_Subset
<1>9. Cardinality(Actives(new)) = Cardinality(Actives(json)) + 1
  BY <1>7, <1>8, FS_AddElement
<1> QED  BY <1>9 DEF new

LEMMA onmessageKeeps ==
    ASSUME MapInv, NEW t \in Tab, onmessage(t)
    PROVE  MapInv'
<1> USE DEF MapInv
<1> DEFINE r == Head(inbox[t])
           new == updateMapMarkerInCurrJson(page[t].currentJson, r)
<1>0. UNCHANGED <<revealed, iotAddresses, eventsTxHashes, connection>>
      /\ inbox' = [inbox EXCEPT ![t] = Tail(inbox[t])] /\ inbox[t] # <<>>
  BY DEF onmessage, server
<1>1. ServerOK'  BY <1>0 DEF ServerOK
<1>2. page[t] \in Page /\ page[t].currentJson \in Seq(Marker) /\ inbox[t] \in Seq(Reveal)
  BY PageType
<1>3. /\ r \in eventsTxHashes /\ r \in ToSet(inbox[t])
      /\ Tail(inbox[t]) \in Seq(eventsTxHashes) /\ IsInjective(Tail(inbox[t]))
      /\ ToSet(Tail(inbox[t])) \subseteq ToSet(inbox[t]) \ {r}
  BY <1>0, TailOfInbox DEF PageOK, OnceOnly
<1>4. r \in Reveal  BY <1>3 DEF ServerOK
<1>5. inbox' \in [Tab -> Seq(Reveal)] /\ inbox'[t] = Tail(inbox[t])
  BY <1>0, <1>2, TailOfInbox, HeadTailProperties DEF PagesT
<1>6. /\ new \in Seq(Marker) /\ DOMAIN new = DOMAIN page[t].currentJson
      /\ \A i \in DOMAIN page[t].currentJson :
            /\ new[i].address = page[t].currentJson[i].address
            /\ \/ new[i].markerUrl = page[t].currentJson[i].markerUrl
               \/ new[i].markerUrl = r /\ page[t].currentJson[i].address = Lower(r.pko)
  BY <1>2, <1>4, updateMapMarker
<1>7. \/ page[t].phase # "ready" /\ page'[t] = page[t]
      \/ /\ page[t].phase = "ready"
         /\ page'[t] = [page[t] EXCEPT !.currentJson = new,
                           !.numOfUpdatedDevices = page[t].numOfUpdatedDevices + 1,
                           !.mapMarkers = new, !.elements = Icons(new)]
  <2>1. page'[t] = IF page[t].phase = "ready" THEN newUpdate(page[t], r) ELSE page[t]
    BY DEF onmessage, PagesT
  <2>2. Drawn(page[t])  BY DEF PageOK
  <2> QED  BY <1>2, <1>4, <2>1, <2>2, newUpdateRedraws
<1>8. page' = [page EXCEPT ![t] = page'[t]]  BY DEF onmessage, PagesT
<1>9. \A v \in Tab \ {t} : PageOK(v)' /\ CountOK(v)'
  <2>1. \A v \in Tab \ {t} : page'[v] = page[v] /\ inbox'[v] = inbox[v]
    BY <1>0, <1>8 DEF PagesT
  <2>2. connection <= connection'  BY <1>0, MapOK DEF ServerOK
  <2> QED  BY <1>0, <1>1, <2>1, <2>2, OthersKept
<1>10. CASE page[t].phase # "ready" /\ page'[t] = page[t]
  <2>1. PagesT'  BY <1>2, <1>5, <1>8, <1>10 DEF PagesT
  <2>2. OnceOnly(t)'  BY <1>0, <1>3, <1>5, <1>10 DEF PageOK, OnceOnly
  <2>3. Drawn(page[t])' /\ Truthful(page[t].currentJson)' /\ page'[t].ws <= connection'
    BY <1>0, <1>10 DEF PageOK, Drawn, Truthful
  <2>4. CountOK(t)'  BY <1>10 DEF CountOK, Ready
  <2> QED  BY <1>1, <1>9, <2>1, <2>2, <2>3, <2>4 DEF PageOK
<1>11. CASE /\ page[t].phase = "ready"
            /\ page'[t] = [page[t] EXCEPT !.currentJson = new,
                              !.numOfUpdatedDevices = page[t].numOfUpdatedDevices + 1,
                              !.mapMarkers = new, !.elements = Icons(new)]
  <2> HIDE DEF new
  <2>0. /\ page'[t].phase = "ready" /\ page'[t].currentJson = new
        /\ page'[t].mapMarkers = new /\ page'[t].elements = Icons(new)
        /\ page'[t].ws = page[t].ws
        /\ page'[t].numOfUpdatedDevices = page[t].numOfUpdatedDevices + 1
    BY <1>2, <1>11 DEF Page
  <2>1. page'[t] \in Page
    <3>1. \A n \in Nat, json \in Seq(Marker), icons \in Seq(Seq(BOOLEAN)) :
             [page[t] EXCEPT !.currentJson = json, !.numOfUpdatedDevices = n,
                             !.mapMarkers = json, !.elements = icons] \in Page
      BY <1>2 DEF Page
    <3>2. page[t].numOfUpdatedDevices + 1 \in Nat  BY <1>2 DEF Page
    <3>3. new \in Seq(Marker) /\ Icons(new) \in Seq(Seq(BOOLEAN))  BY <1>6, IconsType
    <3> DEFINE n == page[t].numOfUpdatedDevices + 1
               icons == Icons(new)
    <3>4. [page[t] EXCEPT !.currentJson = new, !.numOfUpdatedDevices = n,
                          !.mapMarkers = new, !.elements = icons] \in Page
      <4> HIDE DEF n, icons
      <4>1. n \in Nat /\ icons \in Seq(Seq(BOOLEAN))  BY <3>2, <3>3 DEF n, icons
      <4> QED  BY <3>1, <3>3, <4>1
    <3>5. page'[t] = [page[t] EXCEPT !.currentJson = new, !.numOfUpdatedDevices = n,
                                     !.mapMarkers = new, !.elements = icons]
      BY <1>11
    <3> QED  BY <3>4, <3>5
  <2>2. PagesT'  BY <1>5, <1>8, <2>1 DEF PagesT
  <2>3. Drawn(page[t])'  BY <1>0, <1>6, <1>11, <2>0 DEF PageOK, Drawn
  <2>4. Truthful(page[t].currentJson)'
    <3> SUFFICES ASSUME NEW i \in Actives(new)
                 PROVE  new[i].markerUrl \in eventsTxHashes
                        /\ new[i].address = Lower(new[i].markerUrl.pko)
      BY <1>0, <2>0 DEF Truthful
    <3>1. i \in DOMAIN page[t].currentJson /\ Active(new[i])  BY <1>6 DEF Actives
    <3>2. CASE new[i].markerUrl = page[t].currentJson[i].markerUrl
      <4>1. i \in Actives(page[t].currentJson)  BY <3>1, <3>2 DEF Actives, Active
      <4> QED  BY <1>6, <3>1, <3>2, <4>1 DEF PageOK, Truthful
    <3>3. CASE new[i].markerUrl = r /\ page[t].currentJson[i].address = Lower(r.pko)
      BY <1>3, <1>6, <3>1, <3>3
    <3> QED  BY <1>6, <3>1, <3>2, <3>3
  <2>5. OnceOnly(t)'
    <3>1. UrlsOf(new) \subseteq UrlsOf(page[t].currentJson) \cup {r}
      <4> SUFFICES ASSUME NEW i \in Actives(new), new[i].markerUrl # r
                   PROVE  new[i].markerUrl \in UrlsOf(page[t].currentJson)
        BY DEF UrlsOf
      <4>1. i \in DOMAIN page[t].currentJson /\ new[i].markerUrl = page[t].currentJson[i].markerUrl
        BY <1>6 DEF Actives
      <4>2. i \in Actives(page[t].currentJson)  BY <4>1 DEF Actives, Active
      <4> QED  BY <4>1, <4>2 DEF UrlsOf
    <3>2. ToSet(inbox[t]) \cap UrlsOf(page[t].currentJson) = {}  BY DEF PageOK, OnceOnly
    <3> QED  BY <1>0, <1>3, <1>5, <2>0, <3>1, <3>2 DEF OnceOnly
  <2>6. CountOK(t)'
    <3> SUFFICES ASSUME ~Miscounted
                 PROVE  page'[t].numOfUpdatedDevices = Cardinality(Actives(new))
      BY <1>0, <2>0 DEF CountOK, Miscounted
    <3>1. page[t].numOfUpdatedDevices = Cardinality(Actives(page[t].currentJson))
      BY <1>11 DEF CountOK, Ready
    <3>2. r \notin UrlsOf(page[t].currentJson)  BY <1>3 DEF PageOK, OnceOnly
    <3>3. Cardinality(Actives(new)) = Cardinality(Actives(page[t].currentJson)) + 1
      <4>1. DOMAIN page[t].currentJson = DOMAIN iotAddresses
            /\ \A i \in DOMAIN iotAddresses : page[t].currentJson[i].address = iotAddresses[i]
        BY <1>11 DEF PageOK, Drawn
      <4>2. Truthful(page[t].currentJson)  BY DEF PageOK
      <4> QED  BY <1>2, <1>3, <3>2, <4>1, <4>2, OneMoreActive DEF new
    <3> HIDE DEF MapInv
    <3> QED  BY <2>0, <3>1, <3>3
  <2>7. page'[t].ws <= connection'  BY <1>0, <2>0 DEF PageOK
  <2> QED  BY <1>1, <1>9, <2>2, <2>3, <2>4, <2>5, <2>6, <2>7 DEF PageOK
<1> QED  BY <1>7, <1>10, <1>11

LEMMA KeyRevealedKeeps ==
    ASSUME MapInv, NEW r \in Reveal, KeyRevealed(r)
    PROVE  MapInv'
<1> USE DEF MapInv
<1>0. UNCHANGED <<iotAddresses, eventsTxHashes, connection, page, inbox>>
  BY DEF KeyRevealed, server
<1>1. ServerOK'  BY <1>0 DEF KeyRevealed, ServerOK
<1>2. PagesT'  BY <1>0 DEF PagesT
<1>3. ASSUME NEW t \in Tab PROVE PageOK(t)' /\ CountOK(t)'
  <2>1. PageOK(t) /\ CountOK(t) /\ page'[t] = page[t] /\ inbox'[t] = inbox[t]  BY <1>0
  <2>2. connection <= connection'  BY <1>0, MapOK DEF ServerOK
  <2> QED  BY <1>0, <1>1, <2>1, <2>2, PageKept
<1> QED  BY <1>1, <1>2, <1>3

\* An event reaches a page once: what is under way or shown was in eventsTxHashes, and
\* this event was not.
LEMMA onKeyRevealedKeeps ==
    ASSUME MapInv, NEW r \in Reveal, _onKeyRevealed(r)
    PROVE  MapInv'
<1> USE DEF MapInv
<1>0. UNCHANGED <<revealed, iotAddresses, connection, page>>
      /\ eventsTxHashes' = eventsTxHashes \cup {r} /\ r \in revealed
  BY DEF _onKeyRevealed
<1>1. ServerOK'  BY <1>0 DEF ServerOK
<1>2. connection <= connection'  BY <1>0, MapOK DEF ServerOK
<1>3. \A t \in Tab : \/ inbox'[t] = inbox[t]
                     \/ inbox'[t] = Append(inbox[t], r) /\ r \notin eventsTxHashes
  BY DEF _onKeyRevealed, Sent, PagesT
<1>4. PagesT'
  <2>1. \A t \in Tab : Append(inbox[t], r) \in Seq(Reveal)
    BY AppendProperties DEF PagesT
  <2>2. inbox' \in [Tab -> Seq(Reveal)]
    <3>1. inbox' = inbox \/ inbox' = Sent(r)  BY DEF _onKeyRevealed
    <3>2. Sent(r) \in [Tab -> Seq(Reveal)]  BY <2>1 DEF Sent, PagesT
    <3> QED  BY <3>1, <3>2 DEF PagesT
  <2> QED  BY <1>0, <2>2 DEF PagesT
<1>5. ASSUME NEW t \in Tab PROVE PageOK(t)' /\ CountOK(t)'
  <2>0. PageOK(t) /\ CountOK(t) /\ page'[t] = page[t]  BY <1>0
  <2>1. CASE inbox'[t] = inbox[t]
    BY <1>0, <1>1, <1>2, <2>0, <2>1, PageKept
  <2>2. CASE inbox'[t] = Append(inbox[t], r) /\ r \notin eventsTxHashes
    <3>1. /\ inbox[t] \in Seq(eventsTxHashes) /\ IsInjective(inbox[t])
          /\ ToSet(inbox[t]) \cap UrlsOf(page[t].currentJson) = {}
      BY <2>0 DEF PageOK, OnceOnly
    <3>2. ToSet(inbox[t]) \subseteq eventsTxHashes  BY <3>1, ElementOfSeq DEF ToSet
    <3>3. UrlsOf(page[t].currentJson) \subseteq eventsTxHashes
      BY <2>0 DEF PageOK, Truthful, UrlsOf
    <3>4. inbox[t] \in Seq(eventsTxHashes')  BY <1>0, <3>1, SeqMonotonic
    <3>5. /\ inbox'[t] \in Seq(eventsTxHashes') /\ IsInjective(inbox'[t])
          /\ ToSet(inbox'[t]) = ToSet(inbox[t]) \cup {r}
      BY <1>0, <2>2, <3>1, <3>2, <3>4, AppendToInbox
    <3>6. OnceOnly(t)'  BY <2>0, <2>2, <3>1, <3>3, <3>5 DEF OnceOnly
    <3>7. page'[t].ws <= connection' /\ Drawn(page[t])' /\ Truthful(page[t].currentJson)'
      BY <1>0, <2>0 DEF PageOK, Drawn, Truthful
    <3>8. Miscounted => Miscounted'  BY <1>0 DEF Miscounted
    <3>9. CountOK(t)'  BY <2>0, <3>8 DEF CountOK, Ready
    <3> QED  BY <3>6, <3>7, <3>9 DEF PageOK
  <2> QED  BY <1>3, <2>1, <2>2
<1> QED  BY <1>1, <1>4, <1>5

LEMMA MapInvNext == MapInv /\ [UNext]_mvars => MapInv'
<1> SUFFICES ASSUME MapInv, [UNext]_mvars PROVE MapInv'  OBVIOUS
<1>1. CASE \E t \in Tab : Load(t)  BY <1>1, LoadKeeps
<1>2. CASE \E t \in Tab : onRequest(t)  BY <1>2, onRequestKeeps
<1>3. CASE \E t \in Tab : getIoTAddresses(t)  BY <1>3, getIoTAddressesKeeps
<1>4. CASE \E t \in Tab : onmessage(t)  BY <1>4, onmessageKeeps
<1>5. CASE \E r \in Reveal : KeyRevealed(r)  BY <1>5, KeyRevealedKeeps
<1>6. CASE \E r \in Reveal : _onKeyRevealed(r)  BY <1>6, onKeyRevealedKeeps
<1>7. CASE UNCHANGED mvars
  <2> USE DEF MapInv
  <2>0. UNCHANGED <<revealed, iotAddresses, eventsTxHashes, connection, page, inbox>>
    BY <1>7 DEF mvars, server
  <2>1. ServerOK'  BY <2>0 DEF ServerOK
  <2>2. PagesT'  BY <2>0 DEF PagesT
  <2>3. ASSUME NEW t \in Tab PROVE PageOK(t)' /\ CountOK(t)'
    <3>1. PageOK(t) /\ CountOK(t) /\ page'[t] = page[t] /\ inbox'[t] = inbox[t]  BY <2>0
    <3>2. connection <= connection'  BY <2>0, MapOK DEF ServerOK
    <3> QED  BY <2>0, <2>1, <3>1, <3>2, PageKept
  <2> QED  BY <2>1, <2>2, <2>3
<1> QED  BY <1>1, <1>2, <1>3, <1>4, <1>5, <1>6, <1>7 DEF UNext

LEMMA MapInvariant == USpec => []MapInv
BY MapInvInit, MapInvNext, PTL DEF USpec
------------------------------------------------------------------------------
(* What the invariant says of the browser. *)

LEMMA MapInvTypes == MapInv => UTypeOK
<1> SUFFICES ASSUME MapInv PROVE UTypeOK  OBVIOUS
<1> USE DEF MapInv
<1>1. \A i \in DOMAIN iotAddresses : iotAddresses[i] \in Address
  BY Addresses, ElementOfSeq
<1>2. ASSUME NEW t \in Tab
      PROVE  /\ page[t].phase \in Phase
             /\ page[t].ws \in 0..connection
             /\ page[t].numOfUpdatedDevices \in Nat
             /\ \A i \in DOMAIN page[t].currentJson : page[t].currentJson[i] \in Marker
             /\ \A name \in DOMAIN page[t].mapMarkers : page[t].mapMarkers[name] \in Marker
             /\ page[t].phase = "ready" => Len(page[t].currentJson) = Len(iotAddresses)
             /\ ToSet(inbox[t]) \subseteq eventsTxHashes
  <2>1. page[t] \in Page /\ PageOK(t)  BY PageType
  <2>2. page[t].phase \in Phase /\ page[t].ws \in Nat /\ page[t].numOfUpdatedDevices \in Nat
    BY <2>1 DEF Page
  <2>3. page[t].ws \in 0..connection  BY <2>1, <2>2, MapOK DEF PageOK, ServerOK
  <2>4. \A i \in DOMAIN page[t].currentJson : page[t].currentJson[i] \in Marker
    BY PageType, JsonDomain
  <2>5. page[t].mapMarkers = page[t].currentJson  BY <2>1 DEF PageOK, Drawn
  <2>6. page[t].phase = "ready" => Len(page[t].currentJson) = Len(iotAddresses)
    <3>1. Len(page[t].currentJson) \in Nat /\ DOMAIN page[t].currentJson = 1..Len(page[t].currentJson)
      BY PageType, JsonDomain
    <3>2. Len(iotAddresses) \in Nat /\ DOMAIN iotAddresses = 1..Len(iotAddresses)
      BY Addresses, LenProperties
    <3> SUFFICES ASSUME page[t].phase = "ready"
                 PROVE  Len(page[t].currentJson) = Len(iotAddresses)
      OBVIOUS
    <3>3. 1..Len(page[t].currentJson) = 1..Len(iotAddresses)
      BY <2>1, <3>1, <3>2 DEF PageOK, Drawn
    <3> QED  BY <3>1, <3>2, <3>3, IntervalCardinality
  <2>7. ToSet(inbox[t]) \subseteq eventsTxHashes
    BY <2>1, ElementOfSeq DEF PageOK, OnceOnly, ToSet
  <2> QED  BY <2>2, <2>3, <2>4, <2>5, <2>6, <2>7
<1> QED  BY <1>1, <1>2 DEF UTypeOK, ServerOK

LEMMA MapInvShows == MapInv => MapShowsDevices
<1> SUFFICES ASSUME MapInv, NEW t \in Tab, Ready(t)
             PROVE  LET p == page[t]
                    IN  /\ DOMAIN p.elements = DOMAIN p.mapMarkers
                        /\ \A k \in DOMAIN p.elements : p.elements[k] = <<Active(p.mapMarkers[k])>>
                        /\ Cardinality(DOMAIN p.mapMarkers) = Len(iotAddresses)
                        /\ {p.mapMarkers[k].address : k \in DOMAIN p.mapMarkers} = ToSet(iotAddresses)
                        /\ \A k \in DOMAIN p.mapMarkers : LET marker == p.mapMarkers[k] IN Active(marker) =>
                              /\ marker.markerUrl \in revealed
                              /\ marker.markerUrl.pko = marker.address.device
  BY DEF MapShowsDevices
<1> DEFINE p == page[t]
           json == page[t].currentJson
<1>1. /\ p.mapMarkers = json /\ p.elements = Icons(json) /\ DOMAIN json = DOMAIN iotAddresses
      /\ \A i \in DOMAIN iotAddresses : json[i].address = iotAddresses[i]
  BY DEF MapInv, PageOK, Drawn, Ready
<1>2. DOMAIN p.elements = DOMAIN p.mapMarkers
      /\ \A k \in DOMAIN p.elements : p.elements[k] = <<Active(p.mapMarkers[k])>>
  BY <1>1 DEF Icons
<1>3. Cardinality(DOMAIN p.mapMarkers) = Len(iotAddresses)
  <2>1. Len(iotAddresses) \in Nat /\ DOMAIN iotAddresses = 1..Len(iotAddresses)
    BY Addresses, LenProperties DEF MapInv
  <2>2. Cardinality(1..Len(iotAddresses)) = Len(iotAddresses)  BY <2>1, IntervalCardinality
  <2> QED  BY <1>1, <2>1, <2>2
<1>4. {p.mapMarkers[k].address : k \in DOMAIN p.mapMarkers} = ToSet(iotAddresses)
  BY <1>1 DEF ToSet
<1>5. ASSUME NEW k \in DOMAIN p.mapMarkers, Active(p.mapMarkers[k])
      PROVE  /\ p.mapMarkers[k].markerUrl \in revealed
             /\ p.mapMarkers[k].markerUrl.pko = p.mapMarkers[k].address.device
  <2>1. k \in Actives(json)  BY <1>1, <1>5 DEF Actives
  <2>2. json[k].markerUrl \in eventsTxHashes /\ json[k].address = Lower(json[k].markerUrl.pko)
    BY <2>1 DEF MapInv, PageOK, Truthful
  <2> QED  BY <1>1, <2>2 DEF Lower, MapInv, ServerOK
<1> QED  BY <1>2, <1>3, <1>4, <1>5

LEMMA MapInvCounts == MapInv => CountMatchesMarkers
<1> SUFFICES ASSUME MapInv, NEW t \in Tab, Ready(t), ~Miscounted
             PROVE  page[t].numOfUpdatedDevices =
                      Cardinality({k \in DOMAIN page[t].elements : TRUE \in ToSet(page[t].elements[k])})
  BY DEF CountMatchesMarkers, Miscounted
<1> DEFINE json == page[t].currentJson
<1>1. page[t].elements = Icons(json)  BY DEF MapInv, PageOK, Drawn
<1>2. \A b : TRUE \in ToSet(<<b>>) <=> b = TRUE
  <2>1. \A b : DOMAIN <<b>> = {1} /\ <<b>>[1] = b  OBVIOUS
  <2> QED  BY <2>1 DEF ToSet
<1>3. {k \in DOMAIN Icons(json) : TRUE \in ToSet(Icons(json)[k])} = Actives(json)
  <2>1. DOMAIN Icons(json) = DOMAIN json
        /\ \A k \in DOMAIN json : Icons(json)[k] = <<Active(json[k])>>
    BY DEF Icons
  <2>2. \A k \in DOMAIN json : (Active(json[k]) = TRUE) <=> Active(json[k])  BY DEF Active
  <2> QED  BY <1>2, <2>1, <2>2 DEF Actives
<1>4. page[t].numOfUpdatedDevices = Cardinality(Actives(json))
  BY DEF MapInv, CountOK
<1> QED  BY <1>1, <1>3, <1>4

\* The state of server and pages has the types it is given, in every behaviour: no
\* page holds a marker without an address, nor a message of an event that was not sent.
THEOREM BrowserTypeCorrect == USpec => []UTypeOK
BY MapInvariant, MapInvTypes, PTL

\* Whatever is loaded, reloaded, connected, notified and delivered in whatever order,
\* a map that is shown has one marker and one element for each registered address and
\* none besides, and an element looks active just when a click on it opens a
\* transaction that revealed the key of that device.
THEOREM MapIsRight == USpec => []MapShowsDevices
BY MapInvariant, MapInvShows, PTL

\* The counter is the number of active markers, as long as every device that was
\* updated is on the list in lower case and was updated once.
THEOREM CounterIsRight == USpec => []CountMatchesMarkers
BY MapInvariant, MapInvCounts, PTL
------------------------------------------------------------------------------
(* What a page was told is kept. *)

\* Taking a message leaves the others under way.
LEMMA TailKeeps ==
    ASSUME NEW S, NEW s \in Seq(S), s # <<>>
    PROVE  ToSet(s) \subseteq ToSet(Tail(s)) \cup {Head(s)}
<1>1. Len(s) \in Nat \ {0} /\ DOMAIN s = 1..Len(s)  BY EmptySeq, LenProperties
<1>2. Head(s) = s[1] /\ Tail(s) \in Seq(S)  BY HeadTailProperties
<1>3. DOMAIN Tail(s) = 1..(Len(s) - 1)
  BY <1>1, <1>2, HeadTailProperties, LenProperties
<1>4. \A i \in 1..(Len(s) - 1) : Tail(s)[i] = s[i + 1]  BY <1>1, HeadTailProperties
<1> SUFFICES ASSUME NEW i \in 1..Len(s), i # 1 PROVE s[i] \in ToSet(Tail(s))
  BY <1>1, <1>2 DEF ToSet
<1>5. i - 1 \in 1..(Len(s) - 1) /\ s[i] = Tail(s)[i - 1]  BY <1>1, <1>4
<1> QED  BY <1>3, <1>5 DEF ToSet

\* On a list that names the device once, an update marks it.
LEMMA UpdateIsMarked ==
    ASSUME ServerOK, NEW json \in Seq(Marker), NEW r \in Reveal,
           DOMAIN json = DOMAIN iotAddresses,
           \A i \in DOMAIN iotAddresses : json[i].address = iotAddresses[i],
           Lower(r.pko) \in ToSet(iotAddresses)
    PROVE  \E i \in DOMAIN json : updateMapMarkerInCurrJson(json, r)[i].markerUrl = r
<1>1. Len(json) \in Nat /\ DOMAIN json = 1..Len(json) /\ \A i \in DOMAIN json : json[i] \in Marker
  BY JsonDomain
<1>2. PICK i \in DOMAIN json : json[i].address = Lower(r.pko)  BY DEF ToSet
<1>3. \A j \in DOMAIN json : json[j].address = json[i].address => j = i
  BY Addresses DEF IsInjective
<1>4. \A j \in 1..i - 1 : j \in DOMAIN json /\ j # i  BY <1>1
<1>5. updateMapMarkerInCurrJson(json, r)[i] = [json[i] EXCEPT !.markerUrl = r]
  BY <1>2, <1>3, <1>4 DEF updateMapMarkerInCurrJson
<1> QED  BY <1>1, <1>5 DEF Marker

Known(t, r) == r \in ToSet(inbox[t]) \/ Shows(t, r)

\* An active marker is taken over by an event of its own device only.
LEMMA onmessageKeepsEvents ==
    ASSUME MapInv, NEW t \in Tab, onmessage(t), Ready(t), NEW r \in Reveal,
           Lower(r.pko) \in ToSet(iotAddresses), Known(t, r)
    PROVE  Known(t, r)' \/ \E s \in Reveal \ {r} : s.pko = r.pko /\ Shows(t, s)'
<1> USE DEF MapInv
<1> PICK s : s = Head(inbox[t])  OBVIOUS
<1> DEFINE json == page[t].currentJson
           new == updateMapMarkerInCurrJson(page[t].currentJson, s)
<1>1. page[t] \in Page /\ json \in Seq(Marker) /\ inbox[t] \in Seq(Reveal) /\ inbox[t] # <<>>
  BY PageType DEF onmessage
<1>2. s \in Reveal /\ inbox'[t] = Tail(inbox[t])
  BY <1>1, HeadTailProperties, ElementOfSeq, EmptySeq DEF onmessage, PagesT
<1>3. /\ page[t].mapMarkers = json /\ DOMAIN json = DOMAIN iotAddresses
      /\ \A i \in DOMAIN iotAddresses : json[i].address = iotAddresses[i]
      /\ Truthful(json)
  BY DEF PageOK, Drawn, Ready
<1>4. page'[t].mapMarkers = new
  <2>1. page'[t] = newUpdate(page[t], s)  BY DEF onmessage, PagesT, Ready
  <2>2. page'[t] = [page[t] EXCEPT !.currentJson = new,
                       !.numOfUpdatedDevices = page[t].numOfUpdatedDevices + 1,
                       !.mapMarkers = new, !.elements = Icons(new)]
    BY <1>1, <1>2, <2>1, newUpdateRedraws DEF PageOK
  <2> HIDE DEF new
  <2> QED  BY <1>1, <2>2 DEF Page
<1>5. /\ DOMAIN new = DOMAIN json
      /\ \A i \in DOMAIN json :
            \/ new[i].markerUrl = json[i].markerUrl
            \/ new[i].markerUrl = s /\ json[i].address = Lower(s.pko)
  BY <1>1, <1>2, updateMapMarker
<1>6. CASE s = r
  <2>1. \E i \in DOMAIN new : new[i].markerUrl = r
    BY <1>1, <1>3, <1>5, <1>6, UpdateIsMarked
  <2> QED  BY <1>4, <2>1 DEF Known, Shows
<1>7. CASE s # r /\ r \in ToSet(inbox[t])
  <2>1. r \in ToSet(Tail(inbox[t]))  BY <1>1, <1>7, TailKeeps
  <2> QED  BY <1>2, <2>1 DEF Known
<1>8. CASE s # r /\ Shows(t, r)
  <2>1. PICK i \in DOMAIN json : json[i].markerUrl = r  BY <1>3, <1>8 DEF Shows
  <2>2. CASE new[i].markerUrl = json[i].markerUrl
    BY <1>4, <1>5, <2>1, <2>2 DEF Known, Shows
  <2>3. CASE new[i].markerUrl = s /\ json[i].address = Lower(s.pko)
    <3>1. i \in Actives(json)  BY <2>1, MapOK DEF Actives, Active
    <3>2. Lower(s.pko) = Lower(r.pko)  BY <1>3, <2>1, <2>3, <3>1 DEF Truthful
    <3>3. s.pko = r.pko  BY <3>2 DEF Lower
    <3>4. Shows(t, s)'  BY <1>4, <1>5, <2>3 DEF Shows
    <3> QED  BY <1>2, <1>8, <3>3, <3>4
  <2> QED  BY <1>5, <2>1, <2>2, <2>3
<1> QED  BY <1>6, <1>7, <1>8 DEF Known

LEMMA EventsKeptStep ==
    ASSUME MapInv, [UNext]_mvars, NEW t \in Tab, NEW r \in Reveal,
           Ready(t), Lower(r.pko) \in ToSet(iotAddresses), Known(t, r)
    PROVE  Known(t, r)' \/ ~Ready(t)' \/ \E s \in Reveal \ {r} : s.pko = r.pko /\ Shows(t, s)'
<1> USE DEF MapInv
<1>a. ASSUME page'[t].mapMarkers = page[t].mapMarkers, inbox'[t] = inbox[t] PROVE Known(t, r)'
  BY <1>a DEF Known, Shows
<1>1. ASSUME NEW v \in Tab, Load(v) \/ onRequest(v) \/ getIoTAddresses(v) \/ onmessage(v), v # t
      PROVE  Known(t, r)'
  <2>1. page'[t] = page[t] /\ inbox'[t] = inbox[t]
    BY <1>1 DEF Load, onRequest, getIoTAddresses, onmessage, PagesT
  <2> QED  BY <2>1, <1>a
<1>2. CASE Load(t)
  BY <1>2 DEF Load, Ready, Closed, PagesT
<1>3. CASE onRequest(t)
  <2>1. page[t] \in Page  BY PageType
  <2>2. page'[t].mapMarkers = page[t].mapMarkers /\ inbox' = inbox
    BY <1>3, <2>1 DEF onRequest, PagesT, Page
  <2> QED  BY <2>2, <1>a
<1>4. CASE getIoTAddresses(t)
  BY <1>4 DEF getIoTAddresses, Ready
<1>5. CASE onmessage(t)
  BY <1>5, onmessageKeepsEvents
<1>6. CASE \E s \in Reveal : KeyRevealed(s)
  BY <1>6, <1>a DEF KeyRevealed
<1>7. ASSUME NEW s \in Reveal, _onKeyRevealed(s) PROVE Known(t, r)'
  <2>1. page' = page /\ (inbox'[t] = inbox[t] \/ inbox'[t] = Append(inbox[t], s))
    BY <1>7 DEF _onKeyRevealed, Sent, PagesT
  <2>2. ToSet(inbox[t]) \subseteq ToSet(Append(inbox[t], s))
    <3>1. inbox[t] \in Seq(Reveal)  BY DEF PagesT
    <3>2. Len(inbox[t]) \in Nat /\ DOMAIN inbox[t] = 1..Len(inbox[t])  BY <3>1, LenProperties
    <3>3. /\ Append(inbox[t], s) \in Seq(Reveal)
          /\ Len(Append(inbox[t], s)) = Len(inbox[t]) + 1
          /\ \A i \in 1..Len(inbox[t]) : Append(inbox[t], s)[i] = inbox[t][i]
      BY <3>1, <3>2, AppendProperties
    <3>4. DOMAIN Append(inbox[t], s) = 1..(Len(inbox[t]) + 1)  BY <3>3, LenProperties
    <3> QED  BY <3>2, <3>3, <3>4 DEF ToSet
  <2> QED  BY <2>1, <2>2 DEF Known, Shows
<1>8. CASE UNCHANGED mvars
  BY <1>8, <1>a DEF mvars
<1> QED  BY <1>1, <1>2, <1>3, <1>4, <1>5, <1>6, <1>7, <1>8 DEF UNext

\* No step of server, browser or chain makes a page forget an event of a device on the
\* list that it was sent: an event leaves the map for another one of its device only.
THEOREM EventsStayKnown == USpec => EventsAreKept
<1>1. MapInv /\ [UNext]_mvars =>
        [\A t \in Tab, r \in Reveal :
          ( /\ Ready(t) /\ Lower(r.pko) \in ToSet(iotAddresses)
            /\ r \in ToSet(inbox[t]) \/ Shows(t, r) )
          => \/ r \in ToSet(inbox'[t]) \/ Shows(t, r)'
             \/ ~Ready(t)'
             \/ \E s \in Reveal \ {r} : s.pko = r.pko /\ Shows(t, s)']_mvars
  BY EventsKeptStep DEF Known
<1> QED  BY <1>1, MapInvariant, PTL DEF USpec, EventsAreKept
==============================================================================

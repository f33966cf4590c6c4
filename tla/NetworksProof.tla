---------------------------- MODULE NetworksProof ----------------------------
(* Proofs about the networks below the socket, for any number of peers,      *)
(* links, requests, retries and sockets: the peers over in-memory networks,  *)
(* the reconnecting decorator, the adapters over WebSockets, and the three   *)
(* side by side.                                                             *)
EXTENDS MCNetworks, WellFoundedInduction, TLAPS

-----------------------------------------------------------------------------
(* PeerNetwork: both ends of a link agree, and no request is left waiting   *)
(* for nobody.  The inductive invariant.                                     *)

Made(k) == k \in Pairs /\ ends[k] # Nobody

\* Of every link, its pair and its id lead back to the same two peers.
LinksOwn ==
    \A p \in Peers :
        /\ \A l \in upstream[p] : /\ Made(l.pair) /\ ends[l.pair].client = p
                                  /\ Made(l.id) /\ ends[l.id].client = p
        /\ \A l \in clients[p] : /\ Made(l.pair) /\ ends[l.pair].server = p
                                 /\ Made(l.id) /\ ends[l.id].client = ends[l.pair].client

OneUpstream == \A p \in Peers : \A l, k \in upstream[p] : l = k

\* What can answer a request travels away from the peer that asked, or is an
\* answer that travels towards it; a listener busy with it knows who asked.
OnItsWay ==
    \A p \in Peers : \A e \in waiting[p] :
        /\ \A m \in wire : m.of = e.no =>
               /\ m.mid = e.mid
               /\ Writer(m.net) = p \/ (Reader(m.net) = p /\ m.type \in {"result", "pong"})
        /\ \A m \in handling : m.of = e.no => m.mid = e.mid /\ Writer(m.net) = p
        /\ \A q \in Peers : \A f \in waiting[q] : f.no = e.no => q = p

\* Of every request that waits, something is on its way, or its loss is marked.
Reached ==
    \A p \in Peers : \A e \in waiting[p] :
        e.no \in forsaken \/ \E m \in wire \cup handling : m.of = e.no

\* No send is ahead of the counter, and packets travel over networks that were made.
SendsCounted ==
    /\ \A p \in Peers : \A e \in waiting[p] : e.no <= packets
    /\ \A m \in wire \cup handling : m.of <= packets /\ Made(m.net.pair)

NetsMade == \A n \in openNets : Made(n.pair)

\* What PeerTypeOK says of the links, and what it says of the messages.
LinkTyped ==
    /\ live \subseteq Peers /\ twice \subseteq Peers
    /\ upstream \in [Peers -> SUBSET Link] /\ clients \in [Peers -> SUBSET Link]
    /\ assigned \in [Peers -> 0..MaxPairs]
    /\ ends \in [Pairs -> {Nobody} \cup [client : Peers, server : Peers, id : Pairs]]
    /\ openNets \subseteq Network

MessageTyped ==
    /\ hears \subseteq Peers
    /\ waiting \in [Peers -> SUBSET Entry]
    /\ wire \subseteq Packet /\ handling \subseteq Packet
    /\ packets \in 0..MaxPackets /\ deaths \in 0..MaxDeaths
    /\ forsaken \subseteq 1..MaxPackets

\* The four parts of LinksMirror; the last without the requests.
ClientsAgree == \A c \in Peers \ twice : \A l \in upstream[c] :
                    Linked(c, ends[l.pair].server, l) /\ assigned[c] = l.id
ServersAgree == \A s \in Peers : \A l \in clients[s] :
                    ends[l.pair].client \in twice \/ Linked(ends[l.pair].client, s, l)
NetsAgree == \A n \in openNets :
                 Writer(n) \in twice \/ Reader(n) \in twice \/ n \in Targets(Writer(n))
ClosedAlone == \A p \in Peers \ live : upstream[p] = {} /\ clients[p] = {}
ClosedQuiet == \A p \in Peers \ live : waiting[p] = {}

Shape == LinkTyped /\ LinksOwn /\ OneUpstream /\ NetsMade
Links == Shape /\ ClientsAgree /\ ServersAgree /\ NetsAgree /\ ClosedAlone
Messages == MessageTyped /\ SendsCounted /\ OnItsWay /\ Reached /\ ClosedQuiet

PeerInv == Links /\ Messages

linkVars == <<live, upstream, clients, assigned, ends, openNets, twice>>

LEMMA Parts ==
    PeerInv => PeerTypeOK /\ LinksMirror /\ PendingAccounted
<1> SUFFICES ASSUME PeerInv PROVE PeerTypeOK /\ LinksMirror /\ PendingAccounted
  OBVIOUS
<1>1. PeerTypeOK /\ LinksMirror
  BY DEF PeerInv, Links, Shape, Messages, PeerTypeOK, LinkTyped, MessageTyped, LinksMirror,
         ClientsAgree, ServersAgree, NetsAgree, ClosedAlone, ClosedQuiet
<1>2. PendingAccounted
  BY DEF PeerInv, Messages, Reached, OnItsWay, PendingAccounted
<1> QED BY <1>1, <1>2

-----------------------------------------------------------------------------
(* Facts about pairs and links. *)

\* connect() and reconnect() take a pair that no link uses.
LEMMA FreshPair ==
    ASSUME Unmade # {} PROVE NextPair \in Pairs /\ ends[NextPair] = Nobody
<1> DEFINE R == OpToRel(<, Nat)
<1>1. Unmade \subseteq Nat
  BY PeerAssumption DEF Unmade, Pairs
<1>2. IsWellFoundedOn(R, Nat)
  BY NatLessThanWellFounded
<1>3. \A x, y \in Nat : y < x => <<y, x>> \in R
  BY DEF OpToRel
<1> HIDE DEF R
<1>4. PICK k \in Unmade : \A j \in Unmade : <<j, k>> \notin R
  BY <1>1, <1>2, WFMin
<1>5. \A j \in Unmade : k <= j
  <2> TAKE j \in Unmade
  <2>1. k \in Nat /\ j \in Nat /\ ~(j < k)
    BY <1>1, <1>3, <1>4
  <2> QED BY <2>1
<1>6. NextPair \in Unmade
  BY <1>5 DEF NextPair
<1> QED BY <1>6 DEF Unmade

LEMMA MadeEnds ==
    ASSUME LinkTyped, NEW k, Made(k)
    PROVE  /\ k \in Pairs /\ ends[k].client \in Peers /\ ends[k].server \in Peers
           /\ ends[k].id \in Pairs
<1>1. ends[k] \in [client : Peers, server : Peers, id : Pairs]
  BY DEF LinkTyped, Made
<1> QED BY <1>1 DEF Made

\* A new pair leaves the ends of every pair in use as they were.
LEMMA NewPair ==
    ASSUME LinkTyped, NEW k \in Pairs, ends[k] = Nobody, NEW c \in Peers, NEW s \in Peers,
           NEW i \in Pairs, ends' = [ends EXCEPT ![k] = [client |-> c, server |-> s, id |-> i]]
    PROVE  /\ Made(k)' /\ ends'[k].client = c /\ ends'[k].server = s
           /\ \A j : Made(j) => j # k /\ Made(j)' /\ ends'[j] = ends[j]
           /\ ends' \in [Pairs -> {Nobody} \cup [client : Peers, server : Peers, id : Pairs]]
<1>1. ends'[k] = [client |-> c, server |-> s, id |-> i]
  BY DEF LinkTyped
<1>2. ends'[k].id = i /\ Nobody.id = 0 /\ i # 0
  BY <1>1, PeerAssumption DEF Nobody, Pairs
<1>3. Made(k)'
  BY <1>2 DEF Made
<1>4. \A j : Made(j) => j # k /\ Made(j)' /\ ends'[j] = ends[j]
  BY DEF LinkTyped, Made
<1>5. ends' \in [Pairs -> {Nobody} \cup [client : Peers, server : Peers, id : Pairs]]
  BY DEF LinkTyped
<1> QED BY <1>1, <1>3, <1>4, <1>5

\* The networks of a link, named by their pair and direction.
LEMMA NetFacts ==
    ASSUME NEW l
    PROVE  /\ Up(l).pair = l.pair /\ Up(l).dir = "up"
           /\ Down(l).pair = l.pair /\ Down(l).dir = "down" /\ Up(l) # Down(l)
           /\ Writer(Up(l)) = ends[l.pair].client /\ Reader(Up(l)) = ends[l.pair].server
           /\ Writer(Down(l)) = ends[l.pair].server /\ Reader(Down(l)) = ends[l.pair].client
<1>1. Up(l).pair = l.pair /\ Up(l).dir = "up"
  BY DEF Up
<1>2. Down(l).pair = l.pair /\ Down(l).dir = "down"
  BY DEF Down
<1> QED BY <1>1, <1>2 DEF Writer, Reader

LEMMA LinkFields ==
    ASSUME NEW l \in Link PROVE l.pair \in Pairs /\ l.id \in Pairs
BY DEF Link

-----------------------------------------------------------------------------
(* connect(). *)

LEMMA ConnectKeepsShape ==
    ASSUME Links, NEW c \in Peers, NEW s \in Peers, Connect(c, s)
    PROVE  /\ Shape' /\ \A k : Made(k) => Made(k)' /\ ends'[k] = ends[k]
<1>1. PICK k \in Pairs : k = NextPair /\ ends[k] = Nobody
  BY FreshPair DEF Connect
<1> DEFINE link == [id |-> k, pair |-> k]
<1>2. /\ ends' = [ends EXCEPT ![k] = [client |-> c, server |-> s, id |-> k]]
      /\ upstream' = [upstream EXCEPT ![c] = {link}]
      /\ clients' = [clients EXCEPT ![s] = @ \cup {link}]
      /\ assigned' = [assigned EXCEPT ![c] = k]
      /\ openNets' = openNets \cup {Up(link), Down(link)}
      /\ live' = live
      /\ twice' = IF upstream[c] = {} THEN twice ELSE twice \cup {c}
  BY <1>1 DEF Connect
<1>3. /\ Made(k)' /\ ends'[k].client = c /\ ends'[k].server = s
      /\ \A j : Made(j) => j # k /\ Made(j)' /\ ends'[j] = ends[j]
      /\ ends' \in [Pairs -> {Nobody} \cup [client : Peers, server : Peers, id : Pairs]]
  BY <1>1, <1>2, NewPair DEF Links, Shape
<1>4. link \in Link /\ link.id = k /\ link.pair = k
  BY <1>1 DEF Link
<1>5. Up(link) \in Network /\ Down(link) \in Network
  BY <1>1 DEF Network, Up, Down
<1>6. Up(link).pair = k /\ Down(link).pair = k
  BY DEF Up, Down
<1> HIDE DEF link
<1>7. LinkTyped'
  BY <1>1, <1>2, <1>3, <1>4, <1>5 DEF Links, Shape, LinkTyped, Pairs
<1>8. LinksOwn'
  <2> SUFFICES ASSUME NEW p \in Peers
               PROVE  /\ \A l \in upstream'[p] : /\ Made(l.pair)' /\ ends'[l.pair].client = p
                                                 /\ Made(l.id)' /\ ends'[l.id].client = p
                      /\ \A l \in clients'[p] :
                             /\ Made(l.pair)' /\ ends'[l.pair].server = p
                             /\ Made(l.id)' /\ ends'[l.id].client = ends'[l.pair].client
    BY DEF LinksOwn
  <2>1. ASSUME NEW l \in upstream'[p]
        PROVE  /\ Made(l.pair)' /\ ends'[l.pair].client = p
               /\ Made(l.id)' /\ ends'[l.id].client = p
    <3>1. l \in upstream[p] \/ (p = c /\ l = link)
      BY <1>2 DEF Links, Shape, LinkTyped
    <3> QED BY <1>3, <1>4, <3>1 DEF Links, Shape, LinksOwn
  <2>2. ASSUME NEW l \in clients'[p]
        PROVE  /\ Made(l.pair)' /\ ends'[l.pair].server = p
               /\ Made(l.id)' /\ ends'[l.id].client = ends'[l.pair].client
    <3>1. l \in clients[p] \/ (p = s /\ l = link)
      BY <1>2 DEF Links, Shape, LinkTyped
    <3> QED BY <1>3, <1>4, <3>1 DEF Links, Shape, LinksOwn
  <2> QED BY <2>1, <2>2
<1>9. OneUpstream'
  BY <1>2 DEF Links, Shape, LinkTyped, OneUpstream
<1>10. NetsMade'
  BY <1>2, <1>3, <1>6 DEF Links, Shape, NetsMade
<1> QED BY <1>3, <1>7, <1>8, <1>9, <1>10 DEF Shape

LEMMA ConnectKeepsLinks ==
    ASSUME Links, NEW c \in Peers, NEW s \in Peers, Connect(c, s)
    PROVE  Links'
<1>1. PICK k \in Pairs : k = NextPair /\ ends[k] = Nobody
  BY FreshPair DEF Connect
<1> DEFINE link == [id |-> k, pair |-> k]
<1>2. /\ ends' = [ends EXCEPT ![k] = [client |-> c, server |-> s, id |-> k]]
      /\ upstream' = [upstream EXCEPT ![c] = {link}]
      /\ clients' = [clients EXCEPT ![s] = @ \cup {link}]
      /\ assigned' = [assigned EXCEPT ![c] = k]
      /\ openNets' = openNets \cup {Up(link), Down(link)}
      /\ live' = live /\ {c, s} \subseteq live
      /\ twice' = IF upstream[c] = {} THEN twice ELSE twice \cup {c}
  BY <1>1 DEF Connect
<1>3. /\ Made(k)' /\ ends'[k].client = c /\ ends'[k].server = s
      /\ \A j : Made(j) => j # k /\ Made(j)' /\ ends'[j] = ends[j]
  BY <1>1, <1>2, NewPair DEF Links, Shape
<1>4. link.id = k /\ link.pair = k
  OBVIOUS
<1> HIDE DEF link
<1>5. \A p \in Peers : \A l \in upstream[p] : ends'[l.pair] = ends[l.pair]
  BY <1>3 DEF Links, Shape, LinksOwn
<1>6. \A p \in Peers : \A l \in clients[p] : ends'[l.pair] = ends[l.pair]
  BY <1>3 DEF Links, Shape, LinksOwn
<1>7. \A p \in Peers : upstream'[p] = IF p = c THEN {link} ELSE upstream[p]
  BY <1>2 DEF Links, Shape, LinkTyped
<1>8. \A p \in Peers : clients'[p] = IF p = s THEN clients[p] \cup {link} ELSE clients[p]
  BY <1>2 DEF Links, Shape, LinkTyped
<1>9. twice \subseteq twice' /\ (upstream[c] # {} => c \in twice')
  BY <1>2
<1>10. ClientsAgree'
  <2> SUFFICES ASSUME NEW d \in Peers, d \notin twice', NEW l \in upstream'[d]
               PROVE  /\ l \in upstream'[d] /\ l \in clients'[ends'[l.pair].server]
                      /\ assigned'[d] = l.id
    BY DEF ClientsAgree, Linked
  <2>1. CASE d = c
    BY <1>2, <1>3, <1>4, <1>7, <1>8, <2>1 DEF Links, Shape, LinkTyped
  <2>2. CASE d # c
    <3>1. l \in upstream[d] /\ d \notin twice
      BY <1>7, <1>9, <2>2
    <3>2. l \in clients[ends[l.pair].server] /\ assigned[d] = l.id
      BY <3>1 DEF Links, ClientsAgree, Linked
    <3>3. ends[l.pair].server \in Peers
      BY <3>1, MadeEnds DEF Links, Shape, LinksOwn
    <3> QED BY <1>2, <1>5, <1>8, <2>2, <3>1, <3>2, <3>3 DEF Links, Shape, LinkTyped
  <2> QED BY <2>1, <2>2
<1>11. ServersAgree'
  <2> SUFFICES ASSUME NEW t \in Peers, NEW l \in clients'[t], ends'[l.pair].client \notin twice'
               PROVE  l \in upstream'[ends'[l.pair].client]
    BY DEF ServersAgree, Linked
  <2>1. CASE l = link
    BY <1>3, <1>4, <1>7, <2>1
  <2>2. CASE l # link
    <3>1. l \in clients[t] /\ ends'[l.pair] = ends[l.pair]
      BY <1>6, <1>8, <2>2
    <3>2. l \in upstream[ends[l.pair].client] /\ ends[l.pair].client \in Peers
      BY <1>9, <3>1, MadeEnds DEF Links, Shape, LinksOwn, ServersAgree, Linked
    <3> QED BY <1>7, <1>9, <3>1, <3>2
  <2> QED BY <2>1, <2>2
<1>12. NetsAgree'
  <2> SUFFICES ASSUME NEW n \in openNets', Writer(n)' \notin twice', Reader(n)' \notin twice'
               PROVE  n \in Targets(Writer(n))'
    BY DEF NetsAgree
  <2>1. CASE n = Up(link)
    <3>1. Writer(n)' = c /\ link \in upstream'[c]
      BY <1>3, <1>4, <1>7, <2>1 DEF Writer, Up
    <3> QED BY <2>1, <3>1 DEF Targets, Up
  <2>2. CASE n = Down(link)
    <3>1. Writer(n)' = s /\ link \in clients'[s]
      BY <1>3, <1>4, <1>8, <2>2 DEF Writer, Down
    <3> QED BY <2>2, <3>1 DEF Targets, Down
  <2>3. CASE n \notin {Up(link), Down(link)}
    <3>1. n \in openNets /\ ends'[n.pair] = ends[n.pair] /\ Made(n.pair)
      BY <1>2, <1>3, <2>3 DEF Links, Shape, NetsMade
    <3>2. Writer(n)' = Writer(n) /\ Reader(n)' = Reader(n)
      BY <3>1 DEF Writer, Reader
    <3>3. Writer(n) \in Peers
      BY <3>1, MadeEnds DEF Links, Shape, Writer
    <3>4. n \in Targets(Writer(n))
      BY <1>9, <3>1, <3>2 DEF Links, NetsAgree
    <3>5. CASE \E l \in upstream[Writer(n)] : n = Up(l)
      <4>1. Writer(n) # c
        BY <1>9, <3>2, <3>5
      <4> QED BY <1>7, <3>2, <3>3, <3>5, <4>1 DEF Targets, Up
    <3>6. CASE \E l \in clients[Writer(n)] : n = Down(l)
      BY <1>8, <3>2, <3>3, <3>6 DEF Targets, Down
    <3> QED BY <3>4, <3>5, <3>6 DEF Targets
  <2> QED BY <2>1, <2>2, <2>3
<1>13. ClosedAlone'
  BY <1>2, <1>7, <1>8 DEF Links, ClosedAlone
<1> QED BY <1>10, <1>11, <1>12, <1>13, ConnectKeepsShape DEF Links

-----------------------------------------------------------------------------
(* reconnect(). *)

\* What reconnectPair() does to the links with the pair k that it takes: the
\* link of the client becomes fresh, that of the server own.
Rewires(c, s, mine, its, k, fresh, own) ==
       /\ mine \in upstream[c] /\ ends[mine.pair].server = s
       /\ its \in clients[s] /\ ends[its.pair].client = c
       /\ {c, s} \subseteq live /\ live' = live /\ twice' = twice
       /\ fresh \in Link /\ fresh.pair = k /\ fresh.id = mine.id
       /\ own \in Link /\ own.pair = k /\ own.id = its.id
       /\ (mine = its => fresh = own)
       /\ Made(k)' /\ ends'[k].client = c /\ ends'[k].server = s
       /\ \A j : Made(j) => j # k /\ Made(j)' /\ ends'[j] = ends[j]
       /\ ends' \in [Pairs -> {Nobody} \cup [client : Peers, server : Peers, id : Pairs]]
       /\ openNets' = (openNets \ {Up(mine), Down(its)}) \cup {Up(fresh), Down(own)}
       /\ upstream' = [upstream EXCEPT ![c] = {fresh}]
       /\ clients' = [clients EXCEPT ![s] = (@ \ {its}) \cup {own}]
       /\ assigned' = [assigned EXCEPT ![c] = its.id]
       /\ \A p \in Peers : upstream'[p] = IF p = c THEN {fresh} ELSE upstream[p]
       /\ \A p \in Peers : clients'[p] = IF p = s THEN (clients[p] \ {its}) \cup {own}
                                         ELSE clients[p]

LEMMA ReconnectRewires ==
    ASSUME Links, NEW c \in Peers, NEW s \in Peers, NEW mine, NEW its, Reconnect(c, s, mine, its)
    PROVE  \E k \in Pairs, fresh \in Link, own \in Link : Rewires(c, s, mine, its, k, fresh, own)
<1>0. PICK k \in Pairs : k = NextPair /\ ends[k] = Nobody
  BY FreshPair DEF Reconnect
<1> DEFINE fresh == [mine EXCEPT !.pair = k]
           own == [its EXCEPT !.pair = k]
<1>1. /\ mine \in upstream[c] /\ ends[mine.pair].server = s
      /\ its \in clients[s] /\ ends[its.pair].client = c
      /\ {c, s} \subseteq live /\ live' = live /\ twice' = twice
      /\ ends' = [ends EXCEPT ![k] = [client |-> c, server |-> s, id |-> its.id]]
      /\ openNets' = (openNets \ {Up(mine), Down(its)}) \cup {Up(fresh), Down(own)}
      /\ upstream' = [upstream EXCEPT ![c] = {fresh}]
      /\ clients' = [clients EXCEPT ![s] = (@ \ {its}) \cup {own}]
      /\ assigned' = [assigned EXCEPT ![c] = its.id]
  BY <1>0 DEF Reconnect
<1>2. mine \in Link /\ its \in Link
  BY <1>1 DEF Links, Shape, LinkTyped
<1>3. its.id \in Pairs
  BY <1>2, LinkFields
<1>4. /\ fresh \in Link /\ fresh.pair = k /\ fresh.id = mine.id
      /\ own \in Link /\ own.pair = k /\ own.id = its.id
      /\ (mine = its => fresh = own)
  BY <1>2 DEF Link
<1> HIDE DEF fresh, own
<1>5. /\ Made(k)' /\ ends'[k].client = c /\ ends'[k].server = s
      /\ \A j : Made(j) => j # k /\ Made(j)' /\ ends'[j] = ends[j]
      /\ ends' \in [Pairs -> {Nobody} \cup [client : Peers, server : Peers, id : Pairs]]
  BY <1>0, <1>1, <1>3, NewPair DEF Links, Shape
<1>6. /\ \A p \in Peers : upstream'[p] = IF p = c THEN {fresh} ELSE upstream[p]
      /\ \A p \in Peers : clients'[p] = IF p = s THEN (clients[p] \ {its}) \cup {own}
                                        ELSE clients[p]
  BY <1>1 DEF Links, Shape, LinkTyped
<1>7. Rewires(c, s, mine, its, k, fresh, own)
  BY <1>1, <1>4, <1>5, <1>6 DEF Rewires
<1> QED BY <1>4, <1>7

LEMMA ReconnectKeepsShape ==
    ASSUME Links, NEW c \in Peers, NEW s \in Peers, NEW mine, NEW its, Reconnect(c, s, mine, its)
    PROVE  /\ Shape' /\ \A k : Made(k) => Made(k)' /\ ends'[k] = ends[k]
<1>1. PICK k \in Pairs, fresh \in Link, own \in Link : Rewires(c, s, mine, its, k, fresh, own)
  BY ReconnectRewires
<1>2. /\ mine \in upstream[c] /\ its \in clients[s] /\ ends[its.pair].client = c
      /\ fresh \in Link /\ fresh.pair = k /\ fresh.id = mine.id
      /\ own \in Link /\ own.pair = k /\ own.id = its.id
      /\ live' = live /\ twice' = twice
      /\ openNets' = (openNets \ {Up(mine), Down(its)}) \cup {Up(fresh), Down(own)}
      /\ upstream' = [upstream EXCEPT ![c] = {fresh}]
      /\ clients' = [clients EXCEPT ![s] = (@ \ {its}) \cup {own}]
      /\ assigned' = [assigned EXCEPT ![c] = its.id]
  BY <1>1 DEF Rewires
<1>3. /\ Made(k)' /\ ends'[k].client = c /\ ends'[k].server = s
      /\ \A j : Made(j) => j # k /\ Made(j)' /\ ends'[j] = ends[j]
      /\ ends' \in [Pairs -> {Nobody} \cup [client : Peers, server : Peers, id : Pairs]]
  BY <1>1 DEF Rewires
<1>4. /\ \A p \in Peers : upstream'[p] = IF p = c THEN {fresh} ELSE upstream[p]
      /\ \A p \in Peers : clients'[p] = IF p = s THEN (clients[p] \ {its}) \cup {own}
                                        ELSE clients[p]
  BY <1>1 DEF Rewires
<1>5. Up(fresh) \in Network /\ Down(own) \in Network
  BY <1>2 DEF Network, Up, Down
<1>6. Up(fresh).pair = k /\ Down(own).pair = k
  BY <1>2 DEF Up, Down
<1>7. its.id \in 0..MaxPairs
  BY <1>2, LinkFields, PeerAssumption DEF Links, Shape, LinkTyped, Pairs
<1>8. LinkTyped'
  BY <1>2, <1>3, <1>5, <1>7 DEF Links, Shape, LinkTyped
<1>9. LinksOwn'
  <2> SUFFICES ASSUME NEW p \in Peers
               PROVE  /\ \A l \in upstream'[p] : /\ Made(l.pair)' /\ ends'[l.pair].client = p
                                                 /\ Made(l.id)' /\ ends'[l.id].client = p
                      /\ \A l \in clients'[p] :
                             /\ Made(l.pair)' /\ ends'[l.pair].server = p
                             /\ Made(l.id)' /\ ends'[l.id].client = ends'[l.pair].client
    BY DEF LinksOwn
  <2>1. ASSUME NEW l \in upstream'[p]
        PROVE  /\ Made(l.pair)' /\ ends'[l.pair].client = p
               /\ Made(l.id)' /\ ends'[l.id].client = p
    <3>1. CASE l \in upstream[p]
      BY <1>3, <3>1 DEF Links, Shape, LinksOwn
    <3>2. CASE p = c /\ l = fresh
      <4>1. Made(mine.id) /\ ends[mine.id].client = c
        BY <1>2 DEF Links, Shape, LinksOwn
      <4> QED BY <1>2, <1>3, <3>2, <4>1
    <3> QED BY <1>4, <3>1, <3>2
  <2>2. ASSUME NEW l \in clients'[p]
        PROVE  /\ Made(l.pair)' /\ ends'[l.pair].server = p
               /\ Made(l.id)' /\ ends'[l.id].client = ends'[l.pair].client
    <3>1. CASE l \in clients[p]
      BY <1>3, <3>1 DEF Links, Shape, LinksOwn
    <3>2. CASE p = s /\ l = own
      <4>1. Made(its.id) /\ ends[its.id].client = c
        BY <1>2 DEF Links, Shape, LinksOwn
      <4> QED BY <1>2, <1>3, <3>2, <4>1
    <3> QED BY <1>4, <3>1, <3>2
  <2> QED BY <2>1, <2>2
<1>10. OneUpstream'
  BY <1>4 DEF Links, Shape, OneUpstream
<1>11. NetsMade'
  BY <1>2, <1>3, <1>6 DEF Links, Shape, NetsMade
<1> QED BY <1>3, <1>8, <1>9, <1>10, <1>11 DEF Shape

LEMMA ReconnectKeepsLinks ==
    ASSUME Links, NEW c \in Peers, NEW s \in Peers, NEW mine, NEW its, Reconnect(c, s, mine, its)
    PROVE  Links'
<1>1. PICK k \in Pairs, fresh \in Link, own \in Link : Rewires(c, s, mine, its, k, fresh, own)
  BY ReconnectRewires
<1>2. /\ mine \in upstream[c] /\ ends[mine.pair].server = s
      /\ its \in clients[s] /\ ends[its.pair].client = c
      /\ fresh.pair = k /\ fresh.id = mine.id /\ own.pair = k /\ own.id = its.id
      /\ {c, s} \subseteq live /\ live' = live /\ twice' = twice
      /\ openNets' = (openNets \ {Up(mine), Down(its)}) \cup {Up(fresh), Down(own)}
      /\ assigned' = [assigned EXCEPT ![c] = its.id]
  BY <1>1 DEF Rewires
<1>3. /\ Made(k)' /\ ends'[k].client = c /\ ends'[k].server = s
      /\ \A j : Made(j) => j # k /\ Made(j)' /\ ends'[j] = ends[j]
  BY <1>1 DEF Rewires
<1>4. /\ \A p \in Peers : upstream'[p] = IF p = c THEN {fresh} ELSE upstream[p]
      /\ \A p \in Peers : clients'[p] = IF p = s THEN (clients[p] \ {its}) \cup {own}
                                        ELSE clients[p]
  BY <1>1 DEF Rewires
<1>5. c \notin twice => mine = its /\ fresh = own
  <2>1. c \notin twice => its \in upstream[c]
    BY <1>2 DEF Links, ServersAgree, Linked
  <2> QED BY <1>1, <1>2, <2>1 DEF Rewires, Links, Shape, OneUpstream
<1>6. \A p \in Peers : /\ \A l \in upstream[p] : ends'[l.pair] = ends[l.pair] /\ l.pair # k
                       /\ \A l \in clients[p] : ends'[l.pair] = ends[l.pair] /\ l.pair # k
  BY <1>3 DEF Links, Shape, LinksOwn
<1>7. ClientsAgree'
  <2> SUFFICES ASSUME NEW d \in Peers, d \notin twice', NEW l \in upstream'[d]
               PROVE  /\ l \in upstream'[d] /\ l \in clients'[ends'[l.pair].server]
                      /\ assigned'[d] = l.id
    BY DEF ClientsAgree, Linked
  <2>1. CASE d = c
    <3>1. l = own /\ ends'[l.pair].server = s
      BY <1>2, <1>3, <1>4, <1>5, <2>1
    <3>2. own \in clients'[s] /\ assigned'[c] = its.id
      BY <1>2, <1>4 DEF Links, Shape, LinkTyped
    <3> QED BY <1>2, <2>1, <3>1, <3>2
  <2>2. CASE d # c
    <3>1. l \in upstream[d] /\ d \notin twice
      BY <1>2, <1>4, <2>2
    <3>2. l \in clients[ends[l.pair].server] /\ assigned[d] = l.id
      BY <3>1 DEF Links, ClientsAgree, Linked
    <3>3. ends[l.pair].server \in Peers /\ ends[l.pair].client = d
      BY <3>1, MadeEnds DEF Links, Shape, LinksOwn
    <3>4. l # its /\ ends'[l.pair] = ends[l.pair]
      BY <1>2, <1>6, <2>2, <3>1, <3>3
    <3>5. l \in clients'[ends[l.pair].server] /\ assigned'[d] = assigned[d]
      BY <1>2, <1>4, <2>2, <3>2, <3>3, <3>4 DEF Links, Shape, LinkTyped
    <3> QED BY <3>2, <3>4, <3>5
  <2> QED BY <2>1, <2>2
<1>8. ServersAgree'
  <2> SUFFICES ASSUME NEW t \in Peers, NEW l \in clients'[t], ends'[l.pair].client \notin twice'
               PROVE  l \in upstream'[ends'[l.pair].client]
    BY DEF ServersAgree, Linked
  <2>1. CASE l = own
    BY <1>2, <1>3, <1>4, <1>5, <2>1
  <2>2. CASE l # own
    <3>1. l \in clients[t] /\ ends'[l.pair] = ends[l.pair] /\ (t = s => l # its)
      BY <1>4, <1>6, <2>2
    <3> DEFINE d == ends[l.pair].client
    <3>2. l \in upstream[d] /\ d \in Peers /\ d \notin twice /\ ends[l.pair].server = t
      BY <1>2, <3>1, MadeEnds DEF Links, Shape, LinksOwn, ServersAgree, Linked
    <3>3. d # c
      <4> SUFFICES ASSUME d = c PROVE FALSE
        OBVIOUS
      <4>1. l = its
        BY <1>2, <1>5, <3>2 DEF Links, Shape, OneUpstream
      <4>2. t = s
        BY <1>2, <1>5, <3>2, <4>1
      <4> QED BY <3>1, <4>1, <4>2
    <3> QED BY <1>4, <3>1, <3>2, <3>3
  <2> QED BY <2>1, <2>2
<1>9. NetsAgree'
  <2> SUFFICES ASSUME NEW n \in openNets', Writer(n)' \notin twice', Reader(n)' \notin twice'
               PROVE  n \in Targets(Writer(n))'
    BY DEF NetsAgree
  <2>1. CASE n = Up(fresh)
    <3>1. Writer(n)' = c /\ fresh \in upstream'[c]
      BY <1>2, <1>3, <1>4, <2>1 DEF Writer, Up
    <3> QED BY <2>1, <3>1 DEF Targets, Up
  <2>2. CASE n = Down(own)
    <3>1. Writer(n)' = s /\ own \in clients'[s]
      BY <1>2, <1>3, <1>4, <2>2 DEF Writer, Down
    <3> QED BY <2>2, <3>1 DEF Targets, Down
  <2>3. CASE n \notin {Up(fresh), Down(own)}
    <3>1. /\ n \in openNets /\ ends'[n.pair] = ends[n.pair] /\ Made(n.pair)
          /\ n # Up(mine) /\ n # Down(its)
      BY <1>2, <1>3, <2>3 DEF Links, Shape, NetsMade
    <3>2. Writer(n)' = Writer(n) /\ Reader(n)' = Reader(n)
      BY <3>1 DEF Writer, Reader
    <3>3. Writer(n) \in Peers
      BY <3>1, MadeEnds DEF Links, Shape, Writer
    <3>4. n \in Targets(Writer(n))
      BY <1>2, <3>1, <3>2 DEF Links, NetsAgree
    <3>5. CASE \E l \in upstream[Writer(n)] : n = Up(l)
      <4>1. Writer(n) # c
        BY <1>2, <3>1, <3>5 DEF Links, Shape, OneUpstream
      <4> QED BY <1>4, <3>2, <3>3, <3>5, <4>1 DEF Targets, Up
    <3>6. CASE \E l \in clients[Writer(n)] : n = Down(l)
      <4>1. PICK l \in clients[Writer(n)] : n = Down(l)
        BY <3>6
      <4>2. l \in clients'[Writer(n)]
        BY <1>4, <3>1, <3>3, <4>1
      <4> QED BY <3>2, <4>1, <4>2 DEF Targets, Down
    <3> QED BY <3>4, <3>5, <3>6 DEF Targets
  <2> QED BY <2>1, <2>2, <2>3
<1>10. ClosedAlone'
  BY <1>2, <1>4 DEF Links, ClosedAlone
<1> QED BY <1>7, <1>8, <1>9, <1>10, ReconnectKeepsShape DEF Links

-----------------------------------------------------------------------------
(* close(), and networks that die. *)

\* A link whose id the server knows from the peer p is a link of p.
LEMMA GoneIsOwn ==
    ASSUME Links, NEW p \in Peers, NEW l \in upstream[p], NEW s \in Peers, NEW k \in clients[s],
           k.id = l.id
    PROVE  ends[k.pair].client = p
BY DEF Links, Shape, LinksOwn

LEMMA CloseKeepsLinks ==
    ASSUME Links, NEW p \in Peers, ClosePeer(p)
    PROVE  Links' /\ \A k : Made(k) => Made(k)' /\ ends'[k] = ends[k]
<1> DEFINE gone == {k \in Link : \E l \in upstream[p] :
                        k \in clients[ends[l.pair].server] /\ k.id = l.id}
           MyServer(q) == \E l \in upstream[p] : ends[l.pair].server = q
<1>1. /\ live' = live \ {p} /\ ends' = ends /\ twice' = twice
      /\ upstream' = [q \in Peers |-> IF q \in Attached(p) \cup {p} THEN {} ELSE upstream[q]]
      /\ clients' = [q \in Peers |-> IF q = p THEN {}
                         ELSE IF MyServer(q) THEN clients[q] \ gone ELSE clients[q]]
      /\ assigned' = [q \in Peers |-> IF q \in Attached(p) THEN 0 ELSE assigned[q]]
      /\ openNets' = openNets \ (Targets(p) \cup {Down(k) : k \in gone}
                                 \cup UNION {{Up(l) : l \in upstream[c]} : c \in Attached(p)})
  BY DEF ClosePeer
<1>2. \A k \in gone : ends[k.pair].client = p
  <2> TAKE k \in gone
  <2>1. PICK l \in upstream[p] : k \in clients[ends[l.pair].server] /\ k.id = l.id
    OBVIOUS
  <2>2. ends[l.pair].server \in Peers
    BY MadeEnds DEF Links, Shape, LinksOwn
  <2> QED BY <2>1, <2>2, GoneIsOwn
<1>3. \A l \in upstream[p] : \A q \in Peers :
          l \in clients[q] /\ ends[l.pair].server = q => l \in gone
  BY DEF Links, Shape, LinkTyped
<1> HIDE DEF gone, MyServer
<1>4. \A q \in Peers :
          /\ upstream'[q] = IF q \in Attached(p) \cup {p} THEN {} ELSE upstream[q]
          /\ clients'[q] = IF q = p THEN {}
                           ELSE IF MyServer(q) THEN clients[q] \ gone ELSE clients[q]
          /\ assigned'[q] = IF q \in Attached(p) THEN 0 ELSE assigned[q]
  BY <1>1
<1>5. \A q \in Peers : upstream'[q] \subseteq upstream[q] /\ clients'[q] \subseteq clients[q]
  BY <1>4
<1>6. Shape'
  <2>1. LinkTyped'
    BY <1>1, PeerAssumption DEF Links, Shape, LinkTyped
  <2>2. \A k : Made(k)' <=> Made(k)
    BY <1>1 DEF Made
  <2>3. LinksOwn'
    <3> SUFFICES ASSUME NEW q \in Peers
                 PROVE  /\ \A l \in upstream'[q] : /\ Made(l.pair)' /\ ends'[l.pair].client = q
                                                   /\ Made(l.id)' /\ ends'[l.id].client = q
                        /\ \A l \in clients'[q] :
                               /\ Made(l.pair)' /\ ends'[l.pair].server = q
                               /\ Made(l.id)' /\ ends'[l.id].client = ends'[l.pair].client
      BY DEF LinksOwn
    <3> QED BY <1>1, <1>5, <2>2 DEF Links, Shape, LinksOwn
  <2>4. OneUpstream'
    BY <1>5 DEF Links, Shape, OneUpstream
  <2>5. NetsMade'
    BY <1>1, <2>2 DEF Links, Shape, NetsMade
  <2> QED BY <2>1, <2>3, <2>4, <2>5 DEF Shape
<1>7. ClientsAgree'
  <2> SUFFICES ASSUME NEW d \in Peers, d \notin twice', NEW l \in upstream'[d]
               PROVE  /\ l \in upstream'[d] /\ l \in clients'[ends'[l.pair].server]
                      /\ assigned'[d] = l.id
    BY DEF ClientsAgree, Linked
  <2> DEFINE sv == ends[l.pair].server
  <2>1. l \in upstream[d] /\ d \notin twice /\ d \notin Attached(p) /\ d # p
    BY <1>1, <1>4
  <2>2. l \in clients[sv] /\ assigned[d] = l.id
    BY <2>1 DEF Links, ClientsAgree, Linked
  <2>3. sv \in Peers /\ ends[l.pair].client = d
    BY <2>1, MadeEnds DEF Links, Shape, LinksOwn
  <2>4. sv # p
    BY <2>1, <2>2, <2>3 DEF Attached
  <2>5. l \notin gone
    BY <1>2, <2>1, <2>3
  <2> QED BY <1>1, <1>4, <2>1, <2>2, <2>3, <2>4, <2>5
<1>8. ServersAgree'
  <2> SUFFICES ASSUME NEW t \in Peers, NEW l \in clients'[t], ends'[l.pair].client \notin twice'
               PROVE  l \in upstream'[ends'[l.pair].client]
    BY DEF ServersAgree, Linked
  <2> DEFINE d == ends[l.pair].client
  <2>1. t # p /\ l \in clients[t] /\ (MyServer(t) => l \notin gone)
    BY <1>4
  <2>2. l \in upstream[d] /\ d \in Peers /\ ends[l.pair].server = t
    BY <1>1, <2>1, MadeEnds DEF Links, Shape, LinksOwn, ServersAgree, Linked
  <2>3. d # p
    <3> SUFFICES ASSUME d = p PROVE FALSE
      OBVIOUS
    <3>1. MyServer(t) /\ l \in gone
      BY <1>3, <2>1, <2>2 DEF MyServer
    <3> QED BY <2>1, <3>1
  <2>4. d \notin Attached(p)
    BY <2>1, <2>2 DEF Attached, Links, Shape, OneUpstream
  <2> QED BY <1>1, <1>4, <2>2, <2>3, <2>4
<1>9. NetsAgree'
  <2> SUFFICES ASSUME NEW n \in openNets', Writer(n)' \notin twice', Reader(n)' \notin twice'
               PROVE  n \in Targets(Writer(n))'
    BY DEF NetsAgree
  <2> DEFINE w == Writer(n)
  <2>1. /\ n \in openNets /\ n \notin Targets(p) /\ \A k \in gone : n # Down(k)
        /\ \A c \in Attached(p) : \A l \in upstream[c] : n # Up(l)
    BY <1>1
  <2>2. Writer(n)' = w /\ Reader(n)' = Reader(n)
    BY <1>1 DEF Writer, Reader
  <2>3. w \in Peers /\ n \in Targets(w)
    BY <1>1, <2>1, <2>2, MadeEnds DEF Links, Shape, NetsMade, NetsAgree, Writer
  <2>4. w # p
    BY <2>1, <2>3
  <2> HIDE DEF w
  <2>5. CASE \E l \in upstream[w] : n = Up(l)
    <3>1. w \notin Attached(p)
      BY <2>1, <2>5
    <3> QED BY <1>4, <2>2, <2>3, <2>4, <2>5, <3>1 DEF Targets, Up
  <2>6. CASE \E l \in clients[w] : n = Down(l)
    <3>1. PICK l \in clients[w] : n = Down(l)
      BY <2>6
    <3>2. l \in clients'[w]
      BY <1>4, <2>1, <2>3, <2>4, <3>1
    <3> QED BY <2>2, <3>1, <3>2 DEF Targets, Down
  <2> QED BY <2>3, <2>5, <2>6 DEF Targets
<1>10. ClosedAlone'
  <2> SUFFICES ASSUME NEW q \in Peers, q \notin live' PROVE upstream'[q] = {} /\ clients'[q] = {}
    BY DEF ClosedAlone
  <2>1. CASE q = p
    BY <1>4, <2>1
  <2>2. CASE q # p
    BY <1>1, <1>5, <2>2 DEF Links, ClosedAlone
  <2> QED BY <2>1, <2>2
<1>11. \A k : Made(k) => Made(k)' /\ ends'[k] = ends[k]
  BY <1>1 DEF Made
<1> QED BY <1>6, <1>7, <1>8, <1>9, <1>10, <1>11 DEF Links

LEMMA DiesKeepsLinks ==
    ASSUME Links, NEW n, NetworkDies(n)
    PROVE  Links' /\ \A k : Made(k) => Made(k)' /\ ends'[k] = ends[k]
BY DEF NetworkDies, Links, Shape, LinkTyped, LinksOwn, OneUpstream, NetsMade, ClientsAgree,
       ServersAgree, NetsAgree, ClosedAlone, Made, Linked, Writer, Reader, Targets

LEMMA LinksUnchanged ==
    Links /\ UNCHANGED linkVars => Links' /\ \A k : Made(k) => Made(k)' /\ ends'[k] = ends[k]
BY DEF linkVars, Links, Shape, LinkTyped, LinksOwn, OneUpstream, NetsMade, ClientsAgree,
       ServersAgree, NetsAgree, ClosedAlone, Made, Linked, Writer, Reader, Targets

-----------------------------------------------------------------------------
(* Messages: what changes the links does not lose track of a request. *)

\* What becomes of the packets when networks close.
LEMMA CloseNetsFact ==
    ASSUME NEW nets, CloseNets(nets)
    PROVE  /\ wire' \subseteq wire /\ forsaken \subseteq forsaken'
           /\ \A m \in wire : m \in wire' \/ m.of \in forsaken'
           /\ \A f \in forsaken' : f \in forsaken \/ \E m \in wire : f = m.of
BY DEF CloseNets

\* Links may change, packets and requests may go, when the request of every
\* packet that goes is marked; pairs in use keep their ends.
LEMMA LossKeepsMessages ==
    ASSUME Messages, \A k : Made(k) => Made(k)' /\ ends'[k] = ends[k],
           wire' \subseteq wire, forsaken \subseteq forsaken',
           \A m \in wire : m \in wire' \/ m.of \in forsaken',
           \A f \in forsaken' : f \in forsaken \/ \E m \in wire : f = m.of,
           waiting' \in [Peers -> SUBSET Entry],
           \A p \in Peers : waiting'[p] \subseteq waiting[p],
           \A p \in Peers \ live' : waiting'[p] = {},
           hears' \subseteq hears, deaths' \in 0..MaxDeaths,
           UNCHANGED <<handling, packets>>
    PROVE  Messages'
<1>1. MessageTyped'
  <2>1. forsaken' \subseteq 1..MaxPackets
    BY DEF Messages, MessageTyped, Packet
  <2> QED BY <2>1 DEF Messages, MessageTyped
<1>2. \A m \in wire \cup handling :
          Writer(m.net)' = Writer(m.net) /\ Reader(m.net)' = Reader(m.net) /\ Made(m.net.pair)'
  BY DEF Messages, SendsCounted, Writer, Reader
<1>3. SendsCounted'
  BY <1>2 DEF Messages, SendsCounted
<1>4. OnItsWay'
  <2> SUFFICES ASSUME NEW p \in Peers, NEW e \in waiting'[p]
               PROVE  /\ \A m \in wire' : m.of = e.no =>
                             /\ m.mid = e.mid
                             /\ Writer(m.net)' = p
                                \/ (Reader(m.net)' = p /\ m.type \in {"result", "pong"})
                      /\ \A m \in handling' : m.of = e.no => m.mid = e.mid /\ Writer(m.net)' = p
                      /\ \A q \in Peers : \A f \in waiting'[q] : f.no = e.no => q = p
    BY DEF OnItsWay
  <2> QED BY <1>2 DEF Messages, OnItsWay
<1>5. Reached'
  BY DEF Messages, Reached
<1>6. ClosedQuiet'
  BY DEF ClosedQuiet
<1> QED BY <1>1, <1>3, <1>4, <1>5, <1>6 DEF Messages

LEMMA LinkStepKeepsMessages ==
    ASSUME PeerInv, \A k : Made(k) => Made(k)' /\ ends'[k] = ends[k],
           \/ \E c, s \in Peers : Connect(c, s)
           \/ \E c, s \in Peers : \E mine, its : Reconnect(c, s, mine, its)
           \/ \E n : NetworkDies(n)
    PROVE  Messages'
<1>1. CASE \E c, s \in Peers : Connect(c, s)
  <2>1. UNCHANGED <<live, hears, waiting, wire, handling, packets, deaths, forsaken>>
    BY <1>1 DEF Connect
  <2> QED BY <2>1, LossKeepsMessages DEF PeerInv, Messages, MessageTyped, ClosedQuiet
<1>2. CASE \E c, s \in Peers : \E mine, its : Reconnect(c, s, mine, its)
  <2>1. UNCHANGED <<live, hears, waiting, handling, packets, deaths>>
    BY <1>2 DEF Reconnect
  <2>2. PICK nets : CloseNets(nets)
    BY <1>2 DEF Reconnect
  <2> QED BY <2>1, <2>2, CloseNetsFact, LossKeepsMessages
             DEF PeerInv, Messages, MessageTyped, ClosedQuiet
<1>3. CASE \E n : NetworkDies(n)
  <2>1. UNCHANGED <<live, hears, waiting, handling, packets>>
    BY <1>3 DEF NetworkDies
  <2>2. PICK nets : CloseNets(nets)
    BY <1>3 DEF NetworkDies
  <2>3. deaths' \in 0..MaxDeaths
    BY <1>3, PeerAssumption DEF PeerInv, Messages, MessageTyped, NetworkDies
  <2> QED BY <2>1, <2>2, <2>3, CloseNetsFact, LossKeepsMessages
             DEF PeerInv, Messages, MessageTyped, ClosedQuiet
<1> QED BY <1>1, <1>2, <1>3

LEMMA CloseKeepsMessages ==
    ASSUME PeerInv, NEW p \in Peers, ClosePeer(p),
           \A k : Made(k) => Made(k)' /\ ends'[k] = ends[k]
    PROVE  Messages'
<1>1. /\ UNCHANGED <<handling, packets, deaths>>
      /\ waiting' = [waiting EXCEPT ![p] = {}] /\ live' = live \ {p} /\ hears' = hears \ {p}
  BY DEF ClosePeer
<1>2. PICK nets : CloseNets(nets)
  BY DEF ClosePeer
<1>3. /\ waiting' \in [Peers -> SUBSET Entry]
      /\ \A q \in Peers : waiting'[q] = IF q = p THEN {} ELSE waiting[q]
  BY <1>1 DEF PeerInv, Messages, MessageTyped
<1>4. \A q \in Peers \ live' : waiting'[q] = {}
  BY <1>1, <1>3 DEF PeerInv, Messages, ClosedQuiet
<1>5. deaths' \in 0..MaxDeaths /\ hears' \subseteq hears
  BY <1>1 DEF PeerInv, Messages, MessageTyped
<1> QED BY <1>1, <1>2, <1>3, <1>4, <1>5, CloseNetsFact, LossKeepsMessages DEF PeerInv

-----------------------------------------------------------------------------
(* Messages: requests, answers and listeners. *)

LEMMA SendKeepsMessages ==
    ASSUME PeerInv, NEW p \in Peers, NEW net \in Targets(p),
           NEW type \in {"message", "ping", "result", "error"}, NEW mid \in 1..MaxMids,
           NEW waits \in BOOLEAN, Send(p, net, type, mid, waits)
    PROVE  Messages'
<1> DEFINE new == packets + 1
           packet == [net |-> net, type |-> type, mid |-> mid, no |-> new, of |-> new]
           entry == [mid |-> mid, no |-> new]
<1>1. /\ packets < MaxPackets /\ packets' = new /\ p \in live
      /\ wire' = wire \cup (IF net \in openNets THEN {packet} ELSE {})
      /\ waiting' = [waiting EXCEPT ![p] = IF net \notin openNets THEN @ \ Pending(p, mid)
                         ELSE IF waits THEN (waiting[p] \ Pending(p, mid)) \cup {entry} ELSE @]
      /\ UNCHANGED <<live, ends, hears, handling, deaths, forsaken>>
  BY DEF Send, Publish, Renewed
<1>2. packets \in Nat /\ new \in 1..MaxPackets /\ new \in 0..MaxPackets
  BY <1>1, PeerAssumption DEF PeerInv, Messages, MessageTyped
<1>3. net \in Network /\ Made(net.pair) /\ Writer(net) = p
  <2>1. CASE \E l \in upstream[p] : net = Up(l)
    BY <2>1, NetFacts DEF PeerInv, Links, Shape, LinkTyped, LinksOwn, Network, Link, Up
  <2>2. CASE \E l \in clients[p] : net = Down(l)
    BY <2>2, NetFacts DEF PeerInv, Links, Shape, LinkTyped, LinksOwn, Network, Link, Down
  <2> QED BY <2>1, <2>2 DEF Targets
<1>4. /\ packet \in Packet /\ packet.mid = mid /\ packet.net = net /\ packet.of = new
      /\ entry \in Entry /\ entry.mid = mid /\ entry.no = new
  BY <1>2, <1>3 DEF Packet, Entry
<1> HIDE DEF packet, entry
<1>5. /\ waiting' \in [Peers -> SUBSET Entry]
      /\ \A q \in Peers : \A e \in waiting'[q] :
             e \in waiting[q] \/ (e = entry /\ q = p /\ net \in openNets)
  BY <1>1, <1>4 DEF PeerInv, Messages, MessageTyped
<1>6. /\ \A m \in wire' : m \in wire \/ (m = packet /\ net \in openNets)
      /\ wire \subseteq wire' /\ (net \in openNets => packet \in wire')
  BY <1>1
<1>7. /\ \A q \in Peers : \A e \in waiting[q] : e.no # new /\ e.no <= new
      /\ \A m \in wire \cup handling : m.of # new /\ m.of <= new
  <2>1. \A i \in 1..MaxPackets : i <= packets => i # new /\ i <= new
    BY <1>2
  <2>2. /\ \A q \in Peers : \A e \in waiting[q] : e.no \in 1..MaxPackets /\ e.no <= packets
        /\ \A m \in wire \cup handling : m.of \in 1..MaxPackets /\ m.of <= packets
    BY DEF PeerInv, Messages, MessageTyped, SendsCounted, Packet, Entry
  <2> QED BY <2>1, <2>2
<1>8. \A n : Writer(n)' = Writer(n) /\ Reader(n)' = Reader(n)
  BY <1>1 DEF Writer, Reader
<1>9. \A k : Made(k)' <=> Made(k)
  BY <1>1 DEF Made
<1>10. MessageTyped'
  BY <1>1, <1>2, <1>4, <1>5 DEF PeerInv, Messages, MessageTyped
<1>11. SendsCounted'
  <2>1. \A q \in Peers : \A e \in waiting'[q] : e.no <= packets'
    BY <1>1, <1>2, <1>4, <1>5, <1>7
  <2>2. \A m \in wire' \cup handling' : m.of <= packets' /\ Made(m.net.pair)'
    BY <1>1, <1>2, <1>3, <1>4, <1>6, <1>7, <1>9 DEF PeerInv, Messages, SendsCounted
  <2> QED BY <2>1, <2>2 DEF SendsCounted
<1> HIDE DEF new
<1>12. OnItsWay'
  <2> SUFFICES ASSUME NEW q \in Peers, NEW e \in waiting'[q]
               PROVE  /\ \A m \in wire' : m.of = e.no =>
                             /\ m.mid = e.mid
                             /\ Writer(m.net)' = q
                                \/ (Reader(m.net)' = q /\ m.type \in {"result", "pong"})
                      /\ \A m \in handling' : m.of = e.no => m.mid = e.mid /\ Writer(m.net)' = q
                      /\ \A o \in Peers : \A f \in waiting'[o] : f.no = e.no => o = q
    BY DEF OnItsWay
  <2>1. CASE e \in waiting[q]
    <3>1. \A m \in wire' : m.of = e.no => m \in wire
      BY <1>4, <1>6, <1>7, <2>1
    <3>2. \A o \in Peers : \A f \in waiting'[o] : f.no = e.no => f \in waiting[o]
      BY <1>4, <1>5, <1>7, <2>1
    <3> QED BY <1>1, <1>8, <2>1, <3>1, <3>2 DEF PeerInv, Messages, OnItsWay
  <2>2. CASE e = entry /\ q = p
    <3>1. \A m \in wire' : m.of = e.no => m = packet
      BY <1>4, <1>6, <1>7, <2>2
    <3>2. \A m \in handling' : m.of # e.no
      BY <1>1, <1>4, <1>7, <2>2
    <3>3. \A o \in Peers : \A f \in waiting'[o] : f.no = e.no => o = p
      BY <1>4, <1>5, <1>7, <2>2
    <3> QED BY <1>3, <1>4, <1>8, <2>2, <3>1, <3>2, <3>3
  <2> QED BY <1>5, <2>1, <2>2
<1>13. Reached'
  <2> SUFFICES ASSUME NEW q \in Peers, NEW e \in waiting'[q]
               PROVE  e.no \in forsaken' \/ \E m \in wire' \cup handling' : m.of = e.no
    BY DEF Reached
  <2>1. CASE e \in waiting[q]
    BY <1>1, <1>6, <2>1 DEF PeerInv, Messages, Reached
  <2>2. CASE e = entry /\ net \in openNets
    BY <1>4, <1>6, <2>2
  <2> QED BY <1>5, <2>1, <2>2
<1>14. ClosedQuiet'
  BY <1>1, <1>5 DEF PeerInv, Messages, ClosedQuiet
<1> QED BY <1>10, <1>11, <1>12, <1>13, <1>14 DEF Messages

LEMMA NowhereKeepsMessages ==
    ASSUME PeerInv, NEW p \in Peers, NEW mid, SendNowhere(p, mid)
    PROVE  Messages'
<1>1. /\ waiting' = [waiting EXCEPT ![p] = @ \ Pending(p, mid)]
      /\ UNCHANGED <<live, ends, hears, wire, handling, packets, deaths, forsaken>>
  BY DEF SendNowhere
<1>2. /\ waiting' \in [Peers -> SUBSET Entry] /\ \A q \in Peers : waiting'[q] \subseteq waiting[q]
      /\ deaths' \in 0..MaxDeaths
  BY <1>1 DEF PeerInv, Messages, MessageTyped
<1>3. \A q \in Peers \ live' : waiting'[q] = {}
  BY <1>1, <1>2 DEF PeerInv, Messages, ClosedQuiet
<1>4. \A k : Made(k) => Made(k)' /\ ends'[k] = ends[k]
  BY <1>1 DEF Made
<1> QED BY <1>1, <1>2, <1>3, <1>4, LossKeepsMessages DEF PeerInv

\* The networks of findLinkTo() lead from the peer to the target.
LEMMA LinkToFact ==
    ASSUME Shape, NEW p \in Peers, NEW target, NEW n \in LinkTo(p, target)
    PROVE  n \in Network /\ Made(n.pair) /\ Reader(n) = target
<1>1. CASE \E l \in upstream[p] : n = Up(l) /\ ends[l.pair].server = target
  BY <1>1, NetFacts DEF Shape, LinkTyped, LinksOwn, Network, Link, Up
<1>2. CASE \E l \in clients[p] : n = Down(l) /\ ends[l.pair].client = target
  <2>1. PICK l \in clients[p] : n = Down(l) /\ ends[l.pair].client = target
    BY <1>2
  <2>2. Made(l.pair) /\ l.pair \in Pairs
    BY DEF Shape, LinksOwn, Made
  <2>3. Down(l) \in Network
    BY <2>2 DEF Network, Down
  <2> QED BY <2>1, <2>2, <2>3, NetFacts
<1> DEFINE ups == {l \in upstream[p] : ends[l.pair].server = target}
           downs == {l \in clients[p] : ends[l.pair].client = target}
           first == {l \in downs : \A j \in downs : l.id <= j.id}
<1>3. LinkTo(p, target) = IF ups # {} THEN {Up(l) : l \in ups} ELSE {Down(l) : l \in first}
  BY DEF LinkTo
<1>4. (\E l \in ups : n = Up(l)) \/ (\E l \in first : n = Down(l))
  BY <1>3
<1> QED BY <1>1, <1>2, <1>4

\* A reply to the packet m: afterwards the request is settled or answered, or
\* nothing could be sent and it is marked.
LEMMA ReplyKeeps ==
    ASSUME PeerInv, NEW m \in wire \cup handling, NEW type \in {"result", "pong"},
           NEW rest, rest \subseteq wire,
           Reply(Reader(m.net), Writer(m.net), m, type, rest),
           \A q \in Peers : \A e \in waiting[q] : m.of = e.no => Writer(m.net) = q,
           \A w \in wire : w \in rest \/ w = m,
           handling' \subseteq handling, \A w \in handling : w \in handling' \/ w = m,
           UNCHANGED <<live, ends, hears, deaths>>
    PROVE  Messages'
<1> DEFINE p == Reader(m.net)
           target == Writer(m.net)
           net == LinkTo(p, target)
           Answer(n) == [net |-> n, type |-> type, mid |-> m.mid, no |-> packets + 1, of |-> m.of]
           sent == {Answer(n) : n \in net}
<1>1. /\ m \in Packet /\ m.of \in 1..MaxPackets /\ m.mid \in 1..MaxMids /\ m.of <= packets
      /\ p \in Peers /\ target \in Peers
  <2>1. m \in Packet /\ m.of <= packets /\ Made(m.net.pair)
    BY DEF PeerInv, Messages, MessageTyped, SendsCounted
  <2> QED BY <2>1, MadeEnds DEF PeerInv, Links, Shape, Reader, Writer, Packet
<1>2. /\ packets \in 0..MaxPackets /\ packets < MaxPackets /\ packets' = packets + 1
      /\ wire' \subseteq rest \cup sent /\ rest \subseteq wire'
      /\ forsaken' \in {forsaken, forsaken \cup {m.of}}
      /\ waiting' \in {waiting, [waiting EXCEPT ![target] = @ \ Pending(target, m.mid)]}
  BY DEF Reply, PeerInv, Messages, MessageTyped
<1>3. packets' \in 0..MaxPackets /\ packets + 1 \in 1..MaxPackets /\ packets <= packets'
      /\ packets \in Nat /\ packets' \in Nat
  BY <1>2, PeerAssumption
<1>4. \/ m.of \in forsaken'
      \/ \E w \in wire' : w.of = m.of
      \/ waiting' = [waiting EXCEPT ![target] = @ \ Pending(target, m.mid)]
  <2>1. CASE net = {}
    BY <2>1 DEF Reply
  <2>2. CASE net # {}
    <3>1. PICK n \in net : TRUE
      BY <2>2
    <3>2. Answer(n).of = m.of /\ Answer(n) \in sent
      BY <3>1
    <3>3. \/ wire' = rest \cup sent
          \/ waiting' = [waiting EXCEPT ![target] = @ \ Pending(target, m.mid)]
      BY <2>2 DEF Reply
    <3> QED BY <3>2, <3>3
  <2> QED BY <2>1, <2>2
<1>5. \A w \in sent : /\ w \in Packet /\ w.mid = m.mid /\ w.type = type /\ w.of = m.of
                      /\ Made(w.net.pair) /\ Reader(w.net) = target
  <2> SUFFICES ASSUME NEW n \in net
               PROVE  /\ Answer(n) \in Packet /\ Made(n.pair) /\ Reader(n) = target
    OBVIOUS
  <2>1. n \in Network /\ Made(n.pair) /\ Reader(n) = target
    BY <1>1, LinkToFact DEF PeerInv, Links
  <2> QED BY <1>1, <1>3, <2>1 DEF Packet
<1> HIDE DEF net, sent
<1>6. /\ waiting' \in [Peers -> SUBSET Entry]
      /\ \A q \in Peers : waiting'[q] \subseteq waiting[q]
      /\ waiting' = [waiting EXCEPT ![target] = @ \ Pending(target, m.mid)] =>
             \A e \in waiting'[target] : e.mid # m.mid
  BY <1>1, <1>2 DEF PeerInv, Messages, MessageTyped, Pending
<1>7. \A n : Writer(n)' = Writer(n) /\ Reader(n)' = Reader(n)
  BY DEF Writer, Reader
<1>8. \A k : Made(k)' <=> Made(k)
  BY DEF Made
<1>9. \A q \in Peers : \A e \in waiting[q] : m.of = e.no => m.mid = e.mid /\ target = q
  BY DEF PeerInv, Messages, OnItsWay
<1> HIDE DEF p, target
<1>10. MessageTyped'
  BY <1>1, <1>2, <1>3, <1>5, <1>6 DEF PeerInv, Messages, MessageTyped
<1>11. SendsCounted'
  <2>1. \A q \in Peers : \A e \in waiting'[q] : e.no <= packets'
    <3> SUFFICES ASSUME NEW q \in Peers, NEW e \in waiting'[q] PROVE e.no <= packets'
      OBVIOUS
    <3>1. e \in waiting[q] /\ e.no \in 1..MaxPackets /\ e.no <= packets
      BY <1>6 DEF PeerInv, Messages, MessageTyped, SendsCounted, Entry
    <3> QED BY <1>3, <3>1
  <2>2. \A w \in wire' \cup handling' : w.of <= packets' /\ Made(w.net.pair)'
    <3> SUFFICES ASSUME NEW w \in wire' \cup handling'
                 PROVE  w.of <= packets' /\ Made(w.net.pair)'
      OBVIOUS
    <3>1. CASE w \in sent
      BY <1>1, <1>3, <1>5, <1>8, <3>1
    <3>2. CASE w \in wire \cup handling
      <4>1. w.of \in 1..MaxPackets /\ w.of <= packets /\ Made(w.net.pair)
        BY <3>2 DEF PeerInv, Messages, MessageTyped, SendsCounted, Packet
      <4> QED BY <1>3, <1>8, <4>1
    <3> QED BY <1>2, <3>1, <3>2
  <2> QED BY <2>1, <2>2 DEF SendsCounted
<1>12. OnItsWay'
  <2> SUFFICES ASSUME NEW q \in Peers, NEW e \in waiting'[q]
               PROVE  /\ \A w \in wire' : w.of = e.no =>
                             /\ w.mid = e.mid
                             /\ Writer(w.net)' = q
                                \/ (Reader(w.net)' = q /\ w.type \in {"result", "pong"})
                      /\ \A w \in handling' : w.of = e.no => w.mid = e.mid /\ Writer(w.net)' = q
                      /\ \A o \in Peers : \A f \in waiting'[o] : f.no = e.no => o = q
    BY DEF OnItsWay
  <2>1. e \in waiting[q]
    BY <1>6
  <2>2. \A w \in sent : w.of = e.no =>
            w.mid = e.mid /\ Reader(w.net)' = q /\ w.type \in {"result", "pong"}
    BY <1>5, <1>7, <1>9, <2>1
  <2> QED BY <1>2, <1>6, <1>7, <2>1, <2>2 DEF PeerInv, Messages, OnItsWay
<1>13. Reached'
  <2> SUFFICES ASSUME NEW q \in Peers, NEW e \in waiting'[q]
               PROVE  e.no \in forsaken' \/ \E w \in wire' \cup handling' : w.of = e.no
    BY DEF Reached
  <2>1. e \in waiting[q]
    BY <1>6
  <2>2. CASE e.no = m.of
    BY <1>4, <1>6, <1>9, <2>1, <2>2
  <2>3. CASE e.no # m.of
    BY <1>2, <2>1, <2>3 DEF PeerInv, Messages, Reached
  <2> QED BY <2>2, <2>3
<1>14. ClosedQuiet'
  BY <1>6 DEF PeerInv, Messages, ClosedQuiet
<1> QED BY <1>10, <1>11, <1>12, <1>13, <1>14 DEF Messages

\* A packet leaves the wire, or a listener, and nothing comes in its place: the
\* request is settled or marked, or the packet goes to the listeners.
LEMMA ConsumeKeeps ==
    ASSUME PeerInv, NEW m \in wire \cup handling, wire' \subseteq wire,
           \A w \in wire : w \in wire' \/ w = m,
           \A w \in handling : w \in handling' \/ w = m,
           handling' \subseteq handling \cup {m},
           forsaken' \in {forsaken, forsaken \cup {m.of}},
           waiting' \in [Peers -> SUBSET Entry],
           \A q \in Peers : waiting'[q] \subseteq waiting[q],
           \A q \in Peers : \A e \in waiting'[q] : e.no = m.of =>
               m.of \in forsaken' \/ (m \in handling' /\ Writer(m.net) = q),
           m \in handling' \ handling =>
               \A q \in Peers : \A e \in waiting'[q] : e.no = m.of => Writer(m.net) = q,
           UNCHANGED <<live, ends, hears, packets, deaths>>
    PROVE  Messages'
<1>1. m \in Packet /\ m.of \in 1..MaxPackets /\ m.of <= packets /\ Made(m.net.pair)
  BY DEF PeerInv, Messages, MessageTyped, SendsCounted, Packet
<1>2. \A n : Writer(n)' = Writer(n) /\ Reader(n)' = Reader(n)
  BY DEF Writer, Reader
<1>3. \A k : Made(k)' <=> Made(k)
  BY DEF Made
<1>4. MessageTyped'
  BY <1>1 DEF PeerInv, Messages, MessageTyped
<1>5. SendsCounted'
  BY <1>1, <1>3 DEF PeerInv, Messages, SendsCounted
<1>6. \A q \in Peers : \A e \in waiting[q] : m.of = e.no => m.mid = e.mid
  BY DEF PeerInv, Messages, OnItsWay
<1>7. OnItsWay'
  <2> SUFFICES ASSUME NEW q \in Peers, NEW e \in waiting'[q]
               PROVE  /\ \A w \in wire' : w.of = e.no =>
                             /\ w.mid = e.mid
                             /\ Writer(w.net)' = q
                                \/ (Reader(w.net)' = q /\ w.type \in {"result", "pong"})
                      /\ \A w \in handling' : w.of = e.no => w.mid = e.mid /\ Writer(w.net)' = q
                      /\ \A o \in Peers : \A f \in waiting'[o] : f.no = e.no => o = q
    BY DEF OnItsWay
  <2>1. e \in waiting[q] /\ \A o \in Peers : \A f \in waiting'[o] : f \in waiting[o]
    OBVIOUS
  <2>2. \A w \in handling' : w.of = e.no => w.mid = e.mid /\ Writer(w.net)' = q
    <3> SUFFICES ASSUME NEW w \in handling', w.of = e.no
                 PROVE  w.mid = e.mid /\ Writer(w.net)' = q
      OBVIOUS
    <3>1. CASE w \in handling
      BY <1>2, <2>1, <3>1 DEF PeerInv, Messages, OnItsWay
    <3>2. CASE w = m /\ m \in handling' \ handling
      BY <1>2, <1>6, <2>1, <3>2
    <3> QED BY <3>1, <3>2
  <2> QED BY <1>2, <2>1, <2>2 DEF PeerInv, Messages, OnItsWay
<1>8. Reached'
  <2> SUFFICES ASSUME NEW q \in Peers, NEW e \in waiting'[q]
               PROVE  e.no \in forsaken' \/ \E w \in wire' \cup handling' : w.of = e.no
    BY DEF Reached
  <2>1. e \in waiting[q]
    OBVIOUS
  <2>2. CASE e.no = m.of
    BY <2>1, <2>2
  <2>3. CASE e.no # m.of
    BY <2>1, <2>3 DEF PeerInv, Messages, Reached
  <2> QED BY <2>2, <2>3
<1>9. ClosedQuiet'
  BY DEF PeerInv, Messages, ClosedQuiet
<1> QED BY <1>4, <1>5, <1>7, <1>8, <1>9 DEF Messages

LEMMA DispatchKeepsMessages ==
    ASSUME PeerInv, NEW m \in wire, Dispatch(m)
    PROVE  Messages'
<1> DEFINE p == Reader(m.net)
           q == Writer(m.net)
           rest == wire \ {m}
           settled == IF m.type \in {"result", "pong", "error"} THEN Pending(p, m.mid) ELSE {}
<1>1. p \in Peers /\ q \in Peers
  <2>1. Made(m.net.pair)
    BY DEF PeerInv, Messages, SendsCounted
  <2> QED BY <2>1, MadeEnds DEF PeerInv, Links, Shape, Reader, Writer
<1>2. UNCHANGED <<live, upstream, clients, assigned, ends, openNets, hears, deaths>>
  BY DEF Dispatch
<1>3. \A o \in Peers : \A e \in waiting[o] : m.of = e.no =>
          /\ m.mid = e.mid
          /\ q = o \/ (p = o /\ m.type \in {"result", "pong"})
  BY DEF PeerInv, Messages, OnItsWay
<1>4. /\ waiting \in [Peers -> SUBSET Entry] /\ m \in wire \cup handling
      /\ rest \subseteq wire /\ \A w \in wire : w \in rest \/ w = m
  BY DEF PeerInv, Messages, MessageTyped
<1>5. CASE /\ settled # {}
           /\ waiting' = [waiting EXCEPT ![p] = @ \ settled]
           /\ wire' = rest
           /\ forsaken' = forsaken \cup ({m.of} \ {e.no : e \in settled})
           /\ UNCHANGED <<handling, packets>>
  <2>0. settled = Pending(p, m.mid)
    BY <1>5
  <2> HIDE DEF settled, p, q
  <2>1. /\ waiting' \in [Peers -> SUBSET Entry]
        /\ \A o \in Peers : waiting'[o] = IF o = p THEN waiting[o] \ settled ELSE waiting[o]
    BY <1>4, <1>5
  <2>2. \A o \in Peers : \A e \in waiting'[o] : e.no = m.of => m.of \in forsaken'
    <3> SUFFICES ASSUME NEW o \in Peers, NEW e \in waiting'[o], e.no = m.of,
                        NEW f \in settled, f.no = m.of
                 PROVE  FALSE
      BY <1>5
    <3>1. e \in waiting[o] /\ f \in waiting[p] /\ e.mid = m.mid
      BY <1>3, <2>0, <2>1 DEF Pending
    <3>2. o = p
      BY <1>1, <3>1 DEF PeerInv, Messages, OnItsWay
    <3> QED BY <2>0, <2>1, <3>1, <3>2 DEF Pending
  <2>3. forsaken' \in {forsaken, forsaken \cup {m.of}}
    BY <1>5
  <2> QED BY <1>2, <1>4, <1>5, <2>1, <2>2, <2>3, ConsumeKeeps
<1>6. CASE /\ m.type = "ping" /\ p \in live
           /\ Reply(p, q, m, "pong", rest) /\ UNCHANGED handling
  BY <1>2, <1>3, <1>4, <1>6, ReplyKeeps
<1>7. CASE /\ m.type # "ping" /\ settled = {} /\ wire' = rest
           /\ handling' = handling \cup {m}
           /\ UNCHANGED <<waiting, packets, forsaken>>
  <2>1. \A o \in Peers : \A e \in waiting'[o] : e.no = m.of => q = o
    BY <1>3, <1>7 DEF Pending
  <2> QED BY <1>2, <1>4, <1>7, <2>1, ConsumeKeeps
<1>8. CASE /\ wire' = rest /\ forsaken' = forsaken \cup {m.of}
           /\ UNCHANGED <<waiting, handling, packets>>
  BY <1>2, <1>4, <1>8, ConsumeKeeps
<1> QED BY <1>5, <1>6, <1>7, <1>8 DEF Dispatch

LEMMA ListenerKeepsMessages ==
    ASSUME PeerInv, NEW m \in handling,
           ListenerThrows(m) \/ \E goesOn \in BOOLEAN : ListenerReplies(m, goesOn)
    PROVE  Messages'
<1>1. \A q \in Peers : \A e \in waiting[q] : m.of = e.no => Writer(m.net) = q
  BY DEF PeerInv, Messages, OnItsWay
<1>2. CASE ListenerThrows(m)
  <2> DEFINE p == Reader(m.net)
  <2>1. /\ waiting' = [waiting EXCEPT ![p] = @ \ Pending(p, m.mid)] /\ wire' = wire
        /\ handling' = handling \ {m} /\ forsaken' = forsaken \cup {m.of}
        /\ UNCHANGED <<live, ends, hears, packets, deaths>>
    BY <1>2 DEF ListenerThrows
  <2>2. /\ waiting' \in [Peers -> SUBSET Entry]
        /\ \A q \in Peers : waiting'[q] \subseteq waiting[q]
    BY <2>1 DEF PeerInv, Messages, MessageTyped
  <2> QED BY <2>1, <2>2, ConsumeKeeps
<1>3. CASE \E goesOn \in BOOLEAN : ListenerReplies(m, goesOn)
  <2>1. /\ Reply(Reader(m.net), Writer(m.net), m, "result", wire)
        /\ handling' \in {handling, handling \ {m}}
        /\ UNCHANGED <<live, ends, hears, deaths>>
    BY <1>3 DEF ListenerReplies
  <2> QED BY <1>1, <2>1, ReplyKeeps
<1> QED BY <1>2, <1>3

-----------------------------------------------------------------------------
(* The theorems. *)

LEMMA PeerInvInit == PeerInit => PeerInv
<1> SUFFICES ASSUME PeerInit PROVE PeerInv
  OBVIOUS
<1>1. Links
  BY PeerAssumption DEF PeerInit, Links, Shape, LinkTyped, LinksOwn, OneUpstream, NetsMade,
     ClientsAgree, ServersAgree, NetsAgree, ClosedAlone
<1>2. Messages
  BY PeerAssumption DEF PeerInit, Messages, MessageTyped, SendsCounted, OnItsWay,
     Reached, ClosedQuiet
<1> QED BY <1>1, <1>2 DEF PeerInv

LEMMA PeerInvNext == PeerInv /\ [PeerNext]_peerVars => PeerInv'
<1> SUFFICES ASSUME PeerInv, [PeerNext]_peerVars PROVE PeerInv'
  OBVIOUS
<1>1. CASE \E c, s \in Peers : Connect(c, s)
  BY <1>1, ConnectKeepsShape, ConnectKeepsLinks, LinkStepKeepsMessages DEF PeerInv
<1>2. CASE \E p \in live : \E r \in ReconnectBy(p) :
               \E mine \in upstream[r.client], its \in clients[r.server] :
                   its.id = r.id /\ Reconnect(r.client, r.server, mine, its)
  <2>0. PICK p \in live : \E r \in ReconnectBy(p) :
            \E mine \in upstream[r.client], its \in clients[r.server] :
                its.id = r.id /\ Reconnect(r.client, r.server, mine, its)
    BY <1>2
  <2>1. PICK r \in ReconnectBy(p) : \E mine, its : Reconnect(r.client, r.server, mine, its)
    BY <2>0
  <2>2. p \in Peers
    BY DEF PeerInv, Links, Shape, LinkTyped
  <2>3. r.client \in Peers /\ r.server \in Peers
    <3>1. CASE \E l \in upstream[p] :
                   r = [client |-> p, server |-> ends[l.pair].server, id |-> l.id]
      BY <2>2, <3>1, MadeEnds DEF PeerInv, Links, Shape, LinksOwn
    <3>2. CASE \E l \in clients[p] :
                   r = [client |-> ends[l.pair].client, server |-> p, id |-> l.id]
      BY <2>2, <3>2, MadeEnds DEF PeerInv, Links, Shape, LinksOwn
    <3> QED BY <3>1, <3>2 DEF ReconnectBy
  <2> QED BY <2>1, <2>3, ReconnectKeepsShape, ReconnectKeepsLinks, LinkStepKeepsMessages
             DEF PeerInv
<1>3. CASE \E p \in Peers, mid \in 1..MaxMids :
               \/ \E net \in Targets(p), type \in {"message", "ping", "result", "error"},
                     waits \in BOOLEAN : Send(p, net, type, mid, waits)
               \/ SendNowhere(p, mid)
  <2>1. UNCHANGED linkVars
    BY <1>3 DEF Send, SendNowhere, linkVars
  <2> QED BY <1>3, <2>1, SendKeepsMessages, NowhereKeepsMessages, LinksUnchanged DEF PeerInv
<1>4. CASE \E m \in wire : Dispatch(m)
  <2>1. UNCHANGED linkVars
    BY <1>4 DEF Dispatch, linkVars
  <2> QED BY <1>4, <2>1, DispatchKeepsMessages, LinksUnchanged DEF PeerInv
<1>5. CASE \E m \in handling :
               ListenerThrows(m) \/ \E goesOn \in BOOLEAN : ListenerReplies(m, goesOn)
  <2>1. UNCHANGED linkVars
    BY <1>5 DEF ListenerThrows, ListenerReplies, linkVars
  <2> QED BY <1>5, <2>1, ListenerKeepsMessages, LinksUnchanged DEF PeerInv
<1>6. CASE \E p \in Peers : ClosePeer(p)
  BY <1>6, CloseKeepsLinks, CloseKeepsMessages DEF PeerInv
<1>7. CASE \E n \in openNets : NetworkDies(n)
  BY <1>7, DiesKeepsLinks, LinkStepKeepsMessages DEF PeerInv
<1>8. CASE UNCHANGED peerVars
  <2>1. /\ UNCHANGED linkVars
        /\ UNCHANGED <<live, hears, waiting, wire, handling, packets, deaths, forsaken>>
    BY <1>8 DEF peerVars, linkVars
  <2>2. Links' /\ \A k : Made(k) => Made(k)' /\ ends'[k] = ends[k]
    BY <2>1, LinksUnchanged DEF PeerInv
  <2> QED BY <2>1, <2>2, LossKeepsMessages DEF PeerInv, Messages, MessageTyped, ClosedQuiet
<1> QED BY <1>1, <1>2, <1>3, <1>4, <1>5, <1>6, <1>7, <1>8 DEF PeerNext

LEMMA PeerInvHolds == PeerSpec => []PeerInv
BY PeerInvInit, PeerInvNext, PTL DEF PeerSpec

\* The state of any number of peers keeps its types.
THEOREM PeerTypes == PeerSpec => []PeerTypeOK
BY PeerInvHolds, Parts, PTL

\* Through connect(), reconnect() from either side, close() of either side and
\* networks that die, client and server hold the same link or neither does.
THEOREM LinksMirrorHolds == PeerSpec => []LinksMirror
BY PeerInvHolds, Parts, PTL

\* Whatever mids the callers choose, send(), dispatch(), reply() and close()
\* leave no entry in pending that nobody will settle, but for the losses that
\* PendingAccounted names.
THEOREM PendingAccountedHolds == PeerSpec => []PendingAccounted
BY PeerInvHolds, Parts, PTL

-----------------------------------------------------------------------------
(* ReconnectingNetwork: one generation is heard, one attempt is scheduled,   *)
(* no inner network is lost, close() is final when called from outside       *)
(* failAttempt, and only an opened candidate resets the backoff.             *)

\* Together inductive: a path that attaches relies on the phase it comes from
\* having detached, and one that schedules on no timer being set.
BackoffInv ==
    /\ TypeOK
    /\ OneGenerationHeard
    /\ TimerOnlyInBackoff
    /\ NoNetworkLost
    /\ CloseIsFinal

LEMMA BackoffInvInit ==
    ASSUME Init
    PROVE  BackoffInv
<1>1. 0 \in Nets /\ 0 \in 0 .. MaxFailures
  BY ReconnectAssumption DEF ReconnectAssumption, Nets
<1>2. state \in [Nets -> {"none", "connecting", "open", "closed"}]
  BY DEF Init
<1>3. TypeOK
  BY <1>1, <1>2 DEF Init, TypeOK
<1>4. \A n \in Nets : n # 0 => state[n] = "none"
  BY DEF Init
<1>5. NoNetworkLost
  BY <1>4 DEF Init, NoNetworkLost, Alive
<1>6. OneGenerationHeard /\ TimerOnlyInBackoff /\ CloseIsFinal
  BY DEF Init, OneGenerationHeard, TimerOnlyInBackoff, CloseIsFinal
<1> QED BY <1>3, <1>5, <1>6 DEF BackoffInv

\* beginBackoff after the states st, in which no network but those abandoned
\* or the one still heard is alive.
LEMMA BackoffKeeps ==
    ASSUME BackoffInv, phase = "connected", NEW st, BeginBackoff(st),
           st \in [Nets -> {"none", "connecting", "open", "closed"}],
           \A n \in Nets : st[n] \in {"connecting", "open"} => n \in abandoned',
           failures' \in 0 .. MaxFailures, abandoned' \subseteq Nets
    PROVE  BackoffInv'
BY DEF BackoffInv, TypeOK, OneGenerationHeard, TimerOnlyInBackoff, NoNetworkLost,
       CloseIsFinal, Alive, Dead, BeginBackoff

\* failAttempt with candidate n, likewise.
LEMMA FailKeeps ==
    ASSUME BackoffInv, phase # "closed", NEW n \in Nets, NEW st, FailAttempt(n, st),
           st \in [Nets -> {"none", "connecting", "open", "closed"}],
           \A m \in Nets : st[m] \in {"connecting", "open"} => m \in abandoned',
           failures' \in 0 .. MaxFailures, abandoned' \subseteq Nets
    PROVE  BackoffInv'
<1>1. closing # "call"
  BY DEF BackoffInv, CloseIsFinal
<1>2. state' = st \/ state' = [st EXCEPT ![n] = "closed"]
  BY DEF FailAttempt
<1>3. state' \in [Nets -> {"none", "connecting", "open", "closed"}]
      /\ \A m \in Nets : state'[m] \in {"connecting", "open"} => m \in abandoned'
  <2>1. CASE state' = st
    BY <2>1
  <2>2. CASE state' = [st EXCEPT ![n] = "closed"]
    BY <2>2
  <2> QED BY <1>2, <2>1, <2>2
<1>4. TypeOK'
  <2>1. /\ phase' = "backoff" /\ current' = n /\ listening' = {}
        /\ retries' \in Nat /\ generation' \in Nat
        /\ closing' \in {"no", "call", "handler"}
    BY DEF BackoffInv, TypeOK, FailAttempt
  <2>2. timer' \in BOOLEAN
    BY DEF FailAttempt
  <2>3. watchdog' \in BOOLEAN
    BY DEF BackoffInv, TypeOK, FailAttempt
  <2> QED BY <1>3, <2>1, <2>2, <2>3 DEF TypeOK
<1>5. closing' # "call"
  BY <1>1 DEF FailAttempt
<1> QED BY <1>3, <1>4, <1>5
        DEF BackoffInv, OneGenerationHeard, TimerOnlyInBackoff, NoNetworkLost, CloseIsFinal,
            Alive, FailAttempt

\* settleReconnected with network n, open in st and heard.
LEMMA SettleKeeps ==
    ASSUME BackoffInv, phase # "closed", NEW n \in Nets, NEW st, Settle(n, st),
           st \in [Nets -> {"none", "connecting", "open", "closed"}],
           \A m \in Nets \ {n} : st[m] \in {"connecting", "open"} => m \in abandoned,
           listening' = {n}, timer' = FALSE, UNCHANGED <<failures, abandoned>>
    PROVE  BackoffInv'
<1>1. TypeOK'
  <2>1. phase' = "connected" /\ retries' = 0 /\ generation' \in Nat
    BY DEF BackoffInv, TypeOK, Settle
  <2>2. current' \in Nets /\ state' = st /\ listening' \subseteq Nets
        /\ UNCHANGED <<failures, closing, abandoned>>
    BY DEF Settle
  <2>3. timer' \in BOOLEAN
    OBVIOUS
  <2>4. watchdog' \in BOOLEAN
    BY DEF BackoffInv, TypeOK, Settle
  <2> QED BY <2>1, <2>2, <2>3, <2>4 DEF BackoffInv, TypeOK
<1>2. NoNetworkLost'
  BY DEF NoNetworkLost, Alive, Settle
<1>3. OneGenerationHeard' /\ TimerOnlyInBackoff' /\ CloseIsFinal'
  BY DEF BackoffInv, OneGenerationHeard, TimerOnlyInBackoff, CloseIsFinal, Settle
<1> QED BY <1>1, <1>2, <1>3 DEF BackoffInv

LEMMA BackoffInvStep ==
    ASSUME BackoffInv, [Next]_vars
    PROVE  BackoffInv'
<1>1. /\ state \in [Nets -> {"none", "connecting", "open", "closed"}]
      /\ current \in Nets /\ failures \in 0 .. MaxFailures /\ abandoned \subseteq Nets
      /\ \A n \in Nets : Alive(n) => n \in listening \cup abandoned
      /\ phase \in {"connected", "connecting"} => listening = {current}
      /\ phase \notin {"connected", "connecting"} => listening = {}
      /\ timer => phase = "backoff"
  BY DEF BackoffInv, TypeOK, OneGenerationHeard, TimerOnlyInBackoff, NoNetworkLost
<1>2. ASSUME NEW n \in Nets
      PROVE  /\ Opened(n) \in [Nets -> {"none", "connecting", "open", "closed"}]
             /\ Closed(n) \in [Nets -> {"none", "connecting", "open", "closed"}]
             /\ \A m \in Nets : m # n => Opened(n)[m] = state[m] /\ Closed(n)[m] = state[m]
             /\ Opened(n)[n] = "open" /\ Closed(n)[n] = "closed"
  BY <1>1 DEF Opened, Closed
<1>3. Failing => failures' \in 0 .. MaxFailures
  BY <1>1, ReconnectAssumption DEF Failing, ReconnectAssumption
\* onInnerDeath of the current network, dead in st.
<1>4. ASSUME NEW st \in [Nets -> {"none", "connecting", "open", "closed"}],
             InnerDeath(st), st[current] = "closed",
             \A m \in Nets : m # current => st[m] = state[m],
             failures' \in 0 .. MaxFailures, abandoned' = abandoned
      PROVE  BackoffInv'
  <2>1. \A m \in Nets : st[m] \in {"connecting", "open"} => m \in abandoned'
    BY <1>1, <1>4 DEF Alive
  <2>2. CASE phase = "connected" /\ BeginBackoff(st)
    BY <1>1, <1>4, <2>1, <2>2, BackoffKeeps
  <2>3. CASE phase = "connecting" /\ FailAttempt(current, st)
    BY <1>1, <1>4, <2>1, <2>3, FailKeeps
  <2> QED BY <1>4, <2>2, <2>3 DEF InnerDeath
<1>5. ASSUME NEW n \in Nets, Opens(n) PROVE BackoffInv'
  <2>1. CASE /\ phase = "connecting" /\ n = current
             /\ Settle(n, Opened(n))
             /\ UNCHANGED <<listening, timer, failures, abandoned>>
    <3>1. listening' = {n} /\ timer' = FALSE
      BY <1>1, <2>1 DEF BackoffInv, TypeOK
    <3>2. \A m \in Nets \ {n} : Opened(n)[m] \in {"connecting", "open"} => m \in abandoned
      BY <1>1, <1>2, <2>1 DEF Alive
    <3> QED BY <1>2, <2>1, <3>1, <3>2, SettleKeeps
  <2>2. CASE /\ state' = Opened(n)
             /\ UNCHANGED <<phase, current, listening, timer, watchdog, retries,
                            generation, failures, closing, abandoned>>
    BY <1>2, <1>5, <2>2
       DEF Opens, BackoffInv, TypeOK, OneGenerationHeard, TimerOnlyInBackoff, NoNetworkLost,
           CloseIsFinal, Alive, Dead
  <2> QED BY <1>5, <2>1, <2>2 DEF Opens
<1>6. ASSUME NEW n \in Nets, DiesNotifying(n) PROVE BackoffInv'
  <2>1. n = current
    BY <1>1, <1>6 DEF DiesNotifying
  <2> QED BY <1>2, <1>3, <1>4, <1>6, <2>1 DEF DiesNotifying
<1>7. ASSUME NEW n \in Nets, DiesSilently(n) PROVE BackoffInv'
  BY <1>2, <1>3, <1>7
     DEF DiesSilently, BackoffInv, TypeOK, OneGenerationHeard, TimerOnlyInBackoff,
         NoNetworkLost, CloseIsFinal, Alive, Dead
<1>8. CASE WatchDeath
  BY <1>1, <1>4, <1>8 DEF WatchDeath, Dead
<1>9. CASE WatchOpen
  <2>1. listening' = {current} /\ timer' = FALSE
    BY <1>1, <1>9 DEF WatchOpen, BackoffInv, TypeOK
  <2>2. \A m \in Nets \ {current} : state[m] \in {"connecting", "open"} => m \in abandoned
    BY <1>1, <1>9 DEF WatchOpen, Alive
  <2> QED BY <1>1, <1>9, <2>1, <2>2, SettleKeeps DEF WatchOpen
<1>10. CASE WatchIdle
  <2>1. abandoned' \subseteq Nets
        /\ \A m \in Nets : state[m] \in {"connecting", "open"} => m \in abandoned'
    BY <1>1, <1>10 DEF WatchIdle, Alive
  <2> QED BY <1>1, <1>3, <1>10, <2>1, BackoffKeeps DEF WatchIdle
<1>11. CASE Exhausted
  BY <1>1, <1>11
     DEF Exhausted, BackoffInv, TypeOK, OneGenerationHeard, TimerOnlyInBackoff, NoNetworkLost,
         CloseIsFinal, Alive, Dead
<1>12. timer => \A m \in Nets : state[m] \in {"connecting", "open"} => m \in abandoned
  BY <1>1 DEF Alive
<1>13. CASE FactoryThrows
  BY <1>1, <1>3, <1>12, <1>13, FailKeeps DEF FactoryThrows
<1>14. ASSUME NEW n \in Nets, FactoryReturns(n) PROVE BackoffInv'
  <2>1. timer /\ phase = "backoff" /\ listening = {} /\ closing # "call"
    BY <1>1, <1>14 DEF FactoryReturns, BackoffInv, CloseIsFinal
  <2>2. CASE Connecting(n) /\ UNCHANGED abandoned
    <3>1. /\ state' \in [Nets -> {"none", "connecting", "open", "closed"}]
          /\ \A m \in Nets : state'[m] \in {"connecting", "open"} => m \in {n} \cup abandoned
      BY <1>1, <1>12, <2>1, <2>2 DEF Connecting
    <3> QED BY <1>1, <2>1, <2>2, <3>1
            DEF Connecting, BackoffInv, TypeOK, OneGenerationHeard, TimerOnlyInBackoff,
                NoNetworkLost, CloseIsFinal, Alive
  <2>3. CASE /\ Settle(n, Opened(n))
             /\ listening' = listening \cup {n}
             /\ timer' = FALSE
             /\ UNCHANGED <<failures, abandoned>>
    <3>1. \A m \in Nets \ {n} : Opened(n)[m] \in {"connecting", "open"} => m \in abandoned
      BY <1>2, <1>12, <2>1
    <3> QED BY <1>2, <2>1, <2>3, <3>1, SettleKeeps
  <2>4. CASE Failing /\ FailAttempt(n, Closed(n)) /\ UNCHANGED abandoned
    <3>1. \A m \in Nets : Closed(n)[m] \in {"connecting", "open"} => m \in abandoned'
      BY <1>2, <1>12, <2>1, <2>4
    <3> QED BY <1>1, <1>2, <1>3, <2>1, <2>4, <3>1, FailKeeps
  <2> QED BY <1>14, <2>2, <2>3, <2>4 DEF FactoryReturns
<1>15. CASE Close
  <2>1. \A m \in Nets : state'[m] \in {"connecting", "open"} => m \in abandoned
    BY <1>1, <1>2, <1>15 DEF Close, Alive
  <2> QED BY <1>1, <1>2, <1>15, <2>1
          DEF Close, BackoffInv, TypeOK, OneGenerationHeard, TimerOnlyInBackoff,
              NoNetworkLost, CloseIsFinal, Alive, Dead
<1>16. CASE UNCHANGED vars
  BY <1>16 DEF vars, BackoffInv, TypeOK, OneGenerationHeard, TimerOnlyInBackoff,
               NoNetworkLost, CloseIsFinal, Alive, Dead
<1> QED BY <1>5, <1>6, <1>7, <1>8, <1>9, <1>10, <1>11, <1>13, <1>14, <1>15, <1>16
        DEF Next

LEMMA BackoffInvHolds == Spec => []BackoffInv
BY BackoffInvInit, BackoffInvStep, PTL DEF Spec

-----------------------------------------------------------------------------
\* Messages and errors are heard from exactly the current inner network while
\* one is in use, and from none otherwise (attach() and detach()).
THEOREM HearsOneGeneration == Spec => []OneGenerationHeard
<1>1. BackoffInv => OneGenerationHeard
  BY DEF BackoffInv
<1> QED BY <1>1, BackoffInvHolds, PTL

\* The reconnect timer is set exactly in 'backoff': no attempt is scheduled
\* twice, and none is forgotten (beginBackoff, failAttempt, attemptReconnect).
THEOREM SchedulesOneAttempt == Spec => []TimerOnlyInBackoff
<1>1. BackoffInv => TimerOnlyInBackoff
  BY DEF BackoffInv
<1> QED BY <1>1, BackoffInvHolds, PTL

\* An inner network that lives is heard, unless watch() dropped it as idle.
THEOREM LosesNoNetwork == Spec => []NoNetworkLost
<1>1. BackoffInv => NoNetworkLost
  BY DEF BackoffInv
<1> QED BY <1>1, BackoffInvHolds, PTL

\* close() leaves neither timer nor watchdog nor a living inner network.
THEOREM ClosesForGood == Spec => []CloseIsFinal
<1>1. BackoffInv => CloseIsFinal
  BY DEF BackoffInv
<1> QED BY <1>1, BackoffInvHolds, PTL

\* No reconnect storm: the failed attempts are forgotten only when a candidate
\* has opened, which starts a new generation (settleReconnected).
THEOREM ResetsOnlyByOpen == Spec => ResetOnlyByOpen
<1> DEFINE Reset == retries' < retries => state'[current'] = "open"
                                          /\ generation' = generation + 1
<1>1. ASSUME BackoffInv, [Next]_vars PROVE [Reset]_vars
  <2>1. /\ retries \in Nat /\ current \in Nets
        /\ state \in [Nets -> {"none", "connecting", "open", "closed"}]
    BY <1>1 DEF BackoffInv, TypeOK
  <2>2. ASSUME NEW n, NEW st, FailAttempt(n, st) PROVE Reset
    BY <2>1, <2>2 DEF FailAttempt
  <2>3. ASSUME NEW n \in Nets, NEW st, Settle(n, st), st[n] = "open" PROVE Reset
    BY <2>3 DEF Settle
  <2>4. ASSUME NEW st, InnerDeath(st) PROVE Reset
    BY <2>1, <2>2, <2>4 DEF InnerDeath, BeginBackoff
  <2>5. ASSUME retries' = retries PROVE Reset
    BY <2>1, <2>5
  <2>6. ASSUME NEW n \in Nets PROVE Opened(n)[n] = "open"
    BY <2>1 DEF Opened
  <2>7. ASSUME NEW n \in Nets, Opens(n) PROVE Reset
    BY <2>3, <2>5, <2>6, <2>7 DEF Opens
  <2>8. ASSUME NEW n \in Nets, FactoryReturns(n) PROVE Reset
    BY <2>2, <2>3, <2>5, <2>6, <2>8 DEF FactoryReturns, Connecting
  <2>9. ASSUME NEW n \in Nets, DiesNotifying(n) \/ DiesSilently(n) PROVE Reset
    BY <2>4, <2>5, <2>9 DEF DiesNotifying, DiesSilently
  <2>10. CASE WatchDeath \/ WatchOpen \/ WatchIdle
    BY <2>1, <2>3, <2>4, <2>5, <2>10
       DEF WatchDeath, WatchOpen, WatchIdle, BeginBackoff
  <2>11. CASE Exhausted \/ FactoryThrows \/ Close
    BY <2>2, <2>5, <2>11 DEF Exhausted, FactoryThrows, Close
  <2> HIDE DEF Reset
  <2> QED BY <1>1, <2>7, <2>8, <2>9, <2>10, <2>11 DEF Next
<1>2. [][BackoffInv /\ [Next]_vars => [Reset]_vars]_vars
  BY <1>1, PTL
<1> QED BY <1>1, BackoffInvHolds, PTL DEF Spec, ResetOnlyByOpen

-----------------------------------------------------------------------------
(* WebSocketNetworks: for any number of networks, owned or borrowed, whoever *)
(* waits is told, and no copy of a sendAll() vanishes.                       *)

(* The inductive invariant: the properties hold each other up. *)

SocketsInv == WebSocketTypeOK /\ WaitsEnd /\ EveryCopyAnswered

\* What WebSocketTypeOK says of the fields that waiting is about.
WaitTyped ==
    /\ ws \in [Networks -> {"connecting", "open", "closing", "closed"}]
    /\ detached \subseteq Networks /\ mute \subseteq Borrowed
    /\ opened \in [Networks -> {"pending", "ok", "no"}]
    /\ openTimer \subseteq Owned /\ openHandlers \subseteq Owned /\ hasOpened \subseteq Owned
    /\ openCalls \in [Networks -> Nat] /\ openSubs \in [Networks -> 0..1]
    /\ handshake \in [Networks -> {"idle", "opening", "asking", "ok", "no"}]
    /\ handTimer \subseteq Borrowed /\ untimed \subseteq Networks

\* The rest is about the messages.
SendTyped ==
    /\ carried \in [Networks -> Nat] /\ reported \in [Networks -> Nat]
    /\ sendAlls \in 0..MaxSends /\ arrivals \in 0..MaxArrivals
    /\ heard \subseteq Networks \X (1..MaxArrivals)

Waits == WaitTyped /\ WaitsEnd
Sends == SendTyped /\ EveryCopyAnswered

waitVars == <<ws, detached, opened, openTimer, hasOpened, openHandlers, openCalls, openSubs,
              handshake, handTimer, mute, untimed>>
sendVars == <<carried, reported, sendAlls, heard, arrivals>>

LEMMA Partition == SocketsInv <=> Waits /\ Sends
BY DEF SocketsInv, Waits, Sends, WebSocketTypeOK, WaitTyped, SendTyped

LEMMA SocketsInvInit == WebSocketInit => SocketsInv
<1> SUFFICES ASSUME WebSocketInit PROVE SocketsInv
  OBVIOUS
<1>1. WaitTyped
  BY DEF WebSocketInit, WaitTyped, Owned, Borrowed
<1>2. WaitsEnd
  <2> SUFFICES ASSUME NEW n \in Networks
               PROVE  /\ opened[n] = "pending" =>
                             \/ n \in openTimer
                             \/ n \in Owned \cap untimed /\ ws[n] \in {"connecting", "closing"}
                             \/ n \in Borrowed /\ (ws[n] \in {"connecting"} \/ n \in mute \cup detached)
                      /\ handshake[n] = "opening" => n \in handTimer \cup untimed
                      /\ handshake[n] = "asking" =>
                             \/ n \in handTimer
                             \/ n \in untimed /\ ws[n] \in {"open", "closing"}
                      /\ n \in openHandlers => n \notin detached /\ ws[n] # "open"
                      /\ openCalls[n] + (IF n \in openHandlers THEN 1 ELSE 0) <= openSubs[n]
    BY DEF WaitsEnd
  <2>1. /\ opened[n] = "pending" => ws[n] \in {"connecting", "closed"}
        /\ n \in Owned => ws[n] # "closed"
        /\ n \in Owned \ untimed /\ ws[n] = "connecting" => n \in openTimer
        /\ ws[n] = "closed" => n \in mute
    BY DEF WebSocketInit
  <2>2. /\ handshake[n] = "idle" /\ n \notin openHandlers
        /\ openCalls[n] = 0 /\ openSubs[n] = 0
    BY DEF WebSocketInit
  <2> QED BY <2>1, <2>2 DEF Borrowed
<1>3. Sends
  BY WebSocketAssumption DEF WebSocketInit, Sends, SendTyped, EveryCopyAnswered
<1> QED BY <1>1, <1>2, <1>3, Partition DEF Waits

-----------------------------------------------------------------------------
(* Opening and closing. *)

LEMMA SocketOpensKeeps ==
    ASSUME Waits, NEW n \in Networks, SocketOpens(n) PROVE Waits'
<1>1. WaitTyped'
  BY DEF Waits, WaitTyped, SocketOpens, SettledTo
<1>2. WaitsEnd'
  BY DEF Waits, WaitTyped, WaitsEnd, SocketOpens, SettledTo, Owned, Borrowed
<1> QED BY <1>1, <1>2 DEF Waits

LEMMA SocketClosesKeeps ==
    ASSUME Waits, NEW n \in Networks, NEW withError \in BOOLEAN, SocketCloses(n, withError)
    PROVE  Waits'
<1>1. WaitTyped'
  BY DEF Waits, WaitTyped, SocketCloses, SettledTo, Borrowed
<1>2. WaitsEnd'
  BY DEF Waits, WaitTyped, WaitsEnd, SocketCloses, SettledTo, Owned, Borrowed
<1> QED BY <1>1, <1>2 DEF Waits

LEMMA CloseNetworkKeeps ==
    ASSUME Waits, NEW n \in Networks, CloseNetwork(n) PROVE Waits'
<1>1. WaitTyped'
  BY DEF Waits, WaitTyped, CloseNetwork, CloseOwned
<1>2. WaitsEnd'
  BY DEF Waits, WaitTyped, WaitsEnd, CloseNetwork, CloseOwned, Owned, Borrowed
<1> QED BY <1>1, <1>2 DEF Waits

LEMMA ConnectTimeoutKeeps ==
    ASSUME Waits, NEW n \in Networks, ConnectTimeout(n) PROVE Waits'
<1>1. WaitTyped'
  BY DEF Waits, WaitTyped, ConnectTimeout, SettledTo, CloseOwned
<1>2. WaitsEnd'
  BY DEF Waits, WaitTyped, WaitsEnd, ConnectTimeout, SettledTo, CloseOwned, Owned, Borrowed
<1> QED BY <1>1, <1>2 DEF Waits

LEMMA CloseAllKeeps ==
    ASSUME Waits, CloseAll PROVE Waits'
<1>1. WaitTyped'
  BY DEF Waits, WaitTyped, CloseAll
<1>2. WaitsEnd'
  BY DEF Waits, WaitTyped, WaitsEnd, CloseAll, Owned, Borrowed
<1> QED BY <1>1, <1>2 DEF Waits

LEMMA OnOpenKeeps ==
    ASSUME Waits, NEW n \in Networks, OnOpen(n) PROVE Waits'
<1>1. WaitTyped'
  BY DEF Waits, WaitTyped, OnOpen
<1>2. WaitsEnd'
  BY DEF Waits, WaitTyped, WaitsEnd, OnOpen, Owned, Borrowed
<1> QED BY <1>1, <1>2 DEF Waits

LEMMA HandshakeKeeps ==
    ASSUME Waits, NEW n \in Networks,
           \/ Handshake(n) \/ HandshakeTimeout(n)
           \/ \E how \in {"ok", "no"} : HandshakeAnswered(n, how)
    PROVE  Waits'
<1>1. WaitTyped'
  BY DEF Waits, WaitTyped, Handshake, HandshakeTimeout, HandshakeAnswered
<1>2. WaitsEnd'
  BY DEF Waits, WaitTyped, WaitsEnd, Handshake, HandshakeTimeout, HandshakeAnswered, Owned, Borrowed
<1> QED BY <1>1, <1>2 DEF Waits

LEMMA WaitsUnchanged == Waits /\ UNCHANGED waitVars => Waits'
BY DEF Waits, waitVars, WaitTyped, WaitsEnd

-----------------------------------------------------------------------------
(* Messages. *)

LEMMA SendAllKeeps ==
    ASSUME Sends, SendAll PROVE Sends'
<1>1. SendTyped'
  BY WebSocketAssumption DEF Sends, SendTyped, SendAll
<1>2. EveryCopyAnswered'
  BY WebSocketAssumption DEF Sends, SendTyped, EveryCopyAnswered, SendAll
<1> QED BY <1>1, <1>2 DEF Sends

LEMMA ArrivesKeeps ==
    ASSUME Sends, NEW n \in Networks, NEW text, NEW owns, NEW translates,
           Arrives(n, text, owns, translates)
    PROVE  Sends'
<1>1. /\ arrivals + 1 \in 1..MaxArrivals /\ arrivals' = arrivals + 1
      /\ UNCHANGED <<carried, reported, sendAlls>>
  BY WebSocketAssumption DEF Sends, SendTyped, Arrives
<1>2. heard' \subseteq heard \cup {<<n, arrivals + 1>>}
  BY DEF Arrives, Raw, Filtered, Translated
<1> QED BY <1>1, <1>2 DEF Sends, SendTyped, EveryCopyAnswered

LEMMA SendsUnchanged == Sends /\ UNCHANGED sendVars => Sends'
BY DEF Sends, sendVars, SendTyped, EveryCopyAnswered

-----------------------------------------------------------------------------
LEMMA SocketsInvNext == SocketsInv /\ [WebSocketNext]_wsVars => SocketsInv'
<1> SUFFICES ASSUME SocketsInv, [WebSocketNext]_wsVars PROVE SocketsInv'
  OBVIOUS
<1>0. Waits /\ Sends
  BY Partition
<1>1. Waits' /\ Sends' => SocketsInv'
  BY Partition, PTL
<1>2. CASE SendAll
  BY <1>0, <1>1, <1>2, SendAllKeeps, WaitsUnchanged DEF SendAll, waitVars
<1>3. ASSUME NEW n \in Networks, NEW text \in BOOLEAN, NEW owns \in BOOLEAN,
             NEW translates \in BOOLEAN, Arrives(n, text, owns, translates)
      PROVE  SocketsInv'
  BY <1>0, <1>1, <1>3, ArrivesKeeps, WaitsUnchanged DEF Arrives, waitVars
<1>4. CASE CloseAll
  BY <1>0, <1>1, <1>4, CloseAllKeeps, SendsUnchanged DEF CloseAll, sendVars
<1>5. ASSUME NEW n \in Networks,
             \/ SocketOpens(n) \/ CloseNetwork(n) \/ ConnectTimeout(n) \/ OnOpen(n)
             \/ Handshake(n) \/ HandshakeTimeout(n)
             \/ \E withError \in BOOLEAN : SocketCloses(n, withError)
             \/ \E how \in {"ok", "no"} : HandshakeAnswered(n, how)
      PROVE  SocketsInv'
  <2>1. Waits'
    BY <1>0, <1>5, SocketOpensKeeps, CloseNetworkKeeps, ConnectTimeoutKeeps, OnOpenKeeps,
       HandshakeKeeps, SocketClosesKeeps
  <2>2. UNCHANGED sendVars
    BY <1>5 DEF sendVars, SocketOpens, CloseNetwork, ConnectTimeout, OnOpen, Handshake,
       HandshakeTimeout, SocketCloses, HandshakeAnswered
  <2> QED BY <1>0, <1>1, <2>1, <2>2, SendsUnchanged
<1>6. CASE UNCHANGED wsVars
  BY <1>0, <1>1, <1>6, WaitsUnchanged, SendsUnchanged DEF wsVars, waitVars, sendVars
<1> QED BY <1>2, <1>3, <1>4, <1>5, <1>6 DEF WebSocketNext

\* The types of the fields hold in every behaviour (websocket.ts, multi.ts).
THEOREM WebSocketTypes == WebSocketSpec => []WebSocketTypeOK
<1>1. SocketsInv => WebSocketTypeOK
  BY DEF SocketsInv
<1> QED BY SocketsInvInit, SocketsInvNext, <1>1, PTL DEF WebSocketSpec

\* ready(), onOpen() and the handshake: each wait has a timer, unless its timeout
\* is 0; then ready() has an event to come, as the question of the handshake has,
\* and only the handshake's wait for a socket to open may have neither.  So may
\* ready() of a borrowed network, on a socket that closed without an error event or
\* after detach(), whatever opens, closes, answers or times out meanwhile
\* (websocket.ts 160-208, 341-375 and 400-560).
THEOREM WaitsAreTimed == WebSocketSpec => []WaitsEnd
<1>1. SocketsInv => WaitsEnd
  BY DEF SocketsInv
<1> QED BY SocketsInvInit, SocketsInvNext, <1>1, PTL DEF WebSocketSpec

\* For every network of a composite, the copies its socket took and the failures
\* reported are together the sendAll() calls (multi.ts 98-122).
THEOREM CopiesAreAnswered == WebSocketSpec => []EveryCopyAnswered
<1>1. SocketsInv => EveryCopyAnswered
  BY DEF SocketsInv
<1> QED BY SocketsInvInit, SocketsInvNext, <1>1, PTL DEF WebSocketSpec

-----------------------------------------------------------------------------
(* The three kinds side by side: a behaviour steps one of them.              *)

NetworksInv == BackoffInv /\ PeerInv /\ SocketsInv

LEMMA NetworksStart == NetworksInit => NetworksInv
BY BackoffInvInit, PeerInvInit, SocketsInvInit DEF NetworksInit, NetworksInv

LEMMA NetworksStep == NetworksInv /\ [NetworksNext]_networksVars => NetworksInv'
<1> SUFFICES ASSUME NetworksInv, [NetworksNext]_networksVars PROVE NetworksInv'
  OBVIOUS
<1>1. [Next]_vars /\ [PeerNext]_peerVars /\ [WebSocketNext]_wsVars
  BY DEF NetworksNext, networksVars
<1> QED BY <1>1, BackoffInvStep, PeerInvNext, SocketsInvNext DEF NetworksInv

\* The state of every network is of its type in every behaviour, for any number
\* of peers, pairs, sockets, retries and failures.
THEOREM NetworksTyped == NetworksSpec => []NetworksTypeOK
<1>1. NetworksInv => NetworksTypeOK
  BY Parts DEF NetworksInv, NetworksTypeOK, BackoffInv, SocketsInv
<1> QED BY NetworksStart, NetworksStep, <1>1, PTL DEF NetworksSpec
=============================================================================

----------------------------- MODULE PeerNetwork -----------------------------
(***************************************************************************)
(* Peer and Network (src/src/socket/socket.ts): peers in one process that  *)
(* connect as client and server over a pair of one-way networks, exchange  *)
(* requests and results, reconnect and close.                              *)
(*                                                                         *)
(* A link is the number of the clientId and the pair of networks it uses   *)
(* now.  A network delivers what it carries in any order until it is       *)
(* closed; what it carries then is lost.  How a message is cut into        *)
(* packets is the transports' business and is left out.                    *)
(***************************************************************************)
EXTENDS Naturals, FiniteSets

CONSTANTS
    Peers,
    MaxPairs,       \* bound on connect() and reconnect() calls
    MaxMids,        \* bound on the mids in use
    MaxPackets,     \* bound on the packets sent
    MaxDeaths       \* bound on the networks that die by themselves

ASSUME PeerAssumption == /\ MaxPairs \in Nat /\ MaxMids \in Nat
                         /\ MaxPackets \in Nat /\ MaxDeaths \in Nat

VARIABLES
    live,           \* peers not closed
    upstream,       \* server: the link of a peer to its server, none or one
    clients,        \* clients: the links of a peer to its clients
    assigned,       \* assignedClientId, 0 when undefined
    ends,           \* the client and server of each pair of networks made
    openNets,       \* networks not closed
    hears,          \* peers with a message listener
    waiting,        \* pending: the mids a peer waits for, each with the send that made it
    wire,           \* packets on their way
    handling,       \* packets a listener is busy with
    packets,        \* number of packets sent
    deaths,         \* number of networks that died
    twice,          \* history: clients that connected with a link in place
    forsaken        \* history: sends that lost what would have answered them

peerVars == <<live, upstream, clients, assigned, ends, openNets, hears, waiting,
              wire, handling, packets, deaths, twice, forsaken>>

Pairs == 1..MaxPairs
Link == [id : Pairs, pair : Pairs]
Network == [pair : Pairs, dir : {"up", "down"}]
Up(l) == [pair |-> l.pair, dir |-> "up"]
Down(l) == [pair |-> l.pair, dir |-> "down"]
Nobody == [client |-> "none", server |-> "none", id |-> 0]

\* attachTransport(): the receiver of a network and, for it, the sender.
Reader(n) == IF n.dir = "up" THEN ends[n.pair].server ELSE ends[n.pair].client
Writer(n) == IF n.dir = "up" THEN ends[n.pair].client ELSE ends[n.pair].server

\* resolveTarget(): the networks a peer can be told to write to.
Targets(p) == {Up(l) : l \in upstream[p]} \cup {Down(l) : l \in clients[p]}

\* findLinkTo(): the upstream link first, then the clients in the order of
\* their ids; none or one.
LinkTo(p, target) ==
    LET ups == {l \in upstream[p] : ends[l.pair].server = target}
        downs == {l \in clients[p] : ends[l.pair].client = target}
    IN  IF ups # {} THEN {Up(l) : l \in ups}
        ELSE {Down(l) : l \in {k \in downs : \A j \in downs : k.id <= j.id}}

PeerInit ==
    /\ live = Peers
    /\ upstream = [p \in Peers |-> {}]
    /\ clients = [p \in Peers |-> {}]
    /\ assigned = [p \in Peers |-> 0]
    /\ ends = [k \in Pairs |-> Nobody]
    /\ openNets = {}
    /\ hears \in SUBSET Peers
    /\ waiting = [p \in Peers |-> {}]
    /\ wire = {}
    /\ handling = {}
    /\ packets = 0
    /\ deaths = 0
    /\ twice = {}
    /\ forsaken = {}

-----------------------------------------------------------------------------
Unmade == {k \in Pairs : ends[k] = Nobody}
NextPair == CHOOSE k \in Unmade : \A j \in Unmade : k <= j

\* close() of networks: what they carry is not delivered any more.
CloseNets(nets) ==
    /\ wire' = {m \in wire : m.net \notin nets}
    /\ forsaken' = forsaken \cup {m.of : m \in {w \in wire : w.net \in nets}}

\* connect(): the server accepts under a new clientId, and both sides are
\* wired to the new pair.  An earlier link of the client is overwritten.
Connect(c, s) ==
    /\ {c, s} \subseteq live /\ c # s
    /\ Unmade # {}
    /\ LET k == NextPair
           link == [id |-> k, pair |-> k]
       IN  /\ ends' = [ends EXCEPT ![k] = [client |-> c, server |-> s, id |-> k]]
           /\ upstream' = [upstream EXCEPT ![c] = {link}]
           /\ clients' = [clients EXCEPT ![s] = @ \cup {link}]
           /\ assigned' = [assigned EXCEPT ![c] = k]
           /\ openNets' = openNets \cup {Up(link), Down(link)}
    /\ twice' = IF upstream[c] = {} THEN twice ELSE twice \cup {c}
    /\ UNCHANGED <<live, hears, waiting, wire, handling, packets, deaths, forsaken>>

\* reconnectPair(): only when both sides hold a link to each other.  The new
\* pair is created first, so that a factory that throws changes nothing; then
\* the old networks are closed and both links are rewired.
Reconnect(c, s, mine, its) ==
    /\ {c, s} \subseteq live
    /\ mine \in upstream[c] /\ ends[mine.pair].server = s
    /\ its \in clients[s] /\ ends[its.pair].client = c
    /\ Unmade # {}
    /\ LET k == NextPair
           old == {Up(mine), Down(its)}
           New(l) == [l EXCEPT !.pair = k]
       IN  /\ ends' = [ends EXCEPT ![k] = [client |-> c, server |-> s, id |-> its.id]]
           /\ openNets' = (openNets \ old) \cup {Up(New(mine)), Down(New(its))}
           /\ CloseNets(old)
           /\ upstream' = [upstream EXCEPT ![c] = {New(mine)}]
           /\ clients' = [clients EXCEPT ![s] = (@ \ {its}) \cup {New(its)}]
           /\ assigned' = [assigned EXCEPT ![c] = its.id]
    /\ UNCHANGED <<live, hears, waiting, handling, packets, deaths, twice>>

\* reconnect(): a peer names one of its clients, or means its server.
ReconnectBy(p) ==
    {[client |-> p, server |-> ends[l.pair].server, id |-> l.id] : l \in upstream[p]}
        \cup {[client |-> ends[l.pair].client, server |-> p, id |-> l.id] : l \in clients[p]}

-----------------------------------------------------------------------------
\* Packets are told apart by the number they were sent under; an answer also
\* carries, for the properties only, the number of the send it answers.
Packet == [net : Network, type : {"message", "ping", "result", "error", "pong"},
           mid : 1..MaxMids, no : 1..MaxPackets, of : 1..MaxPackets]

Entry == [mid : 1..MaxMids, no : 1..MaxPackets]

\* pending.get(mid)
Pending(p, mid) == {e \in waiting[p] : e.mid = mid}

\* publish(): over the network of the target, which may refuse the packet.
Publish(p, net, type, mid) ==
    /\ p \in live
    /\ net \in Targets(p)
    /\ packets < MaxPackets
    /\ packets' = packets + 1
    /\ wire' = wire \cup (IF net \in openNets
                         THEN {[net |-> net, type |-> type, mid |-> mid,
                                no |-> packets + 1, of |-> packets + 1]} ELSE {})

\* The entry send() makes, instead of an older one with the same mid.
Renewed(p, mid) == (waiting[p] \ Pending(p, mid)) \cup {[mid |-> mid, no |-> packets + 1]}

\* Mutant of Send: the entry of a packet that is refused is not taken back.
SendKeepingEntry(p, net, type, mid, waits) ==
    /\ Publish(p, net, type, mid)
    /\ waiting' = [waiting EXCEPT ![p] = IF waits THEN Renewed(p, mid)
                       ELSE IF net \in openNets THEN @ ELSE @ \ Pending(p, mid)]
    /\ UNCHANGED <<live, upstream, clients, assigned, ends, openNets, hears, handling,
                   deaths, twice, forsaken>>

\* send(), under a mid of the caller's or one drawn anew: the pending entry is
\* made first.  When the network of the target refuses the packet, the entry of
\* its mid is taken back; of a post(), which makes none, that of an earlier
\* send().
Send(p, net, type, mid, waits) ==
    /\ Publish(p, net, type, mid)
    /\ waiting' = [waiting EXCEPT ![p] = IF net \notin openNets THEN @ \ Pending(p, mid)
                       ELSE IF waits THEN Renewed(p, mid) ELSE @]
    /\ UNCHANGED <<live, upstream, clients, assigned, ends, openNets, hears, handling,
                   deaths, twice, forsaken>>

\* send() to a clientId without a link: its entry goes with the one it replaced.
SendNowhere(p, mid) ==
    /\ Pending(p, mid) # {}
    /\ waiting' = [waiting EXCEPT ![p] = @ \ Pending(p, mid)]
    /\ UNCHANGED <<live, upstream, clients, assigned, ends, openNets, hears, wire, handling,
                   packets, deaths, twice, forsaken>>

\* reply() to the packet m: over the link to the one who asked.  Without such a
\* link nothing is sent; when the link refuses the packet, the request of the
\* other peer, which is in the same process, is rejected.  rest: packets left
\* on the wire.
Reply(p, target, m, type, rest) ==
    LET net == LinkTo(p, target)
    IN  /\ packets < MaxPackets
        /\ packets' = packets + 1
        /\ \/ /\ net = {}
              /\ wire' = rest
              /\ forsaken' = forsaken \cup {m.of}
              /\ UNCHANGED waiting
           \/ /\ net # {} /\ net \subseteq openNets
              /\ wire' = rest \cup {[net |-> n, type |-> type, mid |-> m.mid,
                                     no |-> packets + 1, of |-> m.of] : n \in net}
              /\ UNCHANGED <<waiting, forsaken>>
           \/ /\ net # {} /\ ~(net \subseteq openNets)
              /\ wire' = rest
              /\ waiting' = [waiting EXCEPT ![target] = @ \ Pending(target, m.mid)]
              /\ UNCHANGED forsaken

\* dispatch(): a result or pong resolves the request that waits for its mid, an
\* error rejects it; a ping is answered; everything else goes to the listeners,
\* a result or error that nobody waits for too.  A closed peer refuses, and
\* there is nobody to tell.
Dispatch(m) ==
    LET p == Reader(m.net)
        rest == wire \ {m}
        settled == IF m.type \in {"result", "pong", "error"} THEN Pending(p, m.mid) ELSE {}
    IN  /\ m \in wire
        /\ \/ /\ p \in live /\ settled # {}
              /\ waiting' = [waiting EXCEPT ![p] = @ \ settled]
              /\ wire' = rest
              /\ forsaken' = forsaken \cup ({m.of} \ {e.no : e \in settled})
              /\ UNCHANGED <<handling, packets>>
           \/ /\ m.type = "ping" /\ p \in live
              /\ Reply(p, Writer(m.net), m, "pong", rest)
              /\ UNCHANGED handling
           \/ /\ m.type # "ping" /\ settled = {} /\ p \in live \cap hears
              /\ wire' = rest
              /\ handling' = handling \cup {m}
              /\ UNCHANGED <<waiting, packets, forsaken>>
           \/ /\ p \notin live \/ (m.type # "ping" /\ settled = {} /\ p \notin hears)
              /\ wire' = rest
              /\ forsaken' = forsaken \cup {m.of}
              /\ UNCHANGED <<waiting, handling, packets>>
        /\ UNCHANGED <<live, upstream, clients, assigned, ends, openNets, hears, deaths, twice>>

\* The listeners have returned, and what they returned is sent as the result;
\* or one calls context.reply() and goes on.
ListenerReplies(m, goesOn) ==
    /\ m \in handling
    /\ handling' = IF goesOn THEN handling ELSE handling \ {m}
    /\ Reply(Reader(m.net), Writer(m.net), m, "result", wire)
    /\ UNCHANGED <<live, upstream, clients, assigned, ends, openNets, hears, deaths, twice>>

\* A listener throws: the peer rejects a request of its own with that mid,
\* and the peer that asked is not told.
ListenerThrows(m) ==
    LET p == Reader(m.net)
    IN  /\ m \in handling
        /\ handling' = handling \ {m}
        /\ waiting' = [waiting EXCEPT ![p] = @ \ Pending(p, m.mid)]
        /\ forsaken' = forsaken \cup {m.of}
        /\ UNCHANGED <<live, upstream, clients, assigned, ends, openNets, hears, wire,
                       packets, deaths, twice>>

-----------------------------------------------------------------------------
\* Mutant of Attached: a server that closes forgets to detach its clients.
NobodyAttached(p) == {}

\* The clients that still hold a link to p.
Attached(p) ==
    {c \in {ends[l.pair].client : l \in clients[p]} :
        \E l \in upstream[c] : ends[l.pair].server = p}

\* close(): the link to the server goes on both sides, every link to a client
\* too, and the peer's own requests are rejected; those of the others remain.
ClosePeer(p) ==
    LET gone == {k \in Link : \E l \in upstream[p] :
                     k \in clients[ends[l.pair].server] /\ k.id = l.id}
        nets == Targets(p) \cup {Down(k) : k \in gone}
                    \cup UNION {{Up(l) : l \in upstream[c]} : c \in Attached(p)}
    IN  /\ p \in live
        /\ live' = live \ {p}
        /\ upstream' = [q \in Peers |-> IF q \in Attached(p) \cup {p} THEN {} ELSE upstream[q]]
        /\ clients' = [q \in Peers |-> IF q = p THEN {}
                           ELSE IF \E l \in upstream[p] : ends[l.pair].server = q
                                THEN clients[q] \ gone ELSE clients[q]]
        /\ assigned' = [q \in Peers |-> IF q \in Attached(p) THEN 0 ELSE assigned[q]]
        /\ openNets' = openNets \ nets
        /\ CloseNets(nets)
        /\ hears' = hears \ {p}
        /\ waiting' = [waiting EXCEPT ![p] = {}]
        /\ UNCHANGED <<ends, handling, packets, deaths, twice>>

\* A network is closed under the peers, by its factory or by the application.
NetworkDies(n) ==
    /\ n \in openNets
    /\ deaths < MaxDeaths
    /\ deaths' = deaths + 1
    /\ openNets' = openNets \ {n}
    /\ CloseNets({n})
    /\ UNCHANGED <<live, upstream, clients, assigned, ends, hears, waiting,
                   handling, packets, twice>>

PeerNext ==
    \/ \E c, s \in Peers : Connect(c, s)
    \/ \E p \in live : \E r \in ReconnectBy(p) :
           \E mine \in upstream[r.client], its \in clients[r.server] :
               its.id = r.id /\ Reconnect(r.client, r.server, mine, its)
    \/ \E p \in Peers, mid \in 1..MaxMids :
          \/ \E net \in Targets(p), type \in {"message", "ping", "result", "error"},
                waits \in BOOLEAN : Send(p, net, type, mid, waits)
          \/ SendNowhere(p, mid)
    \/ \E m \in wire : Dispatch(m)
    \/ \E m \in handling : ListenerThrows(m) \/ \E goesOn \in BOOLEAN : ListenerReplies(m, goesOn)
    \/ \E p \in Peers : ClosePeer(p)
    \/ \E n \in openNets : NetworkDies(n)

PeerSpec == PeerInit /\ [][PeerNext]_peerVars

-----------------------------------------------------------------------------
PeerTypeOK ==
    /\ live \subseteq Peers /\ hears \subseteq Peers /\ twice \subseteq Peers
    /\ upstream \in [Peers -> SUBSET Link]
    /\ clients \in [Peers -> SUBSET Link]
    /\ assigned \in [Peers -> 0..MaxPairs]
    /\ ends \in [Pairs -> {Nobody} \cup [client : Peers, server : Peers, id : Pairs]]
    /\ openNets \subseteq Network
    /\ waiting \in [Peers -> SUBSET Entry]
    /\ wire \subseteq Packet /\ handling \subseteq Packet
    /\ packets \in 0..MaxPackets /\ deaths \in 0..MaxDeaths
    /\ forsaken \subseteq 1..MaxPackets

Linked(c, s, l) == l \in upstream[c] /\ l \in clients[s]

\* Client and server hold the same link, or neither does, through connect(),
\* reconnect() from either side and close() of either side; the clientId the
\* client shows is the one the server knows it by; no network stays open that
\* belongs to no link.  A client that connected a second time without closing
\* is excepted: connect() (lines 395-456) overwrites its link and leaves the
\* old server's, and reconnectPair() (line 621) can then cross the two.
LinksMirror ==
    /\ \A c \in Peers \ twice : \A l \in upstream[c] :
           Linked(c, ends[l.pair].server, l) /\ assigned[c] = l.id
    /\ \A s \in Peers : \A l \in clients[s] :
           ends[l.pair].client \in twice \/ Linked(ends[l.pair].client, s, l)
    /\ \A n \in openNets : Writer(n) \in twice \/ Reader(n) \in twice \/ n \in Targets(Writer(n))
    /\ \A p \in Peers \ live : upstream[p] = {} /\ clients[p] = {} /\ waiting[p] = {}

\* An entry of pending is answered for: its request is on the wire or with a
\* listener, or the answer is on the wire; else it lost its answer in one of
\* the ways marked above: a network closed under a packet, nobody listening, a
\* listener that threw, a link that was gone when the answer was ready, or a
\* message sent as a result or error that settled a request of its reader's.
\* No other step of send(), dispatch(), reply() or close() leaves an entry that
\* nobody will settle (lines 507-523 and 848-964).  It is entries that are
\* accounted for: a second send() under a mid that still waits replaces the
\* entry (line 515), and the first promise then never settles.
PendingAccounted ==
    \A p \in Peers : \A e \in waiting[p] :
        \/ e.no \in forsaken
        \/ \E m \in wire \cup handling : m.of = e.no /\ m.mid = e.mid /\ Writer(m.net) = p
        \/ \E m \in wire : /\ m.of = e.no /\ m.mid = e.mid /\ Reader(m.net) = p
                           /\ m.type \in {"result", "pong"}
=============================================================================

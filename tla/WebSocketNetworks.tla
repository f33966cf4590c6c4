--------------------------- MODULE WebSocketNetworks ---------------------------
(***************************************************************************)
(* The adapters over WebSockets (src/src/socket/websocket.ts) and the      *)
(* composite of several of them (src/src/socket/multi.ts).                 *)
(*                                                                         *)
(* Every network has a socket of its own.  "owned" creates and closes it;  *)
(* "browser" borrows it and only detaches.  A client also waits for a      *)
(* connection id on the borrowed sockets before it uses them.  Sockets     *)
(* open, close with or without an error event, or never answer; the events *)
(* of one change run as one step, as an event loop runs them.              *)
(***************************************************************************)
EXTENDS Naturals

CONSTANTS
    Networks,       \* the networks of the composite
    Kind,           \* "owned" or "browser" for each
    MaxSends,       \* bound on sendAll()
    MaxArrivals     \* bound on the raw messages received

ASSUME WebSocketAssumption ==
    /\ \A n \in Networks : Kind[n] \in {"owned", "browser"}
    /\ MaxSends \in Nat /\ MaxArrivals \in Nat

VARIABLES
    ws,             \* readyState of the socket
    detached,       \* networks closed (owned) or detached (browser)
    opened,         \* the promise ready() returns
    openTimer,      \* owned: the connect timer runs
    hasOpened,      \* owned: networks that have heard the open event
    openHandlers,   \* owned: networks with an onOpen handler that waits
    openCalls,      \* history: calls of those handlers
    openSubs,       \* history: onOpen() calls
    handshake,      \* waitWebSocketConnectionId() on the socket
    handTimer,      \* its timer runs
    carried,        \* history: copies of sendAll() a socket has taken
    reported,       \* history: copies whose failure onError has told
    sendAlls,       \* number of sendAll() calls
    heard,          \* history: raw messages given to the handlers
    arrivals,       \* number of raw messages received
    mute,           \* history: sockets that closed without an error event
    untimed         \* networks whose connect or handshake timeout is 0: no timer

wsVars == <<ws, detached, opened, openTimer, hasOpened, openHandlers, openCalls, openSubs,
            handshake, handTimer, carried, reported, sendAlls, heard, arrivals, mute,
            untimed>>

Owned == {n \in Networks : Kind[n] = "owned"}
Borrowed == Networks \ Owned

\* The constructors, on a socket that is connecting, open, or (a borrowed one)
\* already closed.  The promise of a socket that is open is fulfilled.
WebSocketInit ==
    /\ ws \in [Networks -> {"connecting", "open", "closed"}]
    /\ \A n \in Owned : ws[n] # "closed"
    /\ detached = {}
    /\ opened = [n \in Networks |-> IF ws[n] = "open" THEN "ok" ELSE "pending"]
    /\ untimed \in SUBSET Networks
    /\ openTimer = {n \in Owned \ untimed : ws[n] = "connecting"}
    /\ hasOpened = {}
    /\ openHandlers = {}
    /\ openCalls = [n \in Networks |-> 0]
    /\ openSubs = [n \in Networks |-> 0]
    /\ handshake = [n \in Networks |-> "idle"]
    /\ handTimer = {}
    /\ carried = [n \in Networks |-> 0]
    /\ reported = [n \in Networks |-> 0]
    /\ sendAlls = 0
    /\ heard = {}
    /\ arrivals = 0
    /\ mute = {n \in Networks : ws[n] = "closed"}

\* readyState of the adapter, whatever its socket is.
ReadyState(n) == IF n \in detached THEN "closed" ELSE ws[n]

-----------------------------------------------------------------------------
\* A promise settles once.
SettledTo(n, how) ==
    opened' = [opened EXCEPT ![n] = IF @ = "pending" THEN how ELSE @]

\* The open event: ready() is fulfilled and its timer cleared; then every open
\* handler runs once, unless the network has been closed; the handshake sends
\* its message and waits anew.
SocketOpens(n) ==
    /\ ws[n] = "connecting"
    /\ ws' = [ws EXCEPT ![n] = "open"]
    /\ IF n \in Borrowed /\ n \in detached THEN UNCHANGED opened ELSE SettledTo(n, "ok")
    /\ openTimer' = openTimer \ {n}
    /\ hasOpened' = hasOpened \cup ({n} \cap (Owned \ detached))
    /\ openCalls' = [openCalls EXCEPT ![n] = IF n \in openHandlers THEN @ + 1 ELSE @]
    /\ openHandlers' = openHandlers \ {n}
    /\ \E next \in {"asking", "no"} :
           handshake' = [handshake EXCEPT ![n] = IF @ = "opening" THEN next ELSE @]
    /\ UNCHANGED <<detached, openSubs, handTimer, carried, reported, sendAlls, heard,
                   arrivals, mute, untimed>>

\* The close event, alone or after an error event.  An owned network rejects
\* ready() on both; a borrowed one listens for the error only.
SocketCloses(n, withError) ==
    /\ ws[n] # "closed"
    /\ ws' = [ws EXCEPT ![n] = "closed"]
    /\ IF n \in Owned \/ (withError /\ n \notin detached)
       THEN SettledTo(n, "no") ELSE UNCHANGED opened
    /\ mute' = IF n \in Borrowed /\ ~withError THEN mute \cup {n} ELSE mute
    /\ openTimer' = openTimer \ {n}
    /\ handshake' = [handshake EXCEPT ![n] = IF @ \in {"opening", "asking"} THEN "no" ELSE @]
    /\ handTimer' = handTimer \ {n}
    /\ UNCHANGED <<detached, hasOpened, openHandlers, openCalls, openSubs, carried, reported,
                   sendAlls, heard, arrivals, untimed>>

\* close() of an owned network: its handlers go first, then the socket is
\* closed, if that does not throw.  The listeners of ready() stay.
CloseOwned(n) ==
    /\ detached' = detached \cup {n}
    /\ openHandlers' = openHandlers \ {n}
    /\ \/ ws' = [ws EXCEPT ![n] = IF @ = "closed" THEN @ ELSE "closing"]
       \/ UNCHANGED ws

\* close() and detach(): a borrowed network only removes its listeners, those
\* of ready() too.
CloseNetwork(n) ==
    /\ n \notin detached
    /\ \/ n \in Owned /\ CloseOwned(n)
       \/ /\ n \in Borrowed
          /\ detached' = detached \cup {n}
          /\ UNCHANGED <<openHandlers, ws>>
    /\ UNCHANGED <<opened, openTimer, hasOpened, openCalls, openSubs, handshake, handTimer, carried,
                   reported, sendAlls, heard, arrivals, mute, untimed>>

\* Mutant of ConnectTimeout: the network is closed, and ready() is not told.
ConnectTimeoutSilent(n) ==
    /\ n \in openTimer
    /\ openTimer' = openTimer \ {n}
    /\ IF n \in detached THEN UNCHANGED <<detached, openHandlers, ws>> ELSE CloseOwned(n)
    /\ UNCHANGED <<opened, hasOpened, openCalls, openSubs, handshake, handTimer, carried, reported,
                   sendAlls, heard, arrivals, mute, untimed>>

\* The connect timer: ready() is rejected and the network closed.
ConnectTimeout(n) ==
    /\ n \in openTimer
    /\ openTimer' = openTimer \ {n}
    /\ SettledTo(n, "no")
    /\ IF n \in detached THEN UNCHANGED <<detached, openHandlers, ws>> ELSE CloseOwned(n)
    /\ UNCHANGED <<hasOpened, openCalls, openSubs, handshake, handTimer, carried, reported,
                   sendAlls, heard, arrivals, mute, untimed>>

\* onOpen(): at once when the socket is open, else once it opens.  A borrowed
\* network has none, and the decorators then answer with a no-op.
OnOpen(n) ==
    /\ n \in Owned \ detached
    /\ openSubs[n] = 0
    /\ openSubs' = [openSubs EXCEPT ![n] = 1]
    /\ IF ws[n] = "open" \/ n \in hasOpened
       THEN openCalls' = [openCalls EXCEPT ![n] = @ + 1] /\ UNCHANGED openHandlers
       ELSE openHandlers' = openHandlers \cup {n} /\ UNCHANGED openCalls
    /\ UNCHANGED <<ws, detached, opened, openTimer, hasOpened, handshake, handTimer, carried,
                   reported, sendAlls, heard, arrivals, mute, untimed>>

-----------------------------------------------------------------------------
\* waitWebSocketConnectionId(): wait until open, then ask.  A send() that
\* throws rejects at once, with the timer and the listeners left behind.  A
\* socket that has closed already never answers.
Handshake(n) ==
    /\ n \in Borrowed /\ handshake[n] = "idle"
    /\ \/ handshake' = [handshake EXCEPT ![n] = IF ws[n] = "open" THEN "asking" ELSE "opening"]
       \/ ws[n] = "open" /\ handshake' = [handshake EXCEPT ![n] = "no"]
    /\ handTimer' = handTimer \cup ({n} \ untimed)
    /\ UNCHANGED <<ws, detached, opened, openTimer, hasOpened, openHandlers, openCalls, openSubs, carried,
                   reported, sendAlls, heard, arrivals, mute, untimed>>

\* The first inbound message with a connection id resolves; the extractor may
\* throw on one instead.
HandshakeAnswered(n, how) ==
    /\ handshake[n] = "asking" /\ ws[n] = "open"
    /\ handshake' = [handshake EXCEPT ![n] = how]
    /\ handTimer' = handTimer \ {n}
    /\ UNCHANGED <<ws, detached, opened, openTimer, hasOpened, openHandlers, openCalls, openSubs, carried,
                   reported, sendAlls, heard, arrivals, mute, untimed>>

\* The timer of the wait, and that of the question.
HandshakeTimeout(n) ==
    /\ n \in handTimer
    /\ handTimer' = handTimer \ {n}
    /\ handshake' = [handshake EXCEPT ![n] = IF @ = "ok" THEN @ ELSE "no"]
    /\ UNCHANGED <<ws, detached, opened, openTimer, hasOpened, openHandlers, openCalls, openSubs, carried,
                   reported, sendAlls, heard, arrivals, mute, untimed>>

-----------------------------------------------------------------------------
\* Mutant of SendAll: the first network that throws ends the loop.
SendAllUntilThrow ==
    /\ sendAlls < MaxSends
    /\ sendAlls' = sendAlls + 1
    /\ LET failing == {n \in Networks : ReadyState(n) # "open"}
           first == CHOOSE n \in failing : TRUE
       IN  IF failing = {}
           THEN carried' = [n \in Networks |-> carried[n] + 1] /\ UNCHANGED reported
           ELSE reported' = [reported EXCEPT ![first] = @ + 1] /\ UNCHANGED carried
    /\ UNCHANGED <<ws, detached, opened, openTimer, hasOpened, openHandlers, openCalls, openSubs, handshake,
                   handTimer, heard, arrivals, mute, untimed>>

\* sendAll(): each network is tried by itself; one that throws is reported with
\* its index, and a handler that throws meanwhile is ignored.
SendAll ==
    /\ sendAlls < MaxSends
    /\ sendAlls' = sendAlls + 1
    /\ carried' = [n \in Networks |-> IF ReadyState(n) = "open" THEN carried[n] + 1 ELSE carried[n]]
    /\ reported' = [n \in Networks |-> IF ReadyState(n) = "open" THEN reported[n] ELSE reported[n] + 1]
    /\ UNCHANGED <<ws, detached, opened, openTimer, hasOpened, openHandlers, openCalls, openSubs, handshake,
                   handTimer, heard, arrivals, mute, untimed>>

\* close() of the composite: every network, whatever the others throw.
CloseAll ==
    /\ detached # Networks
    /\ detached' = Networks
    /\ openHandlers' = {}
    /\ \E throws \in SUBSET (Owned \ detached) :
          ws' = [n \in Networks |->
                       IF n \in Owned \ (detached \cup throws) /\ ws[n] # "closed"
                       THEN "closing" ELSE ws[n]]
    /\ UNCHANGED <<opened, openTimer, hasOpened, openCalls, openSubs, handshake, handTimer,
                   carried, reported, sendAlls, heard, arrivals, mute, untimed>>

\* handleMessage(): strings are handed on, unless the network is closed.
Raw(n, text) == IF n \notin detached /\ text THEN {<<n, arrivals + 1>>} ELSE {}

\* createFilteredNetwork(): the handlers see the strings of this runtime only.
Filtered(raws, owns) == IF owns THEN raws ELSE {}

\* createTranslatedNetwork(): a string on which the translator throws, or which
\* it drops, is not handed on.
Translated(raws, translates) == IF translates THEN raws ELSE {}

\* An inbound message, on its way through both decorators.
Arrives(n, text, owns, translates) ==
    /\ ws[n] = "open" /\ arrivals < MaxArrivals
    /\ arrivals' = arrivals + 1
    /\ heard' = heard \cup Translated(Filtered(Raw(n, text), owns), translates)
    /\ UNCHANGED <<ws, detached, opened, openTimer, hasOpened, openHandlers, openCalls, openSubs, handshake,
                   handTimer, carried, reported, sendAlls, mute, untimed>>

WebSocketNext ==
    \/ \E n \in Networks :
          \/ SocketOpens(n) \/ CloseNetwork(n) \/ ConnectTimeout(n) \/ OnOpen(n)
          \/ Handshake(n) \/ HandshakeTimeout(n)
          \/ \E withError \in BOOLEAN : SocketCloses(n, withError)
          \/ \E how \in {"ok", "no"} : HandshakeAnswered(n, how)
          \/ \E text, owns, translates \in BOOLEAN : Arrives(n, text, owns, translates)
    \/ SendAll \/ CloseAll

WebSocketSpec == WebSocketInit /\ [][WebSocketNext]_wsVars

-----------------------------------------------------------------------------
WebSocketTypeOK ==
    /\ ws \in [Networks -> {"connecting", "open", "closing", "closed"}]
    /\ detached \subseteq Networks /\ mute \subseteq Borrowed
    /\ opened \in [Networks -> {"pending", "ok", "no"}]
    /\ openTimer \subseteq Owned /\ openHandlers \subseteq Owned /\ hasOpened \subseteq Owned
    /\ openCalls \in [Networks -> Nat] /\ openSubs \in [Networks -> 0..1]
    /\ handshake \in [Networks -> {"idle", "opening", "asking", "ok", "no"}]
    /\ handTimer \subseteq Borrowed /\ untimed \in SUBSET Networks
    /\ carried \in [Networks -> Nat] /\ reported \in [Networks -> Nat]
    /\ sendAlls \in 0..MaxSends /\ arrivals \in 0..MaxArrivals
    /\ heard \subseteq Networks \X (1..MaxArrivals)

\* Whoever waits for a network to open is told: ready() of an owned network
\* has a timer as long as it is pending, a handshake has one in both of its
\* waits, and an onOpen handler waits only for a socket that has not opened
\* and is called at most once, never after close().  A timeout of 0 sets no
\* timer (lines 117, 426 and 538): then ready() waits for a socket that has yet
\* to open or close, and a handshake for one that is open or, in its first
\* wait, for any.  ready() of a borrowed network has no timer and no close
\* listener (lines 192-208): it may wait for ever on a socket that closed
\* without an error event, and after detach().
WaitsEnd ==
    \A n \in Networks :
        /\ opened[n] = "pending" =>
               \/ n \in openTimer
               \/ n \in Owned \cap untimed /\ ws[n] \in {"connecting", "closing"}
               \/ n \in Borrowed /\ (ws[n] \in {"connecting"} \/ n \in mute \cup detached)
        /\ handshake[n] = "opening" => n \in handTimer \cup untimed
        /\ handshake[n] = "asking" =>
               \/ n \in handTimer
               \/ n \in untimed /\ ws[n] \in {"open", "closing"}
        /\ n \in openHandlers => n \notin detached /\ ws[n] # "open"
        /\ openCalls[n] + (IF n \in openHandlers THEN 1 ELSE 0) <= openSubs[n]

\* A copy of a sendAll() is on its socket or reported with its index, whatever
\* became of the other copies, also after close() (multi.ts 69-72, 98-122).
EveryCopyAnswered ==
    \A n \in Networks : carried[n] + reported[n] = sendAlls
=============================================================================

----------------------------- MODULE SocketClient -----------------------------
(***************************************************************************)
(* SocketClient (src/src/sync/client.ts): requests over a shared socket,   *)
(* each told apart by its mid, settled by a result or an error of that     *)
(* mid, by its timer, by a failing send() or by close().                   *)
(*                                                                         *)
(* Several clients share one socket: every envelope the server sends is    *)
(* read by all of them.  Envelopes are delayed and reordered; the server   *)
(* may answer a request twice or never.                                    *)
(***************************************************************************)
EXTENDS Naturals, FiniteSets

CONSTANTS
    Clients,        \* the clients on the socket
    Prefix,         \* the mid prefix of each client
    MaxRequests,    \* bound on the mids a client draws
    MaxPending,     \* options.maxPending
    MaxAnswers,     \* bound on the envelopes the server sends
    ErrorListenerMayThrow   \* TRUE: an onError() listener may throw

ASSUME SocketClientAssumption ==
    /\ MaxRequests \in Nat /\ MaxPending \in Nat /\ MaxAnswers \in Nat
    /\ ErrorListenerMayThrow \in BOOLEAN
    \* createSocketClientIdentityProvider draws a random prefix per instance
    /\ \A c, d \in Clients : Prefix[c] = Prefix[d] => c = d

VARIABLES
    openClients,    \* clients not closed
    midNo,          \* the identity provider's counter
    pending,        \* mids awaiting a response, per client
    armed,          \* mids whose timer is set, per client
    outcome,        \* history: what became of the promise of each mid drawn
    toServer,       \* requests the server has not answered
    toClients,      \* [type, mid, data] on their way to the clients
    answers         \* history: number of envelopes the server has sent

clientVars == <<openClients, midNo, pending, armed, outcome, toServer, toClients,
                answers>>

\* Mutant of Mid: every copy of the library counts from sync-1.
MidUnprefixed(c, n) == <<"sync", n>>

\* The mid a client draws as its n-th.
Mid(c, n) == <<Prefix[c], n>>
Mids == {Mid(c, n) : c \in Clients, n \in 1..MaxRequests}

\* A result or error of an answer names the client and request it answers.
Asker == Clients \X (1..MaxRequests)
Envelopes == [type : {"result", "error"}, mid : Mids, data : Asker]

\* "none": the promise is not settled, and its entry is there; "lost": it never
\* will be, an error listener threw before the timeout could reject; "post":
\* nobody waits.  data: what it was settled with, the empty set when there is
\* no answer.
Outcomes == [how : {"none", "post", "sendFailed", "timeout", "lost", "closed",
                    "result", "error"},
             data : SUBSET Asker]
Without(how) == [how |-> how, data |-> {}]

ClientInit ==
    /\ openClients = Clients
    /\ midNo = [c \in Clients |-> 0]
    /\ pending = [c \in Clients |-> {}]
    /\ armed = [c \in Clients |-> {}]
    /\ outcome = [c \in Clients |-> [n \in 1..MaxRequests |-> Without("none")]]
    /\ toServer = {}
    /\ toClients = {}
    /\ answers = 0

\* The mid is drawn and the promise is what the guard and send() make of it.
Draw(c, settled) ==
    /\ midNo' = [midNo EXCEPT ![c] = @ + 1]
    /\ outcome' = [outcome EXCEPT ![c][midNo[c] + 1] = settled]

\* request(): refused when closed or full, else a timer (if timeoutMs > 0), a
\* pending entry, and send(), whose failure takes both back.
Request(c, timed) ==
    /\ c \in openClients
    /\ Cardinality(pending[c]) < MaxPending
    /\ midNo[c] < MaxRequests
    /\ LET mid == Mid(c, midNo[c] + 1)
       IN  \/ /\ Draw(c, Without("none"))
              /\ pending' = [pending EXCEPT ![c] = @ \cup {mid}]
              /\ armed' = IF timed THEN [armed EXCEPT ![c] = @ \cup {mid}] ELSE armed
              /\ toServer' = toServer \cup {[mid |-> mid, data |-> <<c, midNo[c] + 1>>]}
           \/ /\ Draw(c, Without("sendFailed"))
              /\ UNCHANGED <<pending, armed, toServer>>
    /\ UNCHANGED <<openClients, toClients, answers>>

\* post(): a mid of its own, and nobody waiting for what it is answered.
Post(c) ==
    /\ c \in openClients
    /\ midNo[c] < MaxRequests
    /\ Draw(c, Without("post"))
    /\ toServer' = toServer \cup
           {[mid |-> Mid(c, midNo[c] + 1), data |-> <<c, midNo[c] + 1>>]}
    /\ UNCHANGED <<openClients, pending, armed, toClients, answers>>

\* What the promises of the mids in set become; those settled before stay so.
Settle(c, set, settled) ==
    [outcome EXCEPT ![c] = [n \in 1..MaxRequests |->
        IF Mid(c, n) \in set /\ @[n].how = "none" THEN settled ELSE @[n]]]

\* The timer of a request: the entry goes, the error listeners run, and only
\* then is the promise rejected, unless a listener throws.
RequestTimeout(c, mid) ==
    /\ mid \in armed[c]
    /\ armed' = [armed EXCEPT ![c] = @ \ {mid}]
    /\ pending' = [pending EXCEPT ![c] = @ \ {mid}]
    /\ \/ outcome' = Settle(c, {mid}, Without("timeout"))
       \/ ErrorListenerMayThrow /\ outcome' = Settle(c, {mid}, Without("lost"))
    /\ UNCHANGED <<openClients, midNo, toServer, toClients, answers>>

Answered(e) == [how |-> e.type, data |-> {e.data}]

\* receive(), in every open client: the entry of the mid is settled and its
\* timer cleared; where there is none, the envelope is dropped.
ReceiveAnswer(e) ==
    LET reads == {c \in openClients : e.mid \in pending[c]}
    IN  /\ e \in toClients
        /\ toClients' = toClients \ {e}
        /\ pending' = [c \in Clients |-> IF c \in reads THEN pending[c] \ {e.mid}
                                         ELSE pending[c]]
        /\ armed' = [c \in Clients |-> IF c \in reads THEN armed[c] \ {e.mid}
                                       ELSE armed[c]]
        /\ outcome' = [c \in Clients |-> IF c \in reads
                                         THEN Settle(c, {e.mid}, Answered(e))[c] ELSE outcome[c]]
        /\ UNCHANGED <<openClients, midNo, toServer, answers>>

\* close(): the listeners are detached and every pending request is rejected.
CloseClient(c) ==
    /\ c \in openClients
    /\ openClients' = openClients \ {c}
    /\ outcome' = Settle(c, pending[c], Without("closed"))
    /\ pending' = [pending EXCEPT ![c] = {}]
    /\ armed' = [armed EXCEPT ![c] = {}]
    /\ UNCHANGED <<midNo, toServer, toClients, answers>>

\* The server answers a request, once more than it should if it likes.
ServerAnswers(r, type, again) ==
    /\ r \in toServer
    /\ answers < MaxAnswers
    /\ answers' = answers + 1
    /\ toClients' = toClients \cup {[type |-> type, mid |-> r.mid, data |-> r.data]}
    /\ toServer' = IF again THEN toServer ELSE toServer \ {r}
    /\ UNCHANGED <<openClients, midNo, pending, armed, outcome>>

ClientNext ==
    \/ \E c \in Clients, timed \in BOOLEAN : Request(c, timed)
    \/ \E c \in Clients : Post(c) \/ CloseClient(c)
    \/ \E c \in Clients : \E mid \in armed[c] : RequestTimeout(c, mid)
    \/ \E e \in toClients : ReceiveAnswer(e)
    \/ \E r \in toServer, type \in {"result", "error"}, again \in BOOLEAN :
           ServerAnswers(r, type, again)

ClientSpec == ClientInit /\ [][ClientNext]_clientVars

-----------------------------------------------------------------------------
ClientTypeOK ==
    /\ openClients \subseteq Clients
    /\ midNo \in [Clients -> 0..MaxRequests]
    /\ pending \in [Clients -> SUBSET Mids]
    /\ armed \in [Clients -> SUBSET Mids]
    /\ outcome \in [Clients -> [1..MaxRequests -> Outcomes]]
    /\ toServer \subseteq [mid : Mids, data : Asker]
    /\ toClients \subseteq Envelopes
    /\ answers \in 0..MaxAnswers

\* The promise of a request is settled, waits with the entry that will settle it
\* (and only such a one has an entry), or is lost; and none is lost but to an
\* error listener that threw in its timeout (lines 101-107), which leaves the
\* caller waiting for ever with no entry.  No answer, failed send or close()
\* does (lines 88-129 and 156-165).
NoPromiseForgotten ==
    \A c \in Clients : \A n \in 1..midNo[c] :
        /\ outcome[c][n].how = "none" <=> Mid(c, n) \in pending[c]
        /\ outcome[c][n].how = "lost" => ErrorListenerMayThrow

\* A timer runs only for a request that waits, and none after close(): a
\* settled request cannot time out (lines 98-118, 164 and 187).
TimersOnlyForPending == \A c \in Clients : armed[c] \subseteq pending[c]

\* The promise of a request is fulfilled with the answer the server gave to
\* that request, though clients share the socket and count alike: the prefix
\* of the mids is what tells them apart (lines 31-40).
OwnAnswer ==
    \A c \in Clients, n \in 1..MaxRequests :
        outcome[c][n].data \subseteq {<<c, n>>}

\* Entries, timers and answers agree (receive(), request() and close()).
RequestLedger == NoPromiseForgotten /\ TimersOnlyForPending /\ OwnAnswer
=============================================================================

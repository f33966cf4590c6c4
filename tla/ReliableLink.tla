---------------------------- MODULE ReliableLink ----------------------------
(***************************************************************************)
(* The wires of one direction of a reliable JSONTransport pair             *)
(* (src/src/socket/transport.ts): the sender writes manifest, chunk,       *)
(* complete and error packets on "up" and the receiver answers with ack    *)
(* and nack packets on "down".  The other direction of a merged instance   *)
(* is the same code with the roles exchanged.                              *)
(*                                                                         *)
(* A wire is the set of packets in flight: it reorders freely, loses, may  *)
(* duplicate and may damage the payload of a chunk.  A reference's pair    *)
(* (cid, index) is one element of Chunks.                                  *)
(***************************************************************************)
EXTENDS Naturals, FiniteSets

CONSTANTS
    Tids,          \* transport ids: one per send(), never reused
    Chunks,        \* the chunks a message is split into; may be empty
    MayDuplicate,  \* TRUE: a delivered packet may be delivered again
    MayDamage      \* TRUE: the payload of a chunk may change on the way

ASSUME LinkAssumption == MayDuplicate \in BOOLEAN /\ MayDamage \in BOOLEAN

VARIABLES
    up,            \* packets in flight to the receiver
    down,          \* packets in flight to the sender
    open,          \* readyState = 'open' of the network the sender writes to
    attached       \* the receiver is subscribed to the network

linkVars == <<up, down, open, attached>>

-----------------------------------------------------------------------------
Payloads == {"intact", "damaged"}

Manifest(t) == [type |-> "manifest", tid |-> t]
Chunk(t, c, d) == [type |-> "chunk", tid |-> t, chunk |-> c, payload |-> d]
Complete(t) == [type |-> "complete", tid |-> t]
Error(t) == [type |-> "error", tid |-> t]

DataPackets(t) ==
    {Manifest(t), Complete(t)} \cup {Chunk(t, c, d) : c \in Chunks, d \in Payloads}

\* What a send() unit puts on the wire at every attempt, in whatever order it
\* then arrives: splitJSON runs once, so tid and chunk identities never change.
Burst(t) == {Manifest(t), Complete(t)} \cup {Chunk(t, c, "intact") : c \in Chunks}

Ack(t) == [type |-> "ack", tid |-> t]
Nack(t, needManifest, missing, needComplete) ==
    [type |-> "nack", tid |-> t, manifest |-> needManifest,
     missing |-> missing, complete |-> needComplete]

UpPackets == UNION {DataPackets(t) \cup {Error(t)} : t \in Tids}
DownPackets ==
    [type : {"ack"}, tid : Tids]
      \cup [type : {"nack"}, tid : Tids, manifest : BOOLEAN,
            missing : SUBSET Chunks, complete : BOOLEAN]

-----------------------------------------------------------------------------
\* What a wire may hold once m has been delivered.
Delivered(wire, m) ==
    {wire \ {m}} \cup (IF MayDuplicate THEN {wire} ELSE {})

\* network.send(): throws, and every caller swallows the error, unless the
\* network is open; packets nobody is subscribed to receive are gone.
Sent(packets) == IF open /\ attached THEN up \cup packets ELSE up

LinkInit ==
    /\ up = {}
    /\ down = {}
    /\ open = TRUE
    /\ attached = TRUE

LinkTypeOK ==
    /\ up \subseteq UpPackets
    /\ down \subseteq DownPackets
    /\ open \in BOOLEAN
    /\ attached \in BOOLEAN

-----------------------------------------------------------------------------
\* The network misbehaving.
LoseUp(m) == m \in up /\ up' = up \ {m} /\ UNCHANGED <<down, open, attached>>

LoseDown(m) == m \in down /\ down' = down \ {m} /\ UNCHANGED <<up, open, attached>>

Damage(m) ==
    /\ MayDamage
    /\ m \in up
    /\ m.type = "chunk"
    /\ up' = (up \ {m}) \cup {[m EXCEPT !.payload = "damaged"]}
    /\ UNCHANGED <<down, open, attached>>

\* The sender's network leaves 'open' (a reconnect begins) and comes back.
Disconnect == open /\ open' = FALSE /\ UNCHANGED <<up, down, attached>>
Reconnect == ~open /\ open' = TRUE /\ UNCHANGED <<up, down, attached>>
=============================================================================

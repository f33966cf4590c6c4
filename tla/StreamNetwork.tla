----------------------------- MODULE StreamNetwork -----------------------------
(***************************************************************************)
(* The stream adapter over a network (src/src/buffer/network.ts): flush    *)
(* events are numbered, compacted and sent; the receiver restores them and *)
(* hands them on in the order of their numbers.                            *)
(*                                                                         *)
(* Packets are lost, duplicated and reordered; a send may throw after its  *)
(* number has been drawn.  Text is a sequence of characters.  Every chunk  *)
(* says its length, as those of the stream buffer do (stream.ts, line      *)
(* 433); restoring would take that of one that does not for 0.  A packet   *)
(* on which onPacket throws is dropped before it is filed, as if it had    *)
(* not come.                                                               *)
(***************************************************************************)
EXTENDS Naturals, Sequences

CONSTANTS
    Chars,
    FlushEvents,    \* what is given to the sender, of any chunks and lengths
    MaxEvents       \* bound on the events given to the sender

\* Every chunk has its length, right or wrong.
ChunkEvents == [data : Seq(Chars), chars : Nat]

ASSUME StreamNetworkAssumption ==
    FlushEvents \subseteq [data : Seq(Chars), chunks : Seq(ChunkEvents)] /\ MaxEvents \in Nat

VARIABLES
    awaitingReady,  \* events whose sender awaits network.ready()
    given,          \* number of events given to the sender
    seqNo,          \* the sender's next number
    onWire,         \* packets a receiver can get, any number of times
    nextSeq,        \* the receiver's next number
    held,           \* pending: packets that came too early
    delivered,      \* history: events handed on
    sentAs,         \* history: the event each number was drawn for
    interrupted     \* history: the last packet left others due, its consumer threw

streamNetVars == <<awaitingReady, given, seqNo, onWire, nextSeq, held, delivered, sentAs,
                   interrupted>>

-----------------------------------------------------------------------------
Lengths(chunks) == [i \in DOMAIN chunks |-> chunks[i].chars]

\* Where, in the text of the flush, the text of chunk j of these lengths starts.
Offset(lengths, j) ==
    LET f[i \in 0..Len(lengths)] == IF i = 0 THEN 0 ELSE f[i - 1] + lengths[i]
    IN  f[j - 1]

\* The text that belongs to chunk j.
TextOf(e, j) ==
    SubSeq(e.data, Offset(Lengths(e.chunks), j) + 1, Offset(Lengths(e.chunks), j + 1))

\* canCompactFlushEvent(): the texts of the chunks are, one after the other,
\* the text of the flush.
CanCompact(e) ==
    /\ Offset(Lengths(e.chunks), Len(e.chunks) + 1) = Len(e.data)
    /\ \A j \in DOMAIN e.chunks : TextOf(e, j) = e.chunks[j].data

\* compactStreamEvent(): the texts of the chunks are left out.
Compacted(e) ==
    IF CanCompact(e)
    THEN [event |-> [e EXCEPT !.chunks = [j \in DOMAIN @ |-> [@[j] EXCEPT !.data = <<>>]]],
          compact |-> TRUE]
    ELSE [event |-> e, compact |-> FALSE]

\* restoreStreamEvent(): they are cut out of the text of the flush.
Restored(p) ==
    IF ~p.compact THEN p.event
    ELSE [p.event EXCEPT !.chunks =
             [j \in DOMAIN @ |-> [@[j] EXCEPT !.data = TextOf(p.event, j)]]]

-----------------------------------------------------------------------------
StreamNetInit ==
    /\ awaitingReady = {} /\ onWire = {} /\ held = {}
    /\ given = 0 /\ seqNo = 0 /\ nextSeq = 0
    /\ delivered = <<>> /\ sentAs = <<>>
    /\ interrupted = FALSE

\* consumer(event): waits for the network first.
GiveEvent(e) ==
    /\ given < MaxEvents
    /\ given' = given + 1
    /\ awaitingReady' = awaitingReady \cup {[no |-> given + 1, event |-> e]}
    /\ UNCHANGED <<seqNo, onWire, nextSeq, held, delivered, sentAs, interrupted>>

\* The network is ready, for one call or another: the number is drawn, and
\* transport.send() takes the packet or throws.
SendEvent(a, throws) ==
    /\ a \in awaitingReady
    /\ awaitingReady' = awaitingReady \ {a}
    /\ seqNo' = seqNo + 1
    /\ sentAs' = Append(sentAs, a.event)
    /\ onWire' = IF throws THEN onWire
                 ELSE onWire \cup {[seq |-> seqNo, event |-> Compacted(a.event).event,
                                    compact |-> Compacted(a.event).compact]}
    /\ UNCHANGED <<given, nextSeq, held, delivered, interrupted>>

\* The packets of a map that are due from number n on, without a gap.
Due(packets, n) ==
    {p \in packets : \A k \in n..p.seq : \E q \in packets : q.seq = k}
At(packets, k) == CHOOSE p \in packets : p.seq = k

\* Mutant of AcceptPacket: packets are handed on as they come.
AcceptPacketUnordered(p, last) ==
    /\ p \in onWire
    /\ nextSeq < MaxEvents /\ last = nextSeq + 1
    /\ nextSeq' = last
    /\ delivered' = Append(delivered, Restored(p))
    /\ UNCHANGED <<awaitingReady, given, seqNo, onWire, sentAs, held, interrupted>>

\* accept() with reorder: the packet is filed under its number, and those that
\* are due are handed on.  One that has been handed on before stays filed.  If the
\* consumer throws, not in its promise but at once, the loop ends behind that
\* packet, and the others that are due wait for accept() to be called again.
AcceptPacket(p, last) ==
    LET filed == {q \in held : q.seq # p.seq} \cup {p}
        due == {q \in Due(filed, nextSeq) : q.seq >= nextSeq}
        left == {q \in due : q.seq >= last}
    IN  /\ p \in onWire
        /\ last \in IF due = {} THEN {nextSeq} ELSE {q.seq + 1 : q \in due}
        /\ held' = filed \ (due \ left)
        /\ nextSeq' = last
        /\ delivered' = delivered \o
               [i \in 1..(last - nextSeq) |-> Restored(At(due, nextSeq + i - 1))]
        /\ interrupted' = (left # {})
        /\ UNCHANGED <<awaitingReady, given, seqNo, onWire, sentAs>>

StreamNetNext ==
    \/ \E e \in FlushEvents : GiveEvent(e)
    \/ \E a \in awaitingReady, throws \in BOOLEAN : SendEvent(a, throws)
    \/ \E p \in onWire, last \in 0..MaxEvents : AcceptPacket(p, last)

StreamNetSpec == StreamNetInit /\ [][StreamNetNext]_streamNetVars

-----------------------------------------------------------------------------
StreamPackets == [seq : 0..MaxEvents, event : FlushEvents \cup {Compacted(e).event : e \in FlushEvents},
                  compact : BOOLEAN]

StreamNetTypeOK ==
    /\ awaitingReady \subseteq [no : 1..MaxEvents, event : FlushEvents]
    /\ given \in 0..MaxEvents /\ seqNo \in 0..MaxEvents /\ nextSeq \in 0..MaxEvents
    /\ onWire \subseteq StreamPackets /\ held \subseteq StreamPackets
    /\ delivered \in Seq(FlushEvents) /\ sentAs \in Seq(FlushEvents)
    /\ interrupted \in BOOLEAN

\* Whatever the network does to the packets, the events handed on are the first
\* ones sent, each once, in order, with the text every chunk had; and they stop
\* only at a number that has not arrived (lines 149-169 and 188-235), or behind
\* a packet whose consumer threw at once, and then until the next packet comes.
\* A number whose send threw never arrives: nothing after it is handed on.
EventsIntact ==
    /\ nextSeq = Len(delivered) /\ nextSeq <= seqNo
    /\ delivered = SubSeq(sentAs, 1, nextSeq)
    /\ interrupted \/ \A p \in held : p.seq # nextSeq
=============================================================================

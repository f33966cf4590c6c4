----------------------------- MODULE ReceiverAlone -----------------------------
(***************************************************************************)
(* The reliable receiver against an arbitrary network: any well-formed     *)
(* packet of any tid may arrive at any time, whatever a sender did.  What  *)
(* the receiver guarantees here it guarantees with every sender, over      *)
(* every relay that loses, duplicates, delays or reorders packets.         *)
(***************************************************************************)
EXTENDS TransportReceiver

aloneVars == <<linkVars, receiverVars>>

\* The network delivers packets one by one; the answers to the previous ones
\* have been taken.
Arrive(m) ==
    /\ up = {}
    /\ up' = {m}
    /\ down' = {}
    /\ UNCHANGED <<open, attached, receiverVars>>

AloneInit == LinkInit /\ ReceiverInit
AloneNext == ReceiverNext \/ \E m \in UpPackets : Arrive(m)
AloneSpec == AloneInit /\ [][AloneNext]_aloneVars

-----------------------------------------------------------------------------
\* Exactly-once without the exception AtMostOnce makes: while the receiver
\* remembers a tid, the listeners see its message at most once.
ExactlyOnce == \A t \in Tids : emissions[t] <= 1

\* An ack a receiver in service puts on the wire stands for a message its
\* listeners have seen.
AckMeansDelivered ==
    attached => \A t \in Tids : Ack(t) \in down => delivered[t] # {}

\* No buffer is left behind once a message has been delivered, and an armed nack
\* timer has a partial message to ask about: no path that drops the state leaves
\* the timer running, save the one a throwing listener aborts.
BuffersAccounted ==
    /\ \A t \in Tids : settled[t].outcome = "ok" => ~partial[t].exists
    /\ \A t \in nackTimers \ thrown : partial[t].exists

\* settledMaxEntries bounds the settled memory on every path that settles.
MemoryBounded == Cardinality(Remembered(settled)) <= SettledMaxEntries
=============================================================================

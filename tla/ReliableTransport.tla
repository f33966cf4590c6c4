-------------------------- MODULE ReliableTransport --------------------------
(***************************************************************************)
(* Reliable mode of JSONTransport end to end: TransportSender and          *)
(* TransportReceiver over the wires of ReliableLink, which lose, reorder,  *)
(* duplicate and damage packets, while either end may detach and the       *)
(* sender's network may close and reopen at any time.                      *)
(***************************************************************************)
EXTENDS TransportSender, TransportReceiver

vars == <<linkVars, senderVars, receiverVars>>

\* Every variable of the two ends and of the wires stays in its range: in
\* particular no more than maxAttempts bursts are ever counted.
TypeOK == SenderTypeOK /\ ReceiverTypeOK

Init == LinkInit /\ SenderInit /\ ReceiverInit

NetworkNext ==
    \/ \E m \in up : LoseUp(m) \/ Damage(m)
    \/ \E m \in down : LoseDown(m)
    \/ Disconnect
    \/ Reconnect

Next ==
    \/ SenderNext /\ UNCHANGED receiverVars
    \/ ReceiverNext /\ UNCHANGED senderVars
    \/ NetworkNext /\ UNCHANGED <<senderVars, receiverVars>>

\* setInterval keeps firing until the unit settles, and time passes; nothing is
\* assumed of the network.
Fairness ==
    \A t \in Tids :
        /\ WF_vars(ResendTick(t) /\ UNCHANGED receiverVars)
        /\ WF_vars(DeadlinePasses(t) /\ UNCHANGED receiverVars)

Spec == Init /\ [][Next]_vars

FairSpec == Spec /\ Fairness

-----------------------------------------------------------------------------
\* The success of send() is the receiver's: its promise resolves only if the
\* listeners have been handed the message.
ResolvedMeansDelivered ==
    \A t \in Tids : promise[t] = "ok" => delivered[t] # {}

\* The code implements the delivery contract: exactly once while remembered,
\* success only after delivery, every promise settled at most once, and none
\* lost but by an error listener that throws.
Contract == INSTANCE ReliableDelivery WITH
    outcome <- promise,
    seen <- {t \in Tids : delivered[t] # {}},
    remembered <- {t \in Tids : emissions[t] > 0}
ContractSpec == Contract!Spec

\* No send() hangs, even if the network never carries a packet or never opens
\* again: the promise settles, unless an error listener threw where failSend
\* was about to reject it.
EverySendSettles ==
    \A t \in Tids :
        promise[t] = "pending" ~>
            \/ promise[t] \in {"ok", "fail"}
            \/ ErrorListenerMayThrow /\ promise[t] = "lost"
=============================================================================

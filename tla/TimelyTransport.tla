--------------------------- MODULE TimelyTransport ---------------------------
(***************************************************************************)
(* ReliableTransport configured as the defaults intend: the resend         *)
(* interval (2 s) outlasts a round trip and the nack debounce (150 ms),    *)
(* the debounce outlasts the spread of a burst, and the deadline (60 s)    *)
(* and the memories' TTLs (5 min) outlast every attempt.  The network      *)
(* loses or damages at most MaxLosses packets; both ends stay attached.    *)
(* Here the two recovery mechanisms must actually recover.                 *)
(***************************************************************************)
EXTENDS ReliableTransport

CONSTANT MaxLosses   \* packets the network may lose or damage

\* The budget must leave one attempt for every loss and one to succeed; the
\* last attempt never does, because it is given up without waiting.
ASSUME TimelyAssumption ==
    MaxLosses \in Nat /\ MaxAttempts >= MaxLosses + 2

VARIABLES
    lostUp,     \* packets to the receiver lost or damaged so far
    lostDown    \* acks and nacks lost so far

timelyVars == <<vars, lostUp, lostDown>>

-----------------------------------------------------------------------------
InFlight(t) == {m \in up \cup down : m.tid = t}

\* The interval ticks after everything the last attempt caused has happened.
TimelyTick(t) ==
    /\ InFlight(t) = {} /\ t \notin nackTimers
    /\ ResendTick(t)
    /\ UNCHANGED <<receiverVars, lostUp, lostDown>>

\* The debounce runs out once no packet of the message is on its way.
TimelyNack(t) ==
    /\ \A m \in up : m.tid # t
    /\ FireNack(t)
    /\ UNCHANGED <<senderVars, lostUp, lostDown>>

\* A partial message goes stale only long after its sender has given up.
TimelyAge(t) ==
    /\ InFlight(t) = {} /\ promise[t] \in {"ok", "fail", "lost"}
    /\ PartialAges(t)
    /\ UNCHANGED <<senderVars, lostUp, lostDown>>

Transmission ==
    \/ /\ \E m \in up : \/ AbsorbDuplicate(m)
                        \/ BufferPacket(m)
                        \/ DeliverMessage(m)
                        \/ ReceiveError(m)
       /\ UNCHANGED senderVars
    \/ /\ \E m \in down : HandleAck(m) \/ HandleNack(m)
       /\ UNCHANGED receiverVars

Losing ==
    /\ lostUp + lostDown < MaxLosses
    /\ \/ /\ \E m \in up : LoseUp(m) \/ Damage(m)
          /\ lostUp' = lostUp + 1
          /\ UNCHANGED lostDown
       \/ /\ \E m \in down : LoseDown(m)
          /\ lostDown' = lostDown + 1
          /\ UNCHANGED lostUp
    /\ UNCHANGED <<senderVars, receiverVars>>

TimelyCleanup == Cleanup /\ UNCHANGED <<senderVars, lostUp, lostDown>>

TimelyInit == Init /\ lostUp = 0 /\ lostDown = 0

TimelyNext ==
    \/ \E t \in Tids :
          \/ Submit(t) /\ UNCHANGED <<receiverVars, lostUp, lostDown>>
          \/ TimelyTick(t)
          \/ TimelyNack(t)
          \/ TimelyAge(t)
    \/ Transmission /\ UNCHANGED <<lostUp, lostDown>>
    \/ Losing
    \/ TimelyCleanup

\* Packets arrive, timers fire, and a cleanup interval is configured.
TimelySpec ==
    /\ TimelyInit /\ [][TimelyNext]_timelyVars
    /\ WF_timelyVars(Transmission /\ UNCHANGED <<lostUp, lostDown>>)
    /\ WF_timelyVars(TimelyCleanup)
    /\ \A t \in Tids : /\ WF_timelyVars(TimelyTick(t))
                       /\ WF_timelyVars(TimelyNack(t))
                       /\ WF_timelyVars(TimelyAge(t))

-----------------------------------------------------------------------------
\* Recovery: blind resends and nacks together overcome every loss the budget
\* covers, so send() resolves.
Recovers == \A t \in Tids : promise[t] = "pending" ~> promise[t] = "ok"

\* A single lost or damaged packet of a burst is repaired by the nack: no
\* second attempt is made.  An ack or nack that is lost costs one.
NackRepairs ==
    \A t \in Tids : lostUp <= 1 => attempts[t] <= 1 + lostDown

\* Nothing is kept for a message that is over: the receiver's buffers empty.
BuffersDrain == \A t \in Tids : partial[t].exists ~> ~partial[t].exists
=============================================================================

--------------------------- MODULE TransportSender ---------------------------
(***************************************************************************)
(* The sending half of a reliable JSONTransport: one pendingSend unit per  *)
(* send(), its blind-resend interval, its retry budget and deadline, and   *)
(* the acks and nacks that settle or repair it                             *)
(* (src/src/socket/transport.ts, sendReliable to failSend).                *)
(*                                                                         *)
(* The promise send() returned is "pending" exactly while pendingSend      *)
(* holds the tid; settledSend is written and swept but never read, so the  *)
(* promise stands for it.  It is "lost" when the unit is gone and nothing  *)
(* will settle it any more.  deadlineMs is the fact "overdue".  Delivery is *)
(* asynchronous: no ack arrives inside network.send().  A send that throws *)
(* half-way through a burst is a burst whose tail is lost.                 *)
(***************************************************************************)
EXTENDS ReliableLink

CONSTANTS
    MaxAttempts,            \* maxAttempts, the retry budget
    ErrorListenerMayThrow   \* an error listener of the sender may throw

ASSUME SenderAssumption ==
    MaxAttempts \in Nat \ {0} /\ ErrorListenerMayThrow \in BOOLEAN

VARIABLES
    promise,     \* what the caller of send() observes
    attempts,    \* bursts put on an open network
    overdue,     \* tids whose deadline has passed
    subscribed   \* the sender hears its network: not yet detached

senderVars == <<promise, attempts, overdue, subscribed>>

SenderTypeOK ==
    /\ promise \in [Tids -> {"none", "pending", "ok", "fail", "lost"}]
    /\ attempts \in [Tids -> 0 .. MaxAttempts]
    /\ overdue \subseteq Tids
    /\ subscribed \in BOOLEAN

SenderInit ==
    /\ promise = [t \in Tids |-> "none"]
    /\ attempts = [t \in Tids |-> 0]
    /\ overdue = {}
    /\ subscribed = TRUE

-----------------------------------------------------------------------------
(* attemptSend, with its three early ends; failSend is part of two of them. *)

\* failSend: the unit and its interval are gone before the error listeners run,
\* and the reject comes after them.  Inside send() a listener that throws makes
\* send() itself throw; inside the interval the promise is left unsettled.
GivenUp(t) ==
    IF promise[t] = "pending" /\ ErrorListenerMayThrow
    THEN {"fail", "lost"} ELSE {"fail"}

\* Mutant of PastDeadline: readyState is checked before the deadline.
PastDeadlineIfOpen(t) ==
    /\ t \in overdue
    /\ open
    /\ \E end \in GivenUp(t) : promise' = [promise EXCEPT ![t] = end]
    /\ up' = Sent({Error(t)})
    /\ UNCHANGED attempts

\* The deadline is checked first, so it also ends a send on a closed network.
PastDeadline(t) ==
    /\ t \in overdue
    /\ \E end \in GivenUp(t) : promise' = [promise EXCEPT ![t] = end]
    /\ up' = Sent({Error(t)})
    /\ UNCHANGED attempts

\* A network that is not open costs no attempt.
WaitForNetwork(t) ==
    /\ t \notin overdue
    /\ ~open
    /\ promise' = [promise EXCEPT ![t] = "pending"]
    /\ UNCHANGED <<up, attempts>>

\* Mutant of SendBurst: the budget is not consulted.
SendBurstUnbudgeted(t) ==
    /\ t \notin overdue
    /\ open
    /\ attempts' = [attempts EXCEPT ![t] = @ + 1]
    /\ promise' = [promise EXCEPT ![t] = "pending"]
    /\ up' = Sent(Burst(t))

SendBurst(t) ==
    /\ t \notin overdue
    /\ open
    /\ attempts[t] + 1 < MaxAttempts
    /\ attempts' = [attempts EXCEPT ![t] = @ + 1]
    /\ promise' = [promise EXCEPT ![t] = "pending"]
    /\ up' = Sent(Burst(t))

\* The attempt that exhausts the budget is sent and given up at once: its ack
\* is not waited for.
SendLastBurst(t) ==
    /\ t \notin overdue
    /\ open
    /\ attempts[t] + 1 >= MaxAttempts
    /\ attempts' = [attempts EXCEPT ![t] = @ + 1]
    /\ \E end \in GivenUp(t) : promise' = [promise EXCEPT ![t] = end]
    /\ up' = Sent(Burst(t) \cup {Error(t)})

AttemptSend(t) ==
    \/ PastDeadline(t)
    \/ WaitForNetwork(t)
    \/ SendBurst(t)
    \/ SendLastBurst(t)

-----------------------------------------------------------------------------
\* send(): registers the unit and makes the first attempt.
Submit(t) ==
    /\ promise[t] = "none"
    /\ AttemptSend(t)
    /\ UNCHANGED <<down, open, attached, overdue, subscribed>>

\* The resend interval of a unit that is still pending.
ResendTick(t) ==
    /\ promise[t] = "pending"
    /\ AttemptSend(t)
    /\ UNCHANGED <<down, open, attached, overdue, subscribed>>

\* Mutant of HandleAck: a late ack is not ignored.
HandleAckAlways(m) ==
    /\ subscribed
    /\ m \in down /\ m.type = "ack"
    /\ promise' = [promise EXCEPT ![m.tid] = "ok"]
    /\ down' \in Delivered(down, m)
    /\ UNCHANGED <<up, open, attached, attempts, overdue, subscribed>>

\* An ack of a unit that is no longer pending is ignored.
HandleAck(m) ==
    /\ subscribed
    /\ m \in down /\ m.type = "ack"
    /\ promise' = IF promise[m.tid] = "pending"
                  THEN [promise EXCEPT ![m.tid] = "ok"] ELSE promise
    /\ down' \in Delivered(down, m)
    /\ UNCHANGED <<up, open, attached, attempts, overdue, subscribed>>

\* A nack is answered with exactly what it asks for; it costs no attempt.
Requested(m) ==
    (IF m.manifest THEN {Manifest(m.tid)} ELSE {})
      \cup {Chunk(m.tid, c, "intact") : c \in m.missing}
      \cup (IF m.complete THEN {Complete(m.tid)} ELSE {})

HandleNack(m) ==
    /\ subscribed
    /\ m \in down /\ m.type = "nack"
    /\ up' = IF promise[m.tid] = "pending" THEN Sent(Requested(m)) ELSE up
    /\ down' \in Delivered(down, m)
    /\ UNCHANGED <<open, attached, senderVars>>

\* detach(): every pending unit is rejected and the receiver is not told.
DetachSender ==
    /\ subscribed
    /\ subscribed' = FALSE
    /\ promise' = [t \in Tids |-> IF promise[t] = "pending" THEN "fail" ELSE promise[t]]
    /\ UNCHANGED <<linkVars, attempts, overdue>>

\* The wall clock passes startedAt + deadlineMs.
DeadlinePasses(t) ==
    /\ promise[t] = "pending" /\ t \notin overdue
    /\ overdue' = overdue \cup {t}
    /\ UNCHANGED <<linkVars, promise, attempts, subscribed>>

SenderNext ==
    \/ \E t \in Tids : Submit(t) \/ ResendTick(t) \/ DeadlinePasses(t)
    \/ \E m \in down : HandleAck(m) \/ HandleNack(m)
    \/ DetachSender
=============================================================================

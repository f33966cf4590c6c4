--------------------------- MODULE ReliableDelivery ---------------------------
(***************************************************************************)
(* What reliable mode promises of every send() unit, whatever the network  *)
(* does: the listeners see it at most once while the receiver remembers    *)
(* it, the promise resolves only after they have seen it, and it settles   *)
(* once and for all; an error listener that throws may lose it.            *)
(***************************************************************************)
CONSTANTS Tids, ErrorListenerMayThrow

VARIABLES
    outcome,    \* what the caller of send() observes
    seen,       \* the units listeners have been handed
    remembered  \* the delivered units the receiver still remembers

vars == <<outcome, seen, remembered>>

Init ==
    /\ outcome = [t \in Tids |-> "none"]
    /\ seen = {}
    /\ remembered = {}

Request(t) ==
    /\ outcome[t] = "none"
    /\ \E o \in {"pending", "fail"} : outcome' = [outcome EXCEPT ![t] = o]
    /\ UNCHANGED <<seen, remembered>>

\* Memory is finite: a hand-over may push other units out of it, or be
\* forgotten itself.
HandOver(t, F) ==
    /\ outcome[t] # "none"
    /\ t \notin remembered
    /\ seen' = seen \cup {t}
    /\ remembered' = (remembered \cup {t}) \ F
    /\ UNCHANGED outcome

Forget(F) ==
    /\ remembered' = remembered \ F
    /\ UNCHANGED <<outcome, seen>>

Confirm(t) ==
    /\ outcome[t] = "pending"
    /\ t \in seen
    /\ outcome' = [outcome EXCEPT ![t] = "ok"]
    /\ UNCHANGED <<seen, remembered>>

\* A deadline, an exhausted budget or detach(): any pending units are rejected.
Abandon(F) ==
    /\ \A t \in F : outcome[t] = "pending"
    /\ outcome' = [t \in Tids |-> IF t \in F THEN "fail" ELSE outcome[t]]
    /\ UNCHANGED <<seen, remembered>>

\* The listeners that are told of the failure may throw before the rejection.
Lose(t) ==
    /\ ErrorListenerMayThrow
    /\ outcome[t] = "pending"
    /\ outcome' = [outcome EXCEPT ![t] = "lost"]
    /\ UNCHANGED <<seen, remembered>>

Next ==
    \/ \E t \in Tids : Request(t) \/ Confirm(t) \/ Lose(t)
    \/ \E F \in SUBSET Tids : Forget(F) \/ Abandon(F) \/ \E t \in Tids : HandOver(t, F)

Spec == Init /\ [][Next]_vars
=============================================================================

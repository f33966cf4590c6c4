-------------------------- MODULE ReconnectingNetwork --------------------------
(***************************************************************************)
(* ReconnectingNetwork (src/src/socket/decorators.ts): a network that      *)
(* keeps its identity while the inner networks it wraps die and are        *)
(* replaced, one generation after the other.                               *)
(*                                                                         *)
(* Inner networks are numbered in the order the factory returns them.      *)
(* They open, die with or without notifying, or fall silent.  Delays are   *)
(* left out: a timer that is set may fire at any time.  The states         *)
(* 'closing' and 'closed' of an inner network are treated alike.           *)
(***************************************************************************)
EXTENDS Naturals

CONSTANTS
    MaxRetries,       \* failed attempts before the decorator closes for good
    MaxFailures,      \* bound on the deaths, silences and factory errors
    HandlersMayClose  \* TRUE: an onError handler may call close()

ASSUME ReconnectAssumption ==
    /\ MaxRetries \in Nat
    /\ MaxFailures \in Nat
    /\ HandlersMayClose \in BOOLEAN

VARIABLES
    phase,
    current,     \* the inner network last returned by the factory
    state,       \* readyState of every inner network; "none" before it exists
    listening,   \* inner networks whose messages and errors are heard
    timer,       \* reconnectTimer is set
    watchdog,    \* watchdogTimer is running
    retries,     \* retryCount
    generation,
    failures,    \* what the environment has done wrong so far
    closing,     \* history: who called close()
    abandoned    \* history: inner networks the idle timeout left alive

vars == <<phase, current, state, listening, timer, watchdog, retries, generation,
          failures, closing, abandoned>>

\* The first may be dead from the start; every other one replaces a failure.
Nets == 0 .. MaxFailures + 1

Dead(n) == state[n] = "closed"
Alive(n) == state[n] \in {"connecting", "open"}

Init ==
    /\ phase = "connected"
    /\ current = 0
    /\ \E s \in {"connecting", "open", "closed"} :
          state = [n \in Nets |-> IF n = 0 THEN s ELSE "none"]
    /\ listening = {0}
    /\ timer = FALSE
    /\ watchdog = TRUE
    /\ retries = 0
    /\ generation = 0
    /\ failures = 0
    /\ closing = "no"
    /\ abandoned = {}

-----------------------------------------------------------------------------
(* beginBackoff, failAttempt and settleReconnected, in a step that leaves  *)
(* the inner networks in the states st.                                    *)

\* Mutant of BeginBackoff: the old network stays subscribed.
BeginBackoffAttached(st) ==
    /\ phase' = "backoff"
    /\ timer' = TRUE
    /\ state' = st
    /\ UNCHANGED <<current, listening, watchdog, retries, generation, closing>>

BeginBackoff(st) ==
    /\ phase' = "backoff"
    /\ timer' = TRUE
    /\ listening' = {}
    /\ state' = st
    /\ UNCHANGED <<current, watchdog, retries, generation, closing>>

\* The error handlers run before the new phase and timer are set; what a
\* close() of theirs does to these two is lost.
FailAttempt(n, st) ==
    /\ current' = n
    /\ listening' = {}
    /\ retries' = retries + 1
    /\ \/ state' = st /\ UNCHANGED <<watchdog, closing>>
       \/ /\ HandlersMayClose /\ closing = "no"
          /\ state' = [st EXCEPT ![n] = "closed"]
          /\ watchdog' = FALSE
          /\ closing' = "handler"
    /\ phase' = "backoff"
    /\ timer' = TRUE
    /\ UNCHANGED generation

\* Mutant of Settle: success takes back one failed attempt.
SettleOne(n, st) ==
    /\ phase' = "connected"
    /\ current' = n
    /\ state' = st
    /\ generation' = generation + 1
    /\ retries' = retries - 1
    /\ UNCHANGED <<watchdog, closing>>

Settle(n, st) ==
    /\ phase' = "connected"
    /\ current' = n
    /\ state' = st
    /\ generation' = generation + 1
    /\ retries' = 0
    /\ UNCHANGED <<watchdog, closing>>

\* onInnerDeath of the current network.
InnerDeath(st) ==
    \/ phase = "connected" /\ BeginBackoff(st)
    \/ phase = "connecting" /\ FailAttempt(current, st)

Failing == failures < MaxFailures /\ failures' = failures + 1

-----------------------------------------------------------------------------
(* Inner networks. *)

Opened(n) == [state EXCEPT ![n] = "open"]
Closed(n) == [state EXCEPT ![n] = "closed"]

\* The candidate settles at once if it has onOpen, else the watchdog sees it.
Opens(n) ==
    /\ state[n] = "connecting"
    /\ \/ /\ phase = "connecting" /\ n = current
          /\ Settle(n, Opened(n))
          /\ UNCHANGED <<listening, timer, failures, abandoned>>
       \/ /\ state' = Opened(n)
          /\ UNCHANGED <<phase, current, listening, timer, watchdog, retries,
                         generation, failures, closing, abandoned>>

\* A WebSocket notifies of its close, through onError.
DiesNotifying(n) ==
    /\ Failing
    /\ Alive(n)
    /\ n \in listening
    /\ InnerDeath(Closed(n))
    /\ UNCHANGED abandoned

\* An in-memory network does not; nobody hears one that is detached.
DiesSilently(n) ==
    /\ Failing
    /\ Alive(n)
    /\ state' = Closed(n)
    /\ UNCHANGED <<phase, current, listening, timer, watchdog, retries, generation,
                   closing, abandoned>>

-----------------------------------------------------------------------------
(* The watchdog. *)

\* Mutant of WatchDeath: only a connected network is watched.
WatchDeathConnected ==
    /\ watchdog
    /\ Dead(current)
    /\ phase = "connected" /\ BeginBackoff(state)
    /\ UNCHANGED <<failures, abandoned>>

WatchDeath ==
    /\ watchdog
    /\ Dead(current)
    /\ InnerDeath(state)
    /\ UNCHANGED <<failures, abandoned>>

\* A candidate without onOpen.
WatchOpen ==
    /\ watchdog
    /\ phase = "connecting" /\ state[current] = "open"
    /\ Settle(current, state)
    /\ UNCHANGED <<listening, timer, failures, abandoned>>

\* Nothing was received for idleTimeoutMs: the network is dropped, not closed.
WatchIdle ==
    /\ watchdog
    /\ phase = "connected" /\ Alive(current)
    /\ Failing
    /\ BeginBackoff(state)
    /\ abandoned' = abandoned \cup {current}

-----------------------------------------------------------------------------
(* attemptReconnect, when the timer fires, and close(). *)

Exhausted ==
    /\ timer /\ retries >= MaxRetries
    /\ phase' = "closed"
    /\ timer' = FALSE
    /\ watchdog' = FALSE
    /\ UNCHANGED <<current, state, listening, retries, generation, failures, closing,
                   abandoned>>

FactoryThrows ==
    /\ timer /\ retries < MaxRetries
    /\ Failing
    /\ FailAttempt(current, state)
    /\ UNCHANGED abandoned

Fresh(n) == state[n] = "none" /\ \A m \in Nets : m < n => state[m] # "none"

\* Mutant of Connecting: the factory's return counts as success.
ConnectingReset(n) ==
    /\ phase' = "connecting"
    /\ current' = n
    /\ state' = [state EXCEPT ![n] = "connecting"]
    /\ listening' = listening \cup {n}
    /\ timer' = FALSE
    /\ retries' = 0
    /\ UNCHANGED <<watchdog, generation, failures, closing>>

Connecting(n) ==
    /\ phase' = "connecting"
    /\ current' = n
    /\ state' = [state EXCEPT ![n] = "connecting"]
    /\ listening' = listening \cup {n}
    /\ timer' = FALSE
    /\ UNCHANGED <<watchdog, retries, generation, failures, closing>>

\* The factory returns a network that is connecting, open or already dead.
FactoryReturns(n) ==
    /\ timer /\ retries < MaxRetries
    /\ Fresh(n)
    /\ \/ Connecting(n)
       \/ /\ Settle(n, Opened(n))
          /\ listening' = listening \cup {n}
          /\ timer' = FALSE
          /\ UNCHANGED failures
       \/ Failing /\ FailAttempt(n, Closed(n))
    /\ UNCHANGED abandoned

\* Mutant of Close: the inner network is not closed.
CloseWrapper ==
    /\ phase # "closed"
    /\ phase' = "closed"
    /\ timer' = FALSE
    /\ watchdog' = FALSE
    /\ listening' = {}
    /\ closing' = "call"
    /\ UNCHANGED <<current, state, retries, generation, failures, abandoned>>

\* Mutant of Close: the reconnect timer goes on.
CloseKeepingTimer ==
    /\ phase # "closed"
    /\ phase' = "closed"
    /\ watchdog' = FALSE
    /\ listening' = {}
    /\ state' = Closed(current)
    /\ closing' = "call"
    /\ UNCHANGED <<current, timer, retries, generation, failures, abandoned>>

\* close() by anyone, also by the handlers that run last in their step.
Close ==
    /\ phase # "closed"
    /\ phase' = "closed"
    /\ timer' = FALSE
    /\ watchdog' = FALSE
    /\ listening' = {}
    /\ state' = Closed(current)
    /\ closing' = "call"
    /\ UNCHANGED <<current, retries, generation, failures, abandoned>>

Next ==
    \/ \E n \in Nets : \/ Opens(n)
                       \/ DiesNotifying(n)
                       \/ DiesSilently(n)
                       \/ FactoryReturns(n)
    \/ WatchDeath
    \/ WatchOpen
    \/ WatchIdle
    \/ Exhausted
    \/ FactoryThrows
    \/ Close

\* Timers fire, the watchdog watches, and an inner network does not stay in
\* 'connecting' for ever: it opens or its own connect timeout closes it.
Fairness ==
    /\ WF_vars(WatchDeath \/ WatchOpen)
    /\ WF_vars(Exhausted \/ FactoryThrows \/ \E n \in Nets : FactoryReturns(n))
    /\ \A n \in Nets : WF_vars(Opens(n) \/ DiesNotifying(n) \/ DiesSilently(n))

Spec == Init /\ [][Next]_vars

FairSpec == Spec /\ Fairness

-----------------------------------------------------------------------------
\* Types of the fields (decorators.ts, ReconnectingNetwork) and the history.
TypeOK ==
    /\ phase \in {"connected", "connecting", "backoff", "closed"}
    /\ current \in Nets
    /\ state \in [Nets -> {"none", "connecting", "open", "closed"}]
    /\ listening \subseteq Nets
    /\ timer \in BOOLEAN
    /\ watchdog \in BOOLEAN
    /\ retries \in Nat
    /\ generation \in Nat
    /\ failures \in 0 .. MaxFailures
    /\ closing \in {"no", "call", "handler"}
    /\ abandoned \subseteq Nets

\* Exactly the current generation is heard, and none while waiting or closed:
\* attach() relies on a detach() on every path that led to it.
OneGenerationHeard ==
    listening = IF phase \in {"connected", "connecting"} THEN {current} ELSE {}

\* One reconnect attempt is scheduled exactly while waiting for it.
TimerOnlyInBackoff == timer <=> phase = "backoff"

\* No inner network stays alive unheard, save those the idle timeout dropped:
\* send() would still write to it, and nobody would close it.
NoNetworkLost == \A n \in Nets : Alive(n) => n \in listening \cup abandoned

\* After close() nothing is left that could reconnect.
CloseIsFinal ==
    closing = "call" => phase = "closed" /\ ~timer /\ ~watchdog /\ Dead(current)

\* close() is final whoever calls it, also an error handler.
CloseAlwaysFinal == closing # "no" => phase = "closed"

\* The retry budget and the backoff are reset only by a candidate that opened.
ResetOnlyByOpen ==
    [][retries' < retries => state'[current'] = "open" /\ generation' = generation + 1]_vars

\* Whatever dies, and however it dies, the network ends up connected again,
\* closed by its owner or closed for want of retries.
Recovers ==
    <>[] \/ phase = "connected" /\ state[current] = "open"
         \/ phase = "closed" /\ (closing = "call" \/ retries >= MaxRetries)
         \/ closing = "handler"
=============================================================================

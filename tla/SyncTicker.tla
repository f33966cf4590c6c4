------------------------------ MODULE SyncTicker ------------------------------
(***************************************************************************)
(* SyncTicker (src/src/sync/ticker.ts): a chain of timeouts, the next one  *)
(* set only when the tick of the last has settled, later after a failure.  *)
(* start() and stop() may come while a tick is in flight; the epoch tells  *)
(* its chain from the one that start() began since.                        *)
(* One tick is atomic up to its promise: what it does is the composing     *)
(* module's.                                                               *)
(***************************************************************************)
EXTENDS Naturals, FiniteSets

CONSTANTS
    Interval, Factor, MaxDelay,     \* SyncTickerOptions
    MaxEpoch                        \* bound on start() and stop() calls

ASSUME TickerAssumption ==
    /\ Interval \in Nat /\ Factor \in Nat /\ MaxDelay \in Nat /\ MaxEpoch \in Nat

VARIABLES
    running,
    epoch,
    timers,     \* epochs of the timeouts that are set
    field,      \* the epoch of the timeout this.timer refers to, 0 for none
    ticking,    \* epochs of the ticks whose promise is awaited
    delay

tickerVars == <<running, epoch, timers, field, ticking, delay>>

TickerInit ==
    /\ running = FALSE
    /\ epoch = 0
    /\ timers = {}
    /\ field = 0
    /\ ticking = {}
    /\ delay = Interval

\* start(): nothing when it runs already, else a new epoch and its first timeout.
Start ==
    /\ epoch < MaxEpoch
    /\ ~running
    /\ running' = TRUE
    /\ epoch' = epoch + 1
    /\ delay' = Interval
    /\ timers' = timers \cup {epoch + 1}
    /\ field' = epoch + 1
    /\ UNCHANGED ticking

\* stop(): the chain ends, also the one whose tick is in flight.
Stop ==
    /\ epoch < MaxEpoch
    /\ running' = FALSE
    /\ epoch' = epoch + 1
    /\ timers' = timers \ {field}
    /\ field' = 0
    /\ UNCHANGED <<ticking, delay>>

\* run(): the timeout of epoch e calls tick() and awaits it.
Fire(e) ==
    /\ e \in timers
    /\ timers' = timers \ {e}
    /\ ticking' = ticking \cup {e}
    /\ UNCHANGED <<running, epoch, field, delay>>

\* The two continuations of run(): how long the next timeout waits.
NextDelay(ok) ==
    IF ok THEN Interval
    ELSE IF delay * Factor <= MaxDelay THEN delay * Factor ELSE MaxDelay

\* Mutant of TicksSettle: neither run() nor schedule() compares epochs.
TicksSettleAnyEpoch(set, ok) ==
    /\ ticking' = ticking \ set
    /\ timers' = IF running THEN timers \cup (set \cap ticking) ELSE timers
    /\ IF set \cap ticking # {} /\ running
       THEN /\ delay' = NextDelay(ok)
            /\ field' \in set \cap ticking
       ELSE UNCHANGED <<delay, field>>
    /\ UNCHANGED <<running, epoch>>

\* Mutant of TicksSettle: the rejection has no continuation.
TicksSettleIfFulfilled(set, ok) ==
    /\ ticking' = ticking \ set
    /\ IF ok /\ epoch \in set /\ epoch \in ticking
       THEN /\ delay' = NextDelay(ok)
            /\ timers' = IF running THEN timers \cup {epoch} ELSE timers
            /\ field' = IF running THEN epoch ELSE field
       ELSE UNCHANGED <<delay, timers, field>>
    /\ UNCHANGED <<running, epoch>>

\* The promises of the ticks in set settle.  Those of an old epoch end there;
\* the current one schedules its chain's next timeout.
TicksSettle(set, ok) ==
    /\ ticking' = ticking \ set
    /\ IF epoch \in set /\ epoch \in ticking
       THEN /\ delay' = NextDelay(ok)
            /\ timers' = IF running THEN timers \cup {epoch} ELSE timers
            /\ field' = IF running THEN epoch ELSE field
       ELSE UNCHANGED <<delay, timers, field>>
    /\ UNCHANGED <<running, epoch>>

-----------------------------------------------------------------------------
TickerTypeOK ==
    /\ running \in BOOLEAN
    /\ epoch \in 0..MaxEpoch
    /\ timers \subseteq 1..MaxEpoch
    /\ field \in 0..MaxEpoch
    /\ ticking \subseteq 1..MaxEpoch
    /\ delay \in Nat

\* While the ticker runs exactly one chain lives: its timeout is set or its
\* tick is in flight, never both and never neither, whatever stop() and start()
\* did while older ticks were in flight; when it is stopped nothing is left
\* that would fire, because this.timer always names the one timeout there is
\* (start(), stop(), schedule() and run(), lines 46-79).
OneChain ==
    /\ timers \subseteq {epoch} \cap {field}
    /\ running => (epoch \in timers <=> epoch \notin ticking)
    /\ ~running => timers = {} /\ epoch \notin ticking
=============================================================================

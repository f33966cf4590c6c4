-------------------------- MODULE TransportReceiver --------------------------
(***************************************************************************)
(* The receiving half of a reliable JSONTransport: reassembly of partial   *)
(* messages, the debounced nack, the memory of settled transport ids and   *)
(* its cleanup (src/src/socket/transport.ts, acceptPacket and below).      *)
(*                                                                         *)
(* Wall-clock time appears only as the facts the code computes from it: a  *)
(* partial message is "stale" once it is older than partialTtlMs, a        *)
(* settled entry "lapsed" once its expiresAt has passed.  The insertion    *)
(* order of the settled map is abstracted: an eviction picks any entry of  *)
(* the tier the code's order could reach.                                  *)
(***************************************************************************)
EXTENDS ReliableLink

CONSTANTS
    SettledMaxEntries,   \* cap on the settled map
    ListenerMayThrow,    \* TRUE: an onMessage listener may throw
    LateDelivery         \* TRUE: packets in flight at detach() still reach
                         \* receive(), as the in-memory Network does

ASSUME ReceiverAssumption ==
    /\ SettledMaxEntries \in Nat
    /\ ListenerMayThrow \in BOOLEAN
    /\ LateDelivery \in BOOLEAN

VARIABLES
    partial,     \* states: the incomplete message of each tid
    settled,     \* settledReceived: the outcome remembered for each tid
    nackTimers,  \* tids whose nack timer is armed
    delivered,   \* history: the contents handed to listeners, per tid
    emissions,   \* history: hand-overs since the tid was last forgotten
    thrown       \* history: tids a listener threw on

receiverVars == <<partial, settled, nackTimers, delivered, emissions, thrown>>

-----------------------------------------------------------------------------
NoState ==
    [exists |-> FALSE, manifest |-> FALSE, complete |-> FALSE, chunks |-> {},
     stale |-> FALSE]
FreshState == [NoState EXCEPT !.exists = TRUE]
PartialStates ==
    [exists : BOOLEAN, manifest : BOOLEAN, complete : BOOLEAN,
     chunks : SUBSET (Chunks \X Payloads), stale : BOOLEAN]

Outcomes == {"none", "ok", "fail"}
NotSettled == [outcome |-> "none", lapsed |-> FALSE]
Settled(outcome) == [outcome |-> outcome, lapsed |-> FALSE]
SettledEntries == [outcome : Outcomes, lapsed : BOOLEAN]

ReceiverTypeOK ==
    /\ LinkTypeOK
    /\ partial \in [Tids -> PartialStates]
    /\ settled \in [Tids -> SettledEntries]
    /\ nackTimers \subseteq Tids
    /\ delivered \in [Tids -> SUBSET SUBSET (Chunks \X Payloads)]
    /\ emissions \in [Tids -> 0 .. 2]
    /\ thrown \subseteq Tids

ReceiverInit ==
    /\ partial = [t \in Tids |-> NoState]
    /\ settled = [t \in Tids |-> NotSettled]
    /\ nackTimers = {}
    /\ delivered = [t \in Tids |-> {}]
    /\ emissions = [t \in Tids |-> 0]
    /\ thrown = {}

-----------------------------------------------------------------------------
(* The settled memory. *)

Remembered(memory) == {t \in Tids : memory[t].outcome # "none"}
Failed(memory) == {t \in Tids : memory[t].outcome = "fail"}
ValidOk(memory) == {t \in Tids : memory[t].outcome = "ok" /\ ~memory[t].lapsed}

Excess(memory) ==
    LET n == Cardinality(Remembered(memory))
    IN  IF n > SettledMaxEntries THEN n - SettledMaxEntries ELSE 0

\* sweepSettledMapSize drops exactly the excess, and a still-valid 'ok' only
\* when no 'fail' entry is left.
Evictions(memory) ==
    {E \in SUBSET Remembered(memory) :
        /\ Cardinality(E) = Excess(memory)
        /\ E \cap ValidOk(memory) # {} => Failed(memory) \subseteq E}

Without(memory, E) == [t \in Tids |-> IF t \in E THEN NotSettled ELSE memory[t]]

\* The history counter restarts when a tid is forgotten.
Forgetting(count, F) == [t \in Tids |-> IF t \in F THEN 0 ELSE count[t]]

(* cleanup(): sweep the lapsed entries, then expire the stale partials. *)

Swept == {t \in Tids : settled[t].lapsed}
Expired == {t \in Tids : partial[t].stale}

CleanMemory ==
    [t \in Tids |-> IF t \in Expired THEN Settled("fail")
                    ELSE IF t \in Swept THEN NotSettled ELSE settled[t]]
CleanPartial == [t \in Tids |-> IF t \in Expired THEN NoState ELSE partial[t]]

\* Mutant of Cleanup: sweeps the memory and leaves the partial messages.
CleanupSweepsOnly ==
    /\ settled' = [t \in Tids |-> IF t \in Swept THEN NotSettled ELSE settled[t]]
    /\ emissions' = Forgetting(emissions, Swept)
    /\ UNCHANGED <<linkVars, partial, nackTimers, delivered, thrown>>

Cleanup ==
    \E E \in Evictions(CleanMemory) :
        /\ settled' = Without(CleanMemory, E)
        /\ partial' = CleanPartial
        /\ nackTimers' = nackTimers \ Expired
        /\ emissions' = Forgetting(emissions, Swept \cup E)
        /\ UNCHANGED <<linkVars, delivered, thrown>>

-----------------------------------------------------------------------------
(* Receiving. *)

\* unsubscribeNetworkMessage() stops deliveries, except that the in-memory
\* Network captured its listeners when the packet was sent.
Listening == attached \/ LateDelivery

\* Mutant of AddChunk: the hash is not compared.
AddChunkUnhashed(state, m) ==
    IF \A d \in Payloads : <<m.chunk, d>> \notin state.chunks
    THEN [state EXCEPT !.chunks = @ \cup {<<m.chunk, m.payload>>}]
    ELSE state

\* acceptChunk: a chunk whose hash does not match is as good as lost, and one
\* already buffered is ignored.
AddChunk(state, m) ==
    IF m.payload = "intact" /\ \A d \in Payloads : <<m.chunk, d>> \notin state.chunks
    THEN [state EXCEPT !.chunks = @ \cup {<<m.chunk, m.payload>>}]
    ELSE state

Accept(state, m) ==
    CASE m.type = "manifest" -> [state EXCEPT !.manifest = TRUE]
      [] m.type = "complete" -> [state EXCEPT !.complete = TRUE]
      [] m.type = "chunk"    -> AddChunk(state, m)

\* assembleJSON returns the message only when nothing is missing.
Assembled(state) ==
    /\ state.manifest
    /\ state.complete
    /\ \A c \in Chunks : \E d \in Payloads : <<c, d>> \in state.chunks

\* getState: the cleaned-up state of the tid, created when there is none, with
\* updatedAt set to now.
GetState(t) ==
    IF CleanPartial[t].exists THEN CleanPartial[t] ELSE FreshState

\* Mutant of AbsorbDuplicate: every settled tid is acked, failed ones too.
AbsorbAckingAll(m) ==
    /\ Listening
    /\ m \in up /\ m.type # "error"
    /\ settled[m.tid].outcome # "none"
    /\ up' \in Delivered(up, m)
    /\ down' = down \cup {Ack(m.tid)}
    /\ UNCHANGED <<open, attached, receiverVars>>

\* Mutant of AbsorbDuplicate: a lost ack is not repeated.
AbsorbSilently(m) ==
    /\ Listening
    /\ m \in up /\ m.type # "error"
    /\ settled[m.tid].outcome # "none"
    /\ up' \in Delivered(up, m)
    /\ UNCHANGED <<down, open, attached, receiverVars>>

\* A packet of a settled tid never reaches the buffers: it is acked again
\* after 'ok' and ignored after 'fail'.
AbsorbDuplicate(m) ==
    /\ Listening
    /\ m \in up /\ m.type # "error"
    /\ settled[m.tid].outcome # "none"
    /\ up' \in Delivered(up, m)
    /\ down' = IF settled[m.tid].outcome = "ok" THEN down \cup {Ack(m.tid)} ELSE down
    /\ UNCHANGED <<open, attached, receiverVars>>

\* A data packet that leaves its message incomplete: buffered, nack debounced.
BufferPacket(m) ==
    /\ Listening
    /\ m \in up /\ m.type # "error"
    /\ settled[m.tid].outcome = "none"
    /\ LET state == Accept(GetState(m.tid), m)
       IN  /\ ~Assembled(state)
           /\ partial' = [CleanPartial EXCEPT ![m.tid] = state]
    /\ nackTimers' = (nackTimers \ Expired) \cup {m.tid}
    /\ \E E \in Evictions(CleanMemory) :
          /\ settled' = Without(CleanMemory, E)
          /\ emissions' = Forgetting(emissions, Swept \cup E)
    /\ up' \in Delivered(up, m)
    /\ UNCHANGED <<down, open, attached, delivered, thrown>>

\* The packet that completes a message: the state is dropped and the listeners
\* run (there are none after detach()).
Emit(m) ==
    /\ Listening
    /\ m \in up /\ m.type # "error"
    /\ settled[m.tid].outcome = "none"
    /\ LET state == Accept(GetState(m.tid), m)
       IN  /\ Assembled(state)
           /\ delivered' = [delivered EXCEPT ![m.tid] =
                                IF attached THEN @ \cup {state.chunks} ELSE @]
    /\ partial' = [CleanPartial EXCEPT ![m.tid] = NoState]
    /\ up' \in Delivered(up, m)
    /\ UNCHANGED <<open, attached>>

Counted(t) ==
    IF attached /\ emissions[t] < 2
    THEN [emissions EXCEPT ![t] = @ + 1] ELSE emissions

\* Mutant of DeliverMessage: acks without remembering the tid.
DeliverUnsettled(m) ==
    /\ Emit(m)
    /\ nackTimers' = nackTimers \ (Expired \cup {m.tid})
    /\ \E E \in Evictions(CleanMemory) :
          /\ settled' = Without(CleanMemory, E)
          /\ emissions' = Forgetting(Counted(m.tid), Swept \cup E)
    /\ down' = down \cup {Ack(m.tid)}
    /\ UNCHANGED thrown

\* Every listener returned: settle, then ack.
DeliverMessage(m) ==
    /\ Emit(m)
    /\ nackTimers' = nackTimers \ (Expired \cup {m.tid})
    /\ \E E \in Evictions(CleanMemory) :
          LET memory == [Without(CleanMemory, E) EXCEPT ![m.tid] = Settled("ok")]
          IN  \E F \in Evictions(memory) :
                 /\ settled' = Without(memory, F)
                 /\ emissions' = Forgetting(Counted(m.tid), Swept \cup E \cup F)
    /\ down' = down \cup {Ack(m.tid)}
    /\ UNCHANGED thrown

\* A listener threw: receive() reports the error, and neither the settling
\* nor the ack behind the loop runs.
DeliverThrows(m) ==
    /\ ListenerMayThrow /\ attached
    /\ Emit(m)
    /\ nackTimers' = (nackTimers \ Expired) \cup {m.tid}
    /\ \E E \in Evictions(CleanMemory) :
          /\ settled' = Without(CleanMemory, E)
          /\ emissions' = Forgetting(Counted(m.tid), Swept \cup E)
    /\ thrown' = thrown \cup {m.tid}
    /\ UNCHANGED down

\* Mutant of ReceiveError: the nack timer keeps running.
ReceiveErrorKeepingTimer(m) ==
    /\ Listening
    /\ m \in up /\ m.type = "error"
    /\ partial' = [partial EXCEPT ![m.tid] = NoState]
    /\ LET memory == [settled EXCEPT ![m.tid] = Settled("fail")]
       IN  \E E \in Evictions(memory) :
              /\ settled' = Without(memory, E)
              /\ emissions' = Forgetting(emissions, E)
    /\ up' \in Delivered(up, m)
    /\ UNCHANGED <<down, open, attached, nackTimers, delivered, thrown>>

\* Mutant of ReceiveError: settles without enforcing the cap.
ReceiveErrorUncapped(m) ==
    /\ Listening
    /\ m \in up /\ m.type = "error"
    /\ partial' = [partial EXCEPT ![m.tid] = NoState]
    /\ nackTimers' = nackTimers \ {m.tid}
    /\ settled' = [settled EXCEPT ![m.tid] = Settled("fail")]
    /\ up' \in Delivered(up, m)
    /\ UNCHANGED <<down, open, attached, delivered, emissions, thrown>>

\* json:error: the sender gave up, the partial message is dropped and the tid
\* settled as failed, whatever was remembered of it.
ReceiveError(m) ==
    /\ Listening
    /\ m \in up /\ m.type = "error"
    /\ partial' = [partial EXCEPT ![m.tid] = NoState]
    /\ nackTimers' = nackTimers \ {m.tid}
    /\ LET memory == [settled EXCEPT ![m.tid] = Settled("fail")]
       IN  \E E \in Evictions(memory) :
              /\ settled' = Without(memory, E)
              /\ emissions' = Forgetting(emissions, E)
    /\ up' \in Delivered(up, m)
    /\ UNCHANGED <<down, open, attached, delivered, thrown>>

\* Mutant of NackFor: a missing json:complete is not asked for.
NackWithoutComplete(t) ==
    IF partial[t].manifest
    THEN Nack(t, FALSE,
              {c \in Chunks : \A d \in Payloads : <<c, d>> \notin partial[t].chunks},
              FALSE)
    ELSE Nack(t, TRUE, {}, FALSE)

\* fireNack: one-shot; asks for what the partial message lacks now.
NackFor(t) ==
    IF partial[t].manifest
    THEN Nack(t, FALSE,
              {c \in Chunks : \A d \in Payloads : <<c, d>> \notin partial[t].chunks},
              ~partial[t].complete)
    ELSE Nack(t, TRUE, {}, FALSE)

FireNack(t) ==
    /\ t \in nackTimers
    /\ nackTimers' = nackTimers \ {t}
    /\ down' = IF partial[t].exists THEN down \cup {NackFor(t)} ELSE down
    /\ UNCHANGED <<up, open, attached, partial, settled, delivered, emissions, thrown>>

\* detach(): timers, partial messages and listeners are gone; the settled
\* memory stays but is never consulted for a subscribed network again.
DetachReceiver ==
    /\ attached
    /\ attached' = FALSE
    /\ partial' = [t \in Tids |-> NoState]
    /\ nackTimers' = {}
    /\ UNCHANGED <<up, down, open, settled, delivered, emissions, thrown>>

-----------------------------------------------------------------------------
(* The passing of time. *)

PartialAges(t) ==
    /\ partial[t].exists /\ ~partial[t].stale
    /\ partial' = [partial EXCEPT ![t].stale = TRUE]
    /\ UNCHANGED <<linkVars, settled, nackTimers, delivered, emissions, thrown>>

SettledLapses(t) ==
    /\ settled[t].outcome # "none" /\ ~settled[t].lapsed
    /\ settled' = [settled EXCEPT ![t].lapsed = TRUE]
    /\ UNCHANGED <<linkVars, partial, nackTimers, delivered, emissions, thrown>>

ReceiverNext ==
    \/ \E m \in up : \/ AbsorbDuplicate(m)
                     \/ BufferPacket(m)
                     \/ DeliverMessage(m)
                     \/ DeliverThrows(m)
                     \/ ReceiveError(m)
    \/ \E t \in Tids : FireNack(t) \/ PartialAges(t) \/ SettledLapses(t)
    \/ Cleanup
    \/ DetachReceiver

-----------------------------------------------------------------------------
(* What the receiver guarantees, whatever arrives. *)

\* Exactly-once towards the application: between two moments at which the
\* receiver forgets a tid (its memory lapsed or was evicted), onMessage
\* listeners see its message at most once, however often its packets arrive.
\* A tid a listener threw on is the exception: it was never settled.
AtMostOnce == \A t \in Tids \ thrown : emissions[t] <= 1

\* Integrity: whatever listeners were handed is the complete original, never a
\* message with a missing or damaged chunk.
Original == {<<c, "intact">> : c \in Chunks}
DeliveredIntact == \A t \in Tids : delivered[t] \subseteq {Original}
=============================================================================

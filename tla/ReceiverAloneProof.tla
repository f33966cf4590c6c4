------------------------- MODULE ReceiverAloneProof --------------------------
(***************************************************************************)
(* Proofs about the reliable receiver: what its handlers preserve of       *)
(* types, integrity, exactly-once, truthful acks, buffers and memory,      *)
(* and that it keeps them against an arbitrary network (ReceiverAlone).    *)
(* The step lemmas are about TransportReceiver alone; they serve again for *)
(* the composition with a sender in ReliableTransportProof.                *)
(***************************************************************************)
EXTENDS ReceiverAlone, FiniteSetTheorems, TLAPS

-----------------------------------------------------------------------------
(* Packets. *)

\* What a packet on its way to the receiver looks like.
LEMMA UpPacketShape ==
    ASSUME NEW m \in UpPackets
    PROVE  /\ m.tid \in Tids
           /\ m.type \in {"manifest", "complete", "chunk", "error"}
           /\ m.type = "chunk" => m.chunk \in Chunks /\ m.payload \in Payloads
BY DEF UpPackets, DataPackets, Manifest, Complete, Chunk, Error

\* Delivering a packet adds nothing to a wire.
LEMMA DeliveredSubset ==
    ASSUME NEW wire, NEW m, NEW rest \in Delivered(wire, m)
    PROVE  rest \subseteq wire
BY DEF Delivered

-----------------------------------------------------------------------------
(* The receiver's memory. *)

\* Only known tids are evicted.
LEMMA EvictionsSubset ==
    ASSUME NEW memory, NEW E \in Evictions(memory)
    PROVE  E \subseteq Tids
BY DEF Evictions, Remembered

LEMMA EntryTyped ==
    /\ NotSettled \in SettledEntries
    /\ Settled("ok") \in SettledEntries
    /\ Settled("fail") \in SettledEntries
BY DEF NotSettled, Settled, SettledEntries, Outcomes

\* Forgetting entries keeps the memory well-formed.
LEMMA WithoutTyped ==
    ASSUME NEW memory \in [Tids -> SettledEntries], NEW E
    PROVE  Without(memory, E) \in [Tids -> SettledEntries]
BY EntryTyped DEF Without

LEMMA CleanTyped ==
    ASSUME ReceiverTypeOK
    PROVE  /\ CleanMemory \in [Tids -> SettledEntries]
           /\ CleanPartial \in [Tids -> PartialStates]
           /\ Swept \subseteq Tids
           /\ Expired \subseteq Tids
<1>1. NoState \in PartialStates
  BY DEF NoState, PartialStates
<1> QED BY <1>1, EntryTyped DEF ReceiverTypeOK, CleanMemory, CleanPartial, Swept, Expired

LEMMA ForgettingTyped ==
    ASSUME NEW count \in [Tids -> 0 .. 2], NEW F
    PROVE  Forgetting(count, F) \in [Tids -> 0 .. 2]
BY DEF Forgetting

LEMMA CountedTyped ==
    ASSUME ReceiverTypeOK, NEW t \in Tids
    PROVE  Counted(t) \in [Tids -> 0 .. 2]
BY DEF ReceiverTypeOK, Counted

LEMMA StatesTyped == NoState \in PartialStates /\ FreshState \in PartialStates
BY DEF NoState, FreshState, PartialStates

\* Buffering a packet keeps a partial message well-formed.
LEMMA AcceptTyped ==
    ASSUME NEW state \in PartialStates, NEW m \in UpPackets, m.type # "error"
    PROVE  Accept(state, m) \in PartialStates
<1>1. /\ m.type \in {"manifest", "complete", "chunk"}
      /\ m.type = "chunk" => m.chunk \in Chunks /\ m.payload \in Payloads
  BY UpPacketShape
<1>2. CASE m.type = "manifest"
  BY <1>2 DEF Accept, PartialStates
<1>3. CASE m.type = "complete"
  BY <1>3 DEF Accept, PartialStates
<1>4. CASE m.type = "chunk"
  <2>1. AddChunk(state, m) \in PartialStates
    BY <1>1, <1>4 DEF AddChunk, PartialStates
  <2> QED BY <1>4, <2>1 DEF Accept
<1> QED BY <1>1, <1>2, <1>3, <1>4

LEMMA GetStateTyped ==
    ASSUME ReceiverTypeOK, NEW t \in Tids
    PROVE  GetState(t) \in PartialStates
BY CleanTyped, StatesTyped DEF GetState

\* A nack is a packet of the wire to the sender.
LEMMA NackPacket ==
    ASSUME NEW t \in Tids, NEW man \in BOOLEAN, NEW mis \in SUBSET Chunks, NEW com \in BOOLEAN
    PROVE  Nack(t, man, mis, com) \in DownPackets
BY DEF DownPackets, Nack

\* What a nack carries is well-formed.
LEMMA NackTyped ==
    ASSUME NEW t \in Tids, partial[t].complete \in BOOLEAN
    PROVE  NackFor(t) \in DownPackets
<1>1. Nack(t, TRUE, {}, FALSE) \in DownPackets
  BY NackPacket
<1>2. Nack(t, FALSE, {c \in Chunks : \A d \in Payloads : <<c, d>> \notin partial[t].chunks},
           ~partial[t].complete) \in DownPackets
  BY NackPacket
<1> QED BY <1>1, <1>2 DEF NackFor

-----------------------------------------------------------------------------
(* Type correctness. *)

\* The handlers of the receiver keep every variable in its range.
LEMMA ReceiverTyped ==
    ASSUME ReceiverTypeOK, ReceiverNext
    PROVE  ReceiverTypeOK'
<1> USE DEF ReceiverTypeOK, LinkTypeOK
<1>1. ASSUME NEW m \in up, AbsorbDuplicate(m)
      PROVE  ReceiverTypeOK'
  <2>1. m.tid \in Tids /\ Ack(m.tid) \in DownPackets
    BY UpPacketShape DEF DownPackets, Ack
  <2>2. up' \subseteq UpPackets
    BY <1>1, DeliveredSubset DEF AbsorbDuplicate
  <2>3. down' \subseteq DownPackets
    BY <1>1, <2>1 DEF AbsorbDuplicate
  <2> QED BY <1>1, <2>2, <2>3 DEF AbsorbDuplicate, receiverVars
<1>2. ASSUME NEW m \in up, BufferPacket(m)
      PROVE  ReceiverTypeOK'
  <2>1. m.tid \in Tids /\ m \in UpPackets
    BY UpPacketShape
  <2>2. Accept(GetState(m.tid), m) \in PartialStates
    BY <1>2, <2>1, GetStateTyped, AcceptTyped DEF BufferPacket
  <2>3. partial' \in [Tids -> PartialStates]
    BY <1>2, <2>1, <2>2, CleanTyped DEF BufferPacket
  <2>4. up' \subseteq UpPackets
    BY <1>2, DeliveredSubset DEF BufferPacket
  <2>5. settled' \in [Tids -> SettledEntries] /\ emissions' \in [Tids -> 0 .. 2]
    BY <1>2, CleanTyped, WithoutTyped, ForgettingTyped DEF BufferPacket
  <2> QED BY <1>2, <2>1, <2>3, <2>4, <2>5 DEF BufferPacket
<1>3. ASSUME NEW m \in up, Emit(m)
      PROVE  /\ m.tid \in Tids
             /\ up' \subseteq UpPackets /\ open' \in BOOLEAN /\ attached' \in BOOLEAN
             /\ partial' \in [Tids -> PartialStates]
             /\ delivered' \in [Tids -> SUBSET SUBSET (Chunks \X Payloads)]
  <2>1. m.tid \in Tids /\ m \in UpPackets
    BY UpPacketShape
  <2>2. Accept(GetState(m.tid), m) \in PartialStates
    BY <1>3, <2>1, GetStateTyped, AcceptTyped DEF Emit
  <2>3. Accept(GetState(m.tid), m).chunks \in SUBSET (Chunks \X Payloads)
    BY <2>2 DEF PartialStates
  <2>4. delivered' \in [Tids -> SUBSET SUBSET (Chunks \X Payloads)]
    BY <1>3, <2>1, <2>3 DEF Emit
  <2>5. partial' \in [Tids -> PartialStates]
    BY <1>3, <2>1, CleanTyped, StatesTyped DEF Emit
  <2>6. up' \subseteq UpPackets
    BY <1>3, DeliveredSubset DEF Emit
  <2> QED BY <1>3, <2>1, <2>4, <2>5, <2>6 DEF Emit
<1>4. ASSUME NEW m \in up, DeliverMessage(m)
      PROVE  ReceiverTypeOK'
  <2>1. Emit(m)
    BY <1>4 DEF DeliverMessage
  <2>2. m.tid \in Tids /\ Ack(m.tid) \in DownPackets
    BY <1>3, <2>1 DEF DownPackets, Ack
  <2> DEFINE memory(E) == [Without(CleanMemory, E) EXCEPT ![m.tid] = Settled("ok")]
  <2>3. PICK E \in Evictions(CleanMemory) :
           \E F \in Evictions(memory(E)) :
              /\ settled' = Without(memory(E), F)
              /\ emissions' = Forgetting(Counted(m.tid), Swept \cup E \cup F)
    BY <1>4 DEF DeliverMessage
  <2>4. PICK F \in Evictions(memory(E)) :
           /\ settled' = Without(memory(E), F)
           /\ emissions' = Forgetting(Counted(m.tid), Swept \cup E \cup F)
    BY <2>3
  <2>5. memory(E) \in [Tids -> SettledEntries]
    BY <2>2, CleanTyped, WithoutTyped, EntryTyped
  <2>6. settled' \in [Tids -> SettledEntries]
    <3> HIDE DEF memory
    <3> QED BY <2>4, <2>5, WithoutTyped
  <2>7. emissions' \in [Tids -> 0 .. 2]
    BY <2>2, <2>4, CountedTyped, ForgettingTyped
  <2> QED BY <1>3, <1>4, <2>1, <2>2, <2>6, <2>7 DEF DeliverMessage
<1>5. ASSUME NEW m \in up, DeliverThrows(m)
      PROVE  ReceiverTypeOK'
  <2>1. Emit(m)
    BY <1>5 DEF DeliverThrows
  <2>2. m.tid \in Tids
    BY <1>3, <2>1
  <2>3. settled' \in [Tids -> SettledEntries] /\ emissions' \in [Tids -> 0 .. 2]
    BY <1>5, <2>2, CleanTyped, WithoutTyped, CountedTyped, ForgettingTyped DEF DeliverThrows
  <2> QED BY <1>3, <1>5, <2>1, <2>2, <2>3 DEF DeliverThrows
<1>6. ASSUME NEW m \in up, ReceiveError(m)
      PROVE  ReceiverTypeOK'
  <2>1. m.tid \in Tids
    BY UpPacketShape
  <2>2. [settled EXCEPT ![m.tid] = Settled("fail")] \in [Tids -> SettledEntries]
    BY <2>1, EntryTyped
  <2>3. PICK E : /\ settled' = Without([settled EXCEPT ![m.tid] = Settled("fail")], E)
                 /\ emissions' = Forgetting(emissions, E)
    BY <1>6 DEF ReceiveError
  <2>4. settled' \in [Tids -> SettledEntries]
    BY <2>2, <2>3, WithoutTyped
  <2>5. emissions' \in [Tids -> 0 .. 2]
    BY <2>3, ForgettingTyped
  <2>6. up' \subseteq UpPackets
    BY <1>6, DeliveredSubset DEF ReceiveError
  <2> QED BY <1>6, <2>1, <2>4, <2>5, <2>6, StatesTyped DEF ReceiveError
<1>7. ASSUME NEW t \in Tids, FireNack(t)
      PROVE  ReceiverTypeOK'
  <2>1. partial[t].complete \in BOOLEAN
    <3>1. partial[t] \in PartialStates
      OBVIOUS
    <3> QED BY <3>1 DEF PartialStates
  <2>2. down' \subseteq DownPackets
    BY <1>7, <2>1, NackTyped DEF FireNack
  <2> QED BY <1>7, <2>2 DEF FireNack
<1>8. ASSUME NEW t \in Tids, PartialAges(t)
      PROVE  ReceiverTypeOK'
  <2>1. [partial[t] EXCEPT !.stale = TRUE] \in PartialStates
    <3>1. partial[t] \in PartialStates
      OBVIOUS
    <3> QED BY <3>1 DEF PartialStates
  <2> QED BY <1>8, <2>1 DEF PartialAges, linkVars
<1>9. ASSUME NEW t \in Tids, SettledLapses(t)
      PROVE  ReceiverTypeOK'
  <2>1. [settled[t] EXCEPT !.lapsed = TRUE] \in SettledEntries
    <3>1. settled[t] \in SettledEntries
      OBVIOUS
    <3> QED BY <3>1 DEF SettledEntries
  <2> QED BY <1>9, <2>1 DEF SettledLapses, linkVars
<1>10. ASSUME Cleanup
       PROVE  ReceiverTypeOK'
  BY <1>10, CleanTyped, WithoutTyped, ForgettingTyped DEF Cleanup, linkVars
<1>11. ASSUME DetachReceiver
       PROVE  ReceiverTypeOK'
  BY <1>11, StatesTyped DEF DetachReceiver
<1> QED
  BY <1>1, <1>2, <1>4, <1>5, <1>6, <1>7, <1>8, <1>9, <1>10, <1>11 DEF ReceiverNext

-----------------------------------------------------------------------------
(* Integrity: nothing damaged is ever buffered, so what is complete is the   *)
(* original.                                                                 *)

IntactBuffers == \A t \in Tids : partial[t].chunks \subseteq Original

\* The empty buffers and the cleaned-up ones hold nothing damaged.
LEMMA CleanIntact ==
    ASSUME ReceiverTypeOK, IntactBuffers
    PROVE  /\ \A t \in Tids : CleanPartial[t].chunks \subseteq Original
           /\ \A t \in Tids : GetState(t).chunks \subseteq Original
           /\ NoState.chunks = {}
<1>1. NoState.chunks = {} /\ FreshState.chunks = {}
  BY DEF NoState, FreshState
<1>2. \A t \in Tids : CleanPartial[t].chunks \subseteq Original
  BY <1>1 DEF CleanPartial, IntactBuffers
<1> QED BY <1>1, <1>2 DEF GetState

\* acceptPacket adds only chunks whose hash matches.
LEMMA AcceptIntact ==
    ASSUME NEW state \in PartialStates, state.chunks \subseteq Original,
           NEW m \in UpPackets, m.type # "error"
    PROVE  Accept(state, m).chunks \subseteq Original
<1>1. /\ m.type \in {"manifest", "complete", "chunk"}
      /\ m.type = "chunk" => m.chunk \in Chunks
  BY UpPacketShape
<1>2. CASE m.type # "chunk"
  BY <1>1, <1>2 DEF Accept, PartialStates
<1>3. CASE m.type = "chunk"
  <2>1. AddChunk(state, m).chunks \subseteq Original
    BY <1>1, <1>3 DEF AddChunk, PartialStates, Original
  <2> QED BY <1>3, <2>1 DEF Accept
<1> QED BY <1>2, <1>3

\* A complete message without damaged chunks is the original.
LEMMA AssembledOriginal ==
    ASSUME NEW state, state.chunks \subseteq Original, Assembled(state)
    PROVE  state.chunks = Original
BY DEF Assembled, Original

Integrity == IntactBuffers /\ DeliveredIntact

\* Every handler of the receiver keeps buffers and deliveries intact.
LEMMA IntegrityStep ==
    ASSUME ReceiverTypeOK, Integrity, ReceiverNext
    PROVE  Integrity'
<1> USE DEF Integrity
<1>0. partial \in [Tids -> PartialStates] /\ up \subseteq UpPackets
      /\ delivered \in [Tids -> SUBSET SUBSET (Chunks \X Payloads)]
  BY DEF ReceiverTypeOK, LinkTypeOK
<1>1. ASSUME NEW m \in up, m.type # "error"
      PROVE  /\ m.tid \in Tids
             /\ Accept(GetState(m.tid), m).chunks \subseteq Original
  <2>1. m.tid \in Tids /\ m \in UpPackets
    BY <1>0, UpPacketShape
  <2> QED BY <1>1, <2>1, GetStateTyped, CleanIntact, AcceptIntact
<1>2. ASSUME NEW m \in up, BufferPacket(m)
      PROVE  Integrity'
  <2>1. m.tid \in Tids /\ Accept(GetState(m.tid), m).chunks \subseteq Original
    BY <1>1, <1>2 DEF BufferPacket
  <2>2. partial' = [CleanPartial EXCEPT ![m.tid] = Accept(GetState(m.tid), m)]
    BY <1>2 DEF BufferPacket
  <2>3. IntactBuffers'
    BY <2>1, <2>2, CleanIntact, CleanTyped DEF IntactBuffers, Original
  <2> QED BY <1>2, <2>3 DEF BufferPacket, DeliveredIntact, Original
<1>3. ASSUME NEW m \in up, Emit(m)
      PROVE  Integrity'
  <2>1. m.tid \in Tids /\ Accept(GetState(m.tid), m).chunks = Original
    BY <1>1, <1>3, AssembledOriginal DEF Emit
  <2>2. partial' = [CleanPartial EXCEPT ![m.tid] = NoState]
    BY <1>3 DEF Emit
  <2>3. IntactBuffers'
    BY <2>1, <2>2, CleanIntact, CleanTyped DEF IntactBuffers, Original
  <2>4. \A t \in Tids : delivered'[t] \subseteq delivered[t] \cup {Original}
    BY <1>0, <1>3, <2>1 DEF Emit
  <2> QED BY <2>3, <2>4 DEF DeliveredIntact, Original
<1>4. ASSUME NEW m \in up, ReceiveError(m)
      PROVE  Integrity'
  BY <1>0, <1>4, CleanIntact
     DEF ReceiveError, IntactBuffers, DeliveredIntact, Original
<1>5. ASSUME NEW t \in Tids, PartialAges(t)
      PROVE  Integrity'
  <2>1. partial[t] \in PartialStates
    BY <1>0
  <2>2. [partial[t] EXCEPT !.stale = TRUE].chunks = partial[t].chunks
    BY <2>1 DEF PartialStates
  <2> QED BY <1>0, <1>5, <2>2 DEF PartialAges, IntactBuffers, DeliveredIntact, Original
<1>6. ASSUME Cleanup
      PROVE  Integrity'
  BY <1>6, CleanIntact DEF Cleanup, IntactBuffers, DeliveredIntact, Original
<1>7. ASSUME DetachReceiver
      PROVE  Integrity'
  BY <1>7, CleanIntact DEF DetachReceiver, IntactBuffers, DeliveredIntact, Original
<1>8. ASSUME UNCHANGED <<partial, delivered>>
      PROVE  Integrity'
  BY <1>8 DEF IntactBuffers, DeliveredIntact, Original
<1>9. /\ \A m \in up : AbsorbDuplicate(m) => UNCHANGED <<partial, delivered>>
      /\ \A t \in Tids : FireNack(t) => UNCHANGED <<partial, delivered>>
      /\ \A t \in Tids : SettledLapses(t) => UNCHANGED <<partial, delivered>>
  BY DEF AbsorbDuplicate, FireNack, SettledLapses, receiverVars
<1>10. \A m \in up : DeliverMessage(m) \/ DeliverThrows(m) => Emit(m)
  BY DEF DeliverMessage, DeliverThrows
<1> QED
  BY <1>2, <1>3, <1>4, <1>5, <1>6, <1>7, <1>8, <1>9, <1>10 DEF ReceiverNext

-----------------------------------------------------------------------------
(* Exactly-once: what has been handed over and not forgotten is settled.     *)

HandedOverSettled ==
    \A t \in Tids \ thrown :
        /\ emissions[t] <= 1
        /\ emissions[t] = 1 => settled[t].outcome # "none"

\* Forgetting and evicting change exactly the tids they name.
LEMMA ForgetsExactly ==
    ASSUME NEW t \in Tids, NEW memory, NEW count, NEW F
    PROVE  /\ Without(memory, F)[t] = IF t \in F THEN NotSettled ELSE memory[t]
           /\ Forgetting(count, F)[t] = IF t \in F THEN 0 ELSE count[t]
BY DEF Without, Forgetting

\* cleanup() forgets only what has lapsed.
LEMMA CleanRemembers ==
    ASSUME NEW t \in Tids, settled[t].outcome # "none", t \notin Swept
    PROVE  CleanMemory[t].outcome # "none"
BY DEF CleanMemory, Settled

\* The steps that hand nothing over: cleanup with its evictions E.
LEMMA CleanupKeepsExactly ==
    ASSUME HandedOverSettled, NEW E,
           settled' = Without(CleanMemory, E),
           emissions' = Forgetting(emissions, Swept \cup E),
           UNCHANGED thrown
    PROVE  HandedOverSettled'
<1> SUFFICES ASSUME NEW t \in Tids \ thrown
             PROVE  /\ emissions'[t] <= 1
                    /\ emissions'[t] = 1 => settled'[t].outcome # "none"
  BY DEF HandedOverSettled
<1>1. emissions'[t] = IF t \in Swept \cup E THEN 0 ELSE emissions[t]
  BY ForgetsExactly
<1>2. t \notin E => settled'[t] = CleanMemory[t]
  BY ForgetsExactly
<1> QED BY <1>1, <1>2, CleanRemembers DEF HandedOverSettled

\* A hand-over: the message was not settled, so it has not been handed over.
LEMMA CountedOnce ==
    ASSUME ReceiverTypeOK, HandedOverSettled, NEW t \in Tids,
           NEW u \in Tids, settled[u].outcome = "none"
    PROVE  /\ t # u => Counted(u)[t] = emissions[t]
           /\ u \notin thrown => Counted(u)[u] <= 1
<1>1. emissions \in [Tids -> 0 .. 2]
  BY DEF ReceiverTypeOK
<1>2. u \notin thrown => emissions[u] = 0
  BY <1>1 DEF HandedOverSettled
<1> QED BY <1>1, <1>2 DEF Counted

LEMMA ExactlyStep ==
    ASSUME ReceiverTypeOK, HandedOverSettled, ReceiverNext
    PROVE  HandedOverSettled'
<1>0. emissions \in [Tids -> 0 .. 2] /\ settled \in [Tids -> SettledEntries]
      /\ up \subseteq UpPackets
  BY DEF ReceiverTypeOK, LinkTypeOK
<1>1. ASSUME NEW m \in up, BufferPacket(m)
      PROVE  HandedOverSettled'
  BY <1>1, CleanupKeepsExactly DEF BufferPacket
<1>2. ASSUME NEW m \in up, DeliverMessage(m)
      PROVE  HandedOverSettled'
  <2>1. m.tid \in Tids /\ settled[m.tid].outcome = "none"
    BY <1>0, <1>2, UpPacketShape DEF DeliverMessage, Emit
  <2> DEFINE memory(E) == [Without(CleanMemory, E) EXCEPT ![m.tid] = Settled("ok")]
  <2>2. PICK E : \E F :
           /\ settled' = Without(memory(E), F)
           /\ emissions' = Forgetting(Counted(m.tid), Swept \cup E \cup F)
    BY <1>2 DEF DeliverMessage
  <2>3. PICK F :
           /\ settled' = Without(memory(E), F)
           /\ emissions' = Forgetting(Counted(m.tid), Swept \cup E \cup F)
    BY <2>2
  <2> SUFFICES ASSUME NEW t \in Tids \ thrown
               PROVE  /\ emissions'[t] <= 1
                      /\ emissions'[t] = 1 => settled'[t].outcome # "none"
    BY <1>2 DEF HandedOverSettled, DeliverMessage
  <2>4. /\ t # m.tid => memory(E)[t] = Without(CleanMemory, E)[t]
        /\ memory(E)[m.tid].outcome = "ok"
    BY <2>1 DEF Without, Settled
  <2>5. emissions'[t] = IF t \in Swept \cup E \cup F THEN 0 ELSE Counted(m.tid)[t]
    BY <2>3, ForgetsExactly
  <2>6. t \notin F => settled'[t] = memory(E)[t]
    <3> HIDE DEF memory
    <3> QED BY <2>3, ForgetsExactly
  <2>7. t \notin E => Without(CleanMemory, E)[t] = CleanMemory[t]
    BY ForgetsExactly
  <2> HIDE DEF memory
  <2>8. CASE t = m.tid
    BY <2>1, <2>4, <2>5, <2>6, <2>8, CountedOnce
  <2>9. CASE t # m.tid
    <3>1. Counted(m.tid)[t] = emissions[t]
      BY <2>1, <2>9, CountedOnce
    <3> QED
      BY <2>4, <2>5, <2>6, <2>7, <2>9, <3>1, CleanRemembers DEF HandedOverSettled
  <2> QED BY <2>8, <2>9
<1>3. ASSUME NEW m \in up, DeliverThrows(m)
      PROVE  HandedOverSettled'
  <2>1. m.tid \in Tids /\ settled[m.tid].outcome = "none"
    BY <1>0, <1>3, UpPacketShape DEF DeliverThrows, Emit
  <2>2. PICK E \in Evictions(CleanMemory) :
           /\ settled' = Without(CleanMemory, E)
           /\ emissions' = Forgetting(Counted(m.tid), Swept \cup E)
    BY <1>3 DEF DeliverThrows
  <2> SUFFICES ASSUME NEW t \in Tids \ thrown, t # m.tid
               PROVE  /\ emissions'[t] <= 1
                      /\ emissions'[t] = 1 => settled'[t].outcome # "none"
    BY <1>3 DEF HandedOverSettled, DeliverThrows
  <2>3. emissions'[t] = IF t \in Swept \cup E THEN 0 ELSE emissions[t]
    <3>1. Counted(m.tid)[t] = emissions[t]
      BY <2>1, CountedOnce
    <3>2. Forgetting(Counted(m.tid), Swept \cup E)[t] =
              IF t \in Swept \cup E THEN 0 ELSE Counted(m.tid)[t]
      BY ForgetsExactly
    <3> QED BY ONLY <2>2, <3>1, <3>2
  <2>4. t \notin E => settled'[t] = CleanMemory[t]
    BY <2>2, ForgetsExactly
  <2> QED BY <2>3, <2>4, CleanRemembers DEF HandedOverSettled
<1>4. ASSUME NEW m \in up, ReceiveError(m)
      PROVE  HandedOverSettled'
  <2>1. m.tid \in Tids
    BY <1>0, UpPacketShape
  <2> DEFINE memory == [settled EXCEPT ![m.tid] = Settled("fail")]
  <2>2. PICK E \in Evictions(memory) :
           settled' = Without(memory, E) /\ emissions' = Forgetting(emissions, E)
    BY <1>4 DEF ReceiveError
  <2>3. \A t \in Tids : settled[t].outcome # "none" => memory[t].outcome # "none"
    BY <1>0, <2>1 DEF Settled
  <2> HIDE DEF memory
  <2>4. \A t \in Tids : /\ emissions'[t] = IF t \in E THEN 0 ELSE emissions[t]
                        /\ t \notin E => settled'[t] = memory[t]
    BY <2>2, ForgetsExactly
  <2> SUFFICES ASSUME NEW t \in Tids \ thrown
               PROVE  /\ emissions'[t] <= 1
                      /\ emissions'[t] = 1 => settled'[t].outcome # "none"
    BY <1>4 DEF HandedOverSettled, ReceiveError
  <2> QED BY <2>3, <2>4 DEF HandedOverSettled
<1>5. ASSUME NEW t \in Tids, SettledLapses(t)
      PROVE  HandedOverSettled'
  <2>1. settled[t] \in SettledEntries
    BY <1>0
  <2>2. [settled[t] EXCEPT !.lapsed = TRUE].outcome = settled[t].outcome
    BY <2>1 DEF SettledEntries
  <2> QED BY <1>0, <1>5, <2>2 DEF SettledLapses, HandedOverSettled
<1>6. ASSUME Cleanup
      PROVE  HandedOverSettled'
  BY <1>6, CleanupKeepsExactly DEF Cleanup
<1>7. ASSUME UNCHANGED <<settled, emissions, thrown>>
      PROVE  HandedOverSettled'
  BY <1>7 DEF HandedOverSettled
<1>8. /\ \A m \in up : AbsorbDuplicate(m) => UNCHANGED <<settled, emissions, thrown>>
      /\ \A t \in Tids : FireNack(t) => UNCHANGED <<settled, emissions, thrown>>
      /\ \A t \in Tids : PartialAges(t) => UNCHANGED <<settled, emissions, thrown>>
      /\ DetachReceiver => UNCHANGED <<settled, emissions, thrown>>
  BY DEF AbsorbDuplicate, FireNack, PartialAges, DetachReceiver, receiverVars
<1> QED BY <1>1, <1>2, <1>3, <1>4, <1>5, <1>6, <1>7, <1>8 DEF ReceiverNext

-----------------------------------------------------------------------------
(* Acks: what is settled as "ok" or acked was handed to the listeners.       *)

AcksTrue ==
    \A t \in Tids : /\ settled[t].outcome = "ok" => delivered[t] # {}
                    /\ Ack(t) \in down => delivered[t] # {}

\* What was handed over stays handed over, and completing a message while
\* subscribed hands it over.
LEMMA EmitDelivers ==
    ASSUME ReceiverTypeOK, NEW m \in up, Emit(m)
    PROVE  /\ m.tid \in Tids
           /\ \A t \in Tids : delivered[t] # {} => delivered'[t] # {}
           /\ attached => delivered'[m.tid] # {}
           /\ \A t \in Tids \ {m.tid} : delivered'[t] = delivered[t]
<1>1. m.tid \in Tids /\ delivered \in [Tids -> SUBSET SUBSET (Chunks \X Payloads)]
  BY UpPacketShape DEF ReceiverTypeOK, LinkTypeOK
<1>2. PICK S : delivered' = [delivered EXCEPT ![m.tid] =
                                IF attached THEN delivered[m.tid] \cup {S} ELSE delivered[m.tid]]
  BY <1>1 DEF Emit
<1> QED BY <1>1, <1>2

\* Deliveries are never taken back, and a receiver that left stays away.
LEMMA DeliveredGrows ==
    ASSUME ReceiverTypeOK, ReceiverNext
    PROVE  /\ \A t \in Tids : delivered[t] # {} => delivered'[t] # {}
           /\ attached' => attached
<1>1. \A m \in up : DeliverMessage(m) \/ DeliverThrows(m) => Emit(m)
  BY DEF DeliverMessage, DeliverThrows
<1>2. ASSUME NEW m \in up, Emit(m)
      PROVE  /\ \A t \in Tids : delivered[t] # {} => delivered'[t] # {}
             /\ attached' => attached
  BY <1>2, EmitDelivers DEF Emit
<1>3. /\ \A m \in up : AbsorbDuplicate(m) \/ BufferPacket(m) \/ ReceiveError(m)
                           => UNCHANGED <<attached, delivered>>
      /\ \A t \in Tids : FireNack(t) \/ PartialAges(t) \/ SettledLapses(t)
                             => UNCHANGED <<attached, delivered>>
      /\ Cleanup => UNCHANGED <<attached, delivered>>
  BY DEF AbsorbDuplicate, BufferPacket, ReceiveError, FireNack, PartialAges, SettledLapses,
         Cleanup, linkVars, receiverVars
<1>4. DetachReceiver => attached /\ UNCHANGED delivered
  BY DEF DetachReceiver
<1> QED BY <1>1, <1>2, <1>3, <1>4 DEF ReceiverNext

\* Acks and nacks are told apart.
LEMMA NackIsNotAck ==
    ASSUME NEW t, NEW u
    PROVE  NackFor(t) # Ack(u)
<1>1. NackFor(t).type = "nack" /\ Ack(u).type = "ack"
  BY DEF NackFor, Nack, Ack
<1> QED BY <1>1

\* Evicting and cleaning up never turn an entry into "ok".
LEMMA CleanNoNewOk ==
    ASSUME NEW t \in Tids, NEW E, Without(CleanMemory, E)[t].outcome = "ok"
    PROVE  settled[t].outcome = "ok" /\ CleanMemory[t].outcome = "ok"
BY DEF Without, CleanMemory, Settled, NotSettled

\* The handlers of a receiver that hears its network only while it is
\* subscribed to it.
LEMMA AcksStep ==
    ASSUME ReceiverTypeOK, AcksTrue, ReceiverNext, attached \/ ~LateDelivery
    PROVE  AcksTrue'
<1>0. up \subseteq UpPackets /\ settled \in [Tids -> SettledEntries]
  BY DEF ReceiverTypeOK, LinkTypeOK
<1> USE DEF AcksTrue
<1>1. ASSUME NEW m \in up, AbsorbDuplicate(m)
      PROVE  AcksTrue'
  <2>1. \A t \in Tids : Ack(t) \in down' =>
           Ack(t) \in down \/ (t = m.tid /\ settled[t].outcome = "ok")
    BY <1>1 DEF AbsorbDuplicate, Ack
  <2> QED BY <1>1, <2>1 DEF AbsorbDuplicate, receiverVars
<1>2. ASSUME NEW m \in up, BufferPacket(m)
      PROVE  AcksTrue'
  <2>1. PICK E : settled' = Without(CleanMemory, E)
    BY <1>2 DEF BufferPacket
  <2> QED BY <1>2, <2>1, CleanNoNewOk DEF BufferPacket
<1>3. ASSUME NEW m \in up, DeliverMessage(m)
      PROVE  AcksTrue'
  <2>1. Emit(m) /\ attached
    BY <1>3 DEF DeliverMessage, Emit, Listening
  <2>2. /\ m.tid \in Tids
        /\ \A t \in Tids : delivered[t] # {} => delivered'[t] # {}
        /\ delivered'[m.tid] # {}
    BY <2>1, EmitDelivers
  <2> DEFINE memory(E) == [Without(CleanMemory, E) EXCEPT ![m.tid] = Settled("ok")]
  <2>3. PICK E : \E F : settled' = Without(memory(E), F)
    BY <1>3 DEF DeliverMessage
  <2>4. PICK F : settled' = Without(memory(E), F)
    BY <2>3
  <2>5. \A t \in Tids \ {m.tid} : memory(E)[t] = Without(CleanMemory, E)[t]
    BY DEF Without
  <2> HIDE DEF memory
  <2>6. \A t \in Tids \ {m.tid} : settled'[t].outcome = "ok" => settled[t].outcome = "ok"
    BY <2>4, <2>5, CleanNoNewOk DEF NotSettled, Without
  <2>7. \A t \in Tids \ {m.tid} : Ack(t) \in down' => Ack(t) \in down
    BY <1>3 DEF DeliverMessage, Ack
  <2> QED BY <2>2, <2>6, <2>7
<1>4. ASSUME NEW m \in up, DeliverThrows(m)
      PROVE  AcksTrue'
  <2>1. Emit(m)
    BY <1>4 DEF DeliverThrows
  <2>2. \A t \in Tids : delivered[t] # {} => delivered'[t] # {}
    BY <2>1, EmitDelivers
  <2>3. PICK E : settled' = Without(CleanMemory, E)
    BY <1>4 DEF DeliverThrows
  <2> QED BY <1>4, <2>2, <2>3, CleanNoNewOk DEF DeliverThrows
<1>5. ASSUME NEW m \in up, ReceiveError(m)
      PROVE  AcksTrue'
  <2> DEFINE memory == [settled EXCEPT ![m.tid] = Settled("fail")]
  <2>1. PICK E : settled' = Without(memory, E)
    BY <1>5 DEF ReceiveError
  <2>2. \A t \in Tids : memory[t].outcome = "ok" => settled[t].outcome = "ok"
    BY <1>0 DEF Settled
  <2> HIDE DEF memory
  <2>3. \A t \in Tids : settled'[t].outcome = "ok" => settled[t].outcome = "ok"
    BY <2>1, <2>2 DEF NotSettled, Without
  <2> QED BY <1>5, <2>3 DEF ReceiveError
<1>6. ASSUME NEW t \in Tids, FireNack(t)
      PROVE  AcksTrue'
  <2>1. \A u \in Tids : Ack(u) \in down' => Ack(u) \in down
    BY <1>6, NackIsNotAck DEF FireNack
  <2> QED BY <1>6, <2>1 DEF FireNack
<1>7. ASSUME NEW t \in Tids, SettledLapses(t)
      PROVE  AcksTrue'
  <2>1. [settled[t] EXCEPT !.lapsed = TRUE].outcome = settled[t].outcome
    BY <1>0 DEF SettledEntries
  <2>2. \A u \in Tids : settled'[u].outcome = settled[u].outcome
    BY <1>0, <1>7, <2>1 DEF SettledLapses
  <2> QED BY <1>7, <2>2 DEF SettledLapses, linkVars
<1>8. ASSUME Cleanup
      PROVE  AcksTrue'
  <2>1. PICK E : settled' = Without(CleanMemory, E)
    BY <1>8 DEF Cleanup
  <2> QED BY <1>8, <2>1, CleanNoNewOk DEF Cleanup, linkVars
<1>9. ASSUME UNCHANGED <<down, settled, delivered>>
      PROVE  AcksTrue'
  BY <1>9
<1>10. /\ \A t \in Tids : PartialAges(t) => UNCHANGED <<down, settled, delivered>>
       /\ DetachReceiver => UNCHANGED <<down, settled, delivered>>
  BY DEF PartialAges, DetachReceiver, linkVars
<1> QED BY <1>1, <1>2, <1>3, <1>4, <1>5, <1>6, <1>7, <1>8, <1>9, <1>10 DEF ReceiverNext

-----------------------------------------------------------------------------
(* Buffers and timers: a delivered message leaves no partial state behind,   *)
(* and a nack timer has one to ask about.                                    *)

\* The clean-up takes a partial message away only with its nack timer, and
\* settles it as failed.
LEMMA CleanAccounted ==
    ASSUME BuffersAccounted, NEW t \in Tids
    PROVE  /\ CleanMemory[t].outcome = "ok" => ~CleanPartial[t].exists
           /\ t \in (nackTimers \ Expired) \ thrown => CleanPartial[t].exists
<1>1. t \notin Expired => CleanPartial[t] = partial[t]
  BY DEF CleanPartial
<1>2. CleanMemory[t].outcome = "ok" => t \notin Expired /\ settled[t].outcome = "ok"
  BY DEF CleanMemory, Settled, NotSettled
<1> QED BY <1>1, <1>2 DEF BuffersAccounted

LEMMA EmptyStates ==
    NoState.exists = FALSE /\ NoState.stale = FALSE /\ FreshState.exists = TRUE
BY DEF NoState, FreshState

\* Buffering a packet does not drop the state it is buffered in.
LEMMA AcceptExists ==
    ASSUME ReceiverTypeOK, NEW m \in UpPackets, m.type # "error"
    PROVE  Accept(GetState(m.tid), m).exists = TRUE
<1>1. /\ m.tid \in Tids
      /\ m.type \in {"manifest", "complete", "chunk"}
  BY UpPacketShape
<1>2. GetState(m.tid) \in PartialStates
  BY <1>1, GetStateTyped
<1>3. GetState(m.tid).exists = TRUE
  <2>1. CleanPartial[m.tid] \in PartialStates
    BY <1>1, CleanTyped
  <2> QED BY <2>1, EmptyStates DEF GetState, PartialStates
<1>4. m.type = "chunk" => AddChunk(GetState(m.tid), m).exists = TRUE
  BY <1>2, <1>3 DEF AddChunk, PartialStates
<1> QED BY <1>1, <1>2, <1>3, <1>4 DEF Accept, PartialStates

LEMMA AccountedStep ==
    ASSUME ReceiverTypeOK, BuffersAccounted, ReceiverNext
    PROVE  BuffersAccounted'
<1>0. /\ up \subseteq UpPackets /\ settled \in [Tids -> SettledEntries]
      /\ partial \in [Tids -> PartialStates] /\ CleanPartial \in [Tids -> PartialStates]
  BY CleanTyped DEF ReceiverTypeOK, LinkTypeOK
<1>1. ASSUME NEW m \in up, BufferPacket(m)
      PROVE  BuffersAccounted'
  <2>1. /\ m.tid \in Tids /\ settled[m.tid].outcome = "none"
        /\ Accept(GetState(m.tid), m).exists
    BY <1>0, <1>1, UpPacketShape, AcceptExists DEF BufferPacket
  <2>2. PICK E : settled' = Without(CleanMemory, E)
    BY <1>1 DEF BufferPacket
  <2>3. partial' = [CleanPartial EXCEPT ![m.tid] = Accept(GetState(m.tid), m)]
    BY <1>1 DEF BufferPacket
  <2>4. settled'[m.tid].outcome # "ok"
    BY <2>1, <2>2, CleanNoNewOk
  <2>5. \A t \in Tids : settled'[t].outcome = "ok" => CleanMemory[t].outcome = "ok"
    BY <2>2, CleanNoNewOk
  <2>6. nackTimers' = (nackTimers \ Expired) \cup {m.tid} /\ thrown' = thrown
    BY <1>1 DEF BufferPacket
  <2>7. \A t \in Tids \ {m.tid} : partial'[t] = CleanPartial[t]
    BY <1>0, <2>3
  <2>8. partial'[m.tid].exists
    BY <1>0, <2>1, <2>3
  <2>9. nackTimers \subseteq Tids
    BY DEF ReceiverTypeOK
  <2>10. \A t \in Tids : settled'[t].outcome = "ok" => ~partial'[t].exists
    BY <2>4, <2>5, <2>7, CleanAccounted
  <2>11. \A t \in nackTimers' \ thrown' : partial'[t].exists
    BY <2>1, <2>6, <2>7, <2>8, <2>9, CleanAccounted
  <2> QED BY <2>10, <2>11 DEF BuffersAccounted
<1>2. ASSUME NEW m \in up, Emit(m)
      PROVE  /\ m.tid \in Tids
             /\ \A t \in Tids \ {m.tid} : partial'[t] = CleanPartial[t]
             /\ ~partial'[m.tid].exists
  <2>1. m.tid \in Tids
    BY <1>0, UpPacketShape
  <2>2. partial' = [CleanPartial EXCEPT ![m.tid] = NoState]
    BY <1>2 DEF Emit
  <2> QED BY <1>0, <2>1, <2>2, EmptyStates
<1>3. ASSUME NEW m \in up, DeliverMessage(m)
      PROVE  BuffersAccounted'
  <2>1. Emit(m) /\ nackTimers' = nackTimers \ (Expired \cup {m.tid}) /\ thrown' = thrown
    BY <1>3 DEF DeliverMessage
  <2> DEFINE memory(E) == [Without(CleanMemory, E) EXCEPT ![m.tid] = Settled("ok")]
  <2>2. PICK E : \E F : settled' = Without(memory(E), F)
    BY <1>3 DEF DeliverMessage
  <2>3. PICK F : settled' = Without(memory(E), F)
    BY <2>2
  <2>4. \A t \in Tids \ {m.tid} : memory(E)[t] = Without(CleanMemory, E)[t]
    BY DEF Without
  <2> HIDE DEF memory
  <2>5. \A t \in Tids \ {m.tid} :
           settled'[t].outcome = "ok" => CleanMemory[t].outcome = "ok"
    BY <2>3, <2>4, CleanNoNewOk DEF NotSettled, Without
  <2>6. nackTimers \subseteq Tids
    BY DEF ReceiverTypeOK
  <2> QED BY <1>2, <2>1, <2>5, <2>6, CleanAccounted DEF BuffersAccounted
<1>4. ASSUME NEW m \in up, DeliverThrows(m)
      PROVE  BuffersAccounted'
  <2>1. /\ Emit(m) /\ thrown' = thrown \cup {m.tid}
        /\ nackTimers' = (nackTimers \ Expired) \cup {m.tid}
    BY <1>4 DEF DeliverThrows
  <2>2. PICK E : settled' = Without(CleanMemory, E)
    BY <1>4 DEF DeliverThrows
  <2>3. \A t \in Tids : settled'[t].outcome = "ok" => CleanMemory[t].outcome = "ok"
    BY <2>2, CleanNoNewOk
  <2>4. nackTimers \subseteq Tids
    BY DEF ReceiverTypeOK
  <2> QED BY <1>2, <2>1, <2>3, <2>4, CleanAccounted DEF BuffersAccounted
<1>5. ASSUME NEW m \in up, ReceiveError(m)
      PROVE  BuffersAccounted'
  <2>1. m.tid \in Tids
    BY <1>0, UpPacketShape
  <2> DEFINE memory == [settled EXCEPT ![m.tid] = Settled("fail")]
  <2>2. PICK E : settled' = Without(memory, E)
    BY <1>5 DEF ReceiveError
  <2>3. \A t \in Tids : memory[t].outcome = "ok" => settled[t].outcome = "ok" /\ t # m.tid
    BY <1>0 DEF Settled
  <2> HIDE DEF memory
  <2>4. \A t \in Tids : settled'[t].outcome = "ok" => settled[t].outcome = "ok"
    BY <2>2, <2>3 DEF NotSettled, Without
  <2>5. /\ \A t \in Tids \ {m.tid} : partial'[t] = partial[t]
        /\ ~partial'[m.tid].exists
    BY <1>0, <1>5, <2>1, EmptyStates DEF ReceiveError
  <2>6. nackTimers' = nackTimers \ {m.tid} /\ thrown' = thrown /\ nackTimers \subseteq Tids
    BY <1>5 DEF ReceiveError, ReceiverTypeOK
  <2>7. \A t \in Tids : settled'[t].outcome = "ok" => ~partial'[t].exists
    BY <2>4, <2>5 DEF BuffersAccounted
  <2>8. \A t \in nackTimers' \ thrown' : partial'[t].exists
    BY <2>5, <2>6 DEF BuffersAccounted
  <2> QED BY <2>7, <2>8 DEF BuffersAccounted
<1>6. ASSUME NEW t \in Tids, FireNack(t)
      PROVE  BuffersAccounted'
  BY <1>6 DEF FireNack, BuffersAccounted
<1>7. ASSUME NEW t \in Tids, PartialAges(t)
      PROVE  BuffersAccounted'
  <2>1. partial[t] \in PartialStates
    BY <1>0
  <2>2. [partial[t] EXCEPT !.stale = TRUE].exists = partial[t].exists
    BY <2>1 DEF PartialStates
  <2>3. \A u \in Tids : partial'[u].exists = partial[u].exists
    BY <1>0, <1>7, <2>2 DEF PartialAges
  <2>4. nackTimers \subseteq Tids
    BY DEF ReceiverTypeOK
  <2> QED BY <1>7, <2>3, <2>4 DEF PartialAges, BuffersAccounted
<1>8. ASSUME NEW t \in Tids, SettledLapses(t)
      PROVE  BuffersAccounted'
  <2>1. settled[t] \in SettledEntries
    BY <1>0
  <2>2. [settled[t] EXCEPT !.lapsed = TRUE].outcome = settled[t].outcome
    BY <2>1 DEF SettledEntries
  <2>3. \A u \in Tids : settled'[u].outcome = settled[u].outcome
    BY <1>0, <1>8, <2>2 DEF SettledLapses
  <2> QED BY <1>8, <2>3 DEF SettledLapses, BuffersAccounted
<1>9. ASSUME Cleanup
      PROVE  BuffersAccounted'
  <2>1. PICK E : settled' = Without(CleanMemory, E)
    BY <1>9 DEF Cleanup
  <2>2. \A t \in Tids : settled'[t].outcome = "ok" => CleanMemory[t].outcome = "ok"
    BY <2>1, CleanNoNewOk
  <2>3. nackTimers \subseteq Tids
    BY DEF ReceiverTypeOK
  <2> QED BY <1>9, <2>2, <2>3, CleanAccounted DEF Cleanup, BuffersAccounted
<1>10. ASSUME DetachReceiver
       PROVE  BuffersAccounted'
  BY <1>10, EmptyStates DEF DetachReceiver, BuffersAccounted
<1>11. \A m \in up : AbsorbDuplicate(m) => BuffersAccounted'
  BY DEF AbsorbDuplicate, receiverVars, BuffersAccounted
<1> QED
  BY <1>1, <1>3, <1>4, <1>5, <1>6, <1>7, <1>8, <1>9, <1>10, <1>11 DEF ReceiverNext

-----------------------------------------------------------------------------
(* Memory: every path that settles evicts down to the cap.                   *)

Held == {t \in Tids : partial[t].exists \/ partial[t].stale}

\* What keeps Cardinality meaningful however many tids there are: only finitely
\* many are remembered or buffered.
BoundedMemory ==
    /\ IsFiniteSet(Held)
    /\ IsFiniteSet(Remembered(settled))
    /\ MemoryBounded

\* sweepSettledMapSize: what is left fits.
LEMMA EvictionFits ==
    ASSUME NEW memory, IsFiniteSet(Remembered(memory)), NEW E \in Evictions(memory)
    PROVE  /\ Remembered(Without(memory, E)) = Remembered(memory) \ E
           /\ IsFiniteSet(Remembered(Without(memory, E)))
           /\ Cardinality(Remembered(Without(memory, E))) <= SettledMaxEntries
<1>1. E \in SUBSET Remembered(memory) /\ Cardinality(E) = Excess(memory)
  BY DEF Evictions
<1>2. Remembered(Without(memory, E)) = Remembered(memory) \ E
  BY DEF Remembered, Without, NotSettled
<1>3. Remembered(memory) \cap E = E
  BY <1>1
<1>4. /\ IsFiniteSet(Remembered(memory) \ E)
      /\ Cardinality(Remembered(memory) \ E) = Cardinality(Remembered(memory)) - Cardinality(E)
  BY <1>3, FS_Difference
<1>5. Cardinality(Remembered(memory)) \in Nat
  BY FS_CardinalityType
<1> QED BY <1>1, <1>2, <1>4, <1>5, ReceiverAssumption DEF Excess

\* The clean-up remembers more only what it expires.
LEMMA CleanFinite ==
    ASSUME ReceiverTypeOK, BoundedMemory
    PROVE  IsFiniteSet(Remembered(CleanMemory)) /\ IsFiniteSet(Expired)
<1>1. Expired \subseteq Held
  BY DEF Expired, Held
<1>2. IsFiniteSet(Expired)
  BY <1>1, FS_Subset DEF BoundedMemory
<1>3. Remembered(CleanMemory) \subseteq Remembered(settled) \cup Expired
  BY DEF Remembered, CleanMemory, NotSettled
<1>4. IsFiniteSet(Remembered(settled) \cup Expired)
  BY <1>2, FS_Union DEF BoundedMemory
<1> QED BY <1>2, <1>3, <1>4, FS_Subset

\* What remembers one tid more is still finite.
LEMMA OneMoreFinite ==
    ASSUME NEW memory, NEW more, NEW t, IsFiniteSet(Remembered(memory)),
           \A u \in Tids \ {t} : more[u].outcome # "none" => memory[u].outcome # "none"
    PROVE  IsFiniteSet(Remembered(more))
<1>1. Remembered(more) \subseteq Remembered(memory) \cup {t}
  BY DEF Remembered
<1> QED BY <1>1, FS_AddElement, FS_Subset

\* The same for the buffers.
LEMMA HeldFinite ==
    ASSUME BoundedMemory, NEW t,
           \A u \in Tids \ {t} : \/ partial'[u] = partial[u]
                                 \/ partial'[u] = CleanPartial[u]
                                 \/ partial'[u] = NoState
    PROVE  IsFiniteSet(Held')
<1>1. \A u \in Tids : CleanPartial[u].exists \/ CleanPartial[u].stale
                          => partial[u].exists \/ partial[u].stale
  BY EmptyStates DEF CleanPartial
<1>2. Held' \subseteq Held \cup {t}
  BY <1>1, EmptyStates DEF Held
<1> QED BY <1>2, FS_AddElement, FS_Subset DEF BoundedMemory

LEMMA MemoryStep ==
    ASSUME ReceiverTypeOK, BoundedMemory, ReceiverNext
    PROVE  BoundedMemory'
<1>0. /\ up \subseteq UpPackets /\ settled \in [Tids -> SettledEntries]
      /\ partial \in [Tids -> PartialStates] /\ CleanPartial \in [Tids -> PartialStates]
  BY CleanTyped DEF ReceiverTypeOK, LinkTypeOK
<1>1. ASSUME NEW memory, IsFiniteSet(Remembered(memory)), NEW E \in Evictions(memory),
             settled' = Without(memory, E), IsFiniteSet(Held')
      PROVE  BoundedMemory'
  <2>1. /\ IsFiniteSet(Remembered(Without(memory, E)))
        /\ Cardinality(Remembered(Without(memory, E))) <= SettledMaxEntries
    BY <1>1, EvictionFits
  <2>2. Remembered(settled)' = Remembered(Without(memory, E))
    BY <1>1 DEF Remembered
  <2> QED BY <1>1, <2>1, <2>2 DEF BoundedMemory, MemoryBounded
<1>2. ASSUME NEW m \in up, BufferPacket(m)
      PROVE  BoundedMemory'
  <2>1. PICK E \in Evictions(CleanMemory) : settled' = Without(CleanMemory, E)
    BY <1>2 DEF BufferPacket
  <2>2. IsFiniteSet(Held')
    BY <1>0, <1>2, HeldFinite DEF BufferPacket
  <2> QED BY <1>1, <2>1, <2>2, CleanFinite
<1>3. ASSUME NEW m \in up, Emit(m)
      PROVE  IsFiniteSet(Held')
  BY <1>0, <1>3, HeldFinite DEF Emit
<1>4. ASSUME NEW m \in up, DeliverMessage(m)
      PROVE  BoundedMemory'
  <2>1. Emit(m)
    BY <1>4 DEF DeliverMessage
  <2> DEFINE memory(E) == [Without(CleanMemory, E) EXCEPT ![m.tid] = Settled("ok")]
  <2>2. PICK E \in Evictions(CleanMemory) :
           \E F \in Evictions(memory(E)) : settled' = Without(memory(E), F)
    BY <1>4 DEF DeliverMessage
  <2>3. \A t \in Tids \ {m.tid} : memory(E)[t] = Without(CleanMemory, E)[t]
    BY DEF Without
  <2>4. IsFiniteSet(Remembered(Without(CleanMemory, E)))
    BY CleanFinite, EvictionFits
  <2> HIDE DEF memory
  <2>5. IsFiniteSet(Remembered(memory(E)))
    BY <2>3, <2>4, OneMoreFinite
  <2> QED BY <1>1, <1>3, <2>1, <2>2, <2>5
<1>5. ASSUME NEW m \in up, DeliverThrows(m)
      PROVE  BoundedMemory'
  <2>1. PICK E \in Evictions(CleanMemory) : settled' = Without(CleanMemory, E)
    BY <1>5 DEF DeliverThrows
  <2>2. Emit(m)
    BY <1>5 DEF DeliverThrows
  <2> QED BY <1>1, <1>3, <2>1, <2>2, CleanFinite
<1>6. ASSUME NEW m \in up, ReceiveError(m)
      PROVE  BoundedMemory'
  <2> DEFINE memory == [settled EXCEPT ![m.tid] = Settled("fail")]
  <2>1. PICK E \in Evictions(memory) : settled' = Without(memory, E)
    BY <1>6 DEF ReceiveError
  <2>2. \A t \in Tids \ {m.tid} : memory[t] = settled[t]
    BY <1>0
  <2>3. IsFiniteSet(Held')
    BY <1>0, <1>6, HeldFinite DEF ReceiveError
  <2> HIDE DEF memory
  <2>4. IsFiniteSet(Remembered(memory))
    BY <2>2, OneMoreFinite DEF BoundedMemory
  <2> QED BY <1>1, <2>1, <2>3, <2>4
<1>7. ASSUME NEW t \in Tids, PartialAges(t)
      PROVE  BoundedMemory'
  <2>1. IsFiniteSet(Held')
    BY <1>0, <1>7, HeldFinite DEF PartialAges
  <2> QED BY <1>7, <2>1 DEF PartialAges, BoundedMemory, MemoryBounded, Remembered
<1>8. ASSUME NEW t \in Tids, SettledLapses(t)
      PROVE  BoundedMemory'
  <2>1. [settled[t] EXCEPT !.lapsed = TRUE].outcome = settled[t].outcome
    BY <1>0 DEF SettledEntries
  <2>2. \A u \in Tids : settled'[u].outcome = settled[u].outcome
    BY <1>0, <1>8, <2>1 DEF SettledLapses
  <2>3. Remembered(settled)' = Remembered(settled)
    BY <2>2 DEF Remembered
  <2>4. Held' = Held
    BY <1>8 DEF SettledLapses, Held
  <2> QED BY <2>3, <2>4 DEF BoundedMemory, MemoryBounded
<1>9. ASSUME Cleanup
      PROVE  BoundedMemory'
  <2>1. PICK E \in Evictions(CleanMemory) : settled' = Without(CleanMemory, E)
    BY <1>9 DEF Cleanup
  <2>2. \A u \in Tids : partial'[u] = CleanPartial[u]
    BY <1>9 DEF Cleanup
  <2>3. IsFiniteSet(Held')
    BY <2>2, HeldFinite
  <2> QED BY <1>1, <2>1, <2>3, CleanFinite
<1>10. ASSUME DetachReceiver
       PROVE  BoundedMemory'
  <2>1. \A u \in Tids : partial'[u] = NoState
    BY <1>10 DEF DetachReceiver
  <2>2. IsFiniteSet(Held')
    BY <2>1, HeldFinite
  <2> QED BY <1>10, <2>2 DEF DetachReceiver, BoundedMemory, MemoryBounded, Remembered
<1>11. ASSUME UNCHANGED <<partial, settled>>
       PROVE  BoundedMemory'
  BY <1>11 DEF BoundedMemory, MemoryBounded, Remembered, Held
<1>12. /\ \A m \in up : AbsorbDuplicate(m) => UNCHANGED <<partial, settled>>
       /\ \A t \in Tids : FireNack(t) => UNCHANGED <<partial, settled>>
  BY DEF AbsorbDuplicate, FireNack, receiverVars
<1> QED
  BY <1>2, <1>4, <1>5, <1>6, <1>7, <1>8, <1>9, <1>10, <1>11, <1>12 DEF ReceiverNext

-----------------------------------------------------------------------------
(* Against an arbitrary network.                                             *)

AloneInv ==
    /\ ReceiverTypeOK
    /\ Integrity
    /\ HandedOverSettled
    /\ attached => AcksTrue
    /\ BuffersAccounted
    /\ BoundedMemory

LEMMA AloneInitially == AloneInit => AloneInv
<1> SUFFICES ASSUME AloneInit PROVE AloneInv
  OBVIOUS
<1> USE DEF AloneInit, LinkInit, ReceiverInit
<1>1. ReceiverTypeOK
  BY StatesTyped, EntryTyped DEF ReceiverTypeOK, LinkTypeOK
<1>2. Integrity
  BY CleanIntact, <1>1 DEF Integrity, IntactBuffers, DeliveredIntact, NoState
<1>3. HandedOverSettled /\ AcksTrue
  BY DEF HandedOverSettled, AcksTrue, NotSettled
<1>4. BuffersAccounted
  BY EmptyStates DEF BuffersAccounted
<1>5. Held = {} /\ Remembered(settled) = {}
  BY EmptyStates DEF Held, Remembered, NotSettled
<1>6. BoundedMemory
  BY <1>5, FS_EmptySet, ReceiverAssumption DEF BoundedMemory, MemoryBounded
<1> QED BY <1>1, <1>2, <1>3, <1>4, <1>6 DEF AloneInv

LEMMA AloneStep ==
    ASSUME AloneInv, [AloneNext]_aloneVars
    PROVE  AloneInv'
<1>1. CASE ReceiverNext
  <2>1. ReceiverTypeOK' /\ Integrity' /\ HandedOverSettled' /\ BuffersAccounted' /\ BoundedMemory'
    BY <1>1, ReceiverTyped, IntegrityStep, ExactlyStep, AccountedStep, MemoryStep DEF AloneInv
  <2>2. attached' => AcksTrue'
    BY <1>1, DeliveredGrows, AcksStep DEF AloneInv
  <2> QED BY <2>1, <2>2 DEF AloneInv
<1>2. ASSUME NEW m \in UpPackets, Arrive(m)
      PROVE  AloneInv'
  BY <1>2 DEF AloneInv, Arrive, receiverVars, ReceiverTypeOK, LinkTypeOK, Integrity,
       IntactBuffers, DeliveredIntact, Original, HandedOverSettled, AcksTrue,
       BuffersAccounted, BoundedMemory, MemoryBounded, Remembered, Held
<1>3. CASE UNCHANGED aloneVars
  BY <1>3 DEF AloneInv, aloneVars, linkVars, receiverVars, ReceiverTypeOK, LinkTypeOK,
       Integrity, IntactBuffers, DeliveredIntact, Original, HandedOverSettled, AcksTrue,
       BuffersAccounted, BoundedMemory, MemoryBounded, Remembered, Held
<1> QED BY <1>1, <1>2, <1>3 DEF AloneNext

LEMMA AloneAlways == AloneSpec => []AloneInv
<1>1. AloneInv /\ [AloneNext]_aloneVars => AloneInv'
  BY AloneStep
<1> QED BY <1>1, AloneInitially, PTL DEF AloneSpec

\* Whatever well-formed packets a network delivers, in whatever order, the
\* receiver's variables keep their types.
THEOREM AloneTyped == AloneSpec => []ReceiverTypeOK
<1>1. AloneInv => ReceiverTypeOK
  BY DEF AloneInv
<1> QED BY <1>1, AloneAlways, PTL

\* Whatever a network delivers, onMessage listeners see a message at most once
\* while the receiver remembers its tid (save one that threw on it).
THEOREM AloneOnce == AloneSpec => []AtMostOnce
<1>1. AloneInv => AtMostOnce
  BY DEF AloneInv, HandedOverSettled, AtMostOnce
<1> QED BY <1>1, AloneAlways, PTL

\* Whatever a network delivers, listeners are handed the whole original or
\* nothing: damaged and missing chunks never pass acceptChunk and assembleJSON.
THEOREM AloneIntact == AloneSpec => []DeliveredIntact
<1>1. AloneInv => DeliveredIntact
  BY DEF AloneInv, Integrity
<1> QED BY <1>1, AloneAlways, PTL

\* A receiver in service acks only what its listeners have seen: acceptPacket
\* settles and acks behind the listener loop, and repeats an ack only for a tid
\* it settled as 'ok'.
THEOREM AloneAcksTrue == AloneSpec => []AckMeansDelivered
<1>1. AloneInv => AckMeansDelivered
  BY DEF AloneInv, AcksTrue, AckMeansDelivered
<1> QED BY <1>1, AloneAlways, PTL

\* No path of acceptPacket, cleanup or detach leaves a buffer behind a delivered
\* message, or a nack timer running without a partial message.
THEOREM AloneAccounted == AloneSpec => []BuffersAccounted
<1>1. AloneInv => BuffersAccounted
  BY DEF AloneInv
<1> QED BY <1>1, AloneAlways, PTL

\* settledMaxEntries bounds the settled memory after every handler, whatever
\* number of tids the network brings.
THEOREM AloneBounded == AloneSpec => []MemoryBounded
<1>1. AloneInv => MemoryBounded
  BY DEF AloneInv, BoundedMemory
<1> QED BY <1>1, AloneAlways, PTL
=============================================================================

------------------------- MODULE TimelyTransportProof -------------------------
(***************************************************************************)
(* Proof about TimelyTransport: a single lost or damaged packet is         *)
(* repaired by a nack, without a second attempt, for every set of tids     *)
(* and chunks, every budget and every number of losses.                    *)
(***************************************************************************)
EXTENDS TimelyTransport, ReliableTransportProof

-----------------------------------------------------------------------------
(* The pieces of a message: on the wire, held by the receiver, or lacking.   *)

\* What the state of a partial message holds of the burst of t.
HeldIn(state, t) ==
    {p \in Burst(t) : \/ p.type = "manifest" /\ state.manifest
                      \/ p.type = "complete" /\ state.complete
                      \/ /\ p.type = "chunk"
                         /\ \E d \in Payloads : <<p.chunk, d>> \in state.chunks}

Lacking(t) == Burst(t) \ (up \cup HeldIn(partial[t], t))

LEMMA BurstShape ==
    ASSUME NEW t, NEW p \in Burst(t)
    PROVE  /\ p.tid = t
           /\ \/ p.type = "manifest" /\ p = Manifest(t)
              \/ p.type = "complete" /\ p = Complete(t)
              \/ p.type = "chunk" /\ p.chunk \in Chunks /\ p = Chunk(t, p.chunk, "intact")
BY DEF Burst, Manifest, Complete, Chunk

\* A burst has at least two packets.
LEMMA BurstOther ==
    ASSUME NEW t, NEW q
    PROVE  \E r \in Burst(t) : r # q /\ r.type \in {"manifest", "complete"}
<1>1. Manifest(t).type = "manifest" /\ Complete(t).type = "complete"
  BY DEF Manifest, Complete
<1>2. Manifest(t) # Complete(t)
  BY <1>1
<1> QED BY <1>1, <1>2 DEF Burst

\* Whoever holds the whole burst can assemble it.
LEMMA HeldAssembles ==
    ASSUME NEW t, NEW state, Burst(t) \subseteq HeldIn(state, t)
    PROVE  Assembled(state)
<1>1. state.manifest
  <2>1. Manifest(t) \in HeldIn(state, t) /\ Manifest(t).type = "manifest"
    BY DEF Burst, Manifest
  <2> QED BY <2>1 DEF HeldIn
<1>2. state.complete
  <2>1. Complete(t) \in HeldIn(state, t) /\ Complete(t).type = "complete"
    BY DEF Burst, Complete
  <2> QED BY <2>1 DEF HeldIn
<1>3. ASSUME NEW c \in Chunks
      PROVE  \E d \in Payloads : <<c, d>> \in state.chunks
  <2>1. Chunk(t, c, "intact") \in HeldIn(state, t)
    BY DEF Burst
  <2>2. Chunk(t, c, "intact").type = "chunk" /\ Chunk(t, c, "intact").chunk = c
    BY DEF Chunk
  <2> QED BY <2>1, <2>2 DEF HeldIn
<1> QED BY <1>1, <1>2, <1>3 DEF Assembled

\* Buffering a packet loses nothing that was held, and holds it if it was
\* undamaged.
LEMMA AcceptHolds ==
    ASSUME NEW t, NEW state \in PartialStates, NEW m \in UpPackets, m.type # "error"
    PROVE  HeldIn(state, t) \cup (Burst(t) \cap {m}) \subseteq HeldIn(Accept(state, m), t)
<1>1. m.type \in {"manifest", "complete", "chunk"}
  BY UpPacketShape
<1>2. CASE m.type = "manifest"
  <2>1. Accept(state, m) = [state EXCEPT !.manifest = TRUE]
    BY <1>2 DEF Accept
  <2>2. /\ Accept(state, m).manifest
        /\ Accept(state, m).complete = state.complete
        /\ Accept(state, m).chunks = state.chunks
    BY <2>1 DEF PartialStates
  <2> QED BY <1>2, <2>2 DEF HeldIn
<1>3. CASE m.type = "complete"
  <2>1. Accept(state, m) = [state EXCEPT !.complete = TRUE]
    BY <1>3 DEF Accept
  <2>2. /\ Accept(state, m).complete
        /\ Accept(state, m).manifest = state.manifest
        /\ Accept(state, m).chunks = state.chunks
    BY <2>1 DEF PartialStates
  <2> QED BY <1>3, <2>2 DEF HeldIn
<1>4. CASE m.type = "chunk"
  <2>1. Accept(state, m) = AddChunk(state, m)
    BY <1>4 DEF Accept
  <2>2. /\ Accept(state, m).manifest = state.manifest
        /\ Accept(state, m).complete = state.complete
        /\ state.chunks \subseteq Accept(state, m).chunks
    BY <2>1 DEF AddChunk, PartialStates
  <2>3. m.payload = "intact" => \E d \in Payloads : <<m.chunk, d>> \in Accept(state, m).chunks
    BY <2>1 DEF AddChunk, PartialStates, Payloads
  <2>4. m \in Burst(t) => m.payload = "intact"
    BY <1>4 DEF Burst, Manifest, Complete, Chunk
  <2>5. HeldIn(state, t) \subseteq HeldIn(Accept(state, m), t)
    BY <2>2 DEF HeldIn
  <2>6. Burst(t) \cap {m} \subseteq HeldIn(Accept(state, m), t)
    BY <1>4, <2>3, <2>4 DEF HeldIn
  <2> QED BY <2>5, <2>6
<1> QED BY <1>1, <1>2, <1>3, <1>4

\* Nothing is held of a message whose state is gone.
LEMMA NothingHeld ==
    ASSUME NEW t
    PROVE  HeldIn(NoState, t) = {} /\ HeldIn(FreshState, t) = {} /\ ~Assembled(NoState)
<1>1. /\ NoState.manifest = FALSE /\ NoState.complete = FALSE /\ NoState.chunks = {}
      /\ FreshState.manifest = FALSE /\ FreshState.complete = FALSE /\ FreshState.chunks = {}
  BY DEF NoState, FreshState
<1> QED BY <1>1 DEF HeldIn, Assembled

-----------------------------------------------------------------------------
(* What no step of a timely run disturbs.                                    *)

Unsettled(t) == promise[t] \in {"none", "pending"}

\* A stored state is incomplete, and of a send that is not over nothing has
\* gone stale, failed or been given up.
Sound(t) ==
    /\ ~Assembled(partial[t])
    /\ ~partial[t].exists => partial[t] = NoState
    /\ Unsettled(t) => /\ settled[t].outcome # "fail"
                       /\ ~partial[t].stale
                       /\ Error(t) \notin up

Steady == open /\ attached /\ overdue = {} /\ subscribed

Undisturbed == Steady /\ \A t \in Tids : Sound(t)

\* Every step of a timely run is one of the transport's, so that its types hold.
LEMMA TimelyIsNext ==
    ASSUME TimelyNext
    PROVE  Next
<1>1. CASE \E t \in Tids : Submit(t) /\ UNCHANGED receiverVars
  BY <1>1 DEF Next, SenderNext
<1>2. CASE \E t \in Tids : TimelyTick(t)
  BY <1>2 DEF TimelyTick, Next, SenderNext
<1>3. CASE \E t \in Tids : TimelyNack(t) \/ TimelyAge(t)
  BY <1>3 DEF TimelyNack, TimelyAge, Next, ReceiverNext
<1>4. CASE Transmission
  BY <1>4 DEF Transmission, Next, SenderNext, ReceiverNext
<1>5. CASE Losing
  BY <1>5 DEF Losing, Next, NetworkNext
<1>6. CASE TimelyCleanup
  BY <1>6 DEF TimelyCleanup, Next, ReceiverNext
<1> QED BY <1>1, <1>2, <1>3, <1>4, <1>5, <1>6 DEF TimelyNext

\* The clean-up leaves a message alone whose send is not over.
LEMMA CleanSound ==
    ASSUME Undisturbed, NEW t \in Tids
    PROVE  /\ ~Assembled(CleanPartial[t])
           /\ ~CleanPartial[t].exists => CleanPartial[t] = NoState
           /\ Unsettled(t) => /\ t \notin Expired
                              /\ CleanPartial[t] = partial[t]
                              /\ CleanMemory[t].outcome # "fail"
<1>1. Sound(t)
  BY DEF Undisturbed
<1>2. CASE t \in Expired
  <2>1. CleanPartial[t] = NoState
    BY <1>2 DEF CleanPartial
  <2>2. ~Unsettled(t)
    BY <1>1, <1>2 DEF Sound, Expired
  <2> QED BY <2>1, <2>2, NothingHeld
<1>3. CASE t \notin Expired
  <2>1. CleanPartial[t] = partial[t]
    BY <1>3 DEF CleanPartial
  <2>2. CleanMemory[t] = settled[t] \/ CleanMemory[t] = NotSettled
    BY <1>3 DEF CleanMemory
  <2> QED BY <1>1, <1>3, <2>1, <2>2 DEF Sound, NotSettled
<1> QED BY <1>2, <1>3

LEMMA NotFailed ==
    ASSUME NEW memory, NEW E, NEW t \in Tids, memory[t].outcome # "fail"
    PROVE  Without(memory, E)[t].outcome # "fail"
BY DEF Without, NotSettled

\* The types that the steps below rest on.
LEMMA TypedParts ==
    ASSUME Typed
    PROVE  /\ up \subseteq UpPackets /\ down \subseteq DownPackets
           /\ partial \in [Tids -> PartialStates]
           /\ settled \in [Tids -> SettledEntries]
           /\ promise \in [Tids -> {"none", "pending", "ok", "fail", "lost"}]
           /\ attempts \in [Tids -> 0 .. MaxAttempts]
           /\ CleanPartial \in [Tids -> PartialStates]
           /\ CleanMemory \in [Tids -> SettledEntries]
           /\ ReceiverTypeOK
BY CleanTyped DEF Typed, TypeOK, SenderTypeOK, ReceiverTypeOK, LinkTypeOK

\* The receiver's steps.
LEMMA UndisturbedReceiving ==
    ASSUME Typed, Undisturbed, NEW m \in up, UNCHANGED senderVars,
           AbsorbDuplicate(m) \/ BufferPacket(m) \/ DeliverMessage(m) \/ ReceiveError(m)
    PROVE  Undisturbed'
<1>0. /\ m \in UpPackets /\ m.tid \in Tids
      /\ UNCHANGED <<promise, overdue, subscribed>>
  BY TypedParts, UpPacketShape DEF senderVars
<1>1. up' \subseteq up /\ UNCHANGED <<open, attached>>
  BY DeliveredSubset DEF AbsorbDuplicate, BufferPacket, DeliverMessage, Emit, ReceiveError
<1>2. Steady'
  BY <1>0, <1>1 DEF Undisturbed, Steady
<1>3. ASSUME AbsorbDuplicate(m)
      PROVE  \A t \in Tids : Sound(t)'
  BY <1>0, <1>1, <1>3 DEF AbsorbDuplicate, receiverVars, Undisturbed, Sound, Unsettled, Assembled
<1>4. ASSUME BufferPacket(m), NEW t \in Tids
      PROVE  Sound(t)'
  <2>1. /\ partial' = [CleanPartial EXCEPT ![m.tid] = Accept(GetState(m.tid), m)]
        /\ ~Assembled(Accept(GetState(m.tid), m))
        /\ Accept(GetState(m.tid), m).exists
    BY <1>0, <1>4, AcceptExists, TypedParts DEF BufferPacket
  <2>2. PICK E : settled' = Without(CleanMemory, E)
    BY <1>4 DEF BufferPacket
  <2>3. Unsettled(t) => settled'[t].outcome # "fail"
    BY <2>2, CleanSound, NotFailed
  <2>4. Unsettled(t) => ~partial'[t].stale
    <3>1. CASE t # m.tid
      BY <3>1, <2>1, CleanSound, TypedParts DEF Undisturbed, Sound
    <3>2. CASE t = m.tid /\ Unsettled(t)
      <4>1. GetState(t) = partial[t] \/ GetState(t) = FreshState
        BY <3>2, CleanSound DEF GetState
      <4>2. GetState(t).stale = FALSE /\ GetState(t) \in PartialStates
        <5>1. partial[t] \in PartialStates /\ ~partial[t].stale
          BY <3>2, TypedParts DEF Undisturbed, Sound
        <5> QED BY <4>1, <5>1, EmptyStates, StatesTyped DEF PartialStates, FreshState, NoState
      <4>3. m.type \in {"manifest", "complete", "chunk"}
        BY <1>0, <1>4, UpPacketShape DEF BufferPacket
      <4>4. Accept(GetState(t), m).stale = FALSE
        BY <4>2, <4>3 DEF Accept, AddChunk, PartialStates
      <4> QED BY <2>1, <3>2, <4>4, TypedParts
    <3> QED BY <3>1, <3>2
  <2>5. ~Assembled(partial'[t])
    BY <2>1, CleanSound, TypedParts
  <2>6. ~partial'[t].exists => partial'[t] = NoState
    BY <2>1, CleanSound, TypedParts
  <2> QED BY <1>0, <1>1, <2>3, <2>4, <2>5, <2>6 DEF Undisturbed, Sound, Unsettled, Assembled
<1>5. ASSUME DeliverMessage(m), NEW t \in Tids
      PROVE  Sound(t)'
  <2>1. partial' = [CleanPartial EXCEPT ![m.tid] = NoState]
    BY <1>5 DEF DeliverMessage, Emit
  <2> DEFINE memory(E) == [Without(CleanMemory, E) EXCEPT ![m.tid] = Settled("ok")]
  <2>2. PICK E : \E F : settled' = Without(memory(E), F)
    BY <1>5 DEF DeliverMessage
  <2>3. PICK F : settled' = Without(memory(E), F)
    BY <2>2
  <2>4. Unsettled(t) => memory(E)[t].outcome # "fail"
    BY <1>0, CleanSound, NotFailed DEF Settled, Without
  <2> HIDE DEF memory
  <2>5. Unsettled(t) => settled'[t].outcome # "fail"
    BY <2>3, <2>4, NotFailed
  <2>6. partial'[t] = CleanPartial[t] \/ partial'[t] = NoState
    BY <2>1, TypedParts
  <2>7. /\ ~Assembled(partial'[t])
        /\ ~partial'[t].exists => partial'[t] = NoState
    BY <2>6, CleanSound, NothingHeld
  <2>8. Unsettled(t) => ~partial'[t].stale
    BY <2>6, CleanSound, EmptyStates DEF Undisturbed, Sound
  <2> QED BY <1>0, <1>1, <2>5, <2>7, <2>8 DEF Undisturbed, Sound, Unsettled, Assembled
<1>6. ASSUME ReceiveError(m), NEW t \in Tids
      PROVE  Sound(t)'
  <2>1. m = Error(m.tid)
    BY <1>0, <1>6 DEF ReceiveError, UpPackets, DataPackets, Manifest, Complete, Chunk, Error
  <2>2. ~Unsettled(m.tid)
    BY <1>0, <2>1 DEF Undisturbed, Sound
  <2> DEFINE memory == [settled EXCEPT ![m.tid] = Settled("fail")]
  <2>3. PICK E : settled' = Without(memory, E)
    BY <1>6 DEF ReceiveError
  <2>4. Unsettled(t) => memory[t].outcome # "fail"
    BY <2>2, TypedParts DEF Undisturbed, Sound
  <2> HIDE DEF memory
  <2>5. Unsettled(t) => settled'[t].outcome # "fail"
    BY <2>3, <2>4, NotFailed
  <2>6. partial'[t] = partial[t] \/ partial'[t] = NoState
    BY <1>6, TypedParts DEF ReceiveError
  <2>7. /\ ~Assembled(partial'[t])
        /\ ~partial'[t].exists => partial'[t] = NoState
    BY <2>6, NothingHeld DEF Undisturbed, Sound
  <2>8. Unsettled(t) => ~partial'[t].stale
    BY <2>6, EmptyStates DEF Undisturbed, Sound
  <2> QED BY <1>0, <1>1, <2>5, <2>7, <2>8 DEF Undisturbed, Sound, Unsettled, Assembled
<1> QED BY <1>2, <1>3, <1>4, <1>5, <1>6 DEF Undisturbed

LEMMA UndisturbedTimers ==
    ASSUME Typed, Undisturbed,
           TimelyCleanup \/ \E t \in Tids : TimelyNack(t) \/ TimelyAge(t)
    PROVE  Undisturbed'
<1>0. /\ UNCHANGED <<promise, overdue, subscribed>>
      /\ UNCHANGED <<up, open, attached>>
  BY DEF TimelyCleanup, TimelyNack, TimelyAge, Cleanup, FireNack, PartialAges, linkVars, senderVars
<1>1. Steady'
  BY <1>0 DEF Undisturbed, Steady
<1>2. ASSUME TimelyCleanup, NEW t \in Tids
      PROVE  Sound(t)'
  <2>1. partial' = CleanPartial
    BY <1>2 DEF TimelyCleanup, Cleanup
  <2>2. PICK E : settled' = Without(CleanMemory, E)
    BY <1>2 DEF TimelyCleanup, Cleanup
  <2>3. Unsettled(t) => settled'[t].outcome # "fail"
    BY <2>2, CleanSound, NotFailed
  <2>4. Unsettled(t) => ~partial'[t].stale
    BY <2>1, CleanSound DEF Undisturbed, Sound
  <2>5. /\ ~Assembled(partial'[t])
        /\ ~partial'[t].exists => partial'[t] = NoState
    BY <2>1, CleanSound
  <2> QED BY <1>0, <2>3, <2>4, <2>5 DEF Undisturbed, Sound, Unsettled, Assembled
<1>3. ASSUME NEW u \in Tids, TimelyNack(u)
      PROVE  \A t \in Tids : Sound(t)'
  BY <1>0, <1>3 DEF TimelyNack, FireNack, Undisturbed, Sound, Unsettled, Assembled
<1>4. ASSUME NEW u \in Tids, TimelyAge(u), NEW t \in Tids
      PROVE  Sound(t)'
  <2>1. /\ partial' = [partial EXCEPT ![u].stale = TRUE] /\ partial[u].exists
        /\ UNCHANGED settled /\ ~Unsettled(u)
    BY <1>4 DEF TimelyAge, PartialAges, Unsettled
  <2>2. CASE t # u
    <3>1. partial'[t] = partial[t]
      BY <2>1, <2>2, TypedParts
    <3> QED BY <1>0, <2>1, <3>1 DEF Undisturbed, Sound, Unsettled, Assembled
  <2>3. CASE t = u
    <3>1. partial[t] \in PartialStates
      BY TypedParts
    <3>2. /\ partial'[t].exists = partial[t].exists
          /\ partial'[t].manifest = partial[t].manifest
          /\ partial'[t].complete = partial[t].complete
          /\ partial'[t].chunks = partial[t].chunks
      BY <2>1, <2>3, <3>1, TypedParts DEF PartialStates
    <3>3. ~Assembled(partial'[t])
      BY <3>2 DEF Undisturbed, Sound, Assembled
    <3> QED BY <1>0, <2>1, <2>3, <3>2, <3>3 DEF Undisturbed, Sound, Unsettled, Assembled
  <2> QED BY <2>2, <2>3
<1> QED BY <1>1, <1>2, <1>3, <1>4 DEF Undisturbed

\* On an open network and before the deadline, an attempt puts a whole burst on
\* the wire.
LEMMA TimelyAttempt ==
    ASSUME Typed, Undisturbed, NEW t \in Tids, AttemptSend(t)
    PROVE  /\ attempts' = [attempts EXCEPT ![t] = @ + 1]
           /\ \A u \in Tids \ {t} : promise'[u] = promise[u]
           /\ promise'[t] \in {"pending", "fail", "lost"}
           /\ up \cup Burst(t) \subseteq up'
           /\ \A m \in up' \ up : m.tid = t
           /\ \A u \in Tids : Unsettled(u)' /\ Error(u) \in up' => Error(u) \in up
<1>1. open /\ attached /\ t \notin overdue
  BY DEF Undisturbed, Steady
<1>2. \A P : Sent(P) = up \cup P
  BY <1>1 DEF Sent
<1>3. /\ attempts' = [attempts EXCEPT ![t] = @ + 1]
      /\ \/ /\ promise' = [promise EXCEPT ![t] = "pending"]
            /\ up' = up \cup Burst(t)
         \/ /\ \E end \in {"fail", "lost"} : promise' = [promise EXCEPT ![t] = end]
            /\ up' = up \cup (Burst(t) \cup {Error(t)})
  BY <1>1, <1>2 DEF AttemptSend, PastDeadline, WaitForNetwork, SendBurst, SendLastBurst, GivenUp
<1>4. promise'[t] \in {"pending", "fail", "lost"} /\ \A u \in Tids \ {t} : promise'[u] = promise[u]
  BY <1>3, TypedParts
<1>5. Error(t).tid = t /\ \A u : Error(u).tid = u /\ Error(u) \notin Burst(t)
  BY DEF Error, Burst, Manifest, Complete, Chunk
<1>6. \A m \in up' \ up : m.tid = t
  BY <1>3, <1>5, BurstShape
<1>7. ASSUME NEW u \in Tids, Unsettled(u)', Error(u) \in up'
      PROVE  Error(u) \in up
  <2>1. CASE up' = up \cup Burst(t)
    BY <1>5, <1>7, <2>1
  <2>2. CASE /\ \E end \in {"fail", "lost"} : promise' = [promise EXCEPT ![t] = end]
             /\ up' = up \cup (Burst(t) \cup {Error(t)})
    <3>1. u # t
      BY <1>7, <2>2, TypedParts DEF Unsettled
    <3> QED BY <1>5, <1>7, <2>2, <3>1
  <2> QED BY <1>3, <2>1, <2>2
<1> QED BY <1>3, <1>4, <1>6, <1>7

LEMMA UndisturbedAttempt ==
    ASSUME Typed, Undisturbed, NEW t \in Tids, Submit(t) \/ ResendTick(t), UNCHANGED receiverVars
    PROVE  Undisturbed'
<1>1. /\ AttemptSend(t) /\ Unsettled(t)
      /\ UNCHANGED <<open, attached, overdue, subscribed, settled, partial>>
  BY DEF Submit, ResendTick, receiverVars, Unsettled
<1>2. \A u \in Tids : Unsettled(u)' => Unsettled(u)
  BY <1>1, TimelyAttempt DEF Unsettled
<1>3. \A u \in Tids : Unsettled(u)' /\ Error(u) \in up' => Error(u) \in up
  BY <1>1, TimelyAttempt
<1> QED BY <1>1, <1>2, <1>3 DEF Undisturbed, Steady, Sound, Assembled

\* What a nack asks for are packets of its message, none of them an error.
LEMMA RequestedShape ==
    ASSUME NEW n, NEW m \in Requested(n)
    PROVE  m.tid = n.tid /\ \A u : m # Error(u)
BY DEF Requested, Manifest, Chunk, Complete, Error

LEMMA UndisturbedAnswers ==
    ASSUME Typed, Undisturbed, NEW n \in down, HandleAck(n) \/ HandleNack(n), UNCHANGED receiverVars
    PROVE  Undisturbed'
<1>1. UNCHANGED <<open, attached, overdue, subscribed, settled, partial>>
  BY DEF HandleAck, HandleNack, senderVars, receiverVars
<1>2. \A u \in Tids : Unsettled(u)' => Unsettled(u)
  BY TypedParts DEF HandleAck, HandleNack, senderVars, Unsettled
<1>3. \A u \in Tids : Error(u) \in up' => Error(u) \in up
  <2>1. up' \subseteq up \cup Requested(n)
    BY DEF HandleAck, HandleNack, Sent
  <2> QED BY <2>1, RequestedShape
<1> QED BY <1>1, <1>2, <1>3 DEF Undisturbed, Steady, Sound, Assembled

\* A packet that is damaged is one of a chunk and stays one of its message.
LEMMA DamageShape ==
    ASSUME Typed, NEW m \in up, Damage(m)
    PROVE  /\ up' = (up \ {m}) \cup {[m EXCEPT !.payload = "damaged"]}
           /\ [m EXCEPT !.payload = "damaged"].tid = m.tid
           /\ \A u : [m EXCEPT !.payload = "damaged"] # Error(u)
<1>1. m \in UpPackets /\ m.type = "chunk"
  BY TypedParts DEF Damage
<1>2. PICK t \in Tids, c \in Chunks, d \in Payloads : m = Chunk(t, c, d)
  BY <1>1 DEF UpPackets, DataPackets, Manifest, Complete, Error
<1>3. [m EXCEPT !.payload = "damaged"] = Chunk(t, c, "damaged")
  BY <1>2 DEF Chunk
<1> QED BY <1>2, <1>3 DEF Damage, Chunk, Error

LEMMA UndisturbedLosing ==
    ASSUME Typed, Undisturbed, Losing
    PROVE  Undisturbed'
<1>1. UNCHANGED <<open, attached, promise, overdue, subscribed, settled, partial>>
  BY DEF Losing, LoseUp, LoseDown, Damage, senderVars, receiverVars
<1>2. \A u \in Tids : Error(u) \in up' => Error(u) \in up
  BY DamageShape DEF Losing, LoseUp, LoseDown
<1> QED BY <1>1, <1>2 DEF Undisturbed, Steady, Sound, Assembled, Unsettled

LEMMA UndisturbedStep ==
    ASSUME Typed, Undisturbed, [TimelyNext]_timelyVars
    PROVE  Undisturbed'
<1>1. CASE \E t \in Tids : Submit(t) /\ UNCHANGED receiverVars
  BY <1>1, UndisturbedAttempt
<1>2. CASE \E t \in Tids : TimelyTick(t)
  BY <1>2, UndisturbedAttempt DEF TimelyTick
<1>3. CASE \E t \in Tids : TimelyNack(t) \/ TimelyAge(t)
  BY <1>3, UndisturbedTimers
<1>4. CASE Transmission
  BY <1>4, UndisturbedReceiving, UndisturbedAnswers DEF Transmission
<1>5. CASE Losing
  BY <1>5, UndisturbedLosing
<1>6. CASE TimelyCleanup
  BY <1>6, UndisturbedTimers
<1>7. CASE UNCHANGED timelyVars
  BY <1>7 DEF timelyVars, vars, linkVars, senderVars, receiverVars, Undisturbed, Steady, Sound,
              Unsettled, Assembled
<1> QED BY <1>1, <1>2, <1>3, <1>4, <1>5, <1>6, <1>7 DEF TimelyNext

-----------------------------------------------------------------------------
(* What a send that has spent one attempt more than answers were lost can    *)
(* still count on.                                                           *)

\* While no packet is lost: the ack, or the burst, or all its pieces with the
\* timer that runs since the first of them came.
NothingLost(t) ==
    \/ Ack(t) \in down
    \/ Burst(t) \subseteq up
    \/ Lacking(t) = {} /\ t \in nackTimers

\* Once one is lost: at most one piece lacks, and it is asked for already, or
\* will be when the timer runs out, or when a packet on its way sets the timer.
UnderRepair(t) ==
    \/ Ack(t) \in down
    \/ Lacking(t) = {}
    \/ \E q \in Burst(t) :
          /\ Lacking(t) \subseteq {q}
          /\ \/ t \in nackTimers
             \/ \E m \in up : m.tid = t
             \/ \E n \in down : n.type = "nack" /\ n.tid = t /\ q \in Requested(n)

\* attempts[t] counts the first attempt and one for each answer lost; a send that
\* has used them all up has something on its way.
Repairing(t) ==
    /\ promise[t] = "none" => attempts[t] = 0
    /\ lostUp <= 1 => attempts[t] <= 1 + lostDown
    /\ promise[t] = "pending" /\ attempts[t] > lostDown =>
          /\ lostUp = 0 => NothingLost(t)
          /\ lostUp = 1 => UnderRepair(t)

\* The strengthening of NackRepairs that every step keeps.
RepairInv == Undisturbed /\ \A t \in Tids : Repairing(t)

LossesCounted == lostUp \in Nat /\ lostDown \in Nat

\* A step that counts nothing and keeps what t can count on.
LEMMA KeepsRepairing ==
    ASSUME NEW t \in Tids, Repairing(t), UNCHANGED <<attempts, lostUp, lostDown>>,
           promise'[t] \in {"none", "pending"} => promise'[t] = promise[t],
           NothingLost(t) => NothingLost(t)' \/ promise'[t] # "pending",
           UnderRepair(t) => UnderRepair(t)' \/ promise'[t] # "pending"
    PROVE  Repairing(t)'
<1>1. attempts'[t] = attempts[t]
  OBVIOUS
<1> QED BY <1>1 DEF Repairing

\* More packets of t, no piece given up: what t can count on remains.
LEMMA MorePackets ==
    ASSUME NEW t \in Tids,
           t \in nackTimers => t \in nackTimers',
           HeldIn(partial[t], t) \subseteq HeldIn(partial[t], t)',
           \A m \in up : m.tid = t => m \in up',
           \A n \in down : n.tid = t => n \in down'
    PROVE  /\ NothingLost(t) => NothingLost(t)'
           /\ UnderRepair(t) => UnderRepair(t)'
<1>1. Lacking(t)' \subseteq Lacking(t)
  BY BurstShape DEF Lacking
<1>2. Ack(t) \in down => Ack(t) \in down'
  BY DEF Ack
<1>3. Burst(t) \subseteq up => Burst(t) \subseteq up'
  BY BurstShape
<1> QED BY <1>1, <1>2, <1>3 DEF NothingLost, UnderRepair

\* With no packet of t on its way to the receiver, something lacks: a complete
\* message would have been assembled.
LEMMA SomethingLacks ==
    ASSUME Undisturbed, NEW t \in Tids, \A m \in up : m.tid # t
    PROVE  Lacking(t) # {} /\ ~(Burst(t) \subseteq up)
<1>1. \A p \in Burst(t) : p \notin up
  BY BurstShape
<1>2. Lacking(t) # {}
  <2>1. ~Assembled(partial[t])
    BY DEF Undisturbed, Sound
  <2>2. ~(Burst(t) \subseteq HeldIn(partial[t], t))
    BY <2>1, HeldAssembles
  <2> QED BY <1>1, <2>2 DEF Lacking
<1> QED BY <1>1, <1>2, BurstOther

-----------------------------------------------------------------------------
(* The receiver's steps.                                                     *)

\* A packet of another message changes nothing of t.
LEMMA RepairingOther ==
    ASSUME Typed, Undisturbed, NEW m \in up, NEW t \in Tids, t # m.tid, Unsettled(t),
           AbsorbDuplicate(m) \/ BufferPacket(m) \/ DeliverMessage(m) \/ ReceiveError(m)
    PROVE  /\ NothingLost(t) => NothingLost(t)'
           /\ UnderRepair(t) => UnderRepair(t)'
<1>1. \A p \in up : p.tid = t => p \in up'
  BY DEF AbsorbDuplicate, BufferPacket, DeliverMessage, Emit, ReceiveError, Delivered
<1>2. down \subseteq down'
  BY DEF AbsorbDuplicate, BufferPacket, DeliverMessage, Emit, ReceiveError
<1>3. t \notin Expired /\ CleanPartial[t] = partial[t]
  BY CleanSound
<1>4. t \in nackTimers => t \in nackTimers'
  BY <1>3 DEF AbsorbDuplicate, BufferPacket, DeliverMessage, ReceiveError, receiverVars
<1>5. partial'[t] = partial[t]
  BY <1>3, TypedParts DEF AbsorbDuplicate, BufferPacket, DeliverMessage, Emit, ReceiveError, receiverVars
<1>6. HeldIn(partial[t], t)' = HeldIn(partial[t], t)
  BY <1>5 DEF HeldIn
<1> QED BY <1>1, <1>2, <1>4, <1>6, MorePackets

\* A packet of t itself: answered with an ack, or buffered with the timer set.
LEMMA RepairingReceived ==
    ASSUME Typed, Undisturbed, NEW m \in up, m.tid \in Tids, Unsettled(m.tid),
           AbsorbDuplicate(m) \/ BufferPacket(m) \/ DeliverMessage(m) \/ ReceiveError(m)
    PROVE  /\ NothingLost(m.tid) => NothingLost(m.tid)'
           /\ UnderRepair(m.tid) => UnderRepair(m.tid)'
<1> DEFINE t == m.tid
<1>0. m \in UpPackets /\ t \in Tids
  BY TypedParts
<1>1. CASE AbsorbDuplicate(m)
  <2>1. settled[t].outcome = "ok"
    <3>1. settled[t].outcome \in {"none", "ok", "fail"}
      BY <1>0, TypedParts DEF SettledEntries, Outcomes
    <3> QED BY <1>1, <3>1 DEF AbsorbDuplicate, Undisturbed, Sound
  <2>2. Ack(t) \in down'
    BY <1>1, <2>1 DEF AbsorbDuplicate
  <2>3. Ack(t)' = Ack(t)
    BY DEF Ack
  <2> QED BY <2>2, <2>3 DEF NothingLost, UnderRepair
<1>2. CASE DeliverMessage(m)
  <2>1. Ack(t) \in down'
    BY <1>2 DEF DeliverMessage
  <2> QED BY <2>1 DEF NothingLost, UnderRepair
<1>3. CASE ReceiveError(m)
  <2>1. m = Error(t)
    BY <1>0, <1>3 DEF ReceiveError, UpPackets, DataPackets, Manifest, Complete, Chunk, Error
  <2> QED BY <2>1 DEF Undisturbed, Sound
<1>4. CASE BufferPacket(m)
  <2>1. /\ partial' = [CleanPartial EXCEPT ![t] = Accept(GetState(t), m)]
        /\ t \in nackTimers' /\ down' = down /\ up \ {m} \subseteq up'
        /\ m.type # "error"
    BY <1>4 DEF BufferPacket, Delivered
  <2>2. partial'[t] = Accept(GetState(t), m)
    BY <2>1, TypedParts
  <2>3. GetState(t) \in PartialStates
    BY GetStateTyped, TypedParts
  <2>4. HeldIn(partial[t], t) \subseteq HeldIn(GetState(t), t)
    <3>1. CleanPartial[t] = partial[t]
      BY CleanSound
    <3>2. CASE partial[t].exists
      BY <3>1, <3>2 DEF GetState
    <3>3. CASE ~partial[t].exists
      BY <3>3, NothingHeld DEF Undisturbed, Sound
    <3> QED BY <3>2, <3>3
  <2>5. HeldIn(partial[t], t) \cup (Burst(t) \cap {m}) \subseteq HeldIn(partial'[t], t)
    BY <1>0, <2>1, <2>2, <2>3, <2>4, AcceptHolds
  <2>6. Burst(t) \ (up' \cup HeldIn(partial'[t], t)) \subseteq Lacking(t)
    BY <2>1, <2>5 DEF Lacking
  <2>7. Lacking(t)' = Burst(t) \ (up' \cup HeldIn(partial'[t], t))
    BY DEF Lacking, HeldIn
  <2>8. NothingLost(t) => Lacking(t) = {} \/ Ack(t) \in down
    BY DEF NothingLost, Lacking
  <2> QED BY <2>1, <2>6, <2>7, <2>8 DEF NothingLost, UnderRepair
<1> QED BY <1>1, <1>2, <1>3, <1>4

\* A nack asks for the one piece that lacks.
LEMMA NackAsks ==
    ASSUME Typed, NEW t \in Tids, NEW q \in Burst(t),
           Burst(t) \ {q} \subseteq HeldIn(partial[t], t),
           q \notin HeldIn(partial[t], t)
    PROVE  q \in Requested(NackFor(t))
<1> DEFINE missing == {c \in Chunks : \A d \in Payloads : <<c, d>> \notin partial[t].chunks}
<1>1. partial[t] \in PartialStates
  BY TypedParts
<1>2. /\ Manifest(t).type = "manifest" /\ Complete(t).type = "complete"
      /\ \A c : Chunk(t, c, "intact").type = "chunk" /\ Chunk(t, c, "intact").chunk = c
  BY DEF Manifest, Complete, Chunk
<1>3. CASE ~partial[t].manifest
  <2>1. Manifest(t) \in Burst(t) /\ Manifest(t) \notin HeldIn(partial[t], t)
    BY <1>2, <1>3 DEF Burst, HeldIn
  <2>2. q = Manifest(t)
    BY <2>1
  <2>3. NackFor(t) = Nack(t, TRUE, {}, FALSE)
    BY <1>3 DEF NackFor
  <2>4. NackFor(t).manifest /\ NackFor(t).tid = t
    BY <2>3 DEF Nack
  <2> QED BY <2>2, <2>4 DEF Requested
<1>4. CASE partial[t].manifest
  <2>1. NackFor(t) = Nack(t, FALSE, missing, ~partial[t].complete)
    BY <1>4 DEF NackFor
  <2>2. NackFor(t).missing = missing /\ NackFor(t).tid = t
    BY <2>1 DEF Nack
  <2>3. NackFor(t).complete = ~partial[t].complete
    BY <2>1 DEF Nack
  <2>4. CASE q = Manifest(t)
    BY <1>2, <1>4, <2>4 DEF HeldIn
  <2>5. CASE q = Complete(t)
    <3>1. ~partial[t].complete
      BY <1>2, <2>5 DEF HeldIn
    <3>2. NackFor(t).complete
      BY <2>3, <3>1
    <3> QED BY <2>2, <2>5, <3>2 DEF Requested
  <2>6. ASSUME NEW c \in Chunks, q = Chunk(t, c, "intact")
        PROVE  q \in Requested(NackFor(t))
    <3>1. \A d \in Payloads : <<c, d>> \notin partial[t].chunks
      BY <1>2, <2>6 DEF HeldIn
    <3> QED BY <2>2, <2>6, <3>1 DEF Requested
  <2> QED BY <2>4, <2>5, <2>6 DEF Burst
<1> QED BY <1>3, <1>4

\* The debounce runs out: whatever t counted on the timer for, it now counts on
\* the nack for.
LEMMA RepairingNack ==
    ASSUME Typed, Undisturbed, NEW u \in Tids, TimelyNack(u), NEW t \in Tids
    PROVE  /\ NothingLost(t) => NothingLost(t)'
           /\ UnderRepair(t) => UnderRepair(t)'
<1>1. /\ UNCHANGED <<up, partial>> /\ nackTimers' = nackTimers \ {u}
      /\ down \subseteq down' /\ \A m \in up : m.tid # u
  BY DEF TimelyNack, FireNack
<1>2. HeldIn(partial[t], t)' = HeldIn(partial[t], t) /\ Lacking(t)' = Lacking(t)
  BY <1>1 DEF HeldIn, Lacking
<1>3. CASE t # u
  BY <1>1, <1>2, <1>3, MorePackets
<1>4. CASE t = u
  <2>1. Lacking(t) # {} /\ ~(Burst(t) \subseteq up)
    BY <1>1, <1>4, SomethingLacks
  <2>2. NothingLost(t) => NothingLost(t)'
    BY <1>1, <2>1 DEF NothingLost
  <2>3. ASSUME NEW q \in Burst(t), Lacking(t) \subseteq {q}
        PROVE  UnderRepair(t)'
    <3>1. Burst(t) \cap up = {}
      BY <1>1, <1>4, BurstShape
    <3>2. Burst(t) \ {q} \subseteq HeldIn(partial[t], t) /\ q \notin HeldIn(partial[t], t)
      BY <2>1, <2>3, <3>1 DEF Lacking
    <3>3. q \in Requested(NackFor(t))
      BY <3>2, NackAsks
    <3>4. partial[t].exists
      <4>1. HeldIn(partial[t], t) # {}
        BY <3>2, BurstOther
      <4> QED BY <4>1, NothingHeld DEF Undisturbed, Sound
    <3>5. NackFor(t) \in down'
      BY <1>4, <3>4 DEF TimelyNack, FireNack
    <3>6. NackFor(t).type = "nack" /\ NackFor(t).tid = t
      BY DEF NackFor, Nack
    <3>7. \E n \in down' : n.type = "nack" /\ n.tid = t /\ q \in Requested(n)
      BY <3>3, <3>5, <3>6
    <3> QED BY <1>2, <2>3, <3>7 DEF UnderRepair, Requested
  <2>4. UnderRepair(t) => UnderRepair(t)'
    BY <1>1, <2>1, <2>3 DEF UnderRepair
  <2> QED BY <2>2, <2>4
<1> QED BY <1>3, <1>4

\* The clean-up, and the ageing of a message that is over.
LEMMA RepairingQuiet ==
    ASSUME Typed, Undisturbed, TimelyCleanup \/ \E u \in Tids : TimelyAge(u),
           NEW t \in Tids, Unsettled(t)
    PROVE  /\ NothingLost(t) => NothingLost(t)'
           /\ UnderRepair(t) => UnderRepair(t)'
<1>1. UNCHANGED <<up, down>>
  BY DEF TimelyCleanup, Cleanup, TimelyAge, PartialAges, linkVars
<1>2. t \notin Expired /\ CleanPartial[t] = partial[t]
  BY CleanSound
<1>3. t \in nackTimers => t \in nackTimers'
  BY <1>2 DEF TimelyCleanup, Cleanup, TimelyAge, PartialAges
<1>4. partial'[t] = partial[t]
  BY <1>2, TypedParts DEF TimelyCleanup, Cleanup, TimelyAge, PartialAges, Unsettled
<1>5. HeldIn(partial[t], t)' = HeldIn(partial[t], t)
  BY <1>4 DEF HeldIn
<1> QED BY <1>1, <1>3, <1>5, MorePackets

-----------------------------------------------------------------------------
(* The sender's steps.                                                       *)

\* An ack ends the send it is for; a nack is answered with what it asks for.
LEMMA RepairingAnswers ==
    ASSUME Typed, Undisturbed, NEW n \in down, HandleAck(n) \/ HandleNack(n),
           UNCHANGED receiverVars, NEW t \in Tids, promise[t] = "pending"
    PROVE  /\ NothingLost(t) => NothingLost(t)' \/ promise'[t] # "pending"
           /\ UnderRepair(t) => UnderRepair(t)' \/ promise'[t] # "pending"
<1>1. UNCHANGED <<partial, nackTimers>>
  BY DEF receiverVars
<1>2. HeldIn(partial[t], t)' = HeldIn(partial[t], t)
  BY <1>1 DEF HeldIn
<1>3. up \subseteq up' /\ down \ {n} \subseteq down'
  BY DEF HandleAck, HandleNack, Sent, Delivered
<1>4. CASE n.tid # t
  BY <1>1, <1>2, <1>3, <1>4, MorePackets
<1>5. CASE n.tid = t /\ HandleAck(n)
  <2>1. promise'[t] = "ok"
    BY <1>5, TypedParts DEF HandleAck
  <2> QED BY <2>1
<1>6. CASE n.tid = t /\ HandleNack(n)
  <2>1. n.type = "nack" /\ up' = up \cup Requested(n)
    BY <1>6 DEF HandleNack, Sent, Undisturbed, Steady
  <2>2. n # Ack(t)
    BY <2>1 DEF Ack
  <2>3. Ack(t) \in down => Ack(t) \in down'
    BY <1>3, <2>2
  <2>4. Lacking(t)' \subseteq Lacking(t) \ Requested(n)
    BY <1>2, <2>1 DEF Lacking
  <2>5. NothingLost(t) => NothingLost(t)'
    BY <1>1, <1>3, <2>3, <2>4 DEF NothingLost
  <2>6. ASSUME NEW q \in Burst(t), Lacking(t) \subseteq {q},
               \/ t \in nackTimers
               \/ \E m \in up : m.tid = t
               \/ \E k \in down : k.type = "nack" /\ k.tid = t /\ q \in Requested(k)
        PROVE  UnderRepair(t)'
    <3>1. CASE q \in Requested(n)
      <4>1. Lacking(t)' = {}
        BY <2>4, <2>6, <3>1
      <4> QED BY <4>1 DEF UnderRepair
    <3>2. CASE q \notin Requested(n)
      <4>1. Lacking(t)' \subseteq {q}
        BY <2>4, <2>6
      <4>2. \/ t \in nackTimers'
            \/ \E m \in up' : m.tid = t
            \/ \E k \in down' : k.type = "nack" /\ k.tid = t /\ q \in Requested(k)
        BY <1>1, <1>3, <2>6, <3>2
      <4> QED BY <4>1, <4>2 DEF UnderRepair, Requested
    <3> QED BY <3>1, <3>2
  <2>7. UnderRepair(t) => UnderRepair(t)'
    <3>1. Ack(t) \in down => UnderRepair(t)'
      BY <2>3 DEF UnderRepair
    <3>2. Lacking(t) = {} => UnderRepair(t)'
      BY <2>4 DEF UnderRepair
    <3> QED BY <2>6, <3>1, <3>2 DEF UnderRepair
  <2> QED BY <2>5, <2>7
<1> QED BY <1>4, <1>5, <1>6

\* The interval ticks only when nothing of the message is under way any more:
\* then an answer must have been lost for every attempt.
LEMMA TickOwed ==
    ASSUME Undisturbed, NEW t \in Tids, Repairing(t), promise[t] = "pending",
           attempts[t] \in Nat, LossesCounted,
           InFlight(t) = {}, t \notin nackTimers
    PROVE  lostUp <= 1 => attempts[t] <= lostDown
<1>1. (\A m \in up : m.tid # t) /\ (\A n \in down : n.tid # t)
  BY DEF InFlight
<1>2. Ack(t).tid = t
  BY DEF Ack
<1>3. ~NothingLost(t) /\ ~UnderRepair(t)
  BY <1>1, <1>2, SomethingLacks DEF NothingLost, UnderRepair
<1> QED BY <1>3 DEF Repairing, LossesCounted

\* An attempt puts everything on the wire anew.
LEMMA RepairingAttempt ==
    ASSUME Typed, Undisturbed, LossesCounted, NEW u \in Tids, AttemptSend(u), Unsettled(u),
           UNCHANGED <<down, receiverVars, lostUp, lostDown>>,
           lostUp <= 1 => attempts[u] <= lostDown,
           \A t \in Tids : Repairing(t)
    PROVE  \A t \in Tids : Repairing(t)'
<1> SUFFICES ASSUME NEW t \in Tids PROVE Repairing(t)'
  OBVIOUS
<1>0. /\ attempts \in [Tids -> 0 .. MaxAttempts] /\ MaxAttempts \in Nat
      /\ attempts[u] \in Nat
  BY TypedParts, SenderAssumption
<1>1. /\ attempts' = [attempts EXCEPT ![u] = @ + 1]
      /\ \A v \in Tids \ {u} : promise'[v] = promise[v]
      /\ promise'[u] \in {"pending", "fail", "lost"}
      /\ up \cup Burst(u) \subseteq up'
  BY TimelyAttempt
<1>2. UNCHANGED <<partial, nackTimers>>
  BY DEF receiverVars
<1>3. HeldIn(partial[t], t)' = HeldIn(partial[t], t)
  BY <1>2 DEF HeldIn
<1>4. CASE t # u
  <2>1. promise'[t] = promise[t] /\ attempts'[t] = attempts[t]
    BY <1>0, <1>1, <1>4
  <2>2. /\ NothingLost(t) => NothingLost(t)'
        /\ UnderRepair(t) => UnderRepair(t)'
    BY <1>1, <1>2, <1>3, MorePackets
  <2> QED BY <2>1, <2>2 DEF Repairing
<1>5. CASE t = u
  <2>1. attempts'[t] = attempts[t] + 1 /\ promise'[t] # "none"
    BY <1>0, <1>1, <1>5
  <2>2. Burst(t)' \subseteq up'
    BY <1>1, <1>5 DEF Burst, Manifest, Complete, Chunk
  <2>3. NothingLost(t)' /\ UnderRepair(t)'
    BY <2>2 DEF NothingLost, UnderRepair, Lacking
  <2>4. lostUp' <= 1 => attempts'[t] <= 1 + lostDown'
    BY <1>0, <1>5, <2>1 DEF LossesCounted
  <2> QED BY <2>1, <2>3, <2>4 DEF Repairing
<1> QED BY <1>4, <1>5

-----------------------------------------------------------------------------
(* The network's losses.                                                     *)

\* The first packet lost leaves at most one piece lacking, and either the timer
\* that runs already or another packet of the burst to set it.
LEMMA FirstLoss ==
    ASSUME Typed, NEW m \in up, LoseUp(m) \/ Damage(m), UNCHANGED receiverVars,
           NEW t \in Tids, NothingLost(t)
    PROVE  UnderRepair(t)'
<1>1. up \ {m} \subseteq up' /\ UNCHANGED <<down, partial, nackTimers>>
  BY DEF LoseUp, Damage, receiverVars
<1>2. Lacking(t)' \subseteq Lacking(t) \cup {m}
  <2>1. HeldIn(partial[t], t)' = HeldIn(partial[t], t)
    BY <1>1 DEF HeldIn
  <2> QED BY <1>1, <2>1 DEF Lacking
<1>3. CASE Ack(t) \in down
  BY <1>1, <1>3 DEF UnderRepair
<1>4. CASE Lacking(t) = {} /\ (Burst(t) \subseteq up \/ t \in nackTimers)
  <2>1. t \in nackTimers' \/ \E p \in up' : p.tid = t
    <3>1. PICK r \in Burst(t) : r # m
      BY BurstOther
    <3>2. r.tid = t
      BY BurstShape
    <3> QED BY <1>1, <1>4, <3>1, <3>2
  <2>2. CASE m \in Burst(t)
    BY <1>2, <1>4, <2>1, <2>2 DEF UnderRepair
  <2>3. CASE m \notin Burst(t)
    <3>1. Lacking(t)' = {}
      BY <1>2, <1>4, <2>3 DEF Lacking, HeldIn
    <3> QED BY <3>1 DEF UnderRepair
  <2> QED BY <2>2, <2>3
<1> QED BY <1>3, <1>4 DEF NothingLost, Lacking

\* A packet to the receiver lost is one to be repaired; an answer lost pays for
\* one attempt more.
LEMMA RepairingLosing ==
    ASSUME Typed, LossesCounted, Losing, NEW t \in Tids, Repairing(t)
    PROVE  Repairing(t)'
<1>1. UNCHANGED <<promise, attempts, receiverVars>>
  BY DEF Losing, senderVars
<1>2. attempts[t] \in Nat
  BY TypedParts, SenderAssumption
<1>3. CASE lostUp' = lostUp + 1 /\ lostDown' = lostDown /\ \E m \in up : LoseUp(m) \/ Damage(m)
  <2>1. lostUp = 0 /\ NothingLost(t) => UnderRepair(t)'
    BY <1>1, <1>3, FirstLoss
  <2> QED BY <1>1, <1>2, <1>3, <2>1 DEF Repairing, LossesCounted
<1>4. CASE lostUp' = lostUp /\ lostDown' = lostDown + 1
  BY <1>1, <1>2, <1>4 DEF Repairing, LossesCounted
<1> QED BY <1>3, <1>4 DEF Losing

-----------------------------------------------------------------------------
LEMMA RepairStep ==
    ASSUME Typed, LossesCounted, RepairInv, [TimelyNext]_timelyVars
    PROVE  RepairInv'
<1>1. Undisturbed'
  BY UndisturbedStep DEF RepairInv
<1>2. Undisturbed /\ \A t \in Tids : Repairing(t)
  BY DEF RepairInv
<1>3. attempts \in [Tids -> Nat]
  BY TypedParts, SenderAssumption
<1>4. ASSUME NEW u \in Tids, Submit(u), UNCHANGED <<receiverVars, lostUp, lostDown>>
      PROVE  \A t \in Tids : Repairing(t)'
  <2>1. AttemptSend(u) /\ promise[u] = "none" /\ UNCHANGED down
    BY <1>4 DEF Submit
  <2>2. attempts[u] <= lostDown
    BY <1>2, <2>1 DEF Repairing, LossesCounted
  <2> QED BY <1>2, <1>4, <2>1, <2>2, RepairingAttempt DEF Unsettled
<1>5. ASSUME NEW u \in Tids, TimelyTick(u)
      PROVE  \A t \in Tids : Repairing(t)'
  <2>1. AttemptSend(u) /\ promise[u] = "pending" /\ UNCHANGED <<down, receiverVars, lostUp, lostDown>>
    BY <1>5 DEF TimelyTick, ResendTick
  <2>2. lostUp <= 1 => attempts[u] <= lostDown
    BY <1>2, <1>3, <1>5, <2>1, TickOwed DEF TimelyTick
  <2> QED BY <1>2, <2>1, <2>2, RepairingAttempt DEF Unsettled
<1>6. ASSUME NEW u \in Tids, TimelyNack(u), NEW t \in Tids
      PROVE  Repairing(t)'
  <2>1. UNCHANGED <<promise, attempts, lostUp, lostDown>>
    BY <1>6 DEF TimelyNack, senderVars
  <2> QED BY <1>2, <1>6, <2>1, RepairingNack, KeepsRepairing
<1>7. ASSUME TimelyCleanup \/ \E u \in Tids : TimelyAge(u), NEW t \in Tids
      PROVE  Repairing(t)'
  <2>1. UNCHANGED <<promise, attempts, lostUp, lostDown>>
    BY <1>7 DEF TimelyCleanup, TimelyAge, senderVars
  <2>2. CASE Unsettled(t)
    BY <1>2, <1>7, <2>1, <2>2, RepairingQuiet, KeepsRepairing
  <2>3. CASE ~Unsettled(t)
    BY <1>2, <2>1, <2>3 DEF Repairing, Unsettled
  <2> QED BY <2>2, <2>3
<1>8. ASSUME NEW m \in up, UNCHANGED <<senderVars, lostUp, lostDown>>, NEW t \in Tids,
             AbsorbDuplicate(m) \/ BufferPacket(m) \/ DeliverMessage(m) \/ ReceiveError(m)
      PROVE  Repairing(t)'
  <2>1. UNCHANGED <<promise, attempts, lostUp, lostDown>>
    BY <1>8 DEF senderVars
  <2>2. CASE Unsettled(t)
    <3>1. /\ NothingLost(t) => NothingLost(t)'
          /\ UnderRepair(t) => UnderRepair(t)'
      BY <1>2, <1>8, <2>2, RepairingOther, RepairingReceived
    <3> QED BY <1>2, <2>1, <3>1, KeepsRepairing
  <2>3. CASE ~Unsettled(t)
    BY <1>2, <2>1, <2>3 DEF Repairing, Unsettled
  <2> QED BY <2>2, <2>3
<1>9. ASSUME NEW n \in down, HandleAck(n) \/ HandleNack(n), NEW t \in Tids,
             UNCHANGED <<receiverVars, lostUp, lostDown>>
      PROVE  Repairing(t)'
  <2>1. UNCHANGED <<attempts, lostUp, lostDown>>
    BY <1>9 DEF HandleAck, HandleNack, senderVars
  <2>2. promise'[t] \in {"none", "pending"} => promise'[t] = promise[t]
    BY <1>9, TypedParts DEF HandleAck, HandleNack, senderVars
  <2>3. CASE promise[t] = "pending"
    BY <1>2, <1>9, <2>1, <2>2, <2>3, RepairingAnswers, KeepsRepairing
  <2>4. CASE promise[t] # "pending"
    BY <1>2, <2>1, <2>2, <2>4 DEF Repairing
  <2> QED BY <2>3, <2>4
<1>10. ASSUME Losing, NEW t \in Tids
       PROVE  Repairing(t)'
  BY <1>2, <1>10, RepairingLosing
<1>11. ASSUME UNCHANGED timelyVars, NEW t \in Tids
       PROVE  Repairing(t)'
  BY <1>2, <1>11 DEF timelyVars, vars, linkVars, senderVars, receiverVars, Repairing,
                     NothingLost, UnderRepair, Lacking, HeldIn, Burst
<1>12. \A t \in Tids : Repairing(t)'
  BY <1>4, <1>5, <1>6, <1>7, <1>8, <1>9, <1>10, <1>11 DEF TimelyNext, Transmission
<1> QED BY <1>1, <1>12 DEF RepairInv

LEMMA RepairInit ==
    ASSUME TimelyInit
    PROVE  Typed /\ LossesCounted /\ RepairInv
<1>1. Typed /\ LossesCounted
  BY TypedInit DEF TimelyInit, LossesCounted
<1>2. Undisturbed
  BY NothingHeld, EmptyStates DEF TimelyInit, Init, LinkInit, SenderInit, ReceiverInit,
     Undisturbed, Steady, Sound, NotSettled
<1>3. \A t \in Tids : Repairing(t)
  BY DEF TimelyInit, Init, SenderInit, Repairing
<1> QED BY <1>1, <1>2, <1>3 DEF RepairInv

LEMMA LossesStep ==
    ASSUME LossesCounted, [TimelyNext]_timelyVars
    PROVE  LossesCounted'
BY DEF LossesCounted, TimelyNext, timelyVars, TimelyTick, TimelyNack, TimelyAge, Losing, TimelyCleanup

\* One packet of a burst lost or damaged costs no second attempt: the nack that
\* the receiver's timer sends asks for it, and the sender repeats just that.
\* Only an ack or nack that is lost costs an attempt, and each no more than one.
THEOREM OneLossIsRepaired == TimelySpec => []NackRepairs
<1>1. TimelyInit => Typed /\ LossesCounted /\ RepairInv
  BY RepairInit
<1>2. Typed /\ LossesCounted /\ RepairInv /\ [TimelyNext]_timelyVars
          => (Typed /\ LossesCounted /\ RepairInv)'
  <2> SUFFICES ASSUME Typed, LossesCounted, RepairInv, [TimelyNext]_timelyVars
               PROVE  (Typed /\ LossesCounted /\ RepairInv)'
    OBVIOUS
  <2>1. [Next]_vars
    BY TimelyIsNext DEF timelyVars
  <2> QED BY <2>1, TypedStep, LossesStep, RepairStep
<1>3. RepairInv => NackRepairs
  BY DEF RepairInv, Repairing, NackRepairs
<1> QED BY <1>1, <1>2, <1>3, PTL DEF TimelySpec

\* The ordered timers only leave behaviours out: a timely run is a run of the
\* transport, and everything proved of that holds of it.
THEOREM TimelyIsReliable == TimelySpec => Spec
<1>1. TimelyInit => Init
  BY DEF TimelyInit
<1>2. [TimelyNext]_timelyVars => [Next]_vars
  BY TimelyIsNext DEF timelyVars
<1> QED BY <1>1, <1>2, PTL DEF TimelySpec, Spec
=============================================================================

------------------------ MODULE ReliableTransportProof ------------------------
(***************************************************************************)
(* Proofs about ReliableTransport: type correctness, integrity and         *)
(* exactly-once of the receiver behind a sender, that a resolved promise   *)
(* stands for a delivered message, and that the transport implements the   *)
(* contract of ReliableDelivery, for every set of tids and chunks, every   *)
(* budget and every cap.                                                   *)
(***************************************************************************)
EXTENDS ReliableTransport, ReceiverAloneProof, TLAPS

-----------------------------------------------------------------------------
(* Packets and wires. *)

\* What a packet on its way to the sender looks like.
LEMMA DownPacketShape ==
    ASSUME NEW m \in DownPackets
    PROVE  /\ m.tid \in Tids
           /\ m.type \in {"ack", "nack"}
           /\ m.type = "ack" => m = Ack(m.tid)
           /\ m.type = "nack" => m.missing \subseteq Chunks
BY DEF DownPackets, Ack

\* Sending keeps the wire well-formed.
LEMMA SentTyped ==
    ASSUME up \subseteq UpPackets, NEW P \in SUBSET UpPackets
    PROVE  Sent(P) \subseteq UpPackets
BY DEF Sent

\* Everything a unit sends is a well-formed packet.
LEMMA BurstTyped ==
    ASSUME NEW t \in Tids
    PROVE  /\ Burst(t) \subseteq UpPackets
           /\ Error(t) \in UpPackets
<1>1. DataPackets(t) \cup {Error(t)} \subseteq UpPackets
  BY DEF UpPackets
<1>2. Burst(t) \subseteq DataPackets(t)
  BY DEF Burst, DataPackets, Payloads
<1> QED BY <1>1, <1>2

\* What a nack asks for is a well-formed set of packets.
LEMMA RequestedTyped ==
    ASSUME NEW m \in DownPackets, m.type = "nack"
    PROVE  Requested(m) \subseteq UpPackets
<1>1. m.tid \in Tids /\ m.missing \subseteq Chunks
  BY DownPacketShape
<1>2. DataPackets(m.tid) \subseteq UpPackets
  BY <1>1 DEF UpPackets
<1>3. Requested(m) \subseteq DataPackets(m.tid)
  BY <1>1 DEF Requested, DataPackets, Payloads
<1> QED BY <1>2, <1>3

\* The strengthening type correctness needs: a unit that may still attempt has
\* budget left.
BudgetLeft == \A t \in Tids : promise[t] \in {"none", "pending"} => attempts[t] < MaxAttempts

Typed == TypeOK /\ BudgetLeft

\* An attempt, whichever of its four ends it takes.
LEMMA AttemptTyped ==
    ASSUME Typed, NEW t \in Tids, promise[t] \in {"none", "pending"}, AttemptSend(t)
    PROVE  /\ promise' \in [Tids -> {"none", "pending", "ok", "fail", "lost"}]
           /\ attempts' \in [Tids -> 0 .. MaxAttempts]
           /\ up' \subseteq UpPackets
           /\ BudgetLeft'
<1> USE DEF Typed, TypeOK, SenderTypeOK, ReceiverTypeOK, LinkTypeOK, BudgetLeft
<1>1. /\ {Error(t)} \in SUBSET UpPackets
      /\ Burst(t) \in SUBSET UpPackets
      /\ Burst(t) \cup {Error(t)} \in SUBSET UpPackets
  BY BurstTyped
<1>2. CASE PastDeadline(t)
  BY <1>1, <1>2, SentTyped DEF PastDeadline, GivenUp
<1>3. CASE WaitForNetwork(t)
  BY <1>3 DEF WaitForNetwork
<1>4. attempts[t] \in 0 .. MaxAttempts /\ MaxAttempts \in Nat /\ attempts[t] < MaxAttempts
  BY SenderAssumption
<1>5. CASE SendBurst(t)
  <2>1. attempts[t] + 1 \in 0 .. MaxAttempts /\ attempts[t] + 1 < MaxAttempts
    BY <1>4, <1>5 DEF SendBurst
  <2>2. up' \subseteq UpPackets
    BY <1>1, <1>5, SentTyped DEF SendBurst
  <2> QED BY <1>5, <2>1, <2>2 DEF SendBurst
<1>6. CASE SendLastBurst(t)
  <2>1. attempts[t] + 1 \in 0 .. MaxAttempts
    BY <1>4
  <2>2. up' \subseteq UpPackets
    BY <1>1, <1>6, SentTyped DEF SendLastBurst
  <2> QED BY <1>6, <2>1, <2>2 DEF SendLastBurst, GivenUp
<1> QED BY <1>2, <1>3, <1>5, <1>6 DEF AttemptSend

\* The handlers of the sender.
LEMMA SenderTyped ==
    ASSUME Typed, SenderNext
    PROVE  SenderTypeOK' /\ LinkTypeOK' /\ BudgetLeft'
<1> USE DEF Typed, TypeOK, SenderTypeOK, ReceiverTypeOK, LinkTypeOK
<1>1. ASSUME NEW t \in Tids, Submit(t) \/ ResendTick(t)
      PROVE  SenderTypeOK' /\ LinkTypeOK' /\ BudgetLeft'
  <2>1. AttemptSend(t) /\ promise[t] \in {"none", "pending"}
    BY <1>1 DEF Submit, ResendTick
  <2>2. UNCHANGED <<down, open, attached, overdue, subscribed>>
    BY <1>1 DEF Submit, ResendTick
  <2> QED BY <2>1, <2>2, AttemptTyped
<1>2. ASSUME NEW m \in down, HandleAck(m)
      PROVE  SenderTypeOK' /\ LinkTypeOK' /\ BudgetLeft'
  <2>1. m.tid \in Tids
    BY DownPacketShape
  <2>2. down' \subseteq DownPackets
    BY <1>2, DeliveredSubset DEF HandleAck
  <2> QED BY <1>2, <2>1, <2>2 DEF HandleAck, BudgetLeft
<1>3. ASSUME NEW m \in down, HandleNack(m)
      PROVE  SenderTypeOK' /\ LinkTypeOK' /\ BudgetLeft'
  <2>1. Requested(m) \in SUBSET UpPackets
    BY <1>3, RequestedTyped DEF HandleNack
  <2>2. up' \subseteq UpPackets
    BY <1>3, <2>1, SentTyped DEF HandleNack
  <2>3. down' \subseteq DownPackets
    BY <1>3, DeliveredSubset DEF HandleNack
  <2> QED BY <1>3, <2>2, <2>3 DEF HandleNack, senderVars, BudgetLeft
<1>4. ASSUME DetachSender
      PROVE  SenderTypeOK' /\ LinkTypeOK' /\ BudgetLeft'
  BY <1>4 DEF DetachSender, linkVars, BudgetLeft
<1>5. ASSUME NEW t \in Tids, DeadlinePasses(t)
      PROVE  SenderTypeOK' /\ LinkTypeOK' /\ BudgetLeft'
  BY <1>5 DEF DeadlinePasses, linkVars, BudgetLeft
<1> QED BY <1>1, <1>2, <1>3, <1>4, <1>5 DEF SenderNext

\* A misbehaving network still carries well-formed packets.
LEMMA NetworkTyped ==
    ASSUME LinkTypeOK, NetworkNext
    PROVE  LinkTypeOK'
<1> USE DEF LinkTypeOK
<1>1. ASSUME NEW m \in up, Damage(m)
      PROVE  LinkTypeOK'
  <2>1. m \in UpPackets /\ m.type = "chunk"
    BY <1>1 DEF Damage
  <2>2. PICK t \in Tids, c \in Chunks, d \in Payloads : m = Chunk(t, c, d)
    BY <2>1 DEF UpPackets, DataPackets, Manifest, Complete, Error
  <2>3. [m EXCEPT !.payload = "damaged"] = Chunk(t, c, "damaged")
    BY <2>2 DEF Chunk
  <2>4. Chunk(t, c, "damaged") \in UpPackets
    BY DEF UpPackets, DataPackets, Payloads
  <2> QED BY <1>1, <2>3, <2>4 DEF Damage
<1> QED BY <1>1 DEF NetworkNext, LoseUp, LoseDown, Disconnect, Reconnect

\* The inductive step of type correctness.
LEMMA TypedStep ==
    ASSUME Typed, [Next]_vars
    PROVE  Typed'
<1>1. CASE SenderNext /\ UNCHANGED receiverVars
  BY <1>1, SenderTyped DEF Typed, TypeOK, ReceiverTypeOK, receiverVars
<1>2. CASE ReceiverNext /\ UNCHANGED senderVars
  BY <1>2, ReceiverTyped DEF Typed, TypeOK, SenderTypeOK, BudgetLeft, senderVars
<1>3. CASE NetworkNext /\ UNCHANGED <<senderVars, receiverVars>>
  BY <1>3, NetworkTyped
     DEF Typed, TypeOK, SenderTypeOK, ReceiverTypeOK, BudgetLeft, senderVars, receiverVars
<1>4. CASE UNCHANGED vars
  BY <1>4 DEF Typed, TypeOK, SenderTypeOK, ReceiverTypeOK, LinkTypeOK, BudgetLeft,
              vars, linkVars, senderVars, receiverVars
<1> QED BY <1>1, <1>2, <1>3, <1>4 DEF Next

LEMMA TypedInit ==
    ASSUME Init
    PROVE  Typed
BY EntryTyped, StatesTyped, SenderAssumption
   DEF Init, LinkInit, SenderInit, ReceiverInit, Typed, TypeOK, SenderTypeOK,
       ReceiverTypeOK, LinkTypeOK, BudgetLeft

\* Type correctness of the whole transport, with the budget: no unit ever makes
\* more than maxAttempts attempts.
THEOREM TypeCorrect == Spec => []TypeOK
<1>1. Init => Typed
  BY TypedInit
<1>2. Typed /\ [Next]_vars => Typed'
  BY TypedStep
<1>3. Typed => TypeOK
  BY DEF Typed
<1> QED BY <1>1, <1>2, <1>3, PTL DEF Spec

LEMMA AlwaysTyped == Spec => []Typed
<1>1. Init => Typed
  BY TypedInit
<1>2. Typed /\ [Next]_vars => Typed'
  BY TypedStep
<1> QED BY <1>1, <1>2, PTL DEF Spec

\* Listeners are only ever handed the complete, undamaged original, however the
\* network loses, repeats, reorders and damages packets.
THEOREM DeliversOriginals == Spec => []DeliveredIntact
<1>1. Init => Integrity
  BY DEF Init, ReceiverInit, Integrity, IntactBuffers, DeliveredIntact, NoState
<1>2. Typed /\ Integrity /\ [Next]_vars => Integrity'
  <2>1. CASE UNCHANGED receiverVars
    BY <2>1 DEF receiverVars, Integrity, IntactBuffers, DeliveredIntact, Original
  <2>2. CASE ReceiverNext
    BY <2>2, IntegrityStep DEF Typed, TypeOK
  <2> QED BY <2>1, <2>2 DEF Next, vars
<1>3. Integrity => DeliveredIntact
  BY DEF Integrity
<1> QED BY <1>1, <1>2, <1>3, AlwaysTyped, PTL DEF Spec

\* Listeners see a message at most once while the receiver remembers it: the
\* settled memory alone makes blind resends and duplicates harmless, unless a
\* listener threw before the tid was settled.
THEOREM DeliversOnce == Spec => []AtMostOnce
<1>1. Init => HandedOverSettled
  BY DEF Init, ReceiverInit, HandedOverSettled
<1>2. Typed /\ HandedOverSettled /\ [Next]_vars => HandedOverSettled'
  <2>1. CASE UNCHANGED receiverVars
    BY <2>1 DEF receiverVars, HandedOverSettled
  <2>2. CASE ReceiverNext
    BY <2>2, ExactlyStep DEF Typed, TypeOK
  <2> QED BY <2>1, <2>2 DEF Next, vars
<1>3. HandedOverSettled => AtMostOnce
  BY DEF HandedOverSettled, AtMostOnce
<1> QED BY <1>1, <1>2, <1>3, AlwaysTyped, PTL DEF Spec

-----------------------------------------------------------------------------
(* Buffers and memory, behind a sender.                                      *)

\* What the receiver keeps of its buffers and of its memory against any
\* network it keeps behind this sender and these wires: no buffer or timer is
\* left behind a delivered message, and the settled memory stays within its cap.
THEOREM KeepsAccounts == Spec => [](BuffersAccounted /\ MemoryBounded)
<1>1. Init => BuffersAccounted /\ BoundedMemory
  <2>1. Init => AloneInit
    BY DEF Init, AloneInit
  <2> QED BY <2>1, AloneInitially DEF AloneInv
<1>2. Typed /\ BuffersAccounted /\ BoundedMemory /\ [Next]_vars
          => (BuffersAccounted /\ BoundedMemory)'
  <2>1. CASE UNCHANGED receiverVars
    BY <2>1 DEF receiverVars, BuffersAccounted, BoundedMemory, MemoryBounded, Remembered, Held
  <2>2. CASE ReceiverNext
    BY <2>2, AccountedStep, MemoryStep DEF Typed, TypeOK
  <2> QED BY <2>1, <2>2 DEF Next, vars
<1>3. BoundedMemory => MemoryBounded
  BY DEF BoundedMemory
<1> QED BY <1>1, <1>2, <1>3, AlwaysTyped, PTL DEF Spec

-----------------------------------------------------------------------------
(* Every "ok" has a witness: the memory, the wire and the promise say it     *)
(* only of messages the listeners were handed.                               *)

Witnessed ==
    /\ AcksTrue
    /\ \A t \in Tids : promise[t] = "ok" => delivered[t] # {}

LEMMA WitnessedReceiver ==
    ASSUME ~LateDelivery, ReceiverTypeOK, Witnessed, ReceiverNext, UNCHANGED senderVars
    PROVE  Witnessed'
BY AcksStep, DeliveredGrows DEF Witnessed, senderVars

LEMMA WitnessedSender ==
    ASSUME TypeOK, Witnessed, SenderNext, UNCHANGED receiverVars
    PROVE  Witnessed'
<1>0. /\ promise \in [Tids -> {"none", "pending", "ok", "fail", "lost"}]
      /\ down \subseteq DownPackets
      /\ UNCHANGED <<settled, delivered>>
  BY DEF TypeOK, SenderTypeOK, ReceiverTypeOK, LinkTypeOK, receiverVars
<1> USE DEF Witnessed, AcksTrue
<1>1. ASSUME NEW t \in Tids, Submit(t) \/ ResendTick(t)
      PROVE  Witnessed'
  <2>1. UNCHANGED down /\ \A u \in Tids : promise'[u] = "ok" => promise[u] = "ok"
    BY <1>0, <1>1 DEF Submit, ResendTick, AttemptSend, PastDeadline, WaitForNetwork,
                      SendBurst, SendLastBurst, GivenUp
  <2> QED BY <1>0, <2>1
<1>2. ASSUME NEW m \in down, HandleAck(m)
      PROVE  Witnessed'
  <2>1. m.tid \in Tids /\ m = Ack(m.tid)
    BY <1>0, <1>2, DownPacketShape DEF HandleAck
  <2>2. delivered[m.tid] # {}
    BY <2>1
  <2>3. \A u \in Tids : promise'[u] = "ok" => promise[u] = "ok" \/ u = m.tid
    BY <1>0, <1>2 DEF HandleAck
  <2>4. down' \subseteq down
    BY <1>2, DeliveredSubset DEF HandleAck
  <2> QED BY <1>0, <2>2, <2>3, <2>4
<1>3. ASSUME NEW m \in down, HandleNack(m)
      PROVE  Witnessed'
  <2>1. down' \subseteq down
    BY <1>3, DeliveredSubset DEF HandleNack
  <2> QED BY <1>0, <1>3, <2>1 DEF HandleNack, senderVars
<1>4. ASSUME DetachSender
      PROVE  Witnessed'
  BY <1>0, <1>4 DEF DetachSender, linkVars
<1>5. ASSUME NEW t \in Tids, DeadlinePasses(t)
      PROVE  Witnessed'
  BY <1>0, <1>5 DEF DeadlinePasses, linkVars
<1> QED BY <1>1, <1>2, <1>3, <1>4, <1>5 DEF SenderNext

LEMMA WitnessedNetwork ==
    ASSUME Witnessed, NetworkNext, UNCHANGED <<senderVars, receiverVars>>
    PROVE  Witnessed'
<1>1. down' \subseteq down
  BY DEF NetworkNext, LoseUp, LoseDown, Damage, Disconnect, Reconnect
<1> QED BY <1>1 DEF Witnessed, AcksTrue, senderVars, receiverVars

LEMMA WitnessedStep ==
    ASSUME ~LateDelivery, Typed, Witnessed, [Next]_vars
    PROVE  Witnessed'
<1>1. CASE UNCHANGED vars
  BY <1>1 DEF Witnessed, AcksTrue, vars, linkVars, senderVars, receiverVars
<1> QED
  BY <1>1, WitnessedReceiver, WitnessedSender, WitnessedNetwork DEF Next, Typed, TypeOK

LEMMA WitnessedInit ==
    ASSUME Init
    PROVE  Witnessed
BY DEF Init, LinkInit, SenderInit, ReceiverInit, Witnessed, AcksTrue, NotSettled

\* send() never resolves for a message the listeners of the other end have not
\* been handed, provided detach() really stops the receiver from hearing its
\* network.
THEOREM ResolvesTruthfully ==
    ASSUME ~LateDelivery
    PROVE  Spec => []ResolvedMeansDelivered
<1>1. Init => Witnessed
  BY WitnessedInit
<1>2. Typed /\ Witnessed /\ [Next]_vars => Witnessed'
  BY WitnessedStep
<1>3. Witnessed => ResolvedMeansDelivered
  BY DEF Witnessed, ResolvedMeansDelivered
<1> QED BY <1>1, <1>2, <1>3, AlwaysTyped, PTL DEF Spec

-----------------------------------------------------------------------------
(* The transport implements ReliableDelivery.                                *)

\* Only submitted units have packets on their way to the receiver.
Submitted == \A m \in up : promise[m.tid] # "none"

\* Everything the refinement needs of a reachable state.
Faithful == Typed /\ HandedOverSettled /\ Witnessed /\ Submitted /\ thrown = {}

\* The packets a unit sends carry its tid.
LEMMA PacketsOfUnit ==
    ASSUME NEW t
    PROVE  /\ \A m \in Burst(t) : m.tid = t
           /\ Error(t).tid = t
BY DEF Burst, Manifest, Chunk, Complete, Error

LEMMA RequestedOfUnit ==
    ASSUME NEW m
    PROVE  \A p \in Requested(m) : p.tid = m.tid
BY DEF Requested, Manifest, Chunk, Complete

LEMMA ReceiverTakes ==
    ASSUME ReceiverNext
    PROVE  up' \subseteq up
<1>1. \A m \in up : Emit(m) => up' \subseteq up
  BY DeliveredSubset DEF Emit
<1> QED
  BY <1>1, DeliveredSubset
     DEF ReceiverNext, AbsorbDuplicate, BufferPacket, DeliverMessage, DeliverThrows,
         ReceiveError, FireNack, PartialAges, SettledLapses, Cleanup, DetachReceiver, linkVars

LEMMA SubmittedStep ==
    ASSUME Typed, Submitted, [Next]_vars
    PROVE  Submitted'
<1>0. promise \in [Tids -> {"none", "pending", "ok", "fail", "lost"}] /\ down \subseteq DownPackets
      /\ up \subseteq UpPackets
  BY DEF Typed, TypeOK, SenderTypeOK, ReceiverTypeOK, LinkTypeOK
<1>1. ASSUME NEW t \in Tids, Submit(t) \/ ResendTick(t)
      PROVE  Submitted'
  <2>1. AttemptSend(t)
    BY <1>1 DEF Submit, ResendTick
  <2>2. /\ promise'[t] # "none"
        /\ \A u \in Tids : promise[u] # "none" => promise'[u] # "none"
    BY <1>0, <2>1 DEF AttemptSend, PastDeadline, WaitForNetwork, SendBurst, SendLastBurst,
                      GivenUp
  <2>3. \A m \in up' : m \in up \/ m.tid = t
    BY <2>1, PacketsOfUnit
       DEF AttemptSend, PastDeadline, WaitForNetwork, SendBurst, SendLastBurst, Sent
  <2>4. \A m \in up : m.tid \in Tids
    BY <1>0, UpPacketShape
  <2> QED BY <1>1, <2>2, <2>3, <2>4 DEF Submitted
<1>2. ASSUME NEW m \in down, HandleAck(m)
      PROVE  Submitted'
  <2>1. \A u \in Tids : promise[u] # "none" => promise'[u] # "none"
    BY <1>0, <1>2 DEF HandleAck
  <2> QED BY <1>0, <1>2, <2>1, UpPacketShape DEF HandleAck, Submitted
<1>3. ASSUME NEW m \in down, HandleNack(m)
      PROVE  Submitted'
  <2>1. \A p \in up' : p \in up \/ (p.tid = m.tid /\ promise[m.tid] = "pending")
    BY <1>3, RequestedOfUnit DEF HandleNack, Sent
  <2> QED BY <1>3, <2>1 DEF HandleNack, Submitted, senderVars
<1>4. ASSUME DetachSender
      PROVE  Submitted'
  <2>1. \A u \in Tids : promise[u] # "none" => promise'[u] # "none"
    BY <1>4 DEF DetachSender
  <2> QED BY <1>0, <1>4, <2>1, UpPacketShape DEF DetachSender, Submitted, linkVars
<1>5. ASSUME NEW t \in Tids, DeadlinePasses(t)
      PROVE  Submitted'
  BY <1>5 DEF DeadlinePasses, Submitted, linkVars
<1>6. CASE ReceiverNext /\ UNCHANGED senderVars
  BY <1>6, ReceiverTakes DEF Submitted, senderVars
<1>7. CASE NetworkNext /\ UNCHANGED <<senderVars, receiverVars>>
  <2>1. ASSUME NEW m \in up, Damage(m)
        PROVE  Submitted'
    <3>1. m \in UpPackets /\ m.type = "chunk"
      BY <1>0, <2>1 DEF Damage
    <3>2. PICK t \in Tids, c \in Chunks, d \in Payloads : m = Chunk(t, c, d)
      BY <3>1 DEF UpPackets, DataPackets, Manifest, Complete, Error
    <3>3. [m EXCEPT !.payload = "damaged"].tid = m.tid
      BY <3>2 DEF Chunk
    <3> QED BY <1>7, <2>1, <3>3 DEF Damage, Submitted, senderVars
  <2> QED
    BY <1>7, <2>1
       DEF NetworkNext, LoseUp, LoseDown, Disconnect, Reconnect, Submitted, senderVars
<1>8. CASE UNCHANGED vars
  BY <1>8 DEF Submitted, vars, linkVars, senderVars
<1> QED BY <1>1, <1>2, <1>3, <1>4, <1>5, <1>6, <1>7, <1>8 DEF Next, SenderNext

LEMMA FaithfulStep ==
    ASSUME ~LateDelivery, ~ListenerMayThrow, Faithful, [Next]_vars
    PROVE  Faithful'
<1> USE DEF Faithful
<1>1. Typed'
  BY TypedStep
<1>2. HandedOverSettled' /\ thrown' = {}
  <2>1. CASE UNCHANGED receiverVars
    BY <2>1 DEF receiverVars, HandedOverSettled
  <2>2. CASE ReceiverNext
    <3>1. HandedOverSettled'
      BY <2>2, ExactlyStep DEF Typed, TypeOK
    <3>2. thrown' = {}
      BY <2>2 DEF ReceiverNext, AbsorbDuplicate, BufferPacket, DeliverMessage,
                  DeliverThrows, ReceiveError, FireNack, PartialAges, SettledLapses,
                  Cleanup, DetachReceiver, receiverVars
    <3> QED BY <3>1, <3>2
  <2> QED BY <2>1, <2>2 DEF Next, vars
<1>3. Witnessed' /\ Submitted'
  BY WitnessedStep, SubmittedStep
<1> QED BY <1>1, <1>2, <1>3

LEMMA FaithfulInit ==
    ASSUME Init
    PROVE  Faithful
BY TypedInit, WitnessedInit
   DEF Faithful, Init, LinkInit, ReceiverInit, HandedOverSettled, Submitted

-----------------------------------------------------------------------------
(* Step simulation. *)

LEMMA SenderSimulates ==
    ASSUME Faithful, SenderNext, UNCHANGED receiverVars
    PROVE  [Contract!Next]_Contract!vars
<1>0. /\ promise \in [Tids -> {"none", "pending", "ok", "fail", "lost"}]
      /\ down \subseteq DownPackets
      /\ UNCHANGED <<delivered, emissions>>
  BY DEF Faithful, Typed, TypeOK, SenderTypeOK, ReceiverTypeOK, LinkTypeOK, receiverVars
<1>1. ASSUME NEW t \in Tids, Submit(t)
      PROVE  Contract!Next
  <2>1. \E o \in {"pending", "fail"} : promise' = [promise EXCEPT ![t] = o]
    BY <1>1 DEF Submit, AttemptSend, PastDeadline, WaitForNetwork, SendBurst, SendLastBurst,
                GivenUp
  <2>2. Contract!Request(t)
    BY <1>0, <1>1, <2>1 DEF Contract!Request, Submit
  <2> QED BY <2>2 DEF Contract!Next
<1>2. ASSUME NEW t \in Tids, ResendTick(t)
      PROVE  [Contract!Next]_Contract!vars
  <2>1. \/ promise' = [promise EXCEPT ![t] = "pending"]
        \/ promise' = [promise EXCEPT ![t] = "fail"]
        \/ ErrorListenerMayThrow /\ promise' = [promise EXCEPT ![t] = "lost"]
    BY <1>2 DEF ResendTick, AttemptSend, PastDeadline, WaitForNetwork, SendBurst, SendLastBurst,
                GivenUp
  <2>2. CASE promise' = [promise EXCEPT ![t] = "pending"]
    <3>1. promise' = promise
      BY <1>0, <1>2, <2>2 DEF ResendTick
    <3> QED BY <1>0, <3>1 DEF Contract!vars
  <2>3. CASE promise' = [promise EXCEPT ![t] = "fail"]
    <3>1. promise' = [u \in Tids |-> IF u \in {t} THEN "fail" ELSE promise[u]]
      BY <1>0, <2>3
    <3>2. Contract!Abandon({t})
      BY <1>0, <1>2, <3>1 DEF Contract!Abandon, ResendTick
    <3> QED BY <3>2 DEF Contract!Next
  <2>4. CASE ErrorListenerMayThrow /\ promise' = [promise EXCEPT ![t] = "lost"]
    <3>1. Contract!Lose(t)
      BY <1>0, <1>2, <2>4 DEF Contract!Lose, ResendTick
    <3> QED BY <3>1 DEF Contract!Next
  <2> QED BY <2>1, <2>2, <2>3, <2>4
<1>3. ASSUME NEW m \in down, HandleAck(m)
      PROVE  [Contract!Next]_Contract!vars
  <2>1. m.tid \in Tids /\ m = Ack(m.tid)
    BY <1>0, <1>3, DownPacketShape DEF HandleAck
  <2>2. delivered[m.tid] # {}
    BY <2>1 DEF Faithful, Witnessed, AcksTrue
  <2>3. CASE promise[m.tid] = "pending"
    <3>1. Contract!Confirm(m.tid)
      BY <1>0, <1>3, <2>1, <2>2, <2>3 DEF Contract!Confirm, HandleAck
    <3> QED BY <2>1, <3>1 DEF Contract!Next
  <2>4. CASE promise[m.tid] # "pending"
    BY <1>0, <1>3, <2>4 DEF HandleAck, Contract!vars
  <2> QED BY <2>3, <2>4
<1>4. ASSUME NEW m \in down, HandleNack(m)
      PROVE  UNCHANGED Contract!vars
  BY <1>0, <1>4 DEF HandleNack, senderVars, Contract!vars
<1>5. ASSUME DetachSender
      PROVE  Contract!Next
  <2> DEFINE F == {t \in Tids : promise[t] = "pending"}
  <2>1. promise' = [t \in Tids |-> IF t \in F THEN "fail" ELSE promise[t]]
    BY <1>5 DEF DetachSender
  <2>2. F \in SUBSET Tids /\ \A t \in F : promise[t] = "pending"
    OBVIOUS
  <2> HIDE DEF F
  <2>3. Contract!Abandon(F)
    BY <1>0, <2>1, <2>2 DEF Contract!Abandon
  <2> QED BY <2>2, <2>3 DEF Contract!Next
<1>6. ASSUME NEW t \in Tids, DeadlinePasses(t)
      PROVE  UNCHANGED Contract!vars
  BY <1>0, <1>6 DEF DeadlinePasses, Contract!vars
<1> QED BY <1>1, <1>2, <1>3, <1>4, <1>5, <1>6 DEF SenderNext

\* Forgetting counters is forgetting units.
LEMMA ForgetSimulates ==
    ASSUME NEW F \in SUBSET Tids, emissions' = Forgetting(emissions, F),
           UNCHANGED <<promise, delivered>>
    PROVE  Contract!Next
<1>1. {t \in Tids : emissions'[t] > 0} = {t \in Tids : emissions[t] > 0} \ F
  BY DEF Forgetting
<1>2. Contract!Forget(F)
  BY <1>1 DEF Contract!Forget
<1> QED BY <1>2 DEF Contract!Next

LEMMA ReceiverSimulates ==
    ASSUME ~LateDelivery, ~ListenerMayThrow, Faithful, ReceiverNext, UNCHANGED senderVars
    PROVE  [Contract!Next]_Contract!vars
<1>0. /\ ReceiverTypeOK
      /\ up \subseteq UpPackets
      /\ emissions \in [Tids -> 0 .. 2]
      /\ UNCHANGED promise
      /\ Swept \subseteq Tids
  BY CleanTyped DEF Faithful, Typed, TypeOK, ReceiverTypeOK, LinkTypeOK, senderVars
<1>1. ASSUME NEW E \in Evictions(CleanMemory),
             emissions' = Forgetting(emissions, Swept \cup E), UNCHANGED delivered
      PROVE  Contract!Next
  <2>1. Swept \cup E \in SUBSET Tids
    BY <1>0, EvictionsSubset
  <2>2. UNCHANGED <<promise, delivered>>
    BY <1>0, <1>1
  <2> QED BY <1>1, <2>1, <2>2, ForgetSimulates
<1>2. ASSUME NEW m \in up, DeliverMessage(m)
      PROVE  Contract!Next
  <2>1. Emit(m) /\ attached /\ settled[m.tid].outcome = "none"
    BY <1>2 DEF DeliverMessage, Emit, Listening
  <2>2. /\ m.tid \in Tids
        /\ \A t \in Tids : delivered[t] # {} => delivered'[t] # {}
        /\ delivered'[m.tid] # {}
        /\ \A t \in Tids \ {m.tid} : delivered'[t] = delivered[t]
    BY <1>0, <2>1, EmitDelivers
  <2> DEFINE memory(E) == [Without(CleanMemory, E) EXCEPT ![m.tid] = Settled("ok")]
  <2>3. PICK E \in Evictions(CleanMemory) : \E F \in Evictions(memory(E)) :
           emissions' = Forgetting(Counted(m.tid), Swept \cup E \cup F)
    BY <1>2 DEF DeliverMessage
  <2> HIDE DEF memory
  <2>4. PICK F \in Evictions(memory(E)) :
           emissions' = Forgetting(Counted(m.tid), Swept \cup E \cup F)
    BY <2>3
  <2>5. PICK G \in SUBSET Tids : G = Swept \cup E \cup F
    BY <1>0, EvictionsSubset
  <2>6. emissions[m.tid] = 0
    BY <1>0, <2>1, <2>2 DEF Faithful, HandedOverSettled
  <2>7. Counted(m.tid) = [emissions EXCEPT ![m.tid] = 1]
    BY <2>1, <2>6 DEF Counted
  <2>8. emissions' = Forgetting([emissions EXCEPT ![m.tid] = 1], G)
    BY <2>4, <2>5, <2>7
  <2>9. {t \in Tids : emissions'[t] > 0} =
           ({t \in Tids : emissions[t] > 0} \cup {m.tid}) \ G
    BY <1>0, <2>2, <2>8 DEF Forgetting
  <2>10. {t \in Tids : delivered'[t] # {}} = {t \in Tids : delivered[t] # {}} \cup {m.tid}
    BY <2>2
  <2>11. promise[m.tid] # "none" /\ m.tid \notin {t \in Tids : emissions[t] > 0}
    BY <2>6 DEF Faithful, Submitted
  <2>12. Contract!HandOver(m.tid, G)
    BY <1>0, <2>9, <2>10, <2>11 DEF Contract!HandOver
  <2> QED BY <2>2, <2>12 DEF Contract!Next
<1>3. ASSUME NEW m \in up, BufferPacket(m)
      PROVE  Contract!Next
  BY <1>1, <1>3 DEF BufferPacket
<1>4. ASSUME Cleanup
      PROVE  Contract!Next
  BY <1>1, <1>4 DEF Cleanup
<1>5. ASSUME NEW m \in up, ReceiveError(m)
      PROVE  Contract!Next
  <2>1. PICK E \in Evictions([settled EXCEPT ![m.tid] = Settled("fail")]) :
           emissions' = Forgetting(emissions, E)
    BY <1>5 DEF ReceiveError
  <2>2. E \in SUBSET Tids
    BY EvictionsSubset
  <2>3. UNCHANGED <<promise, delivered>>
    BY <1>0, <1>5 DEF ReceiveError
  <2> QED BY <2>1, <2>2, <2>3, ForgetSimulates
<1>6. ASSUME UNCHANGED <<delivered, emissions>>
      PROVE  UNCHANGED Contract!vars
  BY <1>0, <1>6 DEF Contract!vars
<1>7. /\ \A m \in up : AbsorbDuplicate(m) => UNCHANGED <<delivered, emissions>>
      /\ \A t \in Tids : FireNack(t) => UNCHANGED <<delivered, emissions>>
      /\ \A t \in Tids : PartialAges(t) => UNCHANGED <<delivered, emissions>>
      /\ \A t \in Tids : SettledLapses(t) => UNCHANGED <<delivered, emissions>>
      /\ DetachReceiver => UNCHANGED <<delivered, emissions>>
      /\ \A m \in up : ~DeliverThrows(m)
  BY DEF AbsorbDuplicate, FireNack, PartialAges, SettledLapses, DetachReceiver,
         DeliverThrows, receiverVars
<1> QED BY <1>2, <1>3, <1>4, <1>5, <1>6, <1>7 DEF ReceiverNext

\* The transport implements the delivery contract: whatever the network does
\* and whenever either end detaches, every step is a step of the contract or
\* changes nothing it talks about.
THEOREM ImplementsContract ==
    ASSUME ~LateDelivery, ~ListenerMayThrow
    PROVE  Spec => ContractSpec
<1>1. Init => Faithful
  BY FaithfulInit
<1>2. Faithful /\ [Next]_vars => Faithful'
  BY FaithfulStep
<1>3. Init => Contract!Init
  BY DEF Init, SenderInit, ReceiverInit, Contract!Init
<1>4. Faithful /\ [Next]_vars => [Contract!Next]_Contract!vars
  <2>1. CASE UNCHANGED vars
    BY <2>1 DEF vars, senderVars, receiverVars, Contract!vars
  <2>2. CASE NetworkNext /\ UNCHANGED <<senderVars, receiverVars>>
    BY <2>2 DEF senderVars, receiverVars, Contract!vars
  <2> QED BY <2>1, <2>2, SenderSimulates, ReceiverSimulates DEF Next
<1> QED BY <1>1, <1>2, <1>3, <1>4, PTL DEF Spec, ContractSpec, Contract!Spec
=============================================================================

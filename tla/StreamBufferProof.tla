-------------------------- MODULE StreamBufferProof --------------------------
(* Proofs about StreamBuffer and StreamProgress: the consumer is never       *)
(* entered twice, no interleaving of callers, timer, consumer and failures   *)
(* loses, repeats or reorders a chunk, and what is told of the progress is   *)
(* true.                                                                     *)
EXTENDS StreamProgress, SequenceTheorems, WellFoundedInduction, TLAPS

Counted(n) == [i \in 1 .. n |-> i]

-----------------------------------------------------------------------------
(* Sequences. *)

\* Chunk n + 1, appended to chunks 1 .. n, gives chunks 1 .. n + 1.
LEMMA CountedAppend ==
    ASSUME NEW n \in Nat
    PROVE  Append(Counted(n), n + 1) = Counted(n + 1)
<1>1. Counted(n) \in Seq(Nat) /\ Len(Counted(n)) = n
  BY DEF Counted
<1> DEFINE a == Append(Counted(n), n + 1)
<1>2. Len(a) = n + 1 /\ a \in Seq(Nat)
  BY <1>1
<1>3. \A i \in 1 .. n + 1 : a[i] = i
  BY <1>1 DEF Counted
<1>4. a = [i \in 1 .. Len(a) |-> a[i]]
  BY <1>2
<1> QED BY <1>2, <1>3, <1>4 DEF Counted

\* What is queued after a hand over continues what was handed over.
LEMMA AppendBehind ==
    ASSUME NEW S, NEW s \in Seq(S), NEW t \in Seq(S), NEW x \in S
    PROVE  s \o Append(t, x) = Append(s \o t, x)
<1> DEFINE l == s \o Append(t, x)
           r == Append(s \o t, x)
<1>1. /\ Append(t, x) \in Seq(S) /\ Len(Append(t, x)) = Len(t) + 1
      /\ s \o t \in Seq(S) /\ Len(s \o t) = Len(s) + Len(t)
      /\ Len(s) \in Nat /\ Len(t) \in Nat
  OBVIOUS
<1>2. /\ l \in Seq(S) /\ Len(l) = Len(s) + Len(t) + 1
      /\ r \in Seq(S) /\ Len(r) = Len(s) + Len(t) + 1
  BY <1>1
<1>3. ASSUME NEW i \in 1 .. Len(l) PROVE l[i] = r[i]
  BY <1>1, <1>2
<1> HIDE DEF l, r
<1>4. l = r
  BY <1>2, <1>3, SeqEqual
<1> QED BY <1>4 DEF l, r

-----------------------------------------------------------------------------
(* The inductive invariant: types, one flush, and chunks in order. *)

Inv == TypeOK /\ SerialFlushes /\ InOrder

Chunks == 1 .. MaxChunks
Places == {"idle", "progress", "flushing", "closeflush", "closing"}

\* What Enqueued and Close may change, with the types of TypeOK.
BufferTyped ==
    /\ queue \in Seq(Chunks)
    /\ timer \in {"off", "armed", "spent"}
    /\ processing \in BOOLEAN
    /\ pc \in [Callers -> Places]
    /\ inConsumer \subseteq Owners
    /\ flushed \in Seq(Chunks)

\* The rest of enqueue(), whichever branch it takes: the chunks it was given
\* are behind what was handed over.
LEMMA EnqueuedKeeps ==
    ASSUME BufferTyped, SerialFlushes,
           NEW c \in Callers, pc[c] \in {"idle", "progress"},
           NEW chunks \in Seq(Chunks), Enqueued(c, chunks)
    PROVE  /\ BufferTyped' /\ SerialFlushes'
           /\ flushed' \o queue' = flushed \o chunks
<1>1. c \in Owners /\ c \notin inConsumer
  BY DEF SerialFlushes, Owners
<1>2. CASE Full(chunks) /\ CanFlush(chunks) /\ HandOver(c, chunks)
           /\ pc' = [pc EXCEPT ![c] = "flushing"]
  <2>1. inConsumer = {} /\ inConsumer' = {c} /\ processing'
    BY <1>2 DEF CanFlush, HandOver, SerialFlushes
  <2>2. flushed' = flushed \o chunks /\ queue' = <<>>
        /\ flushed' \in Seq(Chunks) /\ queue' \in Seq(Chunks)
    BY <1>2 DEF HandOver, BufferTyped
  <2>3. flushed' \o queue' = flushed \o chunks
    BY <2>2, ConcatEmptySeq
  <2>4. BufferTyped'
    BY <1>1, <1>2, <2>1, <2>2 DEF BufferTyped, HandOver, Places
  <2>5. SerialFlushes'
    BY <1>2, <2>1 DEF SerialFlushes, BufferTyped, Places
  <2> QED BY <2>3, <2>4, <2>5
<1>3. CASE ~(Full(chunks) /\ CanFlush(chunks))
  <2>1. /\ queue' = chunks /\ timer' \in {"off", "armed", "spent"}
        /\ pc' = [pc EXCEPT ![c] = "idle"]
        /\ UNCHANGED <<processing, inConsumer, flushed>>
    BY <1>3 DEF Enqueued, Scheduled, BufferTyped
  <2>2. BufferTyped'
    BY <2>1 DEF BufferTyped, Places
  <2>3. SerialFlushes'
    BY <1>1, <2>1 DEF SerialFlushes, BufferTyped, Places
  <2> QED BY <2>1, <2>2, <2>3
<1> QED BY <1>2, <1>3 DEF Enqueued

LEMMA InvStep ==
    ASSUME Inv, [Next]_vars
    PROVE  Inv'
<1> USE BufferAssumption
<1>0. BufferTyped
  BY DEF Inv, TypeOK, BufferTyped, Chunks, Places
<1>1. ASSUME BufferTyped', SerialFlushes', flushed' \o queue' = flushed \o queue,
             accepted' = accepted,
             closed' \in BOOLEAN, threw' \in BOOLEAN, late' \subseteq Chunks,
             ends' \subseteq [type : {"eof", "error"}, after : Nat]
      PROVE  Inv'
  BY <1>1 DEF Inv, TypeOK, InOrder, BufferTyped, Chunks, Places
<1>2. ASSUME NEW c \in Callers, Push(c) PROVE Inv'
  <2> DEFINE chunks == Append(queue, accepted + 1)
  <2>1. accepted + 1 \in Chunks /\ accepted' = accepted + 1 /\ accepted \in Nat
        /\ pc[c] = "idle"
    BY <1>2 DEF Push, Inv, TypeOK, Chunks
  <2>2. chunks \in Seq(Chunks) /\ queue \in Seq(Chunks) /\ flushed \in Seq(Chunks)
    BY <1>0, <2>1 DEF BufferTyped
  <2>3. flushed \o chunks = Counted(accepted')
    <3>1. flushed \o chunks = Append(flushed \o queue, accepted + 1)
      BY <2>1, <2>2, AppendBehind
    <3>2. flushed \o queue = Counted(accepted)
      BY DEF Inv, InOrder, Counted
    <3> QED BY <2>1, <3>1, <3>2, CountedAppend
  <2>4. BufferTyped' /\ SerialFlushes' /\ flushed' \o queue' = flushed \o chunks
    <3>1. CASE EmitProgress
      <4>1. AwaitProgress(c, chunks)
        BY <1>2, <2>1, <3>1 DEF Push
      <4>2. BufferTyped' /\ flushed' \o queue' = flushed \o chunks
        BY <1>0, <2>2, <4>1 DEF BufferTyped, AwaitProgress, Places
      <4>3. SerialFlushes'
        BY <1>0, <2>1, <4>1 DEF Inv, SerialFlushes, BufferTyped, AwaitProgress, Places
      <4> QED BY <4>2, <4>3
    <3>2. CASE ~EmitProgress
      <4>1. Enqueued(c, chunks)
        BY <1>2, <2>1, <3>2 DEF Push
      <4> HIDE DEF chunks
      <4> QED BY <1>0, <2>1, <2>2, <4>1, EnqueuedKeeps DEF Inv
    <3> QED BY <3>1, <3>2
  <2>5. late' \subseteq Chunks /\ UNCHANGED <<closed, ends, threw>>
    BY <1>2, <2>1 DEF Push, Inv, TypeOK, Chunks
  <2>6. accepted' \in 0 .. MaxChunks
    BY <2>1 DEF Chunks
  <2>7. TypeOK'
    BY <2>4, <2>5, <2>6 DEF Inv, TypeOK, BufferTyped, Chunks, Places
  <2>8. InOrder'
    BY <2>3, <2>4 DEF InOrder, Counted
  <2> QED BY <2>4, <2>7, <2>8 DEF Inv
<1>3. ASSUME NEW c \in Callers, ProgressTaken(c) PROVE Inv'
  <2>1. BufferTyped' /\ SerialFlushes' /\ flushed' \o queue' = flushed \o queue
    BY <1>0, <1>3, EnqueuedKeeps DEF ProgressTaken, Inv, BufferTyped
  <2> QED BY <1>1, <1>3, <2>1 DEF ProgressTaken, history, Inv, TypeOK, Chunks
<1>4. ASSUME NEW c \in Callers, ProgressThrows(c) PROVE Inv'
  <2>1. BufferTyped' /\ SerialFlushes'
    BY <1>0, <1>4 DEF ProgressThrows, Inv, SerialFlushes, BufferTyped, Places
  <2> QED BY <1>1, <1>4, <2>1 DEF ProgressThrows, Inv, TypeOK, Chunks
\* A caller or the timer hands over the whole queue while no flush is running.
<1>5. ASSUME NEW o \in Owners, CanFlush(queue), HandOver(o, queue),
             pc' \in [Callers -> Places],
             \A c \in Callers : pc'[c] \in {"flushing", "closeflush"} <=> c = o
      PROVE  BufferTyped' /\ SerialFlushes' /\ flushed' \o queue' = flushed \o queue
  <2>1. inConsumer' = {o} /\ processing' /\ inConsumer = {}
    BY <1>5 DEF CanFlush, HandOver, Inv, SerialFlushes
  <2>2. /\ flushed' = flushed \o queue /\ flushed' \in Seq(Chunks)
        /\ queue' = <<>> /\ queue' \in Seq(Chunks)
    BY <1>0, <1>5 DEF HandOver, BufferTyped
  <2>3. BufferTyped' /\ SerialFlushes'
    BY <1>0, <1>5, <2>1, <2>2 DEF HandOver, BufferTyped, SerialFlushes
  <2> QED BY <2>2, <2>3, ConcatEmptySeq
<1>6. CanFlush(queue) => \A c \in Callers : pc[c] \notin {"flushing", "closeflush"}
  BY DEF CanFlush, Inv, SerialFlushes
<1>7. ASSUME NEW c \in Callers, Flush(c) PROVE Inv'
  <2>1. c \in Owners /\ pc' \in [Callers -> Places]
        /\ \A d \in Callers : pc'[d] \in {"flushing", "closeflush"} <=> d = c
    BY <1>0, <1>6, <1>7 DEF Flush, Owners, BufferTyped, Places
  <2>2. BufferTyped' /\ SerialFlushes' /\ flushed' \o queue' = flushed \o queue
    BY <1>5, <1>7, <2>1 DEF Flush
  <2> QED BY <1>1, <1>7, <2>2 DEF Flush, history, Inv, TypeOK, Chunks
<1>8. ASSUME NEW c \in Callers, Close(c) PROVE Inv'
  <2>1. CASE CanFlush(queue) /\ HandOver(c, queue)
             /\ pc' = [pc EXCEPT ![c] = "closeflush"] /\ UNCHANGED late
    <3>1. c \in Owners /\ pc' \in [Callers -> Places]
          /\ \A d \in Callers : pc'[d] \in {"flushing", "closeflush"} <=> d = c
      BY <1>0, <1>6, <2>1 DEF Owners, BufferTyped, Places
    <3>2. BufferTyped' /\ SerialFlushes' /\ flushed' \o queue' = flushed \o queue
      BY <1>5, <2>1, <3>1
    <3> QED BY <1>1, <1>8, <2>1, <3>2 DEF Close, Inv, TypeOK, Chunks
  <2>2. CASE /\ pc' = [pc EXCEPT ![c] = "closing"]
             /\ late' = late \cup {queue[i] : i \in 1 .. Len(queue)}
             /\ UNCHANGED <<queue, timer, processing, inConsumer, flushed>>
    <3>1. BufferTyped' /\ SerialFlushes'
      BY <1>0, <1>8, <2>2 DEF Close, Inv, SerialFlushes, BufferTyped, Places
    <3>2. late' \subseteq Chunks
      <4>1. late \subseteq Chunks /\ \A i \in 1 .. Len(queue) : queue[i] \in Chunks
        BY <1>0 DEF Inv, TypeOK, BufferTyped, Chunks
      <4> QED BY <2>2, <4>1
    <3> QED BY <1>1, <1>8, <2>2, <3>1, <3>2 DEF Close, Inv, TypeOK
  <2> QED BY <1>8, <2>1, <2>2 DEF Close
<1>9. ASSUME NEW o \in Owners, FlushTaken(o) PROVE Inv'
  <2>0. /\ o \in inConsumer /\ inConsumer = {o} /\ processing
    BY <1>9 DEF FlushTaken, Inv, SerialFlushes
  <2>1. CASE HandOver(o, queue) /\ UNCHANGED pc
    <3>1. /\ flushed' = flushed \o queue /\ flushed' \in Seq(Chunks)
          /\ queue' = <<>> /\ queue' \in Seq(Chunks)
          /\ inConsumer' = {o} /\ processing' /\ timer' = "off"
      BY <1>0, <2>0, <2>1 DEF HandOver, BufferTyped
    <3>2. BufferTyped' /\ SerialFlushes'
      BY <1>0, <2>0, <2>1, <3>1 DEF Inv, SerialFlushes, BufferTyped
    <3>3. flushed' \o queue' = flushed \o queue
      BY <3>1, ConcatEmptySeq
    <3> QED BY <1>1, <1>9, <3>2, <3>3 DEF FlushTaken, history, Inv, TypeOK, Chunks
  <2>2. CASE /\ processing' = FALSE
             /\ inConsumer' = inConsumer \ {o}
             /\ timer' = IF queue = <<>> THEN timer ELSE Scheduled
             /\ pc' = Returned(o)
             /\ UNCHANGED <<queue, flushed>>
    <3>1. inConsumer' = {} /\ pc' \in [Callers -> Places]
          /\ \A c \in Callers : pc'[c] \notin {"flushing", "closeflush"}
      BY <1>0, <2>0, <2>2 DEF Returned, BufferTyped, Inv, SerialFlushes, Places
    <3>2. BufferTyped' /\ SerialFlushes'
      BY <1>0, <2>2, <3>1 DEF SerialFlushes, BufferTyped, Scheduled
    <3> QED BY <1>1, <1>9, <2>2, <3>2 DEF FlushTaken, history, Inv, TypeOK, Chunks
  <2> QED BY <1>9, <2>1, <2>2 DEF FlushTaken
<1>10. ASSUME NEW o \in Owners, FlushThrows(o) PROVE Inv'
  <2>1. inConsumer' = {} /\ pc' \in [Callers -> Places]
        /\ \A c \in Callers : pc'[c] \notin {"flushing", "closeflush"}
    BY <1>0, <1>10 DEF FlushThrows, BufferTyped, Inv, SerialFlushes, Places
  <2>2. BufferTyped' /\ SerialFlushes'
    BY <1>0, <1>10, <2>1 DEF FlushThrows, SerialFlushes, BufferTyped
  <2> QED BY <1>1, <1>10, <2>2 DEF FlushThrows, Inv, TypeOK, Chunks
<1>11. CASE TimerFlushes
  <2>1. "timer" \in Owners /\ pc' \in [Callers -> Places]
        /\ \A d \in Callers : pc'[d] \in {"flushing", "closeflush"} <=> d = "timer"
    BY <1>0, <1>6, <1>11 DEF TimerFlushes, Owners, BufferTyped, BufferAssumption
  <2>2. BufferTyped' /\ SerialFlushes' /\ flushed' \o queue' = flushed \o queue
    BY <1>5, <1>11, <2>1 DEF TimerFlushes
  <2> QED BY <1>1, <1>11, <2>2 DEF TimerFlushes, history, Inv, TypeOK, Chunks
<1>12. CASE TimerWasted
  <2>1. BufferTyped' /\ SerialFlushes'
    BY <1>0, <1>12 DEF TimerWasted, Inv, SerialFlushes, BufferTyped
  <2> QED BY <1>1, <1>12, <2>1 DEF TimerWasted, history, Inv, TypeOK, Chunks
<1>13. Len(flushed) \in Nat
  BY <1>0 DEF BufferTyped
<1>14. ASSUME NEW c \in Callers, CloseEnds(c) PROVE Inv'
  <2>1. BufferTyped' /\ SerialFlushes'
    BY <1>0, <1>14 DEF CloseEnds, Inv, SerialFlushes, BufferTyped, Places
  <2> QED BY <1>1, <1>13, <1>14, <2>1 DEF CloseEnds, End, Inv, TypeOK, Chunks
<1>15. CASE ReportError
  <2>1. BufferTyped' /\ SerialFlushes'
    BY <1>0, <1>15 DEF ReportError, Inv, SerialFlushes, BufferTyped
  <2> QED BY <1>1, <1>13, <1>15, <2>1 DEF ReportError, End, Inv, TypeOK, Chunks
<1>16. CASE UNCHANGED vars
  BY <1>16 DEF vars, Inv, TypeOK, SerialFlushes, InOrder
<1> QED BY <1>2, <1>3, <1>4, <1>7, <1>8, <1>9, <1>10, <1>11, <1>12, <1>14, <1>15,
           <1>16 DEF Next

LEMMA InvInit ==
    ASSUME Init
    PROVE  Inv
<1> USE BufferAssumption
<1>1. <<>> \in Seq(1 .. MaxChunks) /\ 0 \in 0 .. MaxChunks
  BY DEF BufferAssumption
<1>2. TypeOK /\ SerialFlushes
  BY <1>1 DEF Init, TypeOK, SerialFlushes, Owners
<1>3. [i \in 1 .. 0 |-> i] = <<>>
  OBVIOUS
<1>4. InOrder
  BY <1>3 DEF Init, InOrder
<1> QED BY <1>2, <1>4 DEF Inv

-----------------------------------------------------------------------------
\* The consumer is entered by one flush at a time, processing is reset by every
\* answer, and a caller awaits exactly the flush it owns (flush(), stream.ts).
THEOREM FlushesAreSerial == Spec => []SerialFlushes
<1>1. Spec => []Inv
  BY InvInit, InvStep, PTL DEF Spec
<1> QED BY <1>1, PTL DEF Inv

\* No chunk is lost, repeated or reordered: handed over and queued chunks are
\* always the accepted ones in order (push(), flush() and its failures).
THEOREM ChunksStayInOrder == Spec => []InOrder
<1>1. Spec => []Inv
  BY InvInit, InvStep, PTL DEF Spec
<1> QED BY <1>1, PTL DEF Inv

-----------------------------------------------------------------------------
(* Running sums of N numbers. *)

IsSum(f, N, w) == f = [n \in 0 .. N |-> IF n = 0 THEN 0 ELSE f[n - 1] + w[n]]

\* What has the equation of a running sum is one: numbers that never decrease.
LEMMA SumFacts ==
    ASSUME NEW N \in Nat, NEW w, \A i \in 1 .. N : w[i] \in Nat,
           NEW f, IsSum(f, N, w)
    PROVE  /\ f \in [0 .. N -> Nat] /\ f[0] = 0
           /\ \A n \in 1 .. N : f[n] = f[n - 1] + w[n]
           /\ \A m, n \in 0 .. N : m <= n => f[m] <= f[n]
<1>1. f[0] = 0 /\ \A n \in 1 .. N : f[n] = f[n - 1] + w[n] /\ n - 1 \in 0 .. N
  BY DEF IsSum
<1>2. f \in [0 .. N -> Nat]
  <2> DEFINE T == {n \in 0 .. N : f[n] \notin Nat}
  <2>1. T = {}
    <3> SUFFICES ASSUME T # {} PROVE FALSE
      OBVIOUS
    <3>1. T \in SUBSET Nat
      OBVIOUS
    <3>2. PICK n \in T : \A m \in T : ~(<<m, n>> \in OpToRel(<, Nat))
      BY <3>1, WFMin, NatLessThanWellFounded
    <3>3. \A m \in T : ~(m < n)
      BY <3>1, <3>2 DEF OpToRel
    <3>4. n \in 1 .. N /\ n - 1 \in 0 .. N /\ n - 1 < n
      BY <1>1
    <3> QED BY <1>1, <3>3, <3>4
  <2>2. f = [n \in 0 .. N |-> f[n]]
    BY DEF IsSum
  <2> QED BY <2>1, <2>2
<1>3. ASSUME NEW m \in 0 .. N PROVE \A n \in 0 .. N : m <= n => f[m] <= f[n]
  <2> DEFINE T == {n \in 0 .. N : m <= n /\ ~(f[m] <= f[n])}
  <2> SUFFICES ASSUME T # {} PROVE FALSE
    OBVIOUS
  <2>1. T \in SUBSET Nat
    OBVIOUS
  <2>2. PICK n \in T : \A k \in T : ~(<<k, n>> \in OpToRel(<, Nat))
    BY <2>1, WFMin, NatLessThanWellFounded
  <2>3. \A k \in T : ~(k < n)
    BY <2>1, <2>2 DEF OpToRel
  <2>4. n # m /\ n \in 1 .. N /\ n - 1 \in 0 .. N /\ n - 1 < n /\ m <= n - 1
    BY <1>2
  <2>5. f[m] <= f[n - 1]
    BY <2>3, <2>4
  <2>6. f[n] = f[n - 1] + w[n] /\ w[n] \in Nat /\ f[n - 1] \in Nat /\ f[m] \in Nat
    BY <1>1, <1>2, <2>4
  <2> QED BY <2>5, <2>6
<1> QED BY <1>1, <1>2, <1>3

\* There is one.
LEMMA SumExists ==
    ASSUME NEW N \in Nat, NEW w, \A i \in 1 .. N : w[i] \in Nat
    PROVE  \E f : IsSum(f, N, w)
<1> DEFINE UpTo(f, n) == /\ f \in [0 .. n -> Nat]
                        /\ f[0] = 0
                        /\ \A k \in 1 .. n : f[k] = f[k - 1] + w[k]
           T == {n \in 0 .. N : ~\E f : UpTo(f, n)}
<1>1. T = {}
  <2> SUFFICES ASSUME T # {} PROVE FALSE
    OBVIOUS
  <2>1. T \in SUBSET Nat
    OBVIOUS
  <2>2. PICK n \in T : \A m \in T : ~(<<m, n>> \in OpToRel(<, Nat))
    BY <2>1, WFMin, NatLessThanWellFounded
  <2>3. \A m \in T : ~(m < n)
    BY <2>1, <2>2 DEF OpToRel
  <2>4. n # 0
    <3>1. UpTo([i \in {0} |-> 0], 0)
      OBVIOUS
    <3> QED BY <3>1
  <2>5. n \in 1 .. N /\ n - 1 \in 0 .. N /\ n - 1 < n
    BY <2>4
  <2>6. PICK f : UpTo(f, n - 1)
    BY <2>3, <2>5
  <2> DEFINE g == [k \in 0 .. n |-> IF k = n THEN f[n - 1] + w[n] ELSE f[k]]
  <2>7. /\ g \in [0 .. n -> Nat] /\ g[0] = 0
        /\ g[n] = f[n - 1] + w[n] /\ \A k \in 0 .. (n - 1) : g[k] = f[k]
    BY <2>5, <2>6
  <2> HIDE DEF g
  <2>8. ASSUME NEW k \in 1 .. n
        PROVE  g[k] = g[k - 1] + w[k]
    <3>1. CASE k = n
      BY <2>5, <2>7, <3>1
    <3>2. CASE k # n
      <4>1. k \in 1 .. (n - 1) /\ k \in 0 .. (n - 1) /\ k - 1 \in 0 .. (n - 1)
        BY <2>5, <3>2
      <4> QED BY <2>6, <2>7, <4>1
    <3> QED BY <3>1, <3>2
  <2>9. UpTo(g, n)
    BY <2>7, <2>8
  <2> HIDE DEF UpTo
  <2> QED BY <2>9
<1>2. \E f : UpTo(f, N)
  <2>1. N \in 0 .. N
    OBVIOUS
  <2> HIDE DEF UpTo
  <2> QED BY <1>1, <2>1
<1>3. PICK f : UpTo(f, N)
  BY <1>2
<1>4. IsSum(f, N, w)
  <2>1. \A n \in 0 .. N : f[n] = IF n = 0 THEN 0 ELSE f[n - 1] + w[n]
    BY <1>3
  <2>2. f = [n \in 0 .. N |-> f[n]]
    BY <1>3
  <2> QED BY <2>1, <2>2 DEF IsSum
<1> QED BY <1>4

-----------------------------------------------------------------------------
(* The bytes of chunks. *)

\* BytesUpTo is the running sum of the sizes.
LEMMA BytesFacts ==
    /\ BytesUpTo \in [0 .. MaxChunks -> Nat]
    /\ \A m, n \in 0 .. MaxChunks : m <= n => BytesUpTo[m] <= BytesUpTo[n]
<1>1. MaxChunks \in Nat /\ \A i \in 1 .. MaxChunks : SizeOf[i] \in Nat
  BY BufferAssumption, StreamProgressAssumption
<1>2. \E f : IsSum(f, MaxChunks, SizeOf)
  BY <1>1, SumExists
<1>3. IsSum(BytesUpTo, MaxChunks, SizeOf)
  BY <1>2 DEF BytesUpTo, IsSum
<1> QED BY <1>1, <1>3, SumFacts

ProgressSources == {"chunk", "flush", "eof", "interval", "snapshot"}
Records ==
    [source : ProgressSources, loadedBytes : Nat, percent : SUBSET (0 .. 100),
     pendingChunks : 0 .. MaxChunks, pendingBytes : Nat, bufferPercent : 0 .. 100]

\* A percentage is one, of whatever.
LEMMA PercentTyped ==
    ASSUME NEW n \in Nat, NEW m \in Nat \ {0}
    PROVE  AsPercent(n, m) \in 0 .. 100
<1>1. (100 * n) \div m \in Nat
  OBVIOUS
<1> QED BY <1>1 DEF AsPercent

\* A record of n chunks, of which those after the first m are pending.
LEMMA RecordFacts ==
    ASSUME NEW n \in 0 .. MaxChunks, NEW m \in 0 .. n, NEW chunks \in Seq(Chunks),
           Len(chunks) = n - m, \A i \in 1 .. Len(chunks) : chunks[i] = m + i,
           NEW source \in ProgressSources, NEW p \in ProgressOf(source, n, chunks)
    PROVE  /\ p \in Records
           /\ p.loadedBytes = BytesUpTo[n]
           /\ p.loadedBytes - p.pendingBytes = BytesUpTo[m]
           /\ p.pendingChunks = n - m
           /\ source = "eof" => p.percent = {100}
<1>0. MaxChunks \in Nat /\ n \in Nat /\ m \in 0 .. MaxChunks /\ n - m \in 0 .. MaxChunks
  BY BufferAssumption
<1>1. BytesUpTo[n] \in Nat /\ BytesUpTo[m] \in Nat /\ BytesUpTo[m] <= BytesUpTo[n]
  BY <1>0, BytesFacts
<1>2. BytesOf(chunks) = BytesUpTo[n] - BytesUpTo[m]
  <2>1. CASE chunks = <<>>
    <3>1. n = m
      BY <1>0, <2>1
    <3> QED BY <1>1, <2>1, <3>1 DEF BytesOf
  <2>2. CASE chunks # <<>>
    <3>1. Len(chunks) \in 1 .. Len(chunks) /\ 1 \in 1 .. Len(chunks)
      BY <2>2
    <3>2. chunks[Len(chunks)] = n /\ chunks[1] - 1 = m
      BY <1>0, <3>1
    <3> QED BY <2>2, <3>2 DEF BytesOf
  <2> QED BY <2>1, <2>2
<1>3. StreamPercent(source, BytesUpTo[n]) \in SUBSET (0 .. 100)
  <2>1. TotalBytes # 0 => AsPercent(BytesUpTo[n], TotalBytes) \in 0 .. 100
    BY <1>1, PercentTyped, StreamProgressAssumption
  <2> QED BY <2>1 DEF StreamPercent
<1>4. BufferPercent(source, chunks) \in 0 .. 100
  <2>1. Len(chunks) \in Nat /\ BufferSize \in Nat \ {0}
    BY BufferAssumption
  <2>2. AsPercent(Len(chunks), BufferSize) \in 0 .. 100
    BY <2>1, PercentTyped
  <2> HIDE DEF AsPercent
  <2> QED BY <2>2 DEF BufferPercent
<1>5. /\ p.source = source /\ p.loadedBytes = BytesUpTo[n]
      /\ p.percent = StreamPercent(source, BytesUpTo[n]) /\ p.pendingChunks = n - m
      /\ p.pendingBytes = BytesUpTo[n] - BytesUpTo[m]
      /\ p.bufferPercent = BufferPercent(source, chunks)
  BY <1>2 DEF ProgressOf
<1>6. p \in Records
  <2> DEFINE r == [source |-> source, loadedBytes |-> BytesUpTo[n],
                   percent |-> StreamPercent(source, BytesUpTo[n]),
                   pendingChunks |-> Len(chunks), pendingBytes |-> BytesOf(chunks),
                   bufferPercent |-> BufferPercent(source, chunks)]
  <2>1. p = r
    BY DEF ProgressOf
  <2>2. BytesOf(chunks) \in Nat
    BY <1>1, <1>2
  <2> QED BY <1>0, <1>1, <1>3, <1>4, <2>1, <2>2 DEF Records
<1>7. source = "eof" => p.percent = {100}
  BY <1>5 DEF StreamPercent
<1> QED BY <1>1, <1>5, <1>6, <1>7

\* What is queued are the chunks after those handed over.
QueueFollows ==
    /\ Len(flushed) \in 0 .. accepted /\ Len(queue) = accepted - Len(flushed)
    /\ \A i \in 1 .. Len(queue) : queue[i] = Len(flushed) + i
    /\ \A i \in 1 .. Len(flushed) : flushed[i] = i

LEMMA QueueFacts == Inv => QueueFollows
<1> SUFFICES ASSUME TypeOK, InOrder PROVE QueueFollows
  BY DEF Inv
<1>1. flushed \in Seq(Chunks) /\ queue \in Seq(Chunks) /\ accepted \in Nat
  BY DEF TypeOK, Chunks
<1>2. Len(flushed) \in Nat /\ Len(queue) \in Nat /\ Len(flushed \o queue) = Len(flushed) + Len(queue)
  BY <1>1
<1>3. Len(flushed \o queue) = accepted
  BY <1>1 DEF InOrder
<1> DEFINE all == flushed \o queue
<1>0. \A k \in 1 .. accepted : all[k] = k
  BY DEF InOrder
<1>4. ASSUME NEW i \in 1 .. Len(queue) PROVE queue[i] = Len(flushed) + i
  <2>1. all[Len(flushed) + i] = queue[i] /\ Len(flushed) + i \in 1 .. accepted
    BY <1>1, <1>2, <1>3
  <2> QED BY <1>0, <2>1
<1>5. ASSUME NEW i \in 1 .. Len(flushed) PROVE flushed[i] = i
  <2>1. all[i] = flushed[i] /\ i \in 1 .. accepted
    BY <1>1, <1>2, <1>3
  <2> QED BY <1>0, <2>1
<1> QED BY <1>2, <1>3, <1>4, <1>5 DEF QueueFollows

-----------------------------------------------------------------------------
(* What is told of the progress. *)

\* A close() that took the whole queue leaves nothing behind it, and nothing
\* comes after it, unless a chunk is late or the stream fails.
Drained == Closing # {} \/ closed => queue = <<>> \/ Aborted \/ late # {}

\* The flushes of a step take the whole queue.
LEMMA HandsOverAll ==
    ASSUME Inv, [Next]_vars, flushed' # flushed
    PROVE  /\ queue' = <<>> /\ accepted' \in 0 .. MaxChunks
           /\ Len(flushed) \in 0 .. Len(flushed')
           /\ queue # <<>> \/ accepted' = accepted + 1
<1>1. /\ flushed \in Seq(Chunks) /\ queue \in Seq(Chunks) /\ Inv' /\ accepted \in Nat
      /\ accepted' \in 0 .. MaxChunks
  BY InvStep DEF Inv, TypeOK, Chunks
<1>2. ASSUME NEW o, NEW chunks \in Seq(Chunks), HandOver(o, chunks)
      PROVE  queue' = <<>> /\ Len(flushed) \in 0 .. Len(flushed')
  BY <1>1, <1>2 DEF HandOver
<1>3. ASSUME NEW c \in Callers, NEW chunks \in Seq(Chunks), Enqueued(c, chunks)
      PROVE  queue' = <<>> /\ Len(flushed) \in 0 .. Len(flushed') /\ CanFlush(chunks)
  BY <1>2, <1>3 DEF Enqueued
<1>4. ASSUME NEW c \in Callers, Push(c)
      PROVE  queue' = <<>> /\ Len(flushed) \in 0 .. Len(flushed') /\ accepted' = accepted + 1
  <2>1. Append(queue, accepted') \in Seq(Chunks) /\ accepted' = accepted + 1
    BY <1>1, <1>4 DEF Push, Chunks
  <2> QED BY <1>3, <1>4, <2>1 DEF Push, AwaitProgress
<1>5. ASSUME NEW c \in Callers, ProgressTaken(c) \/ Flush(c) \/ Close(c)
      PROVE  queue' = <<>> /\ Len(flushed) \in 0 .. Len(flushed') /\ queue # <<>>
  BY <1>1, <1>2, <1>3, <1>5 DEF ProgressTaken, Flush, Close, CanFlush
<1>6. ASSUME NEW o \in Owners, FlushTaken(o)
      PROVE  queue' = <<>> /\ Len(flushed) \in 0 .. Len(flushed') /\ queue # <<>>
  BY <1>1, <1>2, <1>6 DEF FlushTaken
<1>7. CASE TimerFlushes
  BY <1>1, <1>2, <1>7 DEF TimerFlushes, CanFlush
<1>8. /\ \A c \in Callers : ~ProgressThrows(c) /\ ~CloseEnds(c)
      /\ \A o \in Owners : ~FlushThrows(o)
      /\ ~TimerWasted /\ ~ReportError /\ ~UNCHANGED vars
  BY DEF ProgressThrows, CloseEnds, FlushThrows, TimerWasted, ReportError, vars
<1> QED BY <1>1, <1>4, <1>5, <1>6, <1>7, <1>8 DEF Next

LEMMA DrainedInit == ASSUME Init PROVE Drained
BY DEF Init, Drained, Closing

LEMMA DrainedStep ==
    ASSUME Inv, Drained, [Next]_vars
    PROVE  Drained'
<1>0. Inv' /\ pc \in [Callers -> Places] /\ pc' \in [Callers -> Places]
  BY InvStep DEF Inv, TypeOK, Places
<1>1. queue \in Seq(Chunks) /\ accepted \in Nat
  BY DEF Inv, TypeOK, Chunks
<1>2. Aborted => Aborted'
  BY DEF Aborted, Next, vars, Push, ProgressTaken, ProgressThrows, Flush, Close, CloseEnds,
         FlushTaken, FlushThrows, TimerFlushes, TimerWasted, ReportError, End, history
<1>3. ASSUME late' = late, queue' = queue, Closing' \subseteq Closing,
             closed' => closed \/ Closing # {}
      PROVE  Drained'
  BY <1>2, <1>3 DEF Drained
<1>4. ASSUME queue' = <<>> PROVE Drained'
  BY <1>4 DEF Drained
<1>5. ASSUME NEW c \in Callers, Push(c) PROVE Drained'
  <2>1. Closing' \subseteq Closing
    BY <1>0, <1>5 DEF Push, Closing, Enqueued, AwaitProgress, Places
  <2> QED BY <1>5, <2>1 DEF Push, Drained
<1>6. ASSUME NEW c \in Callers, ProgressTaken(c) PROVE Drained'
  <2>1. Closing' \subseteq Closing
    BY <1>0, <1>6 DEF ProgressTaken, Closing, Enqueued, Places
  <2>2. queue' = <<>> \/ queue' = queue
    BY <1>6 DEF ProgressTaken, Enqueued, HandOver
  <2> QED BY <1>3, <1>4, <1>6, <2>1, <2>2 DEF ProgressTaken, history
<1>7. ASSUME NEW c \in Callers, ProgressThrows(c) \/ CloseEnds(c) PROVE Drained'
  <2>1. Closing' \subseteq Closing
    BY <1>0, <1>7 DEF ProgressThrows, CloseEnds, Closing, Places
  <2>2. closed' => closed \/ Closing # {}
    BY <1>7 DEF ProgressThrows, CloseEnds, Closing
  <2> QED BY <1>3, <1>7, <2>1, <2>2 DEF ProgressThrows, CloseEnds
<1>8. ASSUME NEW c \in Callers, Flush(c) PROVE Drained'
  BY <1>4, <1>8 DEF Flush, HandOver
<1>9. ASSUME NEW c \in Callers, Close(c) PROVE Drained'
  <2>1. CASE HandOver(c, queue)
    BY <1>4, <2>1 DEF HandOver
  <2>2. CASE late' = late \cup {queue[i] : i \in 1 .. Len(queue)} /\ queue' = queue
    <3>1. CASE queue = <<>>
      BY <1>4, <2>2, <3>1
    <3>2. CASE queue # <<>>
      <4>1. 1 \in 1 .. Len(queue)
        BY <1>1, <3>2
      <4>2. late' # {}
        BY <2>2, <4>1
      <4> QED BY <4>2 DEF Drained
    <3> QED BY <3>1, <3>2
  <2> QED BY <1>9, <2>1, <2>2 DEF Close
<1>10. ASSUME NEW o \in Owners, FlushTaken(o) PROVE Drained'
  <2>1. CASE HandOver(o, queue)
    BY <1>4, <2>1 DEF HandOver
  <2>2. CASE queue' = queue /\ pc' = Returned(o)
    <3>1. Closing' \subseteq Closing
      BY <1>0, <2>2 DEF Closing, Returned, Places
    <3> QED BY <1>3, <1>10, <2>2, <3>1 DEF FlushTaken, history
  <2> QED BY <1>10, <2>1, <2>2 DEF FlushTaken
<1>11. ASSUME NEW o \in Owners, FlushThrows(o) PROVE Drained'
  <2>1. Closing' \subseteq Closing
    BY <1>0, <1>11 DEF FlushThrows, Closing, Places
  <2> QED BY <1>3, <1>11, <2>1 DEF FlushThrows
<1>12. CASE TimerFlushes
  BY <1>4, <1>12 DEF TimerFlushes, HandOver
<1>13. CASE TimerWasted \/ UNCHANGED vars
  BY <1>3, <1>13 DEF TimerWasted, history, vars, Closing
<1>14. CASE ReportError
  <2>1. Aborted'
    <3> DEFINE e == [type |-> "error", after |-> Len(flushed)]
    <3>1. e \in ends' /\ e.type = "error"
      BY <1>14 DEF ReportError, End
    <3> QED BY <3>1 DEF Aborted
  <2> QED BY <2>1 DEF Drained
<1> QED BY <1>5, <1>6, <1>7, <1>8, <1>9, <1>10, <1>11, <1>12, <1>13, <1>14 DEF Next

\* A stream that has ended well has a record, which snapshot() returns.
Recorded == closed => Aborted \/ lastProgress # {}

\* The inductive invariant of the stream with its record.
StreamInv == Inv /\ Drained /\ Recorded /\ StreamTypeOK /\ StreamToldTrue

\* Every step of the stream is one of the buffer, or changes the record alone.
LEMMA StreamStep ==
    ASSUME [StreamNext]_streamVars
    PROVE  [Next]_vars
BY DEF StreamNext, streamVars, PushTold, EndTold, FlushTold, NothingTold, IntervalTells,
       Snapshot, Next

LEMMA StreamInvInit ==
    ASSUME StreamInit
    PROVE  StreamInv
<1>1. Inv /\ Drained
  BY InvInit, DrainedInit DEF StreamInit
<1>2. lastProgress = {} /\ ~closed
  BY DEF StreamInit, Init
<1> QED BY <1>1, <1>2 DEF StreamInv, Inv, StreamTypeOK, StreamToldTrue, Recorded

\* A record that is there stays true in a step that accepts nothing, and that
\* ends the stream only as failed.
LEMMA RecordStays ==
    ASSUME StreamInv, Inv', Drained, [Next]_vars,
           NEW p, p \in lastProgress, accepted' = accepted,
           flushed' = flushed, closed' => closed \/ Aborted',
           Aborted => Aborted', late \subseteq late'
    PROVE  /\ p.loadedBytes = BytesUpTo[accepted']
           /\ p.loadedBytes - p.pendingBytes <= BytesUpTo[Len(flushed')]
           /\ closed' /\ ~Aborted' /\ late' = {} => p.percent = {100} /\ p.pendingChunks = 0
<1>1. /\ p.loadedBytes = BytesUpTo[accepted]
      /\ p.loadedBytes - p.pendingBytes <= BytesUpTo[Len(flushed)]
      /\ closed /\ ~Aborted /\ late = {} => p.percent = {100} /\ p.pendingChunks = 0
  BY DEF StreamInv, StreamToldTrue
<1> QED BY <1>1

LEMMA HistoryGrows ==
    ASSUME [Next]_vars
    PROVE  /\ Aborted => Aborted'
           /\ late \subseteq late'
           /\ closed' => closed \/ Aborted' \/ \E c \in Callers : CloseEnds(c)
           /\ accepted' = accepted \/ \E c \in Callers : Push(c)
<1>1. Aborted => Aborted'
  BY DEF Aborted, Next, vars, Push, ProgressTaken, ProgressThrows, Flush, Close, CloseEnds,
         FlushTaken, FlushThrows, TimerFlushes, TimerWasted, ReportError, End, history
<1>2. late \subseteq late'
  BY DEF Next, vars, Push, ProgressTaken, ProgressThrows, Flush, Close, CloseEnds,
         FlushTaken, FlushThrows, TimerFlushes, TimerWasted, ReportError, history
<1>3. ASSUME ReportError PROVE Aborted'
  <2> DEFINE e == [type |-> "error", after |-> Len(flushed)]
  <2>1. e \in ends' /\ e.type = "error"
    BY <1>3 DEF ReportError, End
  <2> QED BY <2>1 DEF Aborted
<1>4. closed' => closed \/ Aborted' \/ \E c \in Callers : CloseEnds(c)
  BY <1>3 DEF Next, vars, Push, ProgressTaken, ProgressThrows, Flush, Close,
         FlushTaken, FlushThrows, TimerFlushes, TimerWasted
<1>5. accepted' = accepted \/ \E c \in Callers : Push(c)
  BY DEF Next, vars, ProgressTaken, ProgressThrows, Flush, Close, CloseEnds,
         FlushTaken, FlushThrows, TimerFlushes, TimerWasted, ReportError
<1> QED BY <1>1, <1>2, <1>4, <1>5

\* The record of a flush, which is of the chunks handed over.
LEMMA FlushRecord ==
    ASSUME StreamInv, [Next]_vars, flushed' # flushed, NEW p \in FlushProgress
    PROVE  /\ p \in Records /\ p.loadedBytes = BytesUpTo[accepted']
           /\ p.loadedBytes - p.pendingBytes <= BytesUpTo[Len(flushed')]
<1> DEFINE chunks == SubSeq(flushed', Len(flushed) + 1, Len(flushed'))
<1>1. Inv' /\ Inv
  BY InvStep DEF StreamInv
<1>2. /\ Len(flushed') \in 0 .. accepted' /\ Len(queue') = accepted' - Len(flushed')
      /\ \A i \in 1 .. Len(flushed') : flushed'[i] = i
  <2>1. QueueFollows'
    BY <1>1, QueueFacts, PTL
  <2> QED BY <2>1 DEF QueueFollows
<1>3. /\ queue' = <<>> /\ accepted' \in 0 .. MaxChunks /\ Len(flushed) \in 0 .. Len(flushed')
      /\ flushed' \in Seq(Chunks)
  BY <1>1, HandsOverAll DEF Inv, TypeOK, Chunks
<1>4. Len(flushed') = accepted'
  BY <1>2, <1>3
<1>5. /\ chunks \in Seq(Chunks) /\ Len(chunks) = accepted' - Len(flushed)
      /\ \A i \in 1 .. Len(chunks) : chunks[i] = Len(flushed) + i
  <2> DEFINE f == flushed'
             m == Len(flushed)
  <2>1. f \in Seq(Chunks) /\ m \in 0 .. Len(f) /\ \A i \in 1 .. Len(f) : f[i] = i
    BY <1>2, <1>3
  <2>2. Len(f) = accepted'
    BY <1>4
  <2> HIDE DEF f, m
  <2>3. LET s == SubSeq(f, m + 1, Len(f))
        IN  /\ s \in Seq(Chunks) /\ Len(s) = Len(f) - m
            /\ \A i \in 1 .. Len(s) : s[i] = m + i
    BY <2>1
  <2> QED BY <2>2, <2>3 DEF f, m
<1>6. "flush" \in ProgressSources /\ p \in ProgressOf("flush", accepted', chunks)
  BY DEF ProgressSources, FlushProgress
<1>7. Len(flushed) \in 0 .. accepted'
  BY <1>3, <1>4
<1> HIDE DEF chunks
<1>8. /\ p \in Records /\ p.loadedBytes = BytesUpTo[accepted']
      /\ p.loadedBytes - p.pendingBytes = BytesUpTo[Len(flushed)]
  BY <1>3, <1>5, <1>6, <1>7, RecordFacts
<1>9. BytesUpTo[Len(flushed)] <= BytesUpTo[Len(flushed')]
  BY <1>3, <1>4, <1>7, BytesFacts, BufferAssumption
<1> QED BY <1>8, <1>9

\* A record computed of what is queued at the end of a step.
LEMMA QueueRecord ==
    ASSUME QueueFollows', TypeOK', NEW source \in ProgressSources,
           NEW p \in ProgressOf(source, accepted', queue')
    PROVE  /\ p \in Records /\ p.loadedBytes = BytesUpTo[accepted']
           /\ p.loadedBytes - p.pendingBytes <= BytesUpTo[Len(flushed')]
           /\ p.pendingChunks = Len(queue')
           /\ source = "eof" => p.percent = {100}
<1> DEFINE n == accepted'
           m == Len(flushed')
           chunks == queue'
<1>1. /\ n \in 0 .. MaxChunks /\ m \in 0 .. n /\ chunks \in Seq(Chunks)
      /\ Len(chunks) = n - m /\ \A i \in 1 .. Len(chunks) : chunks[i] = m + i
      /\ p \in ProgressOf(source, n, chunks)
  BY DEF QueueFollows, TypeOK, Chunks
<1>2. m \in 0 .. MaxChunks /\ BytesUpTo[m] \in Nat
  BY <1>1, BytesFacts, BufferAssumption
<1> HIDE DEF n, m, chunks
<1>3. /\ p \in Records /\ p.loadedBytes = BytesUpTo[n]
      /\ p.loadedBytes - p.pendingBytes = BytesUpTo[m]
      /\ p.pendingChunks = n - m /\ (source = "eof" => p.percent = {100})
  <2>1. PICK a, b, c : a = n /\ b = m /\ c = chunks
    OBVIOUS
  <2>2. /\ a \in 0 .. MaxChunks /\ b \in 0 .. a /\ c \in Seq(Chunks)
        /\ Len(c) = a - b /\ \A i \in 1 .. Len(c) : c[i] = b + i
        /\ p \in ProgressOf(source, a, c)
    BY <1>1, <2>1
  <2>3. /\ p \in Records /\ p.loadedBytes = BytesUpTo[a]
        /\ p.loadedBytes - p.pendingBytes = BytesUpTo[b]
        /\ p.pendingChunks = a - b /\ (source = "eof" => p.percent = {100})
    BY <2>2, RecordFacts DEF ProgressSources
  <2> QED BY <2>1, <2>3
<1>4. p.pendingChunks = Len(chunks) /\ p.loadedBytes - p.pendingBytes <= BytesUpTo[m]
  BY <1>1, <1>2, <1>3
<1> QED BY <1>3, <1>4 DEF n, m, chunks

\* What a record must say.
Says(p) ==
    /\ p \in Records
    /\ p.loadedBytes = BytesUpTo[accepted]
    /\ p.loadedBytes - p.pendingBytes <= BytesUpTo[Len(flushed)]
    /\ closed /\ ~Aborted /\ late = {} => p.percent = {100} /\ p.pendingChunks = 0

LEMMA RecordedStep ==
    ASSUME StreamInv, [StreamNext]_streamVars
    PROVE  Recorded'
<1>1. /\ Aborted => Aborted'
      /\ closed' => closed \/ Aborted' \/ \E c \in Callers : CloseEnds(c)
  BY StreamStep, HistoryGrows
<1>2. \A source, n, chunks : ProgressOf(source, n, chunks) # {}
  BY DEF ProgressOf
<1>3. FlushProgress # {}
  BY <1>2 DEF FlushProgress
<1>4. ASSUME lastProgress' # {} PROVE Recorded'
  BY <1>4 DEF Recorded
<1>5. ASSUME NEW c \in Callers, PushTold(c) \/ EndTold(c) PROVE Recorded'
  BY <1>2, <1>3, <1>4, <1>5 DEF PushTold, EndTold
<1>6. CASE IntervalTells \/ Snapshot
  BY <1>2, <1>4, <1>6 DEF IntervalTells, Snapshot
<1>7. ASSUME closed' => closed \/ Aborted', lastProgress' = lastProgress \/ lastProgress' # {}
      PROVE  Recorded'
  BY <1>1, <1>7 DEF StreamInv, Recorded
<1>8. CASE FlushTold
  <2>1. closed' = closed
    BY <1>8 DEF FlushTold, ProgressTaken, Flush, Close, FlushTaken, TimerFlushes
  <2> QED BY <1>3, <1>7, <1>8, <2>1 DEF FlushTold
<1>9. CASE NothingTold
  <2>1. CASE ReportError
    <3> DEFINE e == [type |-> "error", after |-> Len(flushed)]
    <3>1. e \in ends' /\ e.type = "error"
      BY <2>1 DEF ReportError, End
    <3> QED BY <3>1 DEF Aborted, Recorded
  <2>2. CASE ~ReportError
    <3>1. closed' = closed
      BY <1>9, <2>2 DEF NothingTold, ProgressThrows, FlushThrows, TimerWasted
    <3> QED BY <1>7, <1>9, <3>1 DEF NothingTold
  <2> QED BY <2>1, <2>2
<1>10. CASE UNCHANGED streamVars
  BY <1>7, <1>10 DEF streamVars, vars
<1> QED BY <1>5, <1>6, <1>8, <1>9, <1>10 DEF StreamNext

LEMMA StreamInvStep ==
    ASSUME StreamInv, [StreamNext]_streamVars
    PROVE  StreamInv'
<1>1. [Next]_vars /\ Inv /\ Drained
  BY StreamStep DEF StreamInv
<1>2. Inv' /\ Drained' /\ TypeOK'
  BY <1>1, InvStep, DrainedStep DEF Inv
<1>3. QueueFollows'
  BY <1>2, QueueFacts, PTL
<1>4. SUFFICES ASSUME NEW p, p \in lastProgress'
               PROVE  Says(p)'
  BY <1>2, <1>4, RecordedStep
     DEF StreamInv, StreamTypeOK, StreamToldTrue, Records, ProgressSources, Says
<1>5. /\ Aborted => Aborted'
      /\ late \subseteq late'
      /\ closed' => closed \/ Aborted' \/ \E c \in Callers : CloseEnds(c)
      /\ accepted' = accepted \/ \E c \in Callers : Push(c)
  BY <1>1, HistoryGrows
<1>6. \A q \in lastProgress : q \in Records
  BY DEF StreamInv, StreamTypeOK, Records, ProgressSources
\* While the stream is open or failing, a record need not tell of its end.
<1>7. ASSUME NEW source \in ProgressSources, lastProgress' = ProgressOf(source, accepted', queue'),
             closed' /\ ~Aborted' /\ late' = {} => source = "eof"
      PROVE  Says(p)'
  <2>1. /\ p \in Records /\ p.loadedBytes = BytesUpTo[accepted']
        /\ p.loadedBytes - p.pendingBytes <= BytesUpTo[Len(flushed')]
        /\ p.pendingChunks = Len(queue') /\ (source = "eof" => p.percent = {100})
    BY <1>2, <1>3, <1>4, <1>7, QueueRecord
  <2>2. closed' /\ ~Aborted' /\ late' = {} => Len(queue') = 0
    BY <1>2 DEF Drained
  <2> QED BY <1>7, <2>1, <2>2 DEF Says
\* No flush of a stream that has ended well has anything to hand over.
<1>8. ASSUME flushed' # flushed, accepted' = accepted \/ ~closed, closed' = closed
      PROVE  ~(closed' /\ ~Aborted' /\ late' = {})
  <2>1. queue # <<>> \/ accepted' = accepted + 1
    BY <1>1, <1>8, HandsOverAll
  <2>2. accepted \in Nat
    BY <1>1 DEF Inv, TypeOK
  <2> QED BY <1>1, <1>5, <1>8, <2>1, <2>2 DEF Drained
<1>9. ASSUME flushed' # flushed, lastProgress' = FlushProgress,
             ~(closed' /\ ~Aborted' /\ late' = {})
      PROVE  Says(p)'
  BY <1>1, <1>4, <1>9, FlushRecord DEF Says
<1>10. ASSUME lastProgress' = lastProgress, accepted' = accepted, flushed' = flushed,
              closed' => closed \/ Aborted'
       PROVE  Says(p)'
  BY <1>1, <1>2, <1>4, <1>5, <1>6, <1>10, RecordStays DEF Says
<1>11. ASSUME NEW c \in Callers, PushTold(c)
       PROVE  Says(p)'
  <2>1. ~closed'
    BY <1>11 DEF PushTold, Push
  <2>2. "chunk" \in ProgressSources
    BY DEF ProgressSources
  <2>3. CASE flushed' # flushed
    BY <1>9, <1>11, <2>1, <2>3 DEF PushTold, HandsOver
  <2>4. CASE flushed' = flushed
    BY <1>7, <1>11, <2>1, <2>2, <2>4 DEF PushTold, HandsOver
  <2> QED BY <2>3, <2>4
<1>12. CASE FlushTold
  <2>1. accepted' = accepted /\ closed' = closed
    BY <1>12 DEF FlushTold, ProgressTaken, Flush, Close, FlushTaken, TimerFlushes
  <2>2. CASE flushed' # flushed
    BY <1>8, <1>9, <1>12, <2>1, <2>2 DEF FlushTold, HandsOver
  <2>3. CASE flushed' = flushed
    BY <1>10, <1>12, <2>1, <2>3 DEF FlushTold, HandsOver
  <2> QED BY <2>2, <2>3
<1>13. ASSUME NEW c \in Callers, EndTold(c)
       PROVE  Says(p)'
  <2>1. lastProgress' = ProgressOf("eof", accepted', queue')
    BY <1>13 DEF EndTold, CloseEnds
  <2>2. "eof" \in ProgressSources
    BY DEF ProgressSources
  <2> QED BY <1>7, <2>1, <2>2
<1>14. CASE NothingTold
  <2>1. lastProgress' = lastProgress /\ accepted' = accepted /\ flushed' = flushed
    BY <1>14 DEF NothingTold, ProgressThrows, FlushThrows, TimerWasted, ReportError
  <2>2. closed' => closed \/ Aborted'
    <3>1. CASE ReportError
      <4> DEFINE e == [type |-> "error", after |-> Len(flushed)]
      <4>1. e \in ends' /\ e.type = "error"
        BY <3>1 DEF ReportError, End
      <4> QED BY <4>1 DEF Aborted
    <3>2. CASE ~ReportError
      BY <1>14, <3>2 DEF NothingTold, ProgressThrows, FlushThrows, TimerWasted
    <3> QED BY <3>1, <3>2
  <2> QED BY <1>10, <2>1, <2>2
<1>15. CASE IntervalTells
  <2>1. lastProgress' = ProgressOf("interval", accepted', queue') /\ ~closed'
    BY <1>15 DEF IntervalTells, vars
  <2>2. "interval" \in ProgressSources
    BY DEF ProgressSources
  <2> QED BY <1>7, <2>1, <2>2
<1>16. CASE Snapshot
  <2>1. accepted' = accepted /\ flushed' = flushed /\ closed' = closed /\ queue' = queue
    BY <1>16 DEF Snapshot, vars
  <2>2. CASE closed /\ lastProgress # {}
    BY <1>10, <1>16, <2>1, <2>2 DEF Snapshot
  <2>3. CASE ~(closed /\ lastProgress # {})
    <3>1. "snapshot" \in ProgressSources
      BY DEF ProgressSources
    <3>2. lastProgress' = ProgressOf("snapshot", accepted', queue')
      BY <1>16, <2>1, <2>3 DEF Snapshot
    <3>3. closed' => Aborted'
      BY <1>5, <2>1, <2>3 DEF StreamInv, Recorded
    <3> QED BY <1>7, <3>1, <3>2, <3>3
  <2> QED BY <2>2, <2>3
<1>17. CASE UNCHANGED streamVars
  BY <1>10, <1>17 DEF streamVars, vars
<1> QED BY <1>11, <1>12, <1>13, <1>14, <1>15, <1>16, <1>17 DEF StreamNext

LEMMA StreamInvHolds == StreamSpec => []StreamInv
BY StreamInvInit, StreamInvStep, PTL DEF StreamSpec

\* The record of the progress and the fields of the buffer keep their types; a
\* percentage never leaves 0 to 100 (progress()).
THEOREM StreamTyped == StreamSpec => []StreamTypeOK
<1>1. StreamInv => StreamTypeOK
  BY DEF StreamInv
<1> QED BY <1>1, StreamInvHolds, PTL

\* progress() and snapshot() count every accepted chunk once, show as arrived
\* only what was handed over, and after close() say that all of it was, for any
\* number of callers, chunks and sizes.
THEOREM StreamTellsTruth == StreamSpec => []StreamToldTrue
<1>1. StreamInv => StreamToldTrue
  BY DEF StreamInv
<1> QED BY <1>1, StreamInvHolds, PTL
=============================================================================

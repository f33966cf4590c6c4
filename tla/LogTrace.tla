------------------------------- MODULE LogTrace -------------------------------
(***************************************************************************)
(* Log trace (src/src/logtrace/logtrace.ts): a reporter numbers and        *)
(* batches log entries for a sink that may fail; a consumer on a shared    *)
(* network tells its subscribers of each entry once, keeps the latest in a *)
(* ring and counts what the wire has lost.                                 *)
(*                                                                         *)
(* One source; a consumer keeps a separate account of each.  The clock is  *)
(* taken to advance with the numbers.  An entry has a size; what is in it  *)
(* is left out.                                                            *)
(***************************************************************************)
EXTENDS Naturals, Sequences, FiniteSets

CONSTANTS
    FlushCount,     \* options.flushCount
    MaxBatchBytes,  \* options.maxBatchBytes
    Timed,          \* TRUE: flushIntervalMs > 0
    RingSize,       \* options.maxEntries
    ShownLevels,    \* levels that pass the consumer's minLevel
    MaxLogs         \* bound on the entries

ASSUME LogTraceAssumption ==
    /\ FlushCount \in Nat \ {0} /\ MaxBatchBytes \in Nat \ {0} /\ RingSize \in Nat
    /\ Timed \in BOOLEAN /\ MaxLogs \in Nat

VARIABLES
    logBuffer,      \* entries not yet given to the sink
    logTimer,       \* the flush timer is set
    sentOnce,
    logClosed,
    logSeq,         \* seqNo
    batches,        \* batches on the wire, each to be received any number of times
    dropped,        \* history: numbers in batches whose sink failed
    seen,           \* the consumer's account of the source
    maxSeq,
    ring,           \* entries retained
    told,           \* history: how often the subscribers were told of each number
    arrived,        \* history: numbers in the batches received
    threwInBatch    \* history: a subscriber has thrown

logVars == <<logBuffer, logTimer, sentOnce, logClosed, logSeq, batches, dropped, seen,
             maxSeq, ring, told, arrived, threwInBatch>>
reporterVars == <<logBuffer, logTimer, sentOnce, logClosed, logSeq, dropped>>

LogEntry == [seq : 1..MaxLogs, level : {"debug", "error"}, size : 1..MaxBatchBytes]
SeqsOf(batch) == {batch[i].seq : i \in DOMAIN batch}

\* bufferBytes.
Bytes(buffer) ==
    LET f[i \in 0..Len(buffer)] == IF i = 0 THEN 0 ELSE f[i - 1] + (buffer[i].size + 1)
    IN  f[Len(buffer)]

LogInit ==
    /\ logBuffer = <<>> /\ told = [k \in 1..MaxLogs |-> 0]
    /\ logTimer = FALSE /\ sentOnce = FALSE /\ logClosed = FALSE /\ threwInBatch = FALSE
    /\ logSeq = 0 /\ maxSeq = 0
    /\ batches = {} /\ dropped = {} /\ seen = {} /\ ring = {} /\ arrived = {}

\* What flush() does with batches: the sink takes each or fails, and a batch
\* that fails is reported and dropped.
Sink(out) ==
    \E taken \in SUBSET out :
        /\ batches' = batches \cup taken
        /\ dropped' = dropped \cup UNION {SeqsOf(b) : b \in out \ taken}

\* Mutant of Log: an oversized entry goes out as it is.
LogUncut(level, size) ==
    LET entry == [seq |-> logSeq + 1, level |-> level, size |-> size]
        exceeds == logBuffer # <<>> /\ Bytes(logBuffer) + size + 1 > MaxBatchBytes
        before == IF exceeds THEN {logBuffer} ELSE {}
        buffer == Append(IF exceeds THEN <<>> ELSE logBuffer, entry)
        leads == Timed /\ ~sentOnce /\ ~exceeds
        atOnce == level = "error" \/ Len(buffer) >= FlushCount \/ leads
    IN  /\ ~logClosed /\ logSeq < MaxLogs
        /\ logSeq' = logSeq + 1
        /\ Sink(IF atOnce THEN before \cup {buffer} ELSE before)
        /\ logBuffer' = IF atOnce THEN <<>> ELSE buffer
        /\ sentOnce' = (sentOnce \/ atOnce \/ exceeds)
        /\ logTimer' = (~atOnce /\ Timed)
        /\ UNCHANGED <<logClosed, seen, maxSeq, ring, told, arrived, threwInBatch>>

\* log(): an oversized entry is cut to the budget; what waits is flushed when
\* the entry would exceed it; then an error, a full buffer or the first entry
\* of all is flushed at once, and any other sets the timer.
Log(level, size) ==
    LET cut == IF size > MaxBatchBytes THEN MaxBatchBytes ELSE size
        entry == [seq |-> logSeq + 1, level |-> level, size |-> cut]
        exceeds == logBuffer # <<>> /\ Bytes(logBuffer) + cut + 1 > MaxBatchBytes
        before == IF exceeds THEN {logBuffer} ELSE {}
        buffer == Append(IF exceeds THEN <<>> ELSE logBuffer, entry)
        leads == Timed /\ ~sentOnce /\ ~exceeds
        atOnce == level = "error" \/ Len(buffer) >= FlushCount \/ leads
    IN  /\ ~logClosed /\ logSeq < MaxLogs
        /\ logSeq' = logSeq + 1
        /\ Sink(IF atOnce THEN before \cup {buffer} ELSE before)
        /\ logBuffer' = IF atOnce THEN <<>> ELSE buffer
        /\ sentOnce' = (sentOnce \/ atOnce \/ exceeds)
        /\ logTimer' = (~atOnce /\ Timed)
        /\ UNCHANGED <<logClosed, seen, maxSeq, ring, told, arrived, threwInBatch>>

\* flush(), by the timer or from outside, and close(), which is a last flush.
FlushLogs(closes) ==
    /\ ~logClosed
    /\ logTimer \/ closes \/ logBuffer # <<>>
    /\ Sink(IF logBuffer = <<>> THEN {} ELSE {logBuffer})
    /\ logBuffer' = <<>>
    /\ logTimer' = FALSE
    /\ sentOnce' = (sentOnce \/ logBuffer # <<>>)
    /\ logClosed' = closes
    /\ UNCHANGED <<logSeq, seen, maxSeq, ring, told, arrived, threwInBatch>>

-----------------------------------------------------------------------------
\* store(): in order of their numbers, the oldest evicted on overflow.
Latest(entries) ==
    {e \in entries : Cardinality({d \in entries : d.seq > e.seq}) < RingSize}

MaxOf(set, least) == CHOOSE k \in set \cup {least} : \A j \in set \cup {least} : j <= k

\* The subscribers are told of the entries at these positions of the batch.
Tell(b, shown) ==
    told' = [k \in 1..MaxLogs |-> told[k] + Cardinality({i \in shown : b[i].seq = k})]

\* Mutant of ReceiveBatch: entries are not compared with the account.
ReceiveBatchAgain(b, last) ==
    LET shown == {i \in DOMAIN b : b[i].level \in ShownLevels}
    IN  /\ b \in batches
        /\ last = Len(b) /\ \A k \in 1..MaxLogs : told[k] < 2
        /\ seen' = seen \cup SeqsOf(b)
        /\ maxSeq' = MaxOf(SeqsOf(b), maxSeq)
        /\ ring' = Latest(ring \cup {b[i] : i \in shown})
        /\ Tell(b, shown)
        /\ arrived' = arrived \cup SeqsOf(b)
        /\ UNCHANGED <<reporterVars, batches, threwInBatch>>

\* receive(): every entry not seen is entered in the account and, if its level
\* is shown, stored and told.  A subscriber that throws ends the batch: the
\* entries behind that one are neither stored nor counted as received.
ReceiveBatch(b, last) ==
    LET fresh == {i \in 1..last : b[i].seq \notin seen}
        shown == {i \in fresh : b[i].level \in ShownLevels}
    IN  /\ b \in batches
        /\ last = Len(b) \/ last \in shown
        /\ seen' = seen \cup {b[i].seq : i \in fresh}
        /\ maxSeq' = MaxOf({b[i].seq : i \in fresh}, maxSeq)
        /\ ring' = Latest(ring \cup {b[i] : i \in shown})
        /\ Tell(b, shown)
        /\ arrived' = arrived \cup SeqsOf(b)
        /\ threwInBatch' = (threwInBatch \/ last < Len(b))
        /\ UNCHANGED <<reporterVars, batches>>

\* clear(): the account stays.
ClearRing ==
    /\ ring # {}
    /\ ring' = {}
    /\ UNCHANGED <<reporterVars, batches, seen, maxSeq, told, arrived, threwInBatch>>

LogNext ==
    \/ \E level \in {"debug", "error"}, size \in 1..(MaxBatchBytes + 1) : Log(level, size)
    \/ \E closes \in BOOLEAN : FlushLogs(closes)
    \/ \E b \in batches : \E last \in 1..Len(b) : ReceiveBatch(b, last)
    \/ ClearRing

LogSpec == LogInit /\ [][LogNext]_logVars

-----------------------------------------------------------------------------
LogTypeOK ==
    /\ logBuffer \in Seq(LogEntry)
    /\ logTimer \in BOOLEAN /\ sentOnce \in BOOLEAN /\ logClosed \in BOOLEAN
    /\ logSeq \in 0..MaxLogs /\ maxSeq \in 0..MaxLogs
    /\ \A b \in batches : b \in Seq(LogEntry)
    /\ seen \subseteq 1..MaxLogs /\ dropped \subseteq 1..MaxLogs /\ arrived \subseteq 1..MaxLogs
    /\ ring \subseteq LogEntry /\ told \in [1..MaxLogs -> Nat]
    /\ threwInBatch \in BOOLEAN

\* gapCount: maxSeq - seen.size.
GapCount == maxSeq - Cardinality(seen)

\* gapCount is what the wire has lost so far, in whatever order and however
\* often batches arrive (lines 98-100 and 328-335), except after a subscriber
\* threw: then entries that did arrive count as lost.  No entry is told twice,
\* and none is lost without being told to onError, dropped with a batch, sent,
\* or still in a buffer that something will flush; a closed reporter holds
\* nothing back (lines 159-221).
LossIsExact ==
    /\ threwInBatch \/ GapCount = Cardinality((1..maxSeq) \ arrived)
    /\ \A k \in 1..MaxLogs : told[k] <= 1
    /\ 1..logSeq = dropped \cup SeqsOf(logBuffer) \cup UNION {SeqsOf(b) : b \in batches}
    /\ logBuffer # <<>> => ~logClosed /\ (logTimer \/ ~Timed)
    /\ Bytes(logBuffer) <= MaxBatchBytes + 1
=============================================================================

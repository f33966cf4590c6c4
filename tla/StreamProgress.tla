----------------------------- MODULE StreamProgress -----------------------------
(***************************************************************************)
(* What GenAIStreamBuffer tells of its progress (src/src/buffer/stream.ts, *)
(* progress() and snapshot()): a record that every step of StreamBuffer    *)
(* which accepts, hands over or ends something renews.  It is kept in a    *)
(* field, which snapshot() returns once the stream is closed.              *)
(*                                                                         *)
(* Sizes are bytes; characters and tokens are counted in the same way.     *)
(* The strategy is 'size'.  Elapsed times are left out.                    *)
(***************************************************************************)
EXTENDS StreamBuffer

CONSTANTS
    SizeOf,         \* bytes of each chunk
    TotalBytes      \* the estimate of the whole stream; 0 when there is none

ASSUME StreamProgressAssumption ==
    TotalBytes \in Nat /\ \A i \in 1 .. MaxChunks : SizeOf[i] \in Nat

VARIABLE lastProgress       \* none, or the record computed last

streamVars == <<vars, lastProgress>>

StreamInit == Init /\ lastProgress = {}

-----------------------------------------------------------------------------
\* loadedBytes after n chunks, and the bytes of queued chunks, which are
\* numbered one after the other.
BytesUpTo[n \in 0 .. MaxChunks] == IF n = 0 THEN 0 ELSE BytesUpTo[n - 1] + SizeOf[n]

BytesOf(chunks) ==
    IF chunks = <<>> THEN 0 ELSE BytesUpTo[chunks[Len(chunks)]] - BytesUpTo[chunks[1] - 1]

\* Never more than 100, however wrong the estimate is.
AsPercent(loaded, total) ==
    LET percent == (100 * loaded) \div total IN IF percent > 100 THEN 100 ELSE percent

StreamPercent(source, loaded) ==
    IF source = "eof" THEN {100}
    ELSE IF TotalBytes = 0 THEN {} ELSE {AsPercent(loaded, TotalBytes)}

\* Only a flush and the end force it to 100.
BufferPercent(source, chunks) ==
    LET percent == AsPercent(Len(chunks), BufferSize)
    IN  IF source \in {"flush", "eof"} THEN 100 ELSE IF percent > 99 THEN 99 ELSE percent

\* progress(): of all that has been accepted, and of what is still queued.
ProgressOf(source, count, chunks) ==
    {[source |-> source,
      loadedBytes |-> BytesUpTo[count],
      percent |-> StreamPercent(source, BytesUpTo[count]),
      pendingChunks |-> Len(chunks),
      pendingBytes |-> BytesOf(chunks),
      bufferPercent |-> BufferPercent(source, chunks)]}

-----------------------------------------------------------------------------
\* A flush tells of the chunks it hands over while they are still queued.
HandsOver == flushed' # flushed
FlushProgress ==
    ProgressOf("flush", accepted', SubSeq(flushed', Len(flushed) + 1, Len(flushed')))

\* Mutant of PushTold: the record is computed before the chunk is queued.
PushToldEarly(c) ==
    /\ Push(c)
    /\ lastProgress' = IF HandsOver THEN FlushProgress ELSE ProgressOf("chunk", accepted', queue)

\* push() of a chunk: progress('chunk'), then that of its flush, if it has one.
PushTold(c) ==
    /\ Push(c)
    /\ lastProgress' = IF HandsOver THEN FlushProgress ELSE ProgressOf("chunk", accepted', queue')

\* Everything else that may flush.
FlushTold ==
    /\ \/ \E c \in Callers : ProgressTaken(c) \/ Flush(c) \/ Close(c)
       \/ \E o \in Owners : FlushTaken(o)
       \/ TimerFlushes
    /\ lastProgress' = IF HandsOver THEN FlushProgress ELSE lastProgress

EndTold(c) ==
    /\ CloseEnds(c)
    /\ lastProgress' = ProgressOf("eof", accepted, queue)

\* Failures tell of no progress; the record stays that of the step before.
NothingTold ==
    /\ \/ \E c \in Callers : ProgressThrows(c)
       \/ \E o \in Owners : FlushThrows(o)
       \/ TimerWasted
       \/ ReportError
    /\ UNCHANGED lastProgress

\* The interval timer of scheduleProgress: set and cleared with the timer.
IntervalTells ==
    /\ timer # "off" /\ ~closed /\ queue # <<>>
    /\ lastProgress' = ProgressOf("interval", accepted, queue)
    /\ UNCHANGED vars

\* snapshot(): of a closed stream the record that is there, else a new one.
Snapshot ==
    /\ lastProgress' = IF closed /\ lastProgress # {} THEN lastProgress
                       ELSE ProgressOf("snapshot", accepted, queue)
    /\ UNCHANGED vars

StreamNext ==
    \/ \E c \in Callers : PushTold(c) \/ EndTold(c)
    \/ FlushTold
    \/ NothingTold
    \/ IntervalTells
    \/ Snapshot

StreamSpec == StreamInit /\ [][StreamNext]_streamVars

-----------------------------------------------------------------------------
StreamTypeOK ==
    /\ TypeOK
    /\ lastProgress \subseteq
           [source : {"chunk", "flush", "eof", "interval", "snapshot"}, loadedBytes : Nat,
            percent : SUBSET (0 .. 100), pendingChunks : 0 .. MaxChunks, pendingBytes : Nat,
            bufferPercent : 0 .. 100]

\* What is shown as loaded counts every chunk accepted, once, whichever call
\* and whichever timer computed the record; what is shown as no longer pending
\* has been handed to the consumer; and the record of a stream that has ended
\* says that everything has arrived, unless chunks missed the flush of close()
\* (late) or the stream was cancelled or failed: cancel() leaves the record of
\* the last flush or chunk for snapshot() (lines 319-409, 443-531).
StreamToldTrue ==
    \A p \in lastProgress :
        /\ p.loadedBytes = BytesUpTo[accepted]
        /\ p.loadedBytes - p.pendingBytes <= BytesUpTo[Len(flushed)]
        /\ closed /\ ~Aborted /\ late = {} => p.percent = {100} /\ p.pendingChunks = 0
=============================================================================

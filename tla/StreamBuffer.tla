----------------------------- MODULE StreamBuffer -----------------------------
(***************************************************************************)
(* GenAIStreamBuffer (src/src/buffer/stream.ts): chunks are queued and     *)
(* handed in groups to an asynchronous consumer, when enough of them are   *)
(* queued, when a timer fires or when the stream is closed.                *)
(*                                                                         *)
(* Each caller awaits its own calls; callers, the timer and the consumer's *)
(* promises interleave.  A chunk is its number in order of acceptance.     *)
(* BufferSize stands for the threshold of every strategy: the byte count   *)
(* is a size, 'time' is a size never reached, useBuffer = false is 1.      *)
(* Start and progress events change no state of the buffer but the record  *)
(* of its progress (StreamProgress).                                       *)
(***************************************************************************)
EXTENDS Naturals, Sequences

CONSTANTS
    Callers,           \* concurrent callers of push(), write(), flush(), close()
    MaxChunks,         \* bound on the chunks accepted
    BufferSize,        \* shouldFlush() from this many queued chunks on
    EmitProgress,      \* emitProgress: every chunk awaits a progress event
    ConsumerMayThrow   \* TRUE: the consumer may reject an event

ASSUME BufferAssumption ==
    /\ "timer" \notin Callers
    /\ MaxChunks \in Nat
    /\ BufferSize \in Nat \ {0}
    /\ EmitProgress \in BOOLEAN
    /\ ConsumerMayThrow \in BOOLEAN

VARIABLES
    queue,       \* chunks not yet handed to the consumer
    timer,       \* "off"; "armed"; "spent": it fired, but the field is still set
    processing,  \* a flush is with the consumer
    closed,
    pc,          \* where each caller awaits
    inConsumer,  \* owners of the flushes the consumer has not answered
    accepted,    \* history: number of chunks pushed
    flushed,     \* history: the chunks handed over, in order
    ends,        \* history: eof and error events, and what was flushed before
    threw,       \* history: the consumer has rejected an event
    late         \* history: chunks no flush of close() took: left queued behind a
                 \* flush already running, or accepted while close() waited

vars == <<queue, timer, processing, closed, pc, inConsumer, accepted, flushed,
          ends, threw, late>>
history == <<ends, threw, late>>

Owners == Callers \cup {"timer"}

Init ==
    /\ queue = <<>>
    /\ timer = "off"
    /\ processing = FALSE
    /\ closed = FALSE
    /\ pc = [c \in Callers |-> "idle"]
    /\ inConsumer = {}
    /\ accepted = 0
    /\ flushed = <<>>
    /\ ends = {}
    /\ threw = FALSE
    /\ late = {}

-----------------------------------------------------------------------------
\* shouldFlush() of a non-empty queue, or useBuffer = false.
Full(chunks) == Len(chunks) >= BufferSize

\* flush() with something to do: timer cleared, queue emptied, consumer called.
HandOver(o, chunks) ==
    /\ processing' = TRUE
    /\ inConsumer' = inConsumer \cup {o}
    /\ flushed' = flushed \o chunks
    /\ queue' = <<>>
    /\ timer' = "off"

CanFlush(chunks) == ~processing /\ chunks # <<>>

\* scheduleFlush: a timer that is set is left alone, fired or not.
Scheduled == IF timer = "off" THEN "armed" ELSE timer

\* The rest of enqueue(): flush if full, else make sure a timer is set.
Enqueued(c, chunks) ==
    \/ /\ Full(chunks) /\ CanFlush(chunks)
       /\ HandOver(c, chunks)
       /\ pc' = [pc EXCEPT ![c] = "flushing"]
    \/ /\ Full(chunks) /\ ~CanFlush(chunks)
       /\ queue' = chunks
       /\ pc' = [pc EXCEPT ![c] = "idle"]
       /\ UNCHANGED <<timer, processing, inConsumer, flushed>>
    \/ /\ ~Full(chunks)
       /\ queue' = chunks
       /\ timer' = Scheduled
       /\ pc' = [pc EXCEPT ![c] = "idle"]
       /\ UNCHANGED <<processing, inConsumer, flushed>>

\* emitProgress('chunk'): the chunk is queued while the event is awaited.
AwaitProgress(c, chunks) ==
    /\ queue' = chunks
    /\ pc' = [pc EXCEPT ![c] = "progress"]
    /\ UNCHANGED <<timer, processing, inConsumer, flushed>>

Closing == {d \in Callers : pc[d] \in {"closeflush", "closing"}}

\* push(), write(): a chunk of an open stream is accepted.
Push(c) ==
    /\ pc[c] = "idle" /\ ~closed /\ accepted < MaxChunks
    /\ accepted' = accepted + 1
    /\ LET chunks == Append(queue, accepted')
       IN  IF EmitProgress THEN AwaitProgress(c, chunks) ELSE Enqueued(c, chunks)
    /\ late' = IF Closing = {} THEN late ELSE late \cup {accepted'}
    /\ UNCHANGED <<closed, ends, threw>>

ProgressTaken(c) ==
    /\ pc[c] = "progress"
    /\ Enqueued(c, queue)
    /\ UNCHANGED <<closed, accepted, history>>

\* push() rejects with the chunk queued and nothing scheduled.
ProgressThrows(c) ==
    /\ ConsumerMayThrow
    /\ pc[c] = "progress"
    /\ pc' = [pc EXCEPT ![c] = "idle"]
    /\ threw' = TRUE
    /\ UNCHANGED <<queue, timer, processing, closed, inConsumer, accepted, flushed,
                   ends, late>>

\* flush() by a caller, of an open stream or of a closed one.
Flush(c) ==
    /\ pc[c] = "idle"
    /\ CanFlush(queue)
    /\ HandOver(c, queue)
    /\ pc' = [pc EXCEPT ![c] = "flushing"]
    /\ UNCHANGED <<closed, accepted, history>>

-----------------------------------------------------------------------------
(* The consumer answers a flush. *)

\* Where the owner of a flush that has returned goes on.
Returned(o) ==
    [c \in Callers |-> IF c # o THEN pc[c]
                       ELSE IF pc[c] = "closeflush" THEN "closing" ELSE "idle"]

\* Mutant of FlushTaken: the queue is emptied when the consumer has answered.
FlushTakenClearing(o) ==
    /\ o \in inConsumer
    /\ queue' = <<>>
    /\ processing' = FALSE
    /\ inConsumer' = inConsumer \ {o}
    /\ pc' = Returned(o)
    /\ UNCHANGED <<timer, flushed, closed, accepted, history>>

\* Mutant of FlushTaken: a queue that has filled up meanwhile is left alone.
FlushTakenOnce(o) ==
    /\ o \in inConsumer
    /\ processing' = FALSE
    /\ inConsumer' = inConsumer \ {o}
    /\ timer' = IF queue = <<>> \/ Full(queue) THEN timer ELSE Scheduled
    /\ pc' = Returned(o)
    /\ UNCHANGED <<queue, flushed, closed, accepted, history>>

\* What was queued meanwhile is flushed by the same call, or scheduled.
FlushTaken(o) ==
    /\ o \in inConsumer
    /\ \/ /\ queue # <<>> /\ Full(queue)
          /\ HandOver(o, queue)
          /\ UNCHANGED pc
       \/ /\ queue = <<>> \/ ~Full(queue)
          /\ processing' = FALSE
          /\ inConsumer' = inConsumer \ {o}
          /\ timer' = IF queue = <<>> THEN timer ELSE Scheduled
          /\ pc' = Returned(o)
          /\ UNCHANGED <<queue, flushed>>
    /\ UNCHANGED <<closed, accepted, history>>

\* Mutant of FlushThrows: processing is reset only after success.
FlushThrowsProcessing(o) ==
    /\ ConsumerMayThrow
    /\ o \in inConsumer
    /\ inConsumer' = inConsumer \ {o}
    /\ pc' = [c \in Callers |-> IF c = o THEN "idle" ELSE pc[c]]
    /\ threw' = TRUE
    /\ UNCHANGED <<queue, timer, processing, closed, accepted, flushed, ends, late>>

\* The rejection reaches the owner: close() leaves the stream open, and what
\* was queued meanwhile is neither flushed nor scheduled.
FlushThrows(o) ==
    /\ ConsumerMayThrow
    /\ o \in inConsumer
    /\ processing' = FALSE
    /\ inConsumer' = inConsumer \ {o}
    /\ pc' = [c \in Callers |-> IF c = o THEN "idle" ELSE pc[c]]
    /\ threw' = TRUE
    /\ UNCHANGED <<queue, timer, closed, accepted, flushed, ends, late>>

-----------------------------------------------------------------------------
(* The timer, and the end of the stream. *)

TimerFlushes ==
    /\ timer = "armed" /\ CanFlush(queue)
    /\ HandOver("timer", queue)
    /\ UNCHANGED <<closed, pc, accepted, history>>

\* flush() returns before it clears the timer field.
TimerWasted ==
    /\ timer = "armed" /\ ~CanFlush(queue)
    /\ timer' = "spent"
    /\ UNCHANGED <<queue, processing, closed, pc, inConsumer, accepted, flushed, history>>

\* close(): waits for a flush of its own, never for one already running.
Close(c) ==
    /\ pc[c] = "idle" /\ ~closed
    /\ \/ /\ CanFlush(queue)
          /\ HandOver(c, queue)
          /\ pc' = [pc EXCEPT ![c] = "closeflush"]
          /\ UNCHANGED late
       \/ /\ ~CanFlush(queue)
          /\ pc' = [pc EXCEPT ![c] = "closing"]
          /\ late' = late \cup {queue[i] : i \in 1 .. Len(queue)}
          /\ UNCHANGED <<queue, timer, processing, inConsumer, flushed>>
    /\ UNCHANGED <<closed, accepted, ends, threw>>

End(type) == ends' = ends \cup {[type |-> type, after |-> Len(flushed)]}

CloseEnds(c) ==
    /\ pc[c] = "closing"
    /\ timer' = "off"
    /\ closed' = TRUE
    /\ pc' = [pc EXCEPT ![c] = "idle"]
    /\ End("eof")
    /\ UNCHANGED <<queue, processing, inConsumer, accepted, flushed, threw, late>>

\* reportError: cancel(), the timeout, an upstream error or a rejected
\* interval progress event.
ReportError ==
    /\ ~closed
    /\ timer' = "off"
    /\ closed' = TRUE
    /\ End("error")
    /\ UNCHANGED <<queue, processing, pc, inConsumer, accepted, flushed, threw, late>>

Next ==
    \/ \E c \in Callers : \/ Push(c)
                          \/ ProgressTaken(c)
                          \/ ProgressThrows(c)
                          \/ Flush(c)
                          \/ Close(c)
                          \/ CloseEnds(c)
    \/ \E o \in Owners : FlushTaken(o) \/ FlushThrows(o)
    \/ TimerFlushes
    \/ TimerWasted
    \/ ReportError

\* Timers fire and the consumer answers every event it is given.
Fairness ==
    /\ WF_vars(TimerFlushes \/ TimerWasted)
    /\ \A o \in Owners : WF_vars(FlushTaken(o) \/ FlushThrows(o))
    /\ \A c \in Callers : /\ WF_vars(ProgressTaken(c) \/ ProgressThrows(c))
                          /\ WF_vars(CloseEnds(c))

Spec == Init /\ [][Next]_vars

FairSpec == Spec /\ Fairness

-----------------------------------------------------------------------------
\* Types of the fields (stream.ts, constructor), the callers and the history.
TypeOK ==
    /\ queue \in Seq(1 .. MaxChunks)
    /\ timer \in {"off", "armed", "spent"}
    /\ processing \in BOOLEAN
    /\ closed \in BOOLEAN
    /\ pc \in [Callers -> {"idle", "progress", "flushing", "closeflush", "closing"}]
    /\ inConsumer \subseteq Owners
    /\ accepted \in 0 .. MaxChunks
    /\ flushed \in Seq(1 .. MaxChunks)
    /\ ends \subseteq [type : {"eof", "error"}, after : Nat]
    /\ threw \in BOOLEAN
    /\ late \subseteq 1 .. MaxChunks

\* FIFO without loss or repetition: what the consumer was handed and what is
\* still queued are together every accepted chunk, in order, whoever flushes.
InOrder == flushed \o queue = [i \in 1 .. accepted |-> i]

\* The consumer handles one flush at a time; processing never outlives the
\* flush that set it, even when the consumer throws; and a caller is told of
\* its own flush: it awaits one exactly while the consumer has it.
SerialFlushes ==
    /\ \A o1, o2 \in inConsumer : o1 = o2
    /\ processing <=> inConsumer # {}
    /\ \A c \in Callers : pc[c] \in {"flushing", "closeflush"} <=> c \in inConsumer

HandedOver(i) == i <= Len(flushed)
Aborted == \E e \in ends : e.type = "error"

\* Every accepted chunk reaches the consumer in the end, also around close(),
\* unless the stream failed, the consumer threw, the timer was wasted, or the
\* chunk missed the flush of a close() (late).
ChunksDrain ==
    \A i \in 1 .. MaxChunks :
        accepted >= i ~>
            HandedOver(i) \/ Aborted \/ threw \/ timer = "spent" \/ i \in late

\* maxWaitMs bounds the wait of every chunk: without the exception of a wasted
\* timer.
MaxWaitHonoured ==
    \A i \in 1 .. MaxChunks :
        accepted >= i ~> HandedOver(i) \/ closed \/ threw

\* eof is the last word: close() flushes the remaining chunks before it.
EofIsLast == \A e \in ends : e.type = "eof" => e.after = Len(flushed)
=============================================================================

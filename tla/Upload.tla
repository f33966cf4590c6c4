-------------------------------- MODULE Upload --------------------------------
(***************************************************************************)
(* UploadEngine.upload() (src/src/upload/engine/engine.ts) for one batch:  *)
(* start, pooled transfers, complete; and the progress bar.                *)
(*                                                                         *)
(* Workers take the slots of the server's list in order; an executor       *)
(* reports bytes, answers or throws; the original goes before its          *)
(* thumbnail.  The callback of the progress bar may throw.  Sizes are      *)
(* small numbers; bytes and hashes are left out, and so are the views      *)
(* upload() returns: those of complete(), matched by id, or else the       *)
(* tickets'.  A receipt is "ok" or the code of its failure.                *)
(***************************************************************************)
EXTENDS Naturals, FiniteSets

CONSTANTS
    Sources,        \* number of files of the batch
    MaxTickets,     \* bound on the server's list
    Concurrency,
    Original,       \* size of every original
    Thumbnail,      \* size of every thumbnail, 0: the sources have none
    InlineLimit,    \* maxBytes of an inline transfer
    ApiStatuses,    \* statuses the API answers send() with
    StorageAnswers  \* [status, code] of the storage to a PUT: 0 for no answer,
                    \* "" for no code

ASSUME UploadAssumption ==
    /\ Sources \in Nat /\ MaxTickets \in Nat /\ Concurrency \in Nat
    /\ Original \in Nat /\ Thumbnail \in Nat /\ InlineLimit \in Nat
    /\ ApiStatuses \subseteq Nat /\ StorageAnswers \subseteq [status : Nat, code : STRING]

Slots == 1..MaxTickets
Total == Original + Thumbnail

\* What the server may put in a slot: rejected at validation (no id), stored
\* already (no transfer), a transfer, or one no executor of the client knows.
Kinds == {"rejected", "stored", "inline", "presigned-put", "unknown"}
Tickets == [kind : Kinds, thumbnail : BOOLEAN]
Created(t) == t.kind # "rejected"

\* asApiFailure() and asStorageFailure(): the storage's own code comes first.
CodeOfApiStatus(status) ==
    CASE status = 0 -> "network" [] status = 400 -> "invalid" [] status = 404 -> "not-found"
      [] status = 406 -> "not-acceptable" [] status = 409 -> "conflict" [] status = 410 -> "expired"
      [] status = 413 -> "too-large" [] status = 415 -> "unsupported" [] OTHER -> "unknown"
StorageCodes ==
    [SignatureDoesNotMatch |-> "signature", AccessDenied |-> "expired", ExpiredToken |-> "expired",
     BadDigest |-> "checksum", XAmzContentSHA256Mismatch |-> "checksum",
     EntityTooLarge |-> "too-large", RequestTimeout |-> "network"]
CodeOfStorageAnswer(a) ==
    CASE a.code \in DOMAIN StorageCodes -> StorageCodes[a.code]
      [] a.status = 0 -> "network" [] a.status = 403 -> "signature"
      [] a.status = 413 -> "too-large" [] OTHER -> "unknown"
Codes == {"invalid", "too-large", "unsupported", "not-acceptable", "not-found", "conflict",
          "expired", "signature", "checksum", "network", "unknown"}

\* InlineExecutor: a file over the limit is not sent; send() is answered with a
\* status, or something else throws.
InlineReceipts ==
    IF Original > InlineLimit THEN {"too-large"}
    ELSE {"ok", "unknown"} \cup {CodeOfApiStatus(s) : s \in ApiStatuses}

\* PresignedPutExecutor: 412 says that the object is there.  put() may throw,
\* which transferTracked() turns into a failure of its own.
PresignedReceipts ==
    {IF a.status \in 200..299 \cup {412} THEN "ok" ELSE CodeOfStorageAnswer(a) : a \in StorageAnswers}
        \cup {"unknown"}

\* The executor of a ticket's kind.
Receipts(kind) == IF kind = "inline" THEN InlineReceipts ELSE PresignedReceipts

VARIABLES
    stage,          \* where upload() awaits, or how it ended
    tickets,        \* the server's list, a function on an initial part of Slots
    next,           \* the slot the next free worker takes
    step,           \* what is awaited for a slot
    dead,           \* workers a throwing callback has ended
    sent,           \* bytes reported per source
    settledBar,     \* slots done for the bar
    receipt,        \* what the transfer of a slot returned
    stored,         \* history: slots whose original the executor delivered
    completed       \* slots of the complete request, with their receipts

uploadVars == <<stage, tickets, next, step, dead, sent, settledBar, receipt, stored,
                completed>>

UploadInit ==
    /\ stage = "starting"
    /\ tickets = [i \in {} |-> [kind |-> "rejected", thumbnail |-> FALSE]]
    /\ next = 1
    /\ step = [i \in Slots |-> "idle"]
    /\ dead = 0
    /\ sent = [i \in Slots |-> 0]
    /\ settledBar = {}
    /\ receipt = [i \in Slots |-> "none"]
    /\ stored = {}
    /\ completed = {}

Count == Cardinality(DOMAIN tickets)
InFlight == {i \in Slots : step[i] \in {"original", "thumbnail"}}
HasSource(i) == i \in 1..Sources
Workers == IF Concurrency < Count THEN (IF Concurrency = 0 THEN 1 ELSE Concurrency) ELSE Count

\* start(): the server answers with a list, which ought to be as long as the
\* batch; or the call, or a hash before it, is rejected.
StartAnswers ==
    /\ stage = "starting"
    /\ \/ \E n \in 0..MaxTickets : tickets' \in [1..n -> Tickets] /\ stage' = "transfers"
       \/ stage' = "rejected" /\ UNCHANGED tickets
    /\ UNCHANGED <<next, step, dead, sent, settledBar, receipt, stored, completed>>

\* The end of transferTracked(): the receipt is kept, the bar's slot settled.
\* A callback that throws in publish() rejects upload() and ends the worker.
EndTransfer(i, r) ==
    /\ step' = [step EXCEPT ![i] = "ended"]
    /\ settledBar' = IF HasSource(i) THEN settledBar \cup {i} ELSE settledBar
    /\ \/ /\ receipt' = [receipt EXCEPT ![i] = r]
          /\ UNCHANGED <<stage, dead>>
       \/ /\ HasSource(i)
          /\ i \notin settledBar
          /\ stage' = "rejected"
          /\ dead' = dead + 1
          /\ UNCHANGED receipt

\* A worker takes the next slot: transfer() and transferOriginal() up to the
\* executor's run().  A slot without a source fails on reading its size.
TakeSlot ==
    /\ stage # "starting"
    /\ next \in DOMAIN tickets
    /\ Cardinality(InFlight) < Workers - dead
    /\ next' = next + 1
    /\ LET t == tickets[next]
       IN  CASE ~Created(t) -> EndTransfer(next, "none")
             [] Created(t) /\ t.kind = "stored" ->
                    IF HasSource(next)
                    THEN IF t.thumbnail /\ Thumbnail > 0
                         THEN /\ step' = [step EXCEPT ![next] = "thumbnail"]
                              /\ UNCHANGED <<stage, dead, settledBar, receipt>>
                         ELSE EndTransfer(next, "ok")
                    ELSE EndTransfer(next, "unknown")
             [] t.kind = "unknown" -> EndTransfer(next, "not-acceptable")
             [] OTHER ->
                    IF HasSource(next)
                    THEN /\ step' = [step EXCEPT ![next] = "original"]
                         /\ UNCHANGED <<stage, dead, settledBar, receipt>>
                    ELSE EndTransfer(next, "unknown")
    /\ UNCHANGED <<tickets, sent, stored, completed>>

\* run() of the original returns: a failure ends the slot, as does a throw;
\* otherwise the thumbnail follows, if there is a transfer for it.
OriginalEnds(i, r) ==
    /\ step[i] = "original"
    /\ IF r = "ok"
       THEN /\ stored' = stored \cup {i}
            /\ IF tickets[i].thumbnail /\ Thumbnail > 0
               THEN /\ step' = [step EXCEPT ![i] = "thumbnail"]
                    /\ UNCHANGED <<stage, dead, settledBar, receipt>>
               ELSE EndTransfer(i, "ok")
       ELSE EndTransfer(i, r) /\ UNCHANGED stored
    /\ UNCHANGED <<tickets, next, sent, completed>>

\* Mutant of ThumbnailEnds: a thumbnail that throws fails the upload.
ThumbnailThrows(i) ==
    /\ step[i] = "thumbnail"
    /\ EndTransfer(i, "unknown")
    /\ UNCHANGED <<tickets, next, sent, stored, completed>>

\* run() of the thumbnail returns or throws: it never reaches the receipt.
ThumbnailEnds(i) ==
    /\ step[i] = "thumbnail"
    /\ EndTransfer(i, "ok")
    /\ UNCHANGED <<tickets, next, sent, stored, completed>>

\* Mutants of Clamp: one of the two bounds is missing.
ClampBelow(i, bytes) == IF bytes < sent[i] THEN sent[i] ELSE bytes
ClampAbove(i, bytes) == IF bytes > Total THEN Total ELSE bytes

\* The sink of a slot: a report is clamped between the last one and the total,
\* and ignored once the slot is settled.
Clamp(i, bytes) ==
    LET grown == IF bytes < sent[i] THEN sent[i] ELSE bytes
    IN  IF grown > Total THEN Total ELSE grown

\* An executor reports any number of bytes; the thumbnail's come on top.
Report(i, bytes) ==
    /\ i \in InFlight \ settledBar
    /\ sent' = [sent EXCEPT ![i] =
           Clamp(i, IF step[i] = "thumbnail" THEN Original + bytes ELSE bytes)]
    /\ UNCHANGED <<stage, tickets, next, step, dead, settledBar, receipt, stored,
                   completed>>

\* The pool is done: the bar is settled for every source, and the receipts
\* there are go to complete(); without any, upload() returns.
PoolDone ==
    /\ stage = "transfers"
    /\ next > Count
    /\ InFlight = {}
    /\ settledBar' = 1..Sources
    /\ completed' = {[slot |-> i, receipt |-> receipt[i]] :
                        i \in {j \in DOMAIN tickets : receipt[j] # "none"}}
    /\ stage' = IF completed' = {} THEN "returned" ELSE "completing"
    /\ UNCHANGED <<tickets, next, step, dead, sent, receipt, stored>>

\* A callback that throws while the bar is settled for files without a slot:
\* upload() is rejected, and complete() never called.
LateSettleThrows(i) ==
    /\ stage = "transfers"
    /\ next > Count
    /\ InFlight = {}
    /\ i \in (1..Sources) \ settledBar
    /\ settledBar' = settledBar \cup 1..i
    /\ stage' = "rejected"
    /\ UNCHANGED <<tickets, next, step, dead, sent, receipt, stored, completed>>

CompleteAnswers ==
    /\ stage = "completing"
    /\ stage' \in {"returned", "rejected"}
    /\ UNCHANGED <<tickets, next, step, dead, sent, settledBar, receipt, stored,
                   completed>>

UploadNext ==
    \/ StartAnswers \/ TakeSlot \/ PoolDone \/ CompleteAnswers
    \/ \E i \in 1..Sources : LateSettleThrows(i)
    \/ \E i \in InFlight : \E r \in Receipts(tickets[i].kind) : OriginalEnds(i, r)
    \/ \E i \in InFlight : ThumbnailEnds(i)
    \/ \E i \in InFlight, bytes \in 0..Total + 1 : Report(i, bytes)

UploadSpec == UploadInit /\ [][UploadNext]_uploadVars

-----------------------------------------------------------------------------
UploadTypeOK ==
    /\ stage \in {"starting", "transfers", "completing", "returned", "rejected"}
    /\ DOMAIN tickets \subseteq Slots
    /\ \A i \in DOMAIN tickets : tickets[i] \in Tickets
    /\ next \in 1..MaxTickets + 1
    /\ step \in [Slots -> {"idle", "original", "thumbnail", "ended"}]
    /\ dead \in 0..MaxTickets
    /\ sent \in [Slots -> 0..Total]
    /\ settledBar \subseteq Slots \cup 1..Sources
    /\ receipt \in [Slots -> {"none", "ok"} \cup Codes]
    /\ stored \subseteq Slots
    /\ completed \subseteq [slot : Slots, receipt : {"ok"} \cup Codes]

\* When complete() is called no transfer is running, every upload the server
\* created has exactly one receipt, and the receipt is a failure just when the
\* original was not delivered: neither a thumbnail that failed nor an executor
\* that threw changes another slot's fate (upload() and transferTracked(),
\* lines 119-172, and the note at line 190).
CompletesWhatWasSent ==
    stage \in {"completing", "returned"} =>
        /\ InFlight = {}
        /\ {c.slot : c \in completed} = {i \in DOMAIN tickets : Created(tickets[i])}
        /\ \A c \in completed :
              c.receipt = "ok" <=> \/ c.slot \in stored
                                   \/ tickets[c.slot].kind = "stored" /\ HasSource(c.slot)

\* The bytes the bar shows: all of a settled file, what was reported of others.
BarOf(i) == IF i \in settledBar THEN Total ELSE IF i \in Slots THEN sent[i] ELSE 0
SumOf(bar) ==
    LET upTo[n \in 0..Sources] == IF n = 0 THEN 0 ELSE bar[n] + upTo[n - 1]
    IN  upTo[Sources]
SentBytes == SumOf([i \in 1..Sources |-> BarOf(i)])

\* The bar never moves back, whatever the executors report and in whatever
\* order files settle, and is full when upload() returns (progress.ts, line 35,
\* and line 128 for a list that is too short).
BarForward ==
    [][ /\ SentBytes' >= SentBytes
        /\ stage' = "returned" => SentBytes' = Sources * Total ]_uploadVars
=============================================================================

------------------------------ MODULE ModelSync -------------------------------
(***************************************************************************)
(* ModelSyncHandle and SyncMachine (src/src/sync/machine.ts): a local      *)
(* store kept up to date by pulls, page by page, and by events the server  *)
(* sends, under the ticks of a SyncTicker.                                 *)
(*                                                                         *)
(* Events are delayed, reordered and lost; a pull may fail at any moment   *)
(* (timeout, error, closed client, throwing listener).  Versions are what  *)
(* versionOf() returns.  Of the server no more is assumed than its         *)
(* contract says (docs/model-sync-client/03-client-guide.md, section 0):   *)
(* the versions of one model grow; those of two models may tie or come in  *)
(* any order.  It answers a pull from one snapshot of the rows beyond      *)
(* `since`, in pages of any order, tombstones included.                    *)
(***************************************************************************)
EXTENDS SyncTicker

CONSTANTS
    Ids,            \* the models of the one registered type
    MaxVersion,     \* bound on the versions
    MaxChanges,     \* bound on the server's changes
    PageSize,
    MaxFailures,    \* bound on the failing pulls
    Drives          \* what the ticker calls: "machine".tick() or "handle".pull()

ASSUME SyncAssumption ==
    /\ MaxVersion \in Nat /\ MaxChanges \in Nat /\ MaxFailures \in Nat
    /\ PageSize \in Nat \ {0}
    /\ Drives \in {"machine", "handle"}

Rows == [id : Ids, ver : 1..MaxVersion, deleted : BOOLEAN]

VARIABLES
    rows,           \* the server's rows: at most one per id
    changes,        \* history: number of changes the server made
    events,         \* change events on their way
    local,          \* the version each model has in the store, 0 for absent
    watermark,
    pull,           \* [stage, fresh, since, page, rest]
    handleOpen,
    failures,       \* history: number of pulls that failed
    known,          \* history: the newest version of each model received
    astray,         \* history: rows a failed pull left below the watermark, and
                    \* tombstones that an older row of the model has overtaken
    behind          \* history: rows that were given a version other models had
                    \* reached, in the watermark or in a pull under way

syncVars == <<rows, changes, events, local, watermark, pull, handleOpen, failures,
              known, astray, behind>>

Idle == [stage |-> "idle", fresh |-> FALSE, since |-> 0, page |-> {}, rest |-> {}]

\* register(): an empty store, and the initial pull unless it is turned off.
SyncInit ==
    /\ rows = {}
    /\ changes = 0
    /\ events = {}
    /\ local = [x \in Ids |-> 0]
    /\ watermark = 0
    /\ pull \in {Idle, [Idle EXCEPT !.stage = "asked", !.fresh = TRUE]}
    /\ handleOpen = TRUE
    /\ failures = 0
    /\ known = [x \in Ids |-> 0]
    /\ astray = {}
    /\ behind = {}

\* applyOne(): a deletion of what is absent, and what is not newer, is ignored.
Applies(r) ==
    /\ local[r.id] = 0 => ~r.deleted
    /\ r.ver > local[r.id]

Latest(S) == IF S = {} THEN 0 ELSE CHOOSE v \in S : \A w \in S : w <= v

\* applyModels(): the store takes the rows that apply; one row per model.
Apply(S) ==
    LET changed == {r \in S : Applies(r)}
        old == {r \in changed : r.ver < known[r.id]}
    IN  /\ local' = [x \in Ids |->
              IF \E r \in changed : r.id = x
              THEN LET r == CHOOSE r \in changed : r.id = x
                   IN  IF r.deleted THEN 0 ELSE r.ver
              ELSE local[x]]
        /\ known' = [x \in Ids |-> Latest({known[x]} \cup
                                          {r.ver : r \in {c \in S : c.id = x}})]
        /\ astray' = (astray \cup {t \in rows : t.deleted /\ \E r \in old : r.id = t.id})
                         \ changed
        /\ behind' = behind \ changed

\* The rows the running pull still owes.
Paged == pull.page \cup pull.rest

\* The server changes or deletes a model and announces it.  The version is newer
\* than the last of the model; the watermark, or the rows a pull is bringing,
\* may have passed it with those of other models.
ServerChanges(x, ver, deleted) ==
    /\ changes < MaxChanges
    /\ \A o \in rows : o.id = x => ver > o.ver
    /\ deleted => \E o \in rows : o.id = x /\ ~o.deleted
    /\ changes' = changes + 1
    /\ LET r == [id |-> x, ver |-> ver, deleted |-> deleted]
           passed == ver <= watermark \/ \E q \in Paged : ver <= q.ver
       IN  /\ rows' = {o \in rows : o.id # x} \cup {r}
           /\ events' = events \cup {r}
           /\ behind' = {b \in behind : b.id # x} \cup (IF passed THEN {r} ELSE {})
    /\ UNCHANGED <<local, watermark, pull, handleOpen, failures, known, astray>>

EventLost(r) ==
    /\ r \in events
    /\ events' = events \ {r}
    /\ UNCHANGED <<rows, changes, local, watermark, pull, handleOpen, failures, known,
                   astray, behind>>

\* Mutant of ApplyEvent: events move the watermark too.
ApplyEventAdvancing(r) ==
    /\ r \in events
    /\ events' = events \ {r}
    /\ IF handleOpen THEN Apply({r}) ELSE UNCHANGED <<local, known, astray, behind>>
    /\ watermark' = IF handleOpen /\ Applies(r) THEN Latest({watermark, r.ver}) ELSE watermark
    /\ UNCHANGED <<rows, changes, pull, handleOpen, failures>>

\* dispatchEvent() and applyEvent(): the store, and not the watermark.
ApplyEvent(r) ==
    /\ r \in events
    /\ events' = events \ {r}
    /\ IF handleOpen THEN Apply({r}) ELSE UNCHANGED <<local, known, astray, behind>>
    /\ UNCHANGED <<rows, changes, watermark, pull, handleOpen, failures>>

\* pull(): refused when closed, joined when one is in flight.
Pull ==
    /\ handleOpen
    /\ pull' = IF pull.stage = "idle"
               THEN [Idle EXCEPT !.stage = "asked", !.fresh = TRUE, !.since = watermark]
               ELSE pull
    /\ UNCHANGED <<rows, changes, events, local, watermark, handleOpen, failures,
                   known, astray, behind>>

\* The server takes its snapshot with the first page, and sends the next page.
ServerReplies ==
    /\ pull.stage = "asked"
    /\ LET all == IF pull.fresh THEN {r \in rows : r.ver > pull.since} ELSE pull.rest
       IN  \E page \in SUBSET all :
             /\ \/ Cardinality(page) = PageSize
                \/ page = all /\ Cardinality(page) < PageSize
             /\ pull' = [pull EXCEPT !.stage = "answered", !.fresh = FALSE,
                                     !.page = page, !.rest = all \ page]
             /\ behind' = behind \ all
    /\ UNCHANGED <<rows, changes, events, local, watermark, handleOpen, failures,
                   known, astray>>

\* doPull(): a page is applied and the watermark moves to what was applied;
\* the cursor asks for the next page, or the pull is over.
ReceivePage ==
    /\ pull.stage = "answered"
    /\ Apply(pull.page)
    /\ watermark' = Latest({watermark} \cup {r.ver : r \in {p \in pull.page : Applies(p)}})
    /\ pull' = IF pull.rest = {} THEN Idle
               ELSE [pull EXCEPT !.stage = "asked", !.page = {}]
    /\ UNCHANGED <<rows, changes, events, handleOpen, failures>>

\* A request of the pull times out, is rejected, or a listener throws.
PullFails ==
    /\ pull.stage # "idle"
    /\ failures < MaxFailures
    /\ failures' = failures + 1
    /\ astray' = astray \cup {r \in Paged : r.ver <= watermark}
    /\ pull' = Idle
    /\ UNCHANGED <<rows, changes, events, local, watermark, handleOpen, known, behind>>

\* close() of the handle or the machine: a pull in flight goes on.
CloseHandle ==
    /\ handleOpen
    /\ handleOpen' = FALSE
    /\ UNCHANGED <<rows, changes, events, local, watermark, pull, failures, known, astray,
                   behind>>

-----------------------------------------------------------------------------
\* The ticker and the machine.  tick() of the machine awaits the pull of every
\* handle and catches its failure; pull() of the handle rejects.
TickFails == Drives = "handle"

TickerFires(e) == Fire(e) /\ IF handleOpen THEN Pull ELSE UNCHANGED syncVars

\* Nothing to pull: tick() resolves at once, pull() of a closed handle rejects.
\* A tick joined to a pull that close() has left running settles with it, and the
\* few of the closed handle's ticks that come meanwhile are settled with it too.
TickOfNothing ==
    /\ ~handleOpen
    /\ pull.stage = "idle"
    /\ ticking # {}
    /\ TicksSettle(ticking, ~TickFails)
    /\ UNCHANGED syncVars

PageArrives ==
    /\ ReceivePage
    /\ IF pull.rest = {} THEN TicksSettle(ticking, TRUE) ELSE UNCHANGED tickerVars

PullRejected == PullFails /\ TicksSettle(ticking, ~TickFails)

SyncNext ==
    \/ \E x \in Ids, ver \in 1..MaxVersion, deleted \in BOOLEAN :
           ServerChanges(x, ver, deleted) /\ UNCHANGED tickerVars
    \/ \E r \in events : (EventLost(r) \/ ApplyEvent(r)) /\ UNCHANGED tickerVars
    \/ (Pull \/ ServerReplies \/ CloseHandle) /\ UNCHANGED tickerVars
    \/ PageArrives \/ PullRejected \/ TickOfNothing
    \/ (Start \/ Stop) /\ UNCHANGED syncVars
    \/ \E e \in timers : TickerFires(e)

\* Timeouts fire, the server answers, and what it answered arrives or fails.
SyncFairness ==
    /\ WF_<<syncVars, tickerVars>>(\E e \in timers : TickerFires(e))
    /\ WF_<<syncVars, tickerVars>>(ServerReplies /\ UNCHANGED tickerVars)
    /\ WF_<<syncVars, tickerVars>>(PageArrives)
    /\ WF_<<syncVars, tickerVars>>(TickOfNothing)

SyncSpec ==
    /\ SyncInit /\ TickerInit
    /\ [][SyncNext]_<<syncVars, tickerVars>>
    /\ SyncFairness

-----------------------------------------------------------------------------
SyncTypeOK ==
    /\ rows \subseteq Rows /\ events \subseteq Rows
    /\ astray \subseteq Rows /\ behind \subseteq Rows
    /\ changes \in 0..MaxChanges /\ watermark \in 0..MaxVersion
    /\ local \in [Ids -> 0..MaxVersion] /\ known \in [Ids -> 0..MaxVersion]
    /\ pull \in [stage : {"idle", "asked", "answered"}, fresh : BOOLEAN,
                 since : 0..MaxVersion, page : SUBSET Rows, rest : SUBSET Rows]
    /\ handleOpen \in BOOLEAN
    /\ failures \in 0..MaxFailures

\* The store holds this row of the server, or its deletion.
Reflects(r) == local[r.id] = IF r.deleted THEN 0 ELSE r.ver

\* No change is lost below the watermark, which the server is never asked about
\* again: what the server has there is in the store, whatever events were lost,
\* delayed or overtaken, because events do not move the watermark (doPull(),
\* lines 140-144).  Left out are the pages a running pull still owes, the rows
\* astray, by a pull that failed between pages in no order or by an event older
\* than the deletion of its model, and the rows behind, whose version the
\* versions of other models had reached before it was given.
WatermarkCovers ==
    \A r \in rows :
        \/ r.ver > watermark
        \/ Reflects(r)
        \/ r \in Paged
        \/ r \in astray \cup behind

\* A lost event is made up for by a later pull: when the server is quiet and
\* the ticker runs on, the store comes to agree with the server and stays so,
\* but for what is astray or behind (tick() and doPull(), lines 49-50 and
\* 132-153).
SyncConverges ==
    <>[](handleOpen /\ running => \A r \in rows : Reflects(r) \/ r \in astray \cup behind)

\* Whatever the order of pulls and events, the store comes to agree with the
\* server, as the design promises (01-design.md, line 230; applyOne(), lines
\* 168-177).
OrderDoesNotMatter ==
    <>[](handleOpen /\ running => \A r \in rows : Reflects(r))

\* The ticker waits longer after a pull that failed.
BacksOff ==
    [][PullFails /\ running /\ epoch \in ticking /\ epoch' = epoch
           => delay' = NextDelay(FALSE)]_<<syncVars, tickerVars>>
=============================================================================

------------------------------- MODULE Progress -------------------------------
(***************************************************************************)
(* Progress tracker (src/src/progress/progress.ts): a reporter sends       *)
(* numbered snapshots of its tasks, one per throttle window, and a         *)
(* consumer on a shared network keeps the latest of each.                  *)
(*                                                                         *)
(* Of a snapshot the model keeps the status and, as "version", which local *)
(* change it shows.  Snapshots are lost, duplicated and reordered.         *)
(***************************************************************************)
EXTENDS Naturals, SequencesExt

CONSTANTS
    TaskIds,
    Throttled,      \* throttleMs > 0
    MaxTasks,       \* options.maxTasks of the consumer
    MaxChanges,     \* bound on the local changes of a task
    MaxSnapshots    \* bound on the snapshots emitted

ASSUME ProgressAssumption ==
    IsFiniteSet(TaskIds) /\ Throttled \in BOOLEAN /\ MaxTasks \in Nat \ {0} /\ MaxChanges \in Nat /\ MaxSnapshots \in Nat

VARIABLES
    taskStatus,     \* local.status; "absent" before start()
    version,        \* number of local changes
    dirty,
    window,         \* tasks whose throttle window is open
    beating,        \* the heartbeat interval is set
    snapshotNo,     \* seq
    emitted,        \* history: snapshots emitted, whatever the sink did
    inTransit,      \* those the sink took, each to be received any number of times
    store,          \* the consumer's Map, in the order of insertion
    newest          \* history: highest number received since the task was stored

progressVars == <<taskStatus, version, dirty, window, beating, snapshotNo, emitted,
                  inTransit, store, newest>>
localVars == <<taskStatus, version, dirty, window, beating>>
consumerVars == <<store, newest>>

Terminal == {"done", "error"}
Snapshots == [id : TaskIds, seq : 1..MaxSnapshots, version : 1..MaxChanges,
              status : {"pending", "running"} \cup Terminal]

ProgressInit ==
    /\ taskStatus = [t \in TaskIds |-> "absent"]
    /\ version = [t \in TaskIds |-> 0]
    /\ dirty = {} /\ window = {} /\ emitted = {} /\ inTransit = {}
    /\ beating \in BOOLEAN     \* heartbeatMs > 0
    /\ snapshotNo = 0
    /\ store = <<>>
    /\ newest = [t \in TaskIds |-> 0]

-----------------------------------------------------------------------------
\* The local state of task t after a change.
Changed(t, status) ==
    /\ version[t] < MaxChanges
    /\ version' = [version EXCEPT ![t] = @ + 1]
    /\ taskStatus' = [taskStatus EXCEPT ![t] = status]

\* emit() of the tasks in the sequence, the order in which forEach meets them:
\* each snapshot draws the next number, and the sink takes it or fails.
Emit(order) ==
    LET out == {[id |-> order[i], seq |-> snapshotNo + i, version |-> version'[order[i]],
                 status |-> taskStatus'[order[i]]] : i \in DOMAIN order}
    IN  /\ snapshotNo + Len(order) <= MaxSnapshots
        /\ snapshotNo' = snapshotNo + Len(order)
        /\ emitted' = emitted \cup out
        /\ \E taken \in SUBSET out : inTransit' = inTransit \cup taken

\* start(): a second one of the same id returns the handle and does nothing.
StartTask(t) ==
    /\ taskStatus[t] = "absent"
    /\ Changed(t, "pending")
    /\ Emit(<<t>>)
    /\ UNCHANGED <<dirty, window, beating, consumerVars>>

\* update(): sent at once when no window is open, and then a window opens if
\* the reporter throttles; else left for its end.  A task that runs does not
\* become pending again, and one that has ended takes no update.
Update(t, status) ==
    /\ taskStatus[t] \in {"pending", "running"}
    /\ Changed(t, IF taskStatus[t] = "running" THEN "running" ELSE status)
    /\ \/ /\ t \in window
          /\ dirty' = dirty \cup {t}
          /\ UNCHANGED <<window, snapshotNo, emitted, inTransit>>
       \/ /\ t \notin window
          /\ Emit(<<t>>)
          /\ window' = IF Throttled THEN window \cup {t} ELSE window
          /\ UNCHANGED dirty
    /\ UNCHANGED <<beating, consumerVars>>

\* Mutant of WindowEnds: the end of a window forgets what it held back.
WindowEndsForgetting(t) ==
    /\ t \in window
    /\ window' = window \ {t}
    /\ dirty' = dirty \ {t}
    /\ UNCHANGED <<taskStatus, version, beating, consumerVars, snapshotNo, emitted, inTransit>>

\* The end of a window: what has changed is sent and the next window opens.
WindowEnds(t) ==
    /\ t \in window
    /\ UNCHANGED <<taskStatus, version, beating, consumerVars>>
    /\ IF t \in dirty
       THEN dirty' = dirty \ {t} /\ Emit(<<t>>) /\ UNCHANGED window
       ELSE window' = window \ {t} /\ UNCHANGED <<dirty, snapshotNo, emitted, inTransit>>

\* The heartbeat: every task that runs is sent anew under a new number.
Heartbeat ==
    /\ beating
    /\ \E t \in TaskIds : taskStatus[t] = "running"
    /\ dirty' = {t \in dirty : taskStatus[t] # "running"}
    /\ UNCHANGED <<taskStatus, version, window, beating, consumerVars>>
    /\ \E order \in SetToSeqs({t \in TaskIds : taskStatus[t] = "running"}) : Emit(order)

\* done() and error(): the window is cancelled and the end sent at once.
Finish(t, status) ==
    /\ taskStatus[t] \in {"pending", "running"}
    /\ Changed(t, status)
    /\ Emit(<<t>>)
    /\ window' = window \ {t}
    /\ dirty' = dirty \ {t}
    /\ UNCHANGED <<beating, consumerVars>>

\* close(): the heartbeat ends, what the windows held back is sent, and they are
\* cancelled.  A task may still be started and updated afterwards.
CloseReporter ==
    /\ window # {} \/ beating
    /\ beating' = FALSE
    /\ window' = {}
    /\ dirty' = {}
    /\ UNCHANGED <<taskStatus, version, consumerVars>>
    /\ \E order \in SetToSeqs(dirty) : Emit(order)

-----------------------------------------------------------------------------
Stored == {store[i].id : i \in DOMAIN store}

\* evict(): where the task is that a map too long loses: the first that has
\* ended, else the first one, but not the new.
Evicted(map, keep) ==
    LET others == {i \in DOMAIN map : map[i].id # keep}
        ended == {i \in others : map[i].status \in Terminal}
        from == IF ended # {} THEN ended ELSE others
    IN  {i \in from : Len(map) > MaxTasks /\ \A j \in from : i <= j}

\* A snapshot is received: dropped when the task is known by a later one, else
\* put in its place, or at the end, where the map may then be too long.
ReceiveSnapshot(s) ==
    /\ s \in inTransit
    /\ \/ /\ s.id \in Stored
          /\ \A i \in DOMAIN store : store[i].id = s.id => store[i].seq < s.seq
          /\ store' = [i \in DOMAIN store |-> IF store[i].id = s.id THEN s ELSE store[i]]
          /\ newest' = [newest EXCEPT ![s.id] = s.seq]
       \/ /\ s.id \notin Stored
          /\ LET map == Append(store, s)
                 gone == Evicted(map, s.id)
             IN  /\ store' = IF gone = {} THEN map
                             ELSE RemoveAt(map, CHOOSE i \in gone : TRUE)
                 /\ newest' = [t \in TaskIds |-> IF t = s.id THEN s.seq
                                  ELSE IF \E i \in gone : map[i].id = t THEN 0 ELSE newest[t]]
    /\ UNCHANGED <<localVars, snapshotNo, emitted, inTransit>>

ProgressNext ==
    \/ \E t \in TaskIds :
          \/ StartTask(t) \/ WindowEnds(t)
          \/ \E status \in {"pending", "running"} : Update(t, status)
          \/ \E status \in Terminal : Finish(t, status)
    \/ Heartbeat \/ CloseReporter
    \/ \E s \in inTransit : ReceiveSnapshot(s)

ProgressSpec == ProgressInit /\ [][ProgressNext]_progressVars

-----------------------------------------------------------------------------
ProgressTypeOK ==
    /\ taskStatus \in [TaskIds -> {"absent", "pending", "running"} \cup Terminal]
    /\ version \in [TaskIds -> 0..MaxChanges]
    /\ dirty \subseteq TaskIds /\ window \subseteq TaskIds /\ beating \in BOOLEAN
    /\ snapshotNo \in 0..MaxSnapshots
    /\ emitted \subseteq Snapshots /\ inTransit \subseteq emitted
    /\ store \in Seq(Snapshots)
    /\ newest \in [TaskIds -> 0..MaxSnapshots]

Emitted(t) == {s \in emitted : s.id = t}

\* The last snapshot sent of a task shows its last change, unless a window that
\* is still open will send one that does: throttling, heartbeats, close() and
\* the end of a task race without holding a change back.  The end of a task is
\* the last thing sent of it, so a consumer that has it cannot go back.  And
\* the consumer has the latest snapshot that has reached it since it stored the
\* task, of each task it keeps, once each, and no more tasks than it may: an
\* evicted task is forgotten, and a late snapshot of it enters anew (lines 196-304, 321-354).
ProgressHonest ==
    /\ \A t \in TaskIds : version[t] = 0 \/
           (\E s \in Emitted(t) : s.version = version[t]) \/ (t \in dirty \cap window)
    /\ \A s \in emitted : s.status \in Terminal =>
           \A r \in Emitted(s.id) : r.seq <= s.seq
    /\ \A i \in DOMAIN store : store[i].seq = newest[store[i].id]
    /\ \A i, j \in DOMAIN store : store[i].id = store[j].id => i = j
    /\ Len(store) <= MaxTasks
=============================================================================

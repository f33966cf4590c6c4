---------------------------- MODULE ServicesProof ----------------------------
(***************************************************************************)
(* Proofs about the services above the socket: ModelSync and the ticker    *)
(* that drives it (one chain of timeouts lives whatever start() and stop() *)
(* do, and no change is lost below the watermark), the ledger of           *)
(* SocketClient, the answers of GenAIProxy, the receipts and the bar of    *)
(* Upload, and the types of them all.                                      *)
(***************************************************************************)
EXTENDS MCServices, FiniteSetTheorems, WellFoundedInduction, TLAPS

-----------------------------------------------------------------------------
(* The model sync client: the inductive invariant of the store. *)

Seen == rows \cup events \cup Paged     \* everything the store may yet be told of

RowsUnique == \A r, s \in rows : r.id = s.id => r = s
PagedUnique == \A p, q \in Paged : p.id = q.id => p = q
VersionsUnique == \A s, t \in Seen : s.id = t.id /\ s.ver = t.ver => s = t

\* A row is the newest of its model, and what is told of a model it has a row of.
RowsNewest == \A r \in rows : /\ known[r.id] <= r.ver
                              /\ \A t \in Seen : t.id = r.id => t.ver <= r.ver
RowOfAll == /\ \A t \in Seen : \E r \in rows : r.id = t.id
            /\ \A x \in Ids : /\ local[x] <= known[x]
                              /\ known[x] = 0 \/ \E r \in rows : r.id = x

\* What the store holds is not deleted.
LocalLive == \A t \in Seen : local[t.id] = t.ver => ~t.deleted

PullShape ==
    /\ pull.stage = "idle" => pull = Idle
    /\ pull.stage = "asked" => pull.page = {}
    /\ pull.fresh => pull.stage = "asked" /\ pull.rest = {} /\ pull.since = watermark

\* The store has been told of the row and reflects it, or it is astray or behind.
Held(r) == r \in astray \cup behind \/ (Reflects(r) /\ r.ver <= known[r.id])

\* What is neither held nor still to come is newer than all that is to come.
Cover == \A r \in rows :
            \/ Held(r)
            \/ r \in Paged
            \/ r.ver > watermark /\ \A q \in Paged : q.ver < r.ver

StoreInv == /\ SyncTypeOK /\ RowsUnique /\ PagedUnique /\ VersionsUnique /\ RowsNewest
            /\ RowOfAll /\ LocalLive /\ PullShape /\ Cover

-----------------------------------------------------------------------------
(* The ticker. *)

\* No tick of an epoch yet to come is in flight.
TickerInv == TickerTypeOK /\ OneChain /\ \A e \in ticking : e <= epoch

\* Each step of the composition is one of these for the ticker.
TickerStep ==
    \/ Start \/ Stop
    \/ \E e \in timers : Fire(e)
    \/ \E ok \in BOOLEAN : TicksSettle(ticking, ok)
    \/ UNCHANGED tickerVars

LEMMA NextDelayTyped ==
    ASSUME delay \in Nat, NEW ok \in BOOLEAN PROVE NextDelay(ok) \in Nat
<1>1. delay * Factor \in Nat
  BY TickerAssumption
<1> QED BY <1>1, TickerAssumption DEF NextDelay

LEMMA TickerKeeps == TickerInv /\ TickerStep => TickerInv'
<1> SUFFICES ASSUME TickerInv, TickerStep PROVE TickerInv'
  OBVIOUS
<1> USE TickerAssumption DEF TickerInv, TickerTypeOK, OneChain
<1>1. CASE Start
  BY <1>1 DEF Start
<1>2. CASE Stop
  <2>1. running' \in BOOLEAN /\ ~running'
    BY <1>2, Zenon DEF Stop
  <2>2. timers' = {} /\ epoch' = epoch + 1 /\ field' = 0 /\ ticking' = ticking
    BY <1>2 DEF Stop
  <2>3. delay' = delay /\ epoch' \in 0..MaxEpoch
    BY <1>2 DEF Stop
  <2> QED BY <2>1, <2>2, <2>3
<1>3. ASSUME NEW e \in timers, Fire(e) PROVE TickerInv'
  BY <1>3 DEF Fire
<1>4. ASSUME NEW ok \in BOOLEAN, TicksSettle(ticking, ok) PROVE TickerInv'
  <2>1. delay' \in Nat
    BY <1>4, NextDelayTyped DEF TicksSettle
  <2>2. CASE epoch \in ticking
    BY <1>4, <2>1, <2>2 DEF TicksSettle
  <2>3. CASE epoch \notin ticking
    BY <1>4, <2>1, <2>3 DEF TicksSettle
  <2> QED BY <2>2, <2>3
<1>5. CASE UNCHANGED tickerVars
  BY <1>5 DEF tickerVars
<1> QED BY <1>1, <1>2, <1>3, <1>4, <1>5 DEF TickerStep

LEMMA StepsTheTicker == SyncNext => TickerStep
<1> USE DEF TickerStep
<1> SUFFICES ASSUME SyncNext PROVE TickerStep
  OBVIOUS
<1>1. CASE PageArrives
  BY <1>1 DEF PageArrives
<1>2. CASE PullRejected
  <2>1. (~TickFails) \in BOOLEAN
    BY DEF TickFails
  <2> QED BY <1>2, <2>1 DEF PullRejected
<1>3. CASE TickOfNothing
  <2>1. (~TickFails) \in BOOLEAN
    BY DEF TickFails
  <2> QED BY <1>3, <2>1 DEF TickOfNothing
<1>4. ASSUME NEW e \in timers, TickerFires(e) PROVE TickerStep
  BY <1>4 DEF TickerFires
<1>5. CASE UNCHANGED tickerVars
  BY <1>5
<1> QED BY <1>1, <1>2, <1>3, <1>4, <1>5 DEF SyncNext

LEMMA TickerStart == TickerInit => TickerInv
<1> SUFFICES ASSUME TickerInit PROVE TickerInv
  OBVIOUS
<1>1. TickerTypeOK
  <2>1. running \in BOOLEAN
    BY Zenon DEF TickerInit
  <2>2. epoch \in 0..MaxEpoch /\ field \in 0..MaxEpoch /\ delay \in Nat
    BY TickerAssumption DEF TickerInit
  <2> QED BY <2>1, <2>2 DEF TickerInit, TickerTypeOK
<1>2. OneChain /\ \A e \in ticking : e <= epoch
  BY DEF TickerInit, OneChain
<1> QED BY <1>1, <1>2 DEF TickerInv

LEMMA TickerNext == TickerInv /\ [SyncNext]_<<syncVars, tickerVars>> => TickerInv'
<1>1. [SyncNext]_<<syncVars, tickerVars>> => TickerStep
  BY StepsTheTicker DEF TickerStep
<1> QED BY <1>1, TickerKeeps

\* While the ticker runs one chain lives, and none when it does not, whatever
\* start() and stop() do while ticks of older epochs are in flight (ticker.ts,
\* lines 46-79), in every composition with pulls, failures and close().
THEOREM OneChainHolds == SyncSpec => []OneChain
<1>1. TickerInv => OneChain
  BY DEF TickerInv
<1> QED BY <1>1, TickerStart, TickerNext, PTL DEF SyncSpec

-----------------------------------------------------------------------------
(* The newest of a set of versions. *)

\* A set of versions has a newest one, by the order of Nat seen from MaxVersion.
LEMMA NewestExists ==
    ASSUME NEW S, S \subseteq 0..MaxVersion, S # {}
    PROVE  \E v \in S : \A w \in S : w <= v
<1> DEFINE R == OpToRel(<, Nat)
           T == {MaxVersion - v : v \in S}
<1>0. MaxVersion \in Nat
  BY SyncAssumption
<1>1. T \subseteq Nat /\ T # {}
  <2>1. \A v \in S : MaxVersion - v \in Nat
    BY <1>0
  <2>2. T \subseteq Nat
    BY <2>1
  <2>3. PICK v \in S : TRUE
    OBVIOUS
  <2>4. MaxVersion - v \in T
    BY <2>3
  <2> QED BY <2>2, <2>4
<1>2. IsWellFoundedOn(R, Nat)
  BY NatLessThanWellFounded
<1>3. \A x, y \in Nat : y < x => <<y, x>> \in R
  BY DEF OpToRel
<1> HIDE DEF R
<1>4. PICK x \in T : \A y \in T : <<y, x>> \notin R
  BY <1>1, <1>2, WFMin
<1>5. \A y \in T : ~(y < x)
  BY <1>1, <1>3, <1>4
<1>6. PICK v \in S : x = MaxVersion - v
  BY <1>4
<1>7. ASSUME NEW w \in S PROVE w <= v
  <2>1. MaxVersion - w \in T
    OBVIOUS
  <2> QED BY <1>0, <1>5, <1>6, <2>1
<1> QED BY <1>7

LEMMA LatestFact ==
    ASSUME NEW S, S \subseteq 0..MaxVersion, S # {}
    PROVE  Latest(S) \in S /\ \A w \in S : w <= Latest(S)
BY NewestExists DEF Latest

-----------------------------------------------------------------------------
(* What applying a page or an event does. *)

\* Every row that is told of names a model and carries a version.
LEMMA SeenTyped ==
    ASSUME SyncTypeOK
    PROVE  \A t \in Seen : /\ t \in Rows /\ t.id \in Ids /\ t.ver \in 1..MaxVersion
                          /\ t.deleted \in BOOLEAN
BY DEF SyncTypeOK, Seen, Paged, Rows

\* The store: what applies is stored, every other model stays as it was.
LEMMA ApplyStores ==
    ASSUME SyncTypeOK, NEW S, S \subseteq Seen, \A p, q \in S : p.id = q.id => p = q, Apply(S)
    PROVE  /\ local' \in [Ids -> 0..MaxVersion]
           /\ \A r \in S : Applies(r) => local'[r.id] = IF r.deleted THEN 0 ELSE r.ver
           /\ \A x \in Ids : (\A r \in S : r.id = x => ~Applies(r)) => local'[x] = local[x]
<1> DEFINE changed == {r \in S : Applies(r)}
           New(x) == IF \E r \in changed : r.id = x
                     THEN LET r == CHOOSE r \in changed : r.id = x
                          IN  IF r.deleted THEN 0 ELSE r.ver
                     ELSE local[x]
<1>1. local' = [x \in Ids |-> New(x)]
  BY DEF Apply
<1>2. \A r \in S : r.id \in Ids /\ r.ver \in 1..MaxVersion
  BY SeenTyped
<1>3. ASSUME NEW r \in S, Applies(r) PROVE New(r.id) = IF r.deleted THEN 0 ELSE r.ver
  <2> DEFINE c == CHOOSE q \in changed : q.id = r.id
  <2>1. r \in changed
    BY <1>3
  <2>2. c \in changed /\ c.id = r.id
    BY <2>1
  <2>3. c = r
    BY <2>2
  <2> QED BY <2>1, <2>3
<1>4. ASSUME NEW x \in Ids, \A r \in S : r.id = x => ~Applies(r) PROVE New(x) = local[x]
  BY <1>4
<1>5. ASSUME NEW x \in Ids PROVE New(x) \in 0..MaxVersion
  <2>1. CASE \E r \in S : r.id = x /\ Applies(r)
    <3>1. PICK r \in S : r.id = x /\ Applies(r)
      BY <2>1
    <3>2. New(x) = IF r.deleted THEN 0 ELSE r.ver
      BY <1>3, <3>1
    <3> HIDE DEF New
    <3> QED BY <1>2, <3>2, SyncAssumption
  <2>2. CASE \A r \in S : r.id = x => ~Applies(r)
    <3>1. New(x) = local[x]
      BY <1>4, <2>2
    <3> HIDE DEF New
    <3> QED BY <3>1 DEF SyncTypeOK
  <2> QED BY <2>1, <2>2
<1> HIDE DEF New
<1> QED BY <1>1, <1>2, <1>3, <1>4, <1>5

\* The account of versions received: never older, and no newer than what came.
LEMMA ApplyKnows ==
    ASSUME SyncTypeOK, NEW S, S \subseteq Seen, Apply(S)
    PROVE  /\ known' \in [Ids -> 0..MaxVersion]
           /\ \A x \in Ids : known[x] <= known'[x]
           /\ \A r \in S : r.ver <= known'[r.id]
           /\ \A x \in Ids : \/ known'[x] = known[x]
                            \/ \E r \in S : r.id = x /\ known'[x] = r.ver
<1> DEFINE Came(x) == {known[x]} \cup {r.ver : r \in {c \in S : c.id = x}}
<1>1. known' = [x \in Ids |-> Latest(Came(x))]
  BY DEF Apply
<1>2. \A r \in S : r.id \in Ids /\ r.ver \in 1..MaxVersion
  BY SeenTyped
<1>3. ASSUME NEW x \in Ids
      PROVE  /\ Latest(Came(x)) \in Came(x) /\ \A w \in Came(x) : w <= Latest(Came(x))
             /\ Came(x) \subseteq 0..MaxVersion
  <2>1. known[x] \in 0..MaxVersion
    BY DEF SyncTypeOK
  <2>2. Came(x) \subseteq 0..MaxVersion /\ Came(x) # {}
    BY <1>2, <2>1, SyncAssumption
  <2> HIDE DEF Came
  <2> QED BY <2>2, LatestFact
<1>4. \A x \in Ids : known'[x] = Latest(Came(x))
  BY <1>1
<1>5. known' \in [Ids -> 0..MaxVersion]
  <2> HIDE DEF Came
  <2> QED BY <1>1, <1>3
<1>6. ASSUME NEW x \in Ids
      PROVE  /\ known[x] <= known'[x]
             /\ known'[x] = known[x] \/ \E r \in S : r.id = x /\ known'[x] = r.ver
  BY <1>3, <1>4
<1>7. ASSUME NEW r \in S PROVE r.ver <= known'[r.id]
  <2>1. r.ver \in Came(r.id)
    OBVIOUS
  <2> QED BY <2>1, <1>2, <1>3, <1>4
<1> QED BY <1>5, <1>6, <1>7

\* A row of the server that is applied is held, and none that was held is let go:
\* an older row that overtakes a deletion puts it astray.
LEMMA ApplyHolds ==
    ASSUME StoreInv, NEW S, S \subseteq Seen, \A p, q \in S : p.id = q.id => p = q, Apply(S),
           NEW r \in rows, r \in S \/ Held(r)
    PROVE  r \in (astray \cup behind)' \/ (local'[r.id] = (IF r.deleted THEN 0 ELSE r.ver) /\ r.ver <= known'[r.id])
<1> DEFINE changed == {q \in S : Applies(q)}
           old == {q \in changed : q.ver < known[q.id]}
<1>0. /\ SyncTypeOK /\ r \in Seen
      /\ r.id \in Ids /\ r.ver \in 1..MaxVersion /\ r.deleted \in BOOLEAN
      /\ local[r.id] \in Nat /\ known[r.id] \in Nat /\ known'[r.id] \in Nat
      /\ known[r.id] <= known'[r.id] /\ local[r.id] <= known[r.id] /\ known[r.id] <= r.ver
  BY SeenTyped, ApplyKnows DEF StoreInv, SyncTypeOK, Seen, RowOfAll, RowsNewest
<1>1. astray' = (astray \cup {t \in rows : t.deleted /\ \E q \in old : q.id = t.id}) \ changed
  BY DEF Apply
<1>2. /\ \A q \in S : Applies(q) => local'[q.id] = IF q.deleted THEN 0 ELSE q.ver
      /\ (\A q \in S : q.id = r.id => ~Applies(q)) => local'[r.id] = local[r.id]
  BY <1>0, ApplyStores
<1>3. \A q \in S : q.ver <= known'[q.id]
  BY <1>0, ApplyKnows
<1>4. CASE r \in S /\ Applies(r)
  BY <1>2, <1>3, <1>4
<1>5. CASE r \in S /\ ~Applies(r)
  <2>1. local'[r.id] = local[r.id] /\ r.ver <= known'[r.id]
    BY <1>2, <1>3, <1>5
  <2>2. CASE local[r.id] = 0 /\ r.deleted
    BY <2>1, <2>2
  <2>3. CASE ~(r.ver > local[r.id])
    <3>1. local[r.id] = r.ver
      BY <1>0, <2>3
    <3>2. ~r.deleted
      BY <1>0, <3>1 DEF StoreInv, LocalLive
    <3> QED BY <2>1, <3>1, <3>2
  <2> QED BY <1>5, <2>2, <2>3 DEF Applies
<1>6. CASE r \notin S /\ r \in astray \cup behind
  <2>1. behind' = behind \ changed
    BY DEF Apply
  <2> QED BY <1>1, <1>6, <2>1
<1>7. CASE r \notin S /\ Reflects(r) /\ r.ver <= known[r.id]
  <2>1. CASE \A q \in S : q.id = r.id => ~Applies(q)
    <3>1. local'[r.id] = local[r.id]
      BY <1>2, <2>1
    <3> QED BY <1>0, <1>7, <3>1 DEF Reflects
  <2>2. ASSUME NEW q \in S, q.id = r.id, Applies(q)
        PROVE  r \in astray'
    <3>1. q \in Seen /\ q.ver \in 1..MaxVersion /\ q.ver <= r.ver /\ q.ver # r.ver
      BY <1>0, <1>7, <2>2, SeenTyped DEF StoreInv, RowsNewest, VersionsUnique
    <3>2. q.ver < known[q.id]
      BY <1>0, <1>7, <2>2, <3>1
    <3>3. r.deleted
      <4>1. q.ver > local[r.id]
        BY <2>2 DEF Applies
      <4> QED BY <1>0, <1>7, <3>1, <4>1 DEF Reflects
    <3>4. q \in old
      BY <2>2, <3>2
    <3>5. r \notin changed
      BY <1>7
    <3> HIDE DEF changed, old
    <3> QED BY <1>1, <2>2, <3>3, <3>4, <3>5
  <2> QED BY <2>1, <2>2
<1> QED BY <1>4, <1>5, <1>6, <1>7 DEF Held

-----------------------------------------------------------------------------
(* The steps preserve the invariant. *)

\* The part that no page order touches.
Versions == RowsUnique /\ VersionsUnique /\ RowsNewest /\ RowOfAll /\ LocalLive

LEMMA QuietKeeps ==
    ASSUME StoreInv, UNCHANGED <<rows, local, known>>, Seen' \subseteq Seen
    PROVE  Versions'
BY DEF StoreInv, Versions, RowsUnique, VersionsUnique, RowsNewest, RowOfAll, LocalLive

LEMMA ApplyKeeps ==
    ASSUME StoreInv, NEW S, S \subseteq Seen, \A p, q \in S : p.id = q.id => p = q, Apply(S),
           UNCHANGED rows, Seen' \subseteq Seen
    PROVE  Versions'
<1>0. /\ SyncTypeOK
      /\ \A x \in Ids : local[x] \in Nat /\ known[x] \in Nat /\ known'[x] \in Nat
      /\ \A t \in Seen : t.id \in Ids /\ t.ver \in 1..MaxVersion
      /\ \A r \in rows : r \in Seen
  BY SeenTyped, ApplyKnows, SyncAssumption DEF StoreInv, SyncTypeOK, Seen
<1>1. /\ \A q \in S : Applies(q) => local'[q.id] = IF q.deleted THEN 0 ELSE q.ver
      /\ \A x \in Ids : (\A q \in S : q.id = x => ~Applies(q)) => local'[x] = local[x]
  BY <1>0, ApplyStores
<1>2. /\ \A x \in Ids : known[x] <= known'[x]
      /\ \A q \in S : q.ver <= known'[q.id]
      /\ \A x \in Ids : known'[x] = known[x] \/ \E q \in S : q.id = x /\ known'[x] = q.ver
  BY <1>0, ApplyKnows
<1>3. RowsUnique' /\ VersionsUnique'
  BY DEF StoreInv, RowsUnique, VersionsUnique
<1>4. RowsNewest'
  <2> SUFFICES ASSUME NEW r \in rows
               PROVE  known'[r.id] <= r.ver /\ \A t \in Seen' : t.id = r.id => t.ver <= r.ver
    BY DEF RowsNewest
  <2>1. known[r.id] <= r.ver /\ \A t \in Seen : t.id = r.id => t.ver <= r.ver
    BY DEF StoreInv, RowsNewest
  <2> QED BY <1>0, <1>2, <2>1
<1>5. RowOfAll'
  <2>1. \A t \in Seen' : \E r \in rows : r.id = t.id
    BY DEF StoreInv, RowOfAll
  <2>2. ASSUME NEW x \in Ids PROVE known'[x] = 0 \/ \E r \in rows : r.id = x
    BY <1>2 DEF StoreInv, RowOfAll
  <2>3. ASSUME NEW x \in Ids PROVE local'[x] <= known'[x]
    <3>1. CASE \A q \in S : q.id = x => ~Applies(q)
      <4>1. local'[x] = local[x] /\ local[x] <= known[x]
        BY <1>1, <3>1 DEF StoreInv, RowOfAll
      <4> QED BY <1>0, <1>2, <4>1
    <3>2. ASSUME NEW q \in S, q.id = x, Applies(q) PROVE local'[x] <= known'[x]
      <4>1. q.ver <= known'[x] /\ (local'[x] = 0 \/ local'[x] = q.ver)
        BY <1>1, <1>2, <3>2
      <4> QED BY <1>0, <4>1
    <3> QED BY <3>1, <3>2
  <2> QED BY <2>1, <2>2, <2>3 DEF RowOfAll
<1>6. LocalLive'
  <2> SUFFICES ASSUME NEW t \in Seen', local'[t.id] = t.ver PROVE ~t.deleted
    BY DEF LocalLive
  <2>1. CASE \A q \in S : q.id = t.id => ~Applies(q)
    BY <1>0, <1>1, <2>1 DEF StoreInv, LocalLive
  <2>2. ASSUME NEW q \in S, q.id = t.id, Applies(q) PROVE ~t.deleted
    <3>1. ~q.deleted /\ q.ver = t.ver
      BY <1>0, <1>1, <2>2
    <3>2. q \in Seen /\ t \in Seen
      OBVIOUS
    <3> QED BY <2>2, <3>1, <3>2 DEF StoreInv, VersionsUnique
  <2> QED BY <2>1, <2>2
<1> QED BY <1>3, <1>4, <1>5, <1>6 DEF Versions

\* Held is about the rows and the store alone.
LEMMA HeldKept ==
    ASSUME NEW r, Held(r), UNCHANGED <<local, known>>,
           r \in astray \cup behind => r \in (astray \cup behind)'
    PROVE  r \in (astray \cup behind)' \/ (local'[r.id] = (IF r.deleted THEN 0 ELSE r.ver) /\ r.ver <= known'[r.id])
BY DEF Held, Reflects

\* What the goals of an action come down to.
LEMMA Assemble ==
    ASSUME SyncTypeOK', Versions', PagedUnique', PullShape',
           \A r \in rows' :
               \/ r \in (astray \cup behind)' \/ (local'[r.id] = (IF r.deleted THEN 0 ELSE r.ver)
                                    /\ r.ver <= known'[r.id])
               \/ r \in Paged'
               \/ r.ver > watermark' /\ \A q \in Paged' : q.ver < r.ver
    PROVE  StoreInv'
<1>1. Cover'
  BY DEF Cover, Held, Reflects
<1> QED BY <1>1 DEF StoreInv, Versions

PullRecord == [stage : {"idle", "asked", "answered"}, fresh : BOOLEAN,
               since : 0..MaxVersion, page : SUBSET Rows, rest : SUBSET Rows]

LEMMA IdleTyped ==
    /\ Idle \in PullRecord /\ Idle.stage = "idle" /\ ~Idle.fresh
    /\ Idle.page = {} /\ Idle.rest = {}
<1>1. 0 \in 0..MaxVersion
  BY SyncAssumption
<1>2. FALSE \in BOOLEAN
  OBVIOUS
<1> QED BY <1>1, <1>2 DEF Idle, PullRecord

LEMMA AskedTyped ==
    ASSUME SyncTypeOK
    PROVE  LET asking == [pull EXCEPT !.stage = "asked", !.page = {}]
           IN  /\ asking \in PullRecord /\ asking.stage = "asked" /\ asking.page = {}
               /\ asking.fresh = pull.fresh /\ asking.rest = pull.rest
<1>1. pull \in PullRecord
  BY DEF SyncTypeOK, PullRecord
<1> QED BY <1>1 DEF PullRecord

LEMMA ServerChangesKeeps ==
    ASSUME StoreInv, NEW x \in Ids, NEW ver \in 1..MaxVersion, NEW deleted \in BOOLEAN,
           ServerChanges(x, ver, deleted)
    PROVE  StoreInv'
<1> DEFINE new == [id |-> x, ver |-> ver, deleted |-> deleted]
           passed == ver <= watermark \/ \E q \in Paged : ver <= q.ver
<1>0. /\ SyncTypeOK /\ changes' \in 0..MaxChanges
      /\ rows' = {o \in rows : o.id # x} \cup {new} /\ \A o \in rows : o.id = x => ver > o.ver
      /\ events' = events \cup {new} /\ pull' = pull /\ watermark \in Nat
      /\ behind' = {b \in behind : b.id # x} \cup (IF passed THEN {new} ELSE {})
      /\ local' = local /\ known' = known /\ astray' = astray /\ watermark' = watermark
      /\ \A y \in Ids : local[y] \in Nat /\ known[y] \in Nat
      /\ \A t \in Seen : t.id \in Ids /\ t.ver \in 1..MaxVersion
      /\ handleOpen' = handleOpen /\ failures' = failures
  BY SeenTyped, SyncAssumption DEF StoreInv, SyncTypeOK, ServerChanges
<1>1. new \in Rows /\ new.id = x /\ new.ver = ver /\ ver \in Nat
  BY DEF Rows
<1>a. /\ \A b \in behind : b.id # x => b \in behind'
      /\ passed => new \in behind'
      /\ behind' \subseteq behind \cup {new}
  BY <1>0
<1> HIDE DEF new
<1>2. Seen' \subseteq Seen \cup {new} /\ Paged' = Paged /\ Paged \subseteq Seen
  BY <1>0 DEF Seen, Paged
<1>3. SyncTypeOK'
  BY <1>0, <1>1, <1>a DEF SyncTypeOK
<1>4. \A t \in Seen : t.id = x => t.ver < ver
  <2> SUFFICES ASSUME NEW t \in Seen, t.id = x PROVE t.ver < ver
    OBVIOUS
  <2>1. PICK o \in rows : o.id = x
    BY DEF StoreInv, RowOfAll
  <2>2. t.ver <= o.ver /\ o.ver < ver /\ o \in Seen
    BY <1>0, <2>1 DEF StoreInv, RowsNewest, Seen
  <2> QED BY <1>0, <1>1, <2>2
<1>b. known[x] < ver /\ local[x] < ver
  <2>1. known[x] = 0 \/ \E o \in rows : o.id = x /\ known[x] <= o.ver /\ o.ver < ver /\ o \in Seen
    BY <1>0 DEF StoreInv, RowOfAll, RowsNewest, Seen
  <2>2. known[x] < ver
    BY <1>0, <1>1, <2>1
  <2> QED BY <1>0, <1>1, <2>2 DEF StoreInv, RowOfAll
<1>5. RowsUnique' /\ VersionsUnique'
  <2>1. RowsUnique'
    BY <1>0, <1>1 DEF StoreInv, RowsUnique
  <2>2. VersionsUnique'
    BY <1>0, <1>1, <1>2, <1>4 DEF StoreInv, VersionsUnique
  <2> QED BY <2>1, <2>2
<1>6. RowsNewest'
  <2> SUFFICES ASSUME NEW r \in rows'
               PROVE  known[r.id] <= r.ver /\ \A t \in Seen' : t.id = r.id => t.ver <= r.ver
    BY <1>0 DEF RowsNewest
  <2>1. CASE r = new
    BY <1>0, <1>1, <1>2, <1>4, <1>b, <2>1
  <2>2. CASE r \in rows /\ r.id # x
    BY <1>1, <1>2, <2>2 DEF StoreInv, RowsNewest
  <2> QED BY <1>0, <2>1, <2>2
<1>7. RowOfAll'
  <2>1. \A y \in Ids : (\E r \in rows : r.id = y) => \E r \in rows' : r.id = y
    BY <1>0, <1>1
  <2>2. \A t \in Seen' : t.id \in Ids /\ \E r \in rows' : r.id = t.id
    BY <1>0, <1>1, <1>2, <2>1 DEF StoreInv, RowOfAll
  <2> QED BY <1>0, <2>1, <2>2 DEF StoreInv, RowOfAll
<1>8. LocalLive'
  BY <1>0, <1>1, <1>2, <1>b DEF StoreInv, LocalLive
<1>9. PagedUnique' /\ PullShape'
  BY <1>0, <1>2 DEF StoreInv, PagedUnique, PullShape
<1>10. ASSUME NEW r \in rows'
       PROVE  \/ r \in (astray \cup behind)' \/ (local'[r.id] = (IF r.deleted THEN 0 ELSE r.ver)
                                    /\ r.ver <= known'[r.id])
              \/ r \in Paged'
              \/ r.ver > watermark' /\ \A q \in Paged' : q.ver < r.ver
  <2>1. CASE r = new /\ passed
    BY <1>a, <2>1
  <2>2. CASE r = new /\ ~passed
    <3>1. watermark < ver /\ \A q \in Paged : q.ver < ver
      BY <1>0, <1>1, <1>2, <2>2
    <3> QED BY <1>0, <1>1, <1>2, <2>2, <3>1
  <2>3. CASE r \in rows /\ r.id # x
    <3>1. r \in astray \cup behind => r \in (astray \cup behind)'
      BY <1>0, <1>a, <2>3
    <3> QED BY <1>0, <1>2, <2>3, <3>1, HeldKept DEF StoreInv, Cover
  <2> QED BY <1>0, <2>1, <2>2, <2>3
<1> QED BY <1>3, <1>5, <1>6, <1>7, <1>8, <1>9, <1>10, Assemble DEF Versions

LEMMA ApplyEventKeeps ==
    ASSUME StoreInv, NEW e \in events, ApplyEvent(e)
    PROVE  StoreInv'
<1>0. /\ SyncTypeOK /\ e \in Seen /\ events' \subseteq events /\ rows' = rows /\ changes' = changes
      /\ watermark' = watermark /\ pull' = pull /\ handleOpen' = handleOpen
      /\ failures' = failures /\ Paged' = Paged /\ Seen' \subseteq Seen
  BY DEF StoreInv, ApplyEvent, Seen, Paged
<1>1. PagedUnique' /\ PullShape'
  BY <1>0 DEF StoreInv, PagedUnique, PullShape
<1>2. CASE handleOpen
  <2>1. Apply({e}) /\ {e} \subseteq Seen
    BY <1>0, <1>2 DEF ApplyEvent
  <2>2. Versions'
    BY <1>0, <2>1, ApplyKeeps
  <2>3. SyncTypeOK'
    <3>1. local' \in [Ids -> 0..MaxVersion] /\ known' \in [Ids -> 0..MaxVersion]
      BY <1>0, <2>1, ApplyStores, ApplyKnows
    <3>2. astray' \subseteq Rows /\ behind' \subseteq Rows
      BY <1>0, <2>1 DEF Apply, SyncTypeOK
    <3> QED BY <1>0, <3>1, <3>2 DEF SyncTypeOK
  <2>4. \A r \in rows : Held(r) => \/ r \in (astray \cup behind)'
                                    \/ /\ local'[r.id] = (IF r.deleted THEN 0 ELSE r.ver)
                                       /\ r.ver <= known'[r.id]
    BY <2>1, ApplyHolds
  <2> QED BY <1>0, <1>1, <2>2, <2>3, <2>4, Assemble DEF StoreInv, Cover
<1>3. CASE ~handleOpen
  <2>1. UNCHANGED <<local, known, astray, behind>>
    BY <1>3 DEF ApplyEvent
  <2>2. Versions'
    BY <1>0, <2>1, QuietKeeps
  <2>3. SyncTypeOK'
    BY <1>0, <2>1 DEF SyncTypeOK
  <2> QED BY <1>0, <1>1, <2>1, <2>2, <2>3, HeldKept, Assemble DEF StoreInv, Cover
<1> QED BY <1>2, <1>3

LEMMA ReceivePageKeeps ==
    ASSUME StoreInv, ReceivePage
    PROVE  StoreInv'
<1>0. /\ SyncTypeOK /\ pull.stage = "answered" /\ Apply(pull.page) /\ rows' = rows
      /\ changes' = changes /\ events' = events /\ handleOpen' = handleOpen /\ failures' = failures
      /\ pull.page \subseteq Seen /\ ~pull.fresh /\ MaxVersion \in Nat
      /\ \A p, q \in pull.page : p.id = q.id => p = q
  BY SyncAssumption
  DEF StoreInv, ReceivePage, Seen, Paged, PagedUnique, PullShape, SyncTypeOK
<1>1. /\ \/ pull' = Idle /\ pull.rest = {}
         \/ pull' = [pull EXCEPT !.stage = "asked", !.page = {}]
      /\ Paged' = pull.rest
  BY <1>0 DEF ReceivePage, Idle, Paged, SyncTypeOK
<1>2. Seen' \subseteq Seen
  BY <1>0, <1>1 DEF Seen, Paged
<1> DEFINE W == {watermark} \cup {r.ver : r \in {p \in pull.page : Applies(p)}}
<1>3. /\ watermark' \in W /\ \A w \in W : w <= watermark' /\ W \subseteq 0..MaxVersion
  <2>1. \A p \in pull.page : p.ver \in 1..MaxVersion
    BY <1>0, SeenTyped
  <2>2. watermark \in 0..MaxVersion
    BY <1>0 DEF SyncTypeOK
  <2>3. W \subseteq 0..MaxVersion /\ W # {}
    BY <1>0, <2>1, <2>2
  <2>4. watermark' = Latest(W)
    BY DEF ReceivePage
  <2> HIDE DEF W
  <2> QED BY <2>3, <2>4, LatestFact
<1>4. watermark' \in 0..MaxVersion
  <2> HIDE DEF W
  <2> QED BY <1>3
<1>5. Versions'
  BY <1>0, <1>2, ApplyKeeps
<1>6. SyncTypeOK'
  <2>1. local' \in [Ids -> 0..MaxVersion] /\ known' \in [Ids -> 0..MaxVersion]
    BY <1>0, ApplyStores, ApplyKnows
  <2>2. astray' \subseteq Rows /\ behind' \subseteq Rows
    BY <1>0 DEF Apply, SyncTypeOK
  <2>3. pull' \in PullRecord
    BY <1>0, <1>1, IdleTyped, AskedTyped
  <2> QED BY <1>0, <1>4, <2>1, <2>2, <2>3 DEF SyncTypeOK, PullRecord
<1>7. PagedUnique'
  BY <1>1 DEF StoreInv, PagedUnique, Paged
<1>8. PullShape'
  <2>1. CASE pull' = Idle
    BY <2>1, IdleTyped DEF PullShape
  <2>2. CASE pull' = [pull EXCEPT !.stage = "asked", !.page = {}]
    <3>1. pull'.stage = "asked" /\ pull'.page = {} /\ pull'.fresh = pull.fresh
      BY <1>0, <2>2, AskedTyped
    <3> QED BY <1>0, <3>1 DEF PullShape
  <2> QED BY <1>1, <2>1, <2>2
<1>9. ASSUME NEW r \in rows
      PROVE  \/ r \in (astray \cup behind)' \/ (local'[r.id] = (IF r.deleted THEN 0 ELSE r.ver)
                                   /\ r.ver <= known'[r.id])
             \/ r \in Paged'
             \/ r.ver > watermark' /\ \A q \in Paged' : q.ver < r.ver
  <2>1. CASE r \in pull.page \/ Held(r)
    BY <1>0, <2>1, ApplyHolds
  <2>2. CASE r \in pull.rest
    BY <1>1, <2>2
  <2>3. CASE r.ver > watermark /\ \A q \in Paged : q.ver < r.ver
    <3>1. \A w \in W : w < r.ver
      BY <2>3 DEF Paged
    <3>2. watermark' < r.ver
      <4> HIDE DEF W
      <4> QED BY <1>3, <3>1
    <3>3. \A q \in Paged' : q.ver < r.ver
      BY <1>1, <2>3 DEF Paged
    <3>4. r.ver \in Nat /\ watermark' \in Nat
      BY <1>0, <1>4, SeenTyped DEF Seen
    <3> QED BY <3>2, <3>3, <3>4
  <2> QED BY <2>1, <2>2, <2>3 DEF StoreInv, Cover, Paged
<1> QED BY <1>0, <1>5, <1>6, <1>7, <1>8, <1>9, Assemble

LEMMA PullKeeps ==
    ASSUME StoreInv, Pull
    PROVE  StoreInv'
<1>0. /\ SyncTypeOK /\ watermark \in 0..MaxVersion
      /\ UNCHANGED <<rows, changes, events, local, watermark, handleOpen, failures, known, astray, behind>>
  BY DEF StoreInv, SyncTypeOK, Pull
<1>1. CASE pull.stage # "idle"
  <2>1. UNCHANGED <<pull, rows, changes, events, local, watermark, handleOpen, failures, known,
                    astray, behind>>
    BY <1>0, <1>1 DEF Pull
  <2> QED BY <2>1 DEF StoreInv, SyncTypeOK, RowsUnique, PagedUnique, VersionsUnique, RowsNewest,
                      RowOfAll, LocalLive, PullShape, Cover, Held, Reflects, Seen, Paged
<1>2. CASE pull.stage = "idle"
  <2> DEFINE asking == [Idle EXCEPT !.stage = "asked", !.fresh = TRUE, !.since = watermark]
  <2>1. /\ asking \in PullRecord /\ asking.stage = "asked" /\ asking.since = watermark
        /\ asking.page = {} /\ asking.rest = {}
    <3>1. TRUE \in BOOLEAN /\ Idle \in PullRecord
      BY IdleTyped
    <3> QED BY <1>0, <3>1, IdleTyped DEF PullRecord
  <2>2. pull' = asking /\ Paged' = {} /\ Paged = {}
    BY <1>2, <2>1, IdleTyped DEF Pull, Paged, StoreInv, PullShape
  <2> HIDE DEF asking
  <2>3. SyncTypeOK' /\ PagedUnique' /\ PullShape'
    BY <1>0, <2>1, <2>2 DEF SyncTypeOK, PullRecord, PagedUnique, PullShape
  <2>4. Versions'
    <3>1. Seen' \subseteq Seen
      BY <1>0, <2>2 DEF Seen
    <3> QED BY <1>0, <3>1, QuietKeeps
  <2> QED BY <1>0, <2>2, <2>3, <2>4, HeldKept, Assemble DEF StoreInv, Cover
<1> QED BY <1>1, <1>2

LEMMA ServerRepliesKeeps ==
    ASSUME StoreInv, ServerReplies
    PROVE  StoreInv'
<1> DEFINE all == IF pull.fresh THEN {r \in rows : r.ver > pull.since} ELSE pull.rest
<1>0. /\ SyncTypeOK /\ pull \in PullRecord /\ pull.stage = "asked" /\ pull.page = {}
      /\ pull.fresh => pull.rest = {} /\ pull.since = watermark
      /\ UNCHANGED <<rows, changes, events, local, watermark, handleOpen, failures, known, astray>>
  BY DEF StoreInv, SyncTypeOK, PullRecord, PullShape, ServerReplies
<1>1. PICK page \in SUBSET all :
          /\ pull' = [pull EXCEPT !.stage = "answered", !.fresh = FALSE, !.page = page,
                                  !.rest = all \ page]
          /\ behind' = behind \ all
  BY DEF ServerReplies
<1>2. all \subseteq Seen /\ all \subseteq Rows
  BY <1>0, SeenTyped DEF Seen, Paged
<1>3. pull' \in PullRecord /\ pull'.stage = "answered" /\ ~pull'.fresh /\ Paged' = all
  <2>1. FALSE \in BOOLEAN
    OBVIOUS
  <2>2. page \subseteq Rows /\ all \ page \subseteq Rows /\ page \cup (all \ page) = all
    BY <1>1, <1>2
  <2> HIDE DEF all
  <2> QED BY <1>0, <1>1, <2>1, <2>2 DEF PullRecord, Paged
<1>4. SyncTypeOK' /\ PullShape'
  <2>1. behind' \subseteq Rows
    BY <1>0, <1>1 DEF SyncTypeOK
  <2> QED BY <1>0, <1>3, <2>1 DEF SyncTypeOK, PullRecord, PullShape
<1>5. PagedUnique'
  BY <1>3 DEF StoreInv, PagedUnique, RowsUnique, Paged
<1>6. Versions'
  <2>1. Seen' \subseteq Seen
    BY <1>0, <1>2, <1>3 DEF Seen
  <2> QED BY <1>0, <2>1, QuietKeeps
<1>7. ASSUME NEW r \in rows, ~Held(r), r \notin all
      PROVE  r.ver > watermark /\ \A q \in Paged' : q.ver < r.ver
  <2>1. ~pull.fresh
    BY <1>0, <1>7 DEF StoreInv, Cover, Paged
  <2>2. Paged' = Paged
    BY <1>0, <1>3, <2>1 DEF Paged
  <2> QED BY <1>3, <1>7, <2>2 DEF StoreInv, Cover
<1>8. ASSUME NEW r \in rows, Held(r), r \notin all
      PROVE  r \in (astray \cup behind)' \/ (local'[r.id] = (IF r.deleted THEN 0 ELSE r.ver)
                                             /\ r.ver <= known'[r.id])
  <2>1. r \in astray \cup behind => r \in (astray \cup behind)'
    BY <1>0, <1>1, <1>8
  <2> QED BY <1>0, <1>8, <2>1, HeldKept
<1> QED BY <1>0, <1>3, <1>4, <1>5, <1>6, <1>7, <1>8, Assemble

LEMMA PullFailsKeeps ==
    ASSUME StoreInv, PullFails
    PROVE  StoreInv'
<1>0. /\ SyncTypeOK /\ UNCHANGED <<rows, changes, events, local, watermark, handleOpen, known, behind>>
      /\ pull' = Idle /\ astray' = astray \cup {r \in Paged : r.ver <= watermark}
      /\ failures' \in 0..MaxFailures /\ Paged' = {} /\ Seen' \subseteq Seen
      /\ watermark \in Nat
  BY SyncAssumption, IdleTyped DEF StoreInv, SyncTypeOK, PullFails, Paged, Seen
<1>1. SyncTypeOK'
  <2>1. astray' \subseteq Rows
    BY <1>0, SeenTyped DEF SyncTypeOK, Seen
  <2> QED BY <1>0, <2>1, IdleTyped DEF SyncTypeOK, PullRecord
<1>2. PagedUnique' /\ PullShape'
  BY <1>0, IdleTyped DEF PagedUnique, PullShape
<1>3. Versions'
  BY <1>0, QuietKeeps
<1>4. ASSUME NEW r \in rows, ~Held(r) PROVE r \in (astray \cup behind)' \/ r.ver > watermark
  <2>1. r.ver \in Nat
    BY <1>0, SeenTyped DEF Seen
  <2> QED BY <1>0, <1>4, <2>1 DEF StoreInv, Cover
<1> QED BY <1>0, <1>1, <1>2, <1>3, <1>4, HeldKept, Assemble

LEMMA OthersKeep ==
    ASSUME StoreInv, events' \subseteq events, handleOpen' \in BOOLEAN,
           UNCHANGED <<rows, changes, local, watermark, pull, failures, known, astray, behind>>
    PROVE  StoreInv'
<1>1. Paged' = Paged /\ Seen' \subseteq Seen
  BY DEF Paged, Seen
<1>2. SyncTypeOK' /\ PagedUnique' /\ PullShape'
  BY <1>1 DEF StoreInv, SyncTypeOK, PagedUnique, PullShape
<1>3. Versions'
  BY <1>1, QuietKeeps
<1> QED BY <1>1, <1>2, <1>3, HeldKept, Assemble DEF StoreInv, Cover

LEMMA StoreInit == SyncInit => StoreInv
<1> SUFFICES ASSUME SyncInit PROVE StoreInv
  OBVIOUS
<1>1. /\ pull \in PullRecord /\ pull.page = {} /\ pull.rest = {}
      /\ pull = Idle \/ (pull.stage = "asked" /\ pull.since = 0)
  <2> DEFINE asking == [Idle EXCEPT !.stage = "asked", !.fresh = TRUE]
  <2>1. Idle.since = 0
    BY DEF Idle
  <2>2. /\ asking \in PullRecord /\ asking.page = {} /\ asking.rest = {}
        /\ asking.stage = "asked" /\ asking.since = 0
    <3>1. TRUE \in BOOLEAN
      OBVIOUS
    <3> QED BY <2>1, <3>1, IdleTyped DEF PullRecord
  <2>3. pull = Idle \/ pull = asking
    BY DEF SyncInit
  <2> HIDE DEF asking
  <2> QED BY <2>2, <2>3, IdleTyped
<1>2. handleOpen \in BOOLEAN
  BY Zenon DEF SyncInit
<1>3. SyncTypeOK
  BY <1>1, <1>2, SyncAssumption DEF SyncInit, SyncTypeOK, PullRecord
<1>4. PullShape
  BY <1>1, IdleTyped DEF SyncInit, PullShape
<1>5. Paged = {} /\ Seen = {}
  BY <1>1 DEF SyncInit, Paged, Seen
<1> QED BY <1>3, <1>4, <1>5
   DEF SyncInit, StoreInv, RowsUnique, PagedUnique, VersionsUnique, RowsNewest, RowOfAll,
       LocalLive, Cover

LEMMA StoreNext == StoreInv /\ [SyncNext]_<<syncVars, tickerVars>> => StoreInv'
<1> SUFFICES ASSUME StoreInv, [SyncNext]_<<syncVars, tickerVars>> PROVE StoreInv'
  OBVIOUS
<1>0. handleOpen \in BOOLEAN
  BY DEF StoreInv, SyncTypeOK
<1>1. CASE UNCHANGED syncVars
  BY <1>0, <1>1, OthersKeep DEF syncVars
<1>2. ASSUME NEW x \in Ids, NEW ver \in 1..MaxVersion, NEW deleted \in BOOLEAN,
             ServerChanges(x, ver, deleted)
      PROVE  StoreInv'
  BY <1>2, ServerChangesKeeps
<1>3. ASSUME NEW r \in events, EventLost(r) \/ ApplyEvent(r) PROVE StoreInv'
  BY <1>0, <1>3, ApplyEventKeeps, OthersKeep DEF EventLost
<1>4. CASE Pull
  BY <1>4, PullKeeps
<1>5. CASE ServerReplies
  BY <1>5, ServerRepliesKeeps
<1>6. CASE CloseHandle
  <2>1. handleOpen' \in BOOLEAN
    BY <1>6, Zenon DEF CloseHandle
  <2> QED BY <1>6, <2>1, OthersKeep DEF CloseHandle
<1>7. CASE ReceivePage
  BY <1>7, ReceivePageKeeps
<1>8. CASE PullFails
  BY <1>8, PullFailsKeeps
<1> QED BY <1>1, <1>2, <1>3, <1>4, <1>5, <1>6, <1>7, <1>8
   DEF SyncNext, PageArrives, PullRejected, TickOfNothing, TickerFires

\* No change is lost below the watermark: a row there is in the store, still to
\* come with the running pull, astray, or behind since it got its version,
\* whatever is lost, delayed, overtaken or fails (doPull() and applyEvent() of
\* machine.ts), of a server that keeps no more than the order of each model.
THEOREM WatermarkHolds == SyncSpec => []WatermarkCovers
<1>1. StoreInv => WatermarkCovers
  BY DEF StoreInv, Cover, Held, Paged, WatermarkCovers
<1> QED BY StoreInit, StoreNext, <1>1, PTL DEF SyncSpec


-----------------------------------------------------------------------------
(* The socket client: whatever the server, the timers and close() do, and  *)
(* however many clients share the socket, no promise is forgotten and each  *)
(* is fulfilled with the answer to its own request.                         *)

\* A request on its way carries the mid of who asked it, and so does an answer.
CarriesItsMid(x) == x.mid = Mid(x.data[1], x.data[2])
WireHonest == /\ \A r \in toServer : CarriesItsMid(r)
              /\ \A e \in toClients : CarriesItsMid(e)

\* Only mids that have been drawn are pending.
PendingDrawn == \A c \in Clients, n \in 1..MaxRequests :
                    Mid(c, n) \in pending[c] => n <= midNo[c]

ClientInv == ClientTypeOK /\ RequestLedger /\ WireHonest /\ PendingDrawn

\* What ClientTypeOK says of the fields that requests, answers and close() change.
LedgerTyped ==
    /\ midNo \in [Clients -> 0..MaxRequests]
    /\ pending \in [Clients -> SUBSET Mids]
    /\ armed \in [Clients -> SUBSET Mids]
    /\ outcome \in [Clients -> [1..MaxRequests -> Outcomes]]

\* The prefix tells the clients apart, and the counter the requests of one.
LEMMA MidsDiffer ==
    ASSUME NEW c \in Clients, NEW d \in Clients, NEW m, NEW n, Mid(c, m) = Mid(d, n)
    PROVE  c = d /\ m = n
BY SocketClientAssumption DEF Mid

LEMMA MidTyped ==
    ASSUME NEW c \in Clients, NEW n \in 1..MaxRequests
    PROVE  Mid(c, n) \in Mids
BY DEF Mids

\* Settle changes the promises of the given mids that wait, and no other.
LEMMA SettleFact ==
    ASSUME outcome \in [Clients -> [1..MaxRequests -> Outcomes]],
           NEW c \in Clients, NEW set, NEW settled \in Outcomes
    PROVE  /\ Settle(c, set, settled) \in [Clients -> [1..MaxRequests -> Outcomes]]
           /\ \A d \in Clients \ {c} : Settle(c, set, settled)[d] = outcome[d]
           /\ \A n \in 1..MaxRequests :
                  Settle(c, set, settled)[c][n] =
                      IF Mid(c, n) \in set /\ outcome[c][n].how = "none"
                      THEN settled ELSE outcome[c][n]
BY DEF Settle

LEMMA OutcomeTyped ==
    /\ \A how \in {"none", "post", "sendFailed", "timeout", "lost", "closed"} :
           Without(how) \in Outcomes /\ Without(how).how = how /\ Without(how).data = {}
    /\ \A e \in Envelopes : /\ Answered(e) \in Outcomes /\ Answered(e).how = e.type
                            /\ Answered(e).data = {e.data} /\ e.type \notin {"none", "lost"}
BY DEF Without, Answered, Outcomes, Envelopes

-----------------------------------------------------------------------------
LEMMA ClientStart == ClientInit => ClientInv
<1> SUFFICES ASSUME ClientInit PROVE ClientInv
  OBVIOUS
<1> USE SocketClientAssumption DEF ClientInit
<1>1. ClientTypeOK
  BY OutcomeTyped DEF ClientTypeOK
<1>2. RequestLedger
  BY OutcomeTyped DEF RequestLedger, NoPromiseForgotten, TimersOnlyForPending, OwnAnswer
<1>3. WireHonest /\ PendingDrawn
  BY DEF WireHonest, PendingDrawn
<1> QED BY <1>1, <1>2, <1>3 DEF ClientInv

\* A mid is drawn: its promise waits with an entry, or has been settled at once.
LEMMA DrawKeeps ==
    ASSUME ClientInv, NEW c \in Clients, midNo[c] < MaxRequests,
           NEW settled \in Outcomes, settled.data = {}, settled.how # "lost", Draw(c, settled),
           NEW waits \in BOOLEAN, waits <=> settled.how = "none",
           pending' = IF waits THEN [pending EXCEPT ![c] = @ \cup {Mid(c, midNo[c] + 1)}]
                      ELSE pending,
           armed' \in [Clients -> SUBSET Mids],
           \A d \in Clients : armed'[d] \subseteq pending'[d]
    PROVE  LedgerTyped' /\ RequestLedger' /\ PendingDrawn'
<1> DEFINE k == midNo[c] + 1
<1>0. MaxRequests \in Nat /\ midNo[c] \in 0..MaxRequests /\ k \in 1..MaxRequests
  BY SocketClientAssumption DEF ClientInv, ClientTypeOK
<1>1. LedgerTyped'
  <2>1. Mid(c, k) \in Mids
    BY <1>0, MidTyped
  <2>2. pending' \in [Clients -> SUBSET Mids]
    BY <2>1 DEF ClientInv, ClientTypeOK
  <2>3. midNo' \in [Clients -> 0..MaxRequests]
    BY <1>0 DEF Draw, ClientInv, ClientTypeOK
  <2>4. outcome' \in [Clients -> [1..MaxRequests -> Outcomes]]
    BY <1>0 DEF Draw, ClientInv, ClientTypeOK
  <2> QED BY <2>2, <2>3, <2>4 DEF LedgerTyped
<1>2. /\ \A d \in Clients, n \in 1..MaxRequests :
             outcome'[d][n] = IF d = c /\ n = k THEN settled ELSE outcome[d][n]
      /\ \A d \in Clients : midNo'[d] = IF d = c THEN k ELSE midNo[d]
  BY <1>0 DEF Draw, ClientInv, ClientTypeOK
<1>3. \A d \in Clients, n \in 1..MaxRequests :
          Mid(d, n) \in pending'[d] <=> IF d = c /\ n = k THEN waits ELSE Mid(d, n) \in pending[d]
  <2> SUFFICES ASSUME NEW d \in Clients, NEW n \in 1..MaxRequests
               PROVE  Mid(d, n) \in pending'[d]
                        <=> IF d = c /\ n = k THEN waits ELSE Mid(d, n) \in pending[d]
    OBVIOUS
  <2>1. Mid(c, k) \notin pending[c]
    BY <1>0 DEF ClientInv, PendingDrawn
  <2>2. Mid(d, n) = Mid(c, k) => d = c /\ n = k
    BY MidsDiffer
  <2>3. pending'[d] = IF d = c /\ waits THEN pending[c] \cup {Mid(c, k)} ELSE pending[d]
    BY DEF ClientInv, ClientTypeOK
  <2> QED BY <2>1, <2>2, <2>3
<1>4. NoPromiseForgotten'
  <2> SUFFICES ASSUME NEW d \in Clients, NEW n \in 1..midNo'[d]
               PROVE  /\ outcome'[d][n].how = "none" <=> Mid(d, n) \in pending'[d]
                      /\ outcome'[d][n].how = "lost" => ErrorListenerMayThrow
    BY DEF NoPromiseForgotten, Mid
  <2>1. n \in 1..MaxRequests /\ ((d # c \/ n # k) => n \in 1..midNo[d])
    BY <1>0, <1>1, <1>2 DEF LedgerTyped
  <2> QED BY <1>2, <1>3, <2>1 DEF ClientInv, RequestLedger, NoPromiseForgotten
<1>5. OwnAnswer'
  BY <1>2 DEF ClientInv, RequestLedger, OwnAnswer
<1>6. PendingDrawn'
  <2> SUFFICES ASSUME NEW d \in Clients, NEW n \in 1..MaxRequests, Mid(d, n) \in pending'[d]
               PROVE  n <= midNo'[d]
    BY DEF PendingDrawn, Mid
  <2>1. CASE d = c /\ n = k
    BY <2>1, <1>0, <1>2
  <2>2. CASE ~(d = c /\ n = k)
    <3>1. n <= midNo[d] /\ midNo[d] \in Nat
      BY <2>2, <1>3 DEF ClientInv, PendingDrawn, ClientTypeOK
    <3> QED BY <3>1, <1>0, <1>2
  <2> QED BY <2>1, <2>2
<1> QED BY <1>1, <1>4, <1>5, <1>6 DEF RequestLedger, TimersOnlyForPending

\* The entry of one mid goes, in one client, and its promise is settled if it waited.
LEMMA SettleKeeps ==
    ASSUME ClientInv, NEW c \in Clients, NEW set, NEW settled \in Outcomes, settled.how # "none",
           settled.how = "lost" => ErrorListenerMayThrow,
           \A n \in 1..MaxRequests : Mid(c, n) \in set => settled.data \subseteq {<<c, n>>},
           UNCHANGED midNo,
           outcome' = Settle(c, set, settled),
           pending' = [pending EXCEPT ![c] = @ \ set],
           armed' = [armed EXCEPT ![c] = @ \ set]
    PROVE  LedgerTyped' /\ RequestLedger' /\ PendingDrawn'
<1>0. MaxRequests \in Nat
  BY SocketClientAssumption
<1>1. /\ outcome' \in [Clients -> [1..MaxRequests -> Outcomes]]
      /\ \A d \in Clients \ {c} : outcome'[d] = outcome[d]
      /\ \A n \in 1..MaxRequests :
             outcome'[c][n] = IF Mid(c, n) \in set /\ outcome[c][n].how = "none"
                              THEN settled ELSE outcome[c][n]
  BY SettleFact DEF ClientInv, ClientTypeOK
<1>2. LedgerTyped'
  BY <1>1 DEF ClientInv, ClientTypeOK, LedgerTyped
<1>3. \A d \in Clients : /\ pending'[d] = IF d = c THEN pending[c] \ set ELSE pending[d]
                         /\ armed'[d] = IF d = c THEN armed[c] \ set ELSE armed[d]
  BY DEF ClientInv, ClientTypeOK
<1>4. NoPromiseForgotten'
  <2> SUFFICES ASSUME NEW d \in Clients, NEW n \in 1..midNo[d]
               PROVE  /\ outcome'[d][n].how = "none" <=> Mid(d, n) \in pending'[d]
                      /\ outcome'[d][n].how = "lost" => ErrorListenerMayThrow
    BY DEF NoPromiseForgotten, Mid
  <2>1. n \in 1..MaxRequests
    BY <1>0 DEF ClientInv, ClientTypeOK
  <2>2. /\ outcome[d][n].how = "none" <=> Mid(d, n) \in pending[d]
        /\ outcome[d][n].how = "lost" => ErrorListenerMayThrow
    BY DEF ClientInv, RequestLedger, NoPromiseForgotten
  <2> QED BY <1>1, <1>3, <2>1, <2>2
<1>5. TimersOnlyForPending'
  BY <1>3 DEF ClientInv, RequestLedger, TimersOnlyForPending
<1>6. OwnAnswer'
  BY <1>1 DEF ClientInv, RequestLedger, OwnAnswer
<1>7. PendingDrawn'
  BY <1>3 DEF ClientInv, PendingDrawn, Mid
<1> QED BY <1>2, <1>4, <1>5, <1>6, <1>7 DEF RequestLedger

\* One answer is read by every client: only the one that asked has its mid.
LEMMA ReceiveKeeps ==
    ASSUME ClientInv, NEW e, ReceiveAnswer(e)
    PROVE  LedgerTyped' /\ RequestLedger' /\ PendingDrawn'
<1> DEFINE reads == {c \in openClients : e.mid \in pending[c]}
<1>0. /\ MaxRequests \in Nat
      /\ e \in Envelopes /\ CarriesItsMid(e) /\ e.data \in Clients \X (1..MaxRequests)
      /\ e.mid = Mid(e.data[1], e.data[2]) /\ midNo' = midNo
  BY SocketClientAssumption
  DEF ClientInv, ClientTypeOK, WireHonest, ReceiveAnswer, Envelopes, Asker, CarriesItsMid
<1>1. /\ pending' = [c \in Clients |-> IF c \in reads THEN pending[c] \ {e.mid} ELSE pending[c]]
      /\ armed' = [c \in Clients |-> IF c \in reads THEN armed[c] \ {e.mid} ELSE armed[c]]
      /\ outcome' = [c \in Clients |-> IF c \in reads
                         THEN Settle(c, {e.mid}, Answered(e))[c] ELSE outcome[c]]
  BY DEF ReceiveAnswer
<1>2. /\ Answered(e) \in Outcomes /\ Answered(e).how \notin {"none", "lost"}
      /\ Answered(e).data = {e.data}
  BY <1>0, OutcomeTyped
<1>3. outcome \in [Clients -> [1..MaxRequests -> Outcomes]]
  BY DEF ClientInv, ClientTypeOK
<1>4. \A c \in Clients :
          /\ Settle(c, {e.mid}, Answered(e)) \in [Clients -> [1..MaxRequests -> Outcomes]]
          /\ \A n \in 1..MaxRequests :
                 Settle(c, {e.mid}, Answered(e))[c][n] =
                     IF Mid(c, n) \in {e.mid} /\ outcome[c][n].how = "none"
                     THEN Answered(e) ELSE outcome[c][n]
  BY <1>2, <1>3, SettleFact
<1>5. outcome' \in [Clients -> [1..MaxRequests -> Outcomes]]
  BY <1>1, <1>3, <1>4
<1>6. \A c \in Clients, n \in 1..MaxRequests :
          outcome'[c][n] = IF c \in reads /\ Mid(c, n) = e.mid /\ outcome[c][n].how = "none"
                           THEN Answered(e) ELSE outcome[c][n]
  BY <1>1, <1>4
<1>7. LedgerTyped'
  <2>1. pending' \in [Clients -> SUBSET Mids] /\ armed' \in [Clients -> SUBSET Mids]
    BY <1>1 DEF ClientInv, ClientTypeOK
  <2> QED BY <2>1, <1>0, <1>5 DEF LedgerTyped, ClientInv, ClientTypeOK
<1>8. NoPromiseForgotten'
  <2> SUFFICES ASSUME NEW c \in Clients, NEW n \in 1..midNo[c]
               PROVE  /\ outcome'[c][n].how = "none" <=> Mid(c, n) \in pending'[c]
                      /\ outcome'[c][n].how = "lost" => ErrorListenerMayThrow
    BY <1>0 DEF NoPromiseForgotten, Mid
  <2>1. n \in 1..MaxRequests
    BY <1>0 DEF ClientInv, ClientTypeOK
  <2>2. /\ outcome[c][n].how = "none" <=> Mid(c, n) \in pending[c]
        /\ outcome[c][n].how = "lost" => ErrorListenerMayThrow
    BY DEF ClientInv, RequestLedger, NoPromiseForgotten
  <2>3. Mid(c, n) \in pending'[c] <=> Mid(c, n) \in pending[c] /\ ~(c \in reads /\ Mid(c, n) = e.mid)
    BY <1>1
  <2> QED BY <1>2, <1>6, <2>1, <2>2, <2>3
<1>9. TimersOnlyForPending'
  BY <1>1 DEF ClientInv, RequestLedger, TimersOnlyForPending
<1>10. OwnAnswer'
  <2> SUFFICES ASSUME NEW c \in Clients, NEW n \in 1..MaxRequests
               PROVE  outcome'[c][n].data \subseteq {<<c, n>>}
    BY DEF OwnAnswer
  <2>1. outcome[c][n].data \subseteq {<<c, n>>}
    BY DEF ClientInv, RequestLedger, OwnAnswer
  <2>2. Mid(c, n) = e.mid => e.data = <<c, n>>
    <3>1. e.data[1] \in Clients /\ e.data = <<e.data[1], e.data[2]>>
      BY <1>0
    <3> QED BY <3>1, <1>0, MidsDiffer
  <2> QED BY <1>2, <1>6, <2>1, <2>2
<1>11. PendingDrawn'
  BY <1>0, <1>1 DEF ClientInv, PendingDrawn, Mid
<1> QED BY <1>7, <1>8, <1>9, <1>10, <1>11 DEF RequestLedger

\* What the server and the wire do keeps every message under its own mid.
LEMMA WireKeeps ==
    ASSUME ClientInv, ClientNext
    PROVE  /\ WireHonest'
           /\ toServer' \subseteq [mid : Mids, data : Asker]
           /\ toClients' \subseteq Envelopes
<1>0. /\ toServer \subseteq [mid : Mids, data : Asker] /\ toClients \subseteq Envelopes
      /\ WireHonest
  BY DEF ClientInv, ClientTypeOK
<1> DEFINE Goal == /\ WireHonest'
                  /\ toServer' \subseteq [mid : Mids, data : Asker]
                  /\ toClients' \subseteq Envelopes
<1>1. ASSUME NEW c \in Clients, midNo[c] < MaxRequests,
             toServer' = toServer \cup
                 {[mid |-> Mid(c, midNo[c] + 1), data |-> <<c, midNo[c] + 1>>]},
             toClients' = toClients
      PROVE  Goal
  <2> DEFINE r == [mid |-> Mid(c, midNo[c] + 1), data |-> <<c, midNo[c] + 1>>]
  <2>1. midNo[c] + 1 \in 1..MaxRequests
    BY <1>1, SocketClientAssumption DEF ClientInv, ClientTypeOK
  <2>2. r \in [mid : Mids, data : Asker]
    BY <2>1, MidTyped DEF Asker
  <2>3. r.data[1] = c /\ r.data[2] = midNo[c] + 1 /\ r.mid = Mid(c, midNo[c] + 1)
    OBVIOUS
  <2>4. CarriesItsMid(r)
    BY <2>3 DEF CarriesItsMid
  <2>5. toServer' = toServer \cup {r} /\ toClients' = toClients
    BY <1>1
  <2> HIDE DEF r
  <2> QED BY <1>0, <2>2, <2>4, <2>5 DEF WireHonest, CarriesItsMid, Mid
<1>2. ASSUME toServer' \subseteq toServer, toClients' \subseteq toClients
      PROVE  Goal
  BY <1>0, <1>2 DEF WireHonest, CarriesItsMid, Mid
<1>3. ASSUME NEW r \in toServer, NEW type \in {"result", "error"}, NEW again \in BOOLEAN,
             ServerAnswers(r, type, again)
      PROVE  Goal
  <2> DEFINE e == [type |-> type, mid |-> r.mid, data |-> r.data]
  <2>1. r \in [mid : Mids, data : Asker] /\ CarriesItsMid(r)
    BY <1>0 DEF WireHonest
  <2>2. e \in Envelopes /\ e.mid = r.mid /\ e.data = r.data
    BY <2>1 DEF Envelopes
  <2>3. CarriesItsMid(e)
    BY <2>1, <2>2 DEF CarriesItsMid
  <2>4. toClients' = toClients \cup {e} /\ toServer' \subseteq toServer
    BY <1>3 DEF ServerAnswers
  <2> HIDE DEF e
  <2> QED BY <1>0, <2>2, <2>3, <2>4 DEF WireHonest, CarriesItsMid, Mid
<1>4. ASSUME NEW c \in Clients, NEW timed \in BOOLEAN, Request(c, timed)
      PROVE  Goal
  BY <1>4, <1>1, <1>2 DEF Request
<1>5. ASSUME NEW c \in Clients, Post(c) PROVE Goal
  BY <1>5, <1>1 DEF Post
<1>6. ASSUME NEW c \in Clients, CloseClient(c) PROVE Goal
  BY <1>6, <1>2 DEF CloseClient
<1>7. ASSUME NEW c \in Clients, NEW mid \in armed[c], RequestTimeout(c, mid) PROVE Goal
  BY <1>7, <1>2 DEF RequestTimeout
<1>8. ASSUME NEW e \in toClients, ReceiveAnswer(e) PROVE Goal
  BY <1>8, <1>2 DEF ReceiveAnswer
<1> QED BY <1>3, <1>4, <1>5, <1>6, <1>7, <1>8 DEF ClientNext

LEMMA ClientStep == ClientInv /\ [ClientNext]_clientVars => ClientInv'
<1> SUFFICES ASSUME ClientInv, [ClientNext]_clientVars PROVE ClientInv'
  OBVIOUS
<1> USE SocketClientAssumption
<1>1. CASE UNCHANGED clientVars
  BY <1>1 DEF clientVars, ClientInv, ClientTypeOK, RequestLedger, NoPromiseForgotten,
     TimersOnlyForPending, OwnAnswer, WireHonest, CarriesItsMid, PendingDrawn, Mid
<1>2. CASE ClientNext
  <2>1. openClients' \subseteq Clients /\ answers' \in 0..MaxAnswers
    <3>1. openClients \subseteq Clients /\ answers \in 0..MaxAnswers
      BY DEF ClientInv, ClientTypeOK
    <3>2. openClients' \subseteq openClients
      BY <1>2 DEF ClientNext, Request, Post, CloseClient, RequestTimeout, ReceiveAnswer,
         ServerAnswers
    <3>3. answers' = answers \/ (answers < MaxAnswers /\ answers' = answers + 1)
      BY <1>2 DEF ClientNext, Request, Post, CloseClient, RequestTimeout, ReceiveAnswer,
         ServerAnswers
    <3> QED BY <3>1, <3>2, <3>3
  <2>2. LedgerTyped' /\ RequestLedger' /\ PendingDrawn'
    <3> DEFINE Goal == LedgerTyped' /\ RequestLedger' /\ PendingDrawn'
    <3>0. /\ pending \in [Clients -> SUBSET Mids] /\ armed \in [Clients -> SUBSET Mids]
          /\ \A d \in Clients : armed[d] \subseteq pending[d]
      BY DEF ClientInv, ClientTypeOK, RequestLedger, TimersOnlyForPending
    <3>1. ASSUME NEW c \in Clients, NEW timed \in BOOLEAN, Request(c, timed) PROVE Goal
      <4> DEFINE mid == Mid(c, midNo[c] + 1)
      <4>0. midNo[c] < MaxRequests /\ mid \in Mids
        BY <3>1, MidTyped DEF Request, ClientInv, ClientTypeOK
      <4>1. CASE /\ Draw(c, Without("none"))
                 /\ pending' = [pending EXCEPT ![c] = @ \cup {mid}]
                 /\ armed' = IF timed THEN [armed EXCEPT ![c] = @ \cup {mid}] ELSE armed
        <5>1. /\ armed' \in [Clients -> SUBSET Mids]
              /\ \A d \in Clients : armed'[d] \subseteq pending'[d]
          <6> HIDE DEF mid
          <6> QED BY <3>0, <4>0, <4>1
        <5> QED BY <4>0, <4>1, <5>1, OutcomeTyped, DrawKeeps
      <4>2. CASE Draw(c, Without("sendFailed")) /\ UNCHANGED <<pending, armed>>
        BY <3>0, <4>0, <4>2, OutcomeTyped, DrawKeeps
      <4> QED BY <3>1, <4>1, <4>2 DEF Request
    <3>2. ASSUME NEW c \in Clients, Post(c) PROVE Goal
      <4>1. midNo[c] < MaxRequests /\ Draw(c, Without("post")) /\ UNCHANGED <<pending, armed>>
        BY <3>2 DEF Post
      <4> QED BY <3>0, <4>1, OutcomeTyped, DrawKeeps
    <3>3. ASSUME NEW c \in Clients, CloseClient(c) PROVE Goal
      <4>1. /\ outcome' = Settle(c, pending[c], Without("closed")) /\ UNCHANGED midNo
            /\ pending' = [pending EXCEPT ![c] = @ \ pending[c]]
            /\ armed' = [armed EXCEPT ![c] = @ \ pending[c]]
        <5>1. pending[c] \ pending[c] = {} /\ armed[c] \ pending[c] = {}
          BY <3>0
        <5> QED BY <3>3, <5>1 DEF CloseClient
      <4> QED BY <4>1, OutcomeTyped, SettleKeeps
    <3>4. ASSUME NEW c \in Clients, NEW mid \in armed[c], RequestTimeout(c, mid) PROVE Goal
      <4>1. PICK how \in {"timeout", "lost"} :
                /\ how = "lost" => ErrorListenerMayThrow
                /\ outcome' = Settle(c, {mid}, Without(how))
        BY <3>4 DEF RequestTimeout
      <4>2. /\ pending' = [pending EXCEPT ![c] = @ \ {mid}]
            /\ armed' = [armed EXCEPT ![c] = @ \ {mid}] /\ UNCHANGED midNo
        BY <3>4 DEF RequestTimeout
      <4> QED BY <4>1, <4>2, OutcomeTyped, SettleKeeps
    <3>5. ASSUME NEW e \in toClients, ReceiveAnswer(e) PROVE Goal
      BY <3>5, ReceiveKeeps
    <3>6. ASSUME UNCHANGED <<midNo, pending, armed, outcome>> PROVE Goal
      BY <3>6 DEF ClientInv, ClientTypeOK, LedgerTyped, RequestLedger, NoPromiseForgotten,
         TimersOnlyForPending, OwnAnswer, PendingDrawn, Mid
    <3>7. ASSUME NEW r \in toServer, NEW type \in {"result", "error"}, NEW again \in BOOLEAN,
                 ServerAnswers(r, type, again)
          PROVE  Goal
      BY <3>6, <3>7 DEF ServerAnswers
    <3> HIDE DEF Goal
    <3>8. Goal
      BY <1>2, <3>1, <3>2, <3>3, <3>4, <3>5, <3>7 DEF ClientNext
    <3> QED BY <3>8 DEF Goal
  <2>3. /\ WireHonest' /\ toServer' \subseteq [mid : Mids, data : Asker]
        /\ toClients' \subseteq Envelopes
    BY <1>2, WireKeeps
  <2> QED BY <2>1, <2>2, <2>3 DEF ClientInv, ClientTypeOK, LedgerTyped
<1> QED BY <1>1, <1>2

-----------------------------------------------------------------------------
\* The types of the fields hold in every behaviour (client.ts, lines 49-69).
THEOREM ClientTypes == ClientSpec => []ClientTypeOK
<1>1. ClientInv => ClientTypeOK
  BY DEF ClientInv
<1> QED BY ClientStart, ClientStep, <1>1, PTL DEF ClientSpec

\* A caller of request() waits with the entry that will settle its promise,
\* unless an error listener threw in the timeout, and where none throws there
\* is no such caller; no timer outlives its entry, and a promise is fulfilled
\* with the answer to its own request, for any number of clients, requests and
\* answers on one socket (request(), receive() and close() of client.ts).
THEOREM LedgerHolds == ClientSpec => []RequestLedger
<1>1. ClientInv => RequestLedger
  BY DEF ClientInv
<1> QED BY ClientStart, ClientStep, <1>1, PTL DEF ClientSpec

-----------------------------------------------------------------------------
\* A promise settles once: what has become of a request never changes, and one
\* that is lost never settles.
SettledForGood ==
    [][\A c \in Clients, n \in 1..MaxRequests :
           n <= midNo[c] /\ outcome[c][n].how # "none" => outcome'[c][n] = outcome[c][n]]_clientVars

\* Settling twice is impossible, whatever the order of a late answer, a timeout,
\* a second answer and close() (every path of client.ts deletes the entry first).
THEOREM SettlesOnce == ClientSpec => SettledForGood
<1> DEFINE A == \A c \in Clients, n \in 1..MaxRequests :
                n <= midNo[c] /\ outcome[c][n].how # "none" => outcome'[c][n] = outcome[c][n]
<1>1. ClientInv /\ [ClientNext]_clientVars => [A]_clientVars
  <2> SUFFICES ASSUME ClientInv, ClientNext, NEW d \in Clients, NEW n \in 1..MaxRequests,
                      n <= midNo[d], outcome[d][n].how # "none"
               PROVE  outcome'[d][n] = outcome[d][n]
    BY DEF clientVars
  <2>0. outcome \in [Clients -> [1..MaxRequests -> Outcomes]] /\ midNo[d] \in Nat
    BY DEF ClientInv, ClientTypeOK
  <2>1. ASSUME NEW c \in Clients, NEW settled, Draw(c, settled)
        PROVE  outcome'[d][n] = outcome[d][n]
    BY <2>0, <2>1 DEF Draw
  <2>2. ASSUME NEW c \in Clients, NEW set, NEW settled \in Outcomes,
               outcome' = Settle(c, set, settled)
        PROVE  outcome'[d][n] = outcome[d][n]
    BY <2>0, <2>2, SettleFact
  <2>3. ASSUME NEW c \in Clients, NEW timed \in BOOLEAN, Request(c, timed)
        PROVE  outcome'[d][n] = outcome[d][n]
    BY <2>1, <2>3 DEF Request
  <2>4. ASSUME NEW c \in Clients, Post(c) PROVE outcome'[d][n] = outcome[d][n]
    BY <2>1, <2>4 DEF Post
  <2>5. ASSUME NEW c \in Clients, CloseClient(c) PROVE outcome'[d][n] = outcome[d][n]
    BY <2>2, <2>5, OutcomeTyped DEF CloseClient
  <2>6. ASSUME NEW c \in Clients, NEW mid \in armed[c], RequestTimeout(c, mid)
        PROVE  outcome'[d][n] = outcome[d][n]
    <3>1. PICK how \in {"timeout", "lost"} : outcome' = Settle(c, {mid}, Without(how))
      BY <2>6 DEF RequestTimeout
    <3>2. Without(how) \in Outcomes
      BY ONLY how \in {"timeout", "lost"}, OutcomeTyped
    <3> QED BY <2>2, <2>6, <3>1, <3>2
  <2>7. ASSUME NEW e \in toClients, ReceiveAnswer(e) PROVE outcome'[d][n] = outcome[d][n]
    <3>1. e \in Envelopes
      BY DEF ClientInv, ClientTypeOK
    <3>2. Answered(e) \in Outcomes
      BY <3>1, OutcomeTyped
    <3>3. Settle(d, {e.mid}, Answered(e))[d][n] = outcome[d][n]
      BY <2>0, <3>2, SettleFact
    <3> QED BY <2>7, <3>3 DEF ReceiveAnswer
  <2>8. ASSUME UNCHANGED outcome PROVE outcome'[d][n] = outcome[d][n]
    BY <2>8
  <2> QED BY <2>3, <2>4, <2>5, <2>6, <2>7, <2>8 DEF ClientNext, ServerAnswers
<1> HIDE DEF A
<1>2. ClientSpec => [][A]_clientVars
  BY ClientStart, ClientStep, <1>1, PTL DEF ClientSpec
<1> QED BY <1>2 DEF A, SettledForGood

-----------------------------------------------------------------------------
(* The proxy of the generation service: what settles a wait.                 *)

\* How the wait of a call may have been settled.
Waits == [how : {"none", "resolved", "rejected", "refused"}, by : 0..Calls,
          data : SUBSET Responses]

\* The echo of a call's parameters, as the server sends it.
EchoOf(c) == {Dumped(AsBody(p)) : p \in asked[c]}

ProxyTyped ==
    /\ ProxyTypeOK
    /\ wait \in [CallIds -> Waits]
    /\ \A m \in payloads : m.of \in CallIds /\ m = [of |-> m.of, data |-> m.data]

\* Calls still to come have left no trace.
FutureBlank ==
    \A c \in CallIds : c > calls => wait[c].how = "none" /\ http[c] = "none" /\ asked[c] = {}

\* The pending wait is that of the latest call that went out, and every earlier
\* one is settled.
WaitIsLatest ==
    /\ waiting # 0 => wait[waiting].how = "none" /\ waiting <= calls
    /\ \A c \in CallIds : http[c] # "none" =>
           /\ c = waiting \/ wait[c].how # "none"
           /\ waiting # 0 => c <= waiting

\* A payload on its way echoes the call it was sent for, which it has not
\* answered yet.
PayloadsEcho ==
    \A m \in payloads : /\ http[m.of] # "none"
                        /\ m.data = EchoOf(m.of)
                        /\ ~(wait[m.of].how = "resolved" /\ wait[m.of].by = m.of)

\* Who settled a wait is a call.
SettledByCalls == \A c \in CallIds : wait[c].how # "none" => wait[c].by \in CallIds

ProxyInv == /\ ProxyTyped /\ FutureBlank /\ WaitIsLatest /\ PayloadsEcho
            /\ SettledByCalls /\ AnswersAreOwn

\* What a resolved wait receives for a payload of call c.
AnswerTo(c) == {AsResponse(Dumped(AsBody(p))) : p \in asked[c]}

LEMMA EchoAnswers ==
    ASSUME ProxyTypeOK, NEW c \in CallIds
    PROVE  /\ {AsResponse(d) : d \in EchoOf(c)} = AnswerTo(c)
           /\ AnswerTo(c) \in SUBSET Responses
BY DEF EchoOf, AnswerTo, Responses, ProxyTypeOK

\* The conversions of the body and of the response undo each other.
LEMMA Converted ==
    ASSUME NEW p \in Params
    PROVE  Echoes(AsResponse(Dumped(AsBody(p))), p)
<1>1. p = [contents |-> p.contents, system |-> p.system, modality |-> p.modality,
           model |-> p.model]
  BY DEF Params
<1> QED BY <1>1 DEF Echoes, AsResponse, Dumped, AsBody

LEMMA AnswerEchoes ==
    ASSUME ProxyTypeOK, NEW c \in CallIds
    PROVE  \A p \in asked[c] : \E r \in AnswerTo(c) : Echoes(r, p)
<1> SUFFICES ASSUME NEW p \in asked[c] PROVE \E r \in AnswerTo(c) : Echoes(r, p)
  OBVIOUS
<1>1. p \in Params
  BY DEF ProxyTypeOK
<1>2. Echoes(AsResponse(Dumped(AsBody(p))), p)
  BY <1>1, Converted
<1>3. AsResponse(Dumped(AsBody(p))) \in AnswerTo(c)
  BY DEF AnswerTo
<1> QED BY <1>2, <1>3

\* What AnswersAreOwn says of one call.
Explained(c) ==
    \/ wait[c].how = "none"
    \/ /\ wait[c].by = c
       /\ wait[c].how = "resolved" =>
             \A p \in asked[c] : \E r \in wait[c].data : Echoes(r, p)
    \/ /\ wait[c].by < c
       /\ wait[c].how = "resolved" => Abandoned(wait[c].by)
       /\ wait[c].how = "rejected" => http[wait[c].by] = "failed" \/ wait[c].by \in broken

LEMMA ExplainedCalls == AnswersAreOwn <=> \A c \in CallIds : Explained(c)
BY DEF AnswersAreOwn, Explained

\* What was explained stays so while settled waits, failures and parameters do.
LEMMA ExplainedStays ==
    ASSUME ProxyInv, NEW c \in CallIds, wait'[c] = wait[c],
           wait[c].how # "none" => asked'[c] = asked[c],
           \A d \in CallIds : wait[d].how # "none" => wait'[d] = wait[d],
           \A d \in CallIds : http[d] = "failed" => http'[d] = "failed",
           broken \subseteq broken'
    PROVE  Explained(c)'
<1>1. Explained(c) /\ (wait[c].how # "none" => wait[c].by \in CallIds)
  BY ExplainedCalls DEF ProxyInv, SettledByCalls
<1>2. \A d \in CallIds : Abandoned(d) => Abandoned(d)'
  BY DEF Abandoned
<1> QED BY <1>1, <1>2 DEF Explained

\* settling the pending wait by the call d, in one of the two ways that are
\* honest, keeps every answer a call's own or explained.
LEMMA SettleKeepsOwn ==
    ASSUME ProxyInv, waiting # 0,
           NEW how \in {"resolved", "rejected"}, NEW d \in CallIds, NEW data \in SUBSET Responses,
           wait' = [wait EXCEPT ![waiting] = [how |-> how, by |-> d, data |-> data]],
           asked' = asked,
           \A c \in CallIds : http[c] = "failed" => http'[c] = "failed",
           broken \subseteq broken',
           \/ d = waiting /\ (how = "resolved" => data = AnswerTo(d))
           \/ /\ d < waiting
              /\ how = "resolved" => Abandoned(d)
              /\ how = "rejected" => http'[d] = "failed" \/ d \in broken'
    PROVE  /\ waiting \in CallIds
           /\ wait' \in [CallIds -> Waits]
           /\ wait'[waiting] = [how |-> how, by |-> d, data |-> data]
           /\ \A c \in CallIds \ {waiting} : wait'[c] = wait[c]
           /\ SettledByCalls' /\ AnswersAreOwn'
<1>0. /\ wait \in [CallIds -> Waits] /\ waiting \in CallIds /\ wait[waiting].how = "none"
      /\ Calls \in Nat
  BY ProxyAssumption DEF ProxyInv, ProxyTyped, ProxyTypeOK, WaitIsLatest, CallIds
<1>1. [how |-> how, by |-> d, data |-> data] \in Waits
  BY <1>0 DEF Waits, CallIds
<1>2. /\ wait' \in [CallIds -> Waits]
      /\ wait'[waiting] = [how |-> how, by |-> d, data |-> data]
      /\ \A c \in CallIds \ {waiting} : wait'[c] = wait[c]
  BY <1>0, <1>1
<1>3. \A c \in CallIds \ {waiting} : Explained(c)'
  BY <1>0, <1>2, ExplainedStays
<1>4. ASSUME NEW c \in CallIds, c = waiting
      PROVE  Explained(c)'
  <2>1. how = "resolved" /\ d < waiting => Abandoned(d)'
    BY <1>0, <1>2 DEF Abandoned, CallIds
  <2>2. \A p \in asked[d] : \E r \in AnswerTo(d) : Echoes(r, p)
    BY AnswerEchoes DEF ProxyInv, ProxyTyped
  <2>3. d = waiting /\ how = "resolved" =>
            \A p \in asked'[d] : \E r \in data : Echoes(r, p)
    <3>1. asked'[d] = asked[d]
      OBVIOUS
    <3>2. d = waiting /\ how = "resolved" => data = AnswerTo(d)
      BY <1>0 DEF CallIds
    <3> QED BY ONLY <2>2, <3>1, <3>2
  <2> QED BY <1>0, <1>2, <1>4, <2>1, <2>3 DEF Explained
<1>5. \A c \in CallIds : Explained(c)'
  BY <1>3, <1>4
<1>6. AnswersAreOwn'
  BY <1>5 DEF AnswersAreOwn, Explained
<1>7. SettledByCalls'
  BY <1>0, <1>2 DEF ProxyInv, SettledByCalls
<1> QED BY <1>0, <1>2, <1>6, <1>7

\* A settled call stays explained through a step that settles none.
LEMMA NothingSettled ==
    ASSUME ProxyInv, UNCHANGED wait,
           \A c \in CallIds : wait[c].how # "none" => asked'[c] = asked[c],
           \A c \in CallIds : http[c] = "failed" => http'[c] = "failed",
           broken \subseteq broken'
    PROVE  wait' \in [CallIds -> Waits] /\ SettledByCalls' /\ AnswersAreOwn'
<1>1. \A c \in CallIds : Explained(c)'
  BY ExplainedStays
<1>2. AnswersAreOwn'
  BY <1>1 DEF AnswersAreOwn, Explained
<1> QED BY <1>2 DEF ProxyInv, ProxyTyped, SettledByCalls

\* What the invariant says of the fields, for the steps below.
LEMMA ProxyFields ==
    ASSUME ProxyInv
    PROVE  /\ calls \in 0..Calls /\ Calls \in Nat /\ waiting \in 0..Calls
           /\ wait \in [CallIds -> Waits]
           /\ asked \in [CallIds -> SUBSET Params]
           /\ http \in [CallIds -> {"none", "running", "done", "failed"}]
           /\ broken \subseteq CallIds
           /\ \A m \in payloads : m.of \in CallIds /\ m = [of |-> m.of, data |-> m.data]
BY ProxyAssumption DEF ProxyInv, ProxyTyped, ProxyTypeOK

LEMMA GenerateKeeps ==
    ASSUME ProxyInv, NEW p \in Asked, GenerateContent(p)
    PROVE  ProxyInv'
<1>c. PICK c \in CallIds : c = calls + 1
  BY ProxyFields DEF GenerateContent, CallIds
<1>0. /\ c > calls /\ p \in Params /\ 0 \notin CallIds
      /\ wait[c].how = "none" /\ http[c] = "none" /\ asked[c] = {}
  BY <1>c, ProxyFields, ProxyAssumption DEF ProxyInv, FutureBlank, GenerateContent, CallIds
<1>1. /\ calls' = c /\ asked' = [asked EXCEPT ![c] = {p}]
      /\ UNCHANGED <<payloads, attached, broken>>
  BY <1>c DEF GenerateContent
<1>2. /\ calls' \in 0..Calls /\ asked' \in [CallIds -> SUBSET Params]
      /\ \A d \in CallIds \ {c} : asked'[d] = asked[d]
  BY <1>c, <1>0, <1>1, ProxyFields DEF CallIds
<1>3. \A m \in payloads' : m.of # c /\ http[m.of] # "none"
  BY <1>c, <1>0, <1>1 DEF ProxyInv, PayloadsEcho
<1>4. CASE waiting # 0
  <2>1. /\ wait' = [wait EXCEPT ![c] = [how |-> "refused", by |-> c, data |-> {}]]
        /\ returned' = returned \cup {c}
        /\ UNCHANGED <<http, waiting>>
    BY <1>c, <1>4 DEF GenerateContent
  <2>2. [how |-> "refused", by |-> c, data |-> {}] \in Waits
    BY <1>0 DEF Waits, CallIds
  <2>3. /\ wait' \in [CallIds -> Waits]
        /\ wait'[c] = [how |-> "refused", by |-> c, data |-> {}]
        /\ \A d \in CallIds \ {c} : wait'[d] = wait[d]
    BY <1>c, <1>0, <2>1, <2>2, ProxyFields
  <2>4. \A d \in CallIds : Explained(d)'
    <3>1. \A d \in CallIds \ {c} : Explained(d)'
      BY <1>c, <1>0, <1>1, <1>2, <2>1, <2>3, ExplainedStays
    <3>2. Explained(c)'
      BY <2>3 DEF Explained
    <3> QED BY <3>1, <3>2
  <2>5. AnswersAreOwn'
    BY <2>4 DEF AnswersAreOwn, Explained
  <2>6. ProxyTyped'
    <3>1. \A d \in CallIds : /\ wait'[d].how \in {"none", "resolved", "rejected", "refused"}
                             /\ wait'[d].by \in 0..Calls
                             /\ wait'[d].data \subseteq Responses
      BY <2>3 DEF Waits
    <3> QED BY <1>c, <1>0, <1>1, <1>2, <2>1, <2>3, <3>1, ProxyFields
            DEF ProxyInv, ProxyTyped, ProxyTypeOK
  <2>7. FutureBlank'
    BY <1>c, <1>0, <1>1, <1>2, <2>1, <2>3, ProxyFields DEF ProxyInv, FutureBlank, CallIds
  <2>8. WaitIsLatest'
    BY <1>c, <1>0, <1>1, <2>1, <2>3, ProxyFields DEF ProxyInv, WaitIsLatest, CallIds
  <2>9. PayloadsEcho'
    BY <1>1, <1>2, <1>3, <2>1, <2>3, ProxyFields DEF ProxyInv, PayloadsEcho, EchoOf
  <2>10. SettledByCalls'
    BY <1>c, <1>0, <2>3 DEF ProxyInv, SettledByCalls
  <2> QED BY <2>5, <2>6, <2>7, <2>8, <2>9, <2>10 DEF ProxyInv
<1>5. CASE waiting = 0
  <2>1. /\ waiting' = c /\ http' = [http EXCEPT ![c] = "running"]
        /\ UNCHANGED <<wait, returned>>
    BY <1>c, <1>5 DEF GenerateContent
  <2>2. /\ wait' \in [CallIds -> Waits] /\ SettledByCalls' /\ AnswersAreOwn'
    BY <1>c, <1>0, <1>1, <1>2, <2>1, NothingSettled, ProxyFields
  <2>3. /\ http' \in [CallIds -> {"none", "running", "done", "failed"}]
        /\ http'[c] = "running" /\ \A d \in CallIds \ {c} : http'[d] = http[d]
    BY <1>c, <1>0, <2>1, ProxyFields
  <2>4. ProxyTyped'
    BY <1>c, <1>0, <1>1, <1>2, <2>1, <2>2, <2>3, ProxyFields
       DEF ProxyInv, ProxyTyped, ProxyTypeOK, CallIds
  <2>5. FutureBlank'
    BY <1>c, <1>0, <1>1, <1>2, <2>1, <2>3, ProxyFields DEF ProxyInv, FutureBlank, CallIds
  <2>6. WaitIsLatest'
    BY <1>c, <1>0, <1>1, <1>5, <2>1, <2>3, ProxyFields
       DEF ProxyInv, WaitIsLatest, FutureBlank, CallIds
  <2>7. PayloadsEcho'
    BY <1>1, <1>2, <1>3, <2>1, <2>3, ProxyFields DEF ProxyInv, PayloadsEcho, EchoOf
  <2> QED BY <2>2, <2>4, <2>5, <2>6, <2>7 DEF ProxyInv
<1> QED BY <1>4, <1>5

\* The steps that may settle the pending wait: d is the call that caused it.
LEMMA PendingKeeps ==
    ASSUME ProxyInv, NEW how \in {"resolved", "rejected"}, NEW d,
           NEW data \in SUBSET Responses, SettlePending(how, d, data),
           waiting # 0 => d \in CallIds /\ (d = waiting \/ http[d] # "none"),
           how = "resolved" => data = AnswerTo(d),
           waiting # 0 /\ d # waiting =>
               /\ how = "resolved" => Abandoned(d)
               /\ how = "rejected" => http'[d] = "failed" \/ d \in broken',
           UNCHANGED <<calls, asked, returned>>, attached' \in BOOLEAN,
           broken \subseteq broken', broken' \subseteq CallIds,
           http' \in [CallIds -> {"none", "running", "done", "failed"}],
           \A c \in CallIds : /\ http[c] = "failed" => http'[c] = "failed"
                              /\ http[c] = "none" <=> http'[c] = "none",
           payloads' \subseteq payloads,
           how = "resolved" => \A m \in payloads' : m.of # d
    PROVE  ProxyInv'
<1>1. CASE waiting = 0
  <2>1. UNCHANGED <<waiting, wait>>
    BY <1>1 DEF SettlePending
  <2>2. wait' \in [CallIds -> Waits] /\ SettledByCalls' /\ AnswersAreOwn'
    BY <2>1, NothingSettled
  <2>3. ProxyTyped' /\ FutureBlank' /\ WaitIsLatest'
    BY <2>1, <2>2, ProxyFields
       DEF ProxyInv, ProxyTyped, ProxyTypeOK, FutureBlank, WaitIsLatest
  <2>4. PayloadsEcho'
    BY <2>1, ProxyFields DEF ProxyInv, PayloadsEcho, EchoOf
  <2> QED BY <2>2, <2>3, <2>4 DEF ProxyInv
<1>2. CASE waiting # 0
  <2>1. /\ wait' = [wait EXCEPT ![waiting] = [how |-> how, by |-> d, data |-> data]]
        /\ waiting' = 0
    BY <1>2 DEF SettlePending
  <2>2. d <= waiting /\ waiting \in Nat /\ d \in Nat
    BY <1>2, ProxyFields DEF ProxyInv, WaitIsLatest, CallIds
  <2>3. d # waiting => d < waiting
    BY <2>2
  <2>4. /\ waiting \in CallIds
        /\ wait' \in [CallIds -> Waits]
        /\ wait'[waiting] = [how |-> how, by |-> d, data |-> data]
        /\ \A c \in CallIds \ {waiting} : wait'[c] = wait[c]
        /\ SettledByCalls' /\ AnswersAreOwn'
    BY <1>2, <2>1, <2>3, SettleKeepsOwn
  <2>5. ProxyTyped'
    <3>1. \A c \in CallIds : /\ wait'[c].how \in {"none", "resolved", "rejected", "refused"}
                             /\ wait'[c].by \in 0..Calls
                             /\ wait'[c].data \subseteq Responses
      BY <2>4 DEF Waits
    <3> QED BY <2>1, <2>4, <3>1, ProxyFields DEF ProxyInv, ProxyTyped, ProxyTypeOK
  <2>6. FutureBlank'
    BY <1>2, <2>4, ProxyFields DEF ProxyInv, FutureBlank, WaitIsLatest, CallIds
  <2>7. WaitIsLatest'
    BY <1>2, <2>1, <2>4 DEF ProxyInv, WaitIsLatest
  <2>8. PayloadsEcho'
    <3> SUFFICES ASSUME NEW m \in payloads'
                 PROVE  /\ http'[m.of] # "none"
                        /\ m.data = EchoOf(m.of)'
                        /\ ~(wait'[m.of].how = "resolved" /\ wait'[m.of].by = m.of)
      BY DEF PayloadsEcho
    <3>1. m \in payloads /\ m.of \in CallIds
      BY ProxyFields
    <3>2. how = "resolved" => m.of # d
      OBVIOUS
    <3> QED BY <2>4, <3>1, <3>2 DEF ProxyInv, PayloadsEcho, EchoOf
  <2> QED BY <2>4, <2>5, <2>6, <2>7, <2>8 DEF ProxyInv
<1> QED BY <1>1, <1>2

LEMMA ProxyStep == ProxyInv /\ [ProxyNext]_proxyVars => ProxyInv'
<1> SUFFICES ASSUME ProxyInv, [ProxyNext]_proxyVars PROVE ProxyInv'
  OBVIOUS
<1>1. CASE UNCHANGED proxyVars
  <2>1. wait' \in [CallIds -> Waits] /\ SettledByCalls' /\ AnswersAreOwn'
    BY <1>1, NothingSettled DEF proxyVars
  <2>2. ProxyTyped' /\ FutureBlank' /\ WaitIsLatest' /\ PayloadsEcho'
    BY <1>1, <2>1 DEF proxyVars, ProxyInv, ProxyTyped, ProxyTypeOK, FutureBlank,
                      WaitIsLatest, PayloadsEcho, EchoOf
  <2> QED BY <2>1, <2>2 DEF ProxyInv
<1>2. ASSUME NEW p \in Asked, GenerateContent(p) PROVE ProxyInv'
  BY <1>2, GenerateKeeps
<1>3. ASSUME NEW c \in CallIds, ServerSends(c) PROVE ProxyInv'
  <2> DEFINE m == [of |-> c, data |-> EchoOf(c)]
  <2>1. payloads' = payloads \cup {m}
    BY <1>3 DEF ServerSends, EchoOf
  <2>2. /\ UNCHANGED <<calls, asked, http, waiting, wait, returned, attached, broken>>
        /\ http[c] # "none" /\ ~(wait[c].how = "resolved" /\ wait[c].by = c)
    BY <1>3 DEF ServerSends
  <2>3. wait' \in [CallIds -> Waits] /\ SettledByCalls' /\ AnswersAreOwn'
    BY <2>2, NothingSettled
  <2>4. m.of = c /\ m.data = EchoOf(c) /\ m = [of |-> m.of, data |-> m.data]
    OBVIOUS
  <2> HIDE DEF m
  <2>5. ProxyTyped' /\ FutureBlank' /\ WaitIsLatest'
    BY <2>1, <2>2, <2>3, <2>4
       DEF ProxyInv, ProxyTyped, ProxyTypeOK, FutureBlank, WaitIsLatest
  <2>6. PayloadsEcho'
    BY <2>1, <2>2, <2>4 DEF ProxyInv, PayloadsEcho, EchoOf
  <2> QED BY <2>3, <2>5, <2>6 DEF ProxyInv
<1>4. ASSUME NEW c \in CallIds, Returns(c) PROVE ProxyInv'
  <2>1. /\ UNCHANGED <<calls, asked, http, waiting, wait, payloads, attached, broken>>
        /\ returned' = returned \cup {c}
    BY <1>4 DEF Returns
  <2>2. wait' \in [CallIds -> Waits] /\ SettledByCalls' /\ AnswersAreOwn'
    BY <2>1, NothingSettled
  <2>3. ProxyTyped' /\ FutureBlank' /\ WaitIsLatest' /\ PayloadsEcho'
    BY <2>1, <2>2 DEF ProxyInv, ProxyTyped, ProxyTypeOK, FutureBlank, WaitIsLatest,
                      PayloadsEcho, EchoOf
  <2> QED BY <2>2, <2>3 DEF ProxyInv
<1>5. ASSUME NEW m \in payloads, NEW valid \in BOOLEAN, PayloadArrives(m, valid)
      PROVE  ProxyInv'
  <2>0. /\ payloads' = payloads \ {m} /\ UNCHANGED <<calls, asked, http, returned, attached, broken>>
        /\ m.of \in CallIds /\ http[m.of] # "none" /\ m.data = EchoOf(m.of)
    BY <1>5, ProxyFields DEF PayloadArrives, ProxyInv, PayloadsEcho
  <2>1. CASE UNCHANGED <<waiting, wait>>
    <3>1. wait' \in [CallIds -> Waits] /\ SettledByCalls' /\ AnswersAreOwn'
      BY <2>0, <2>1, NothingSettled
    <3>2. ProxyTyped' /\ FutureBlank' /\ WaitIsLatest' /\ PayloadsEcho'
      BY <2>0, <2>1, <3>1 DEF ProxyInv, ProxyTyped, ProxyTypeOK, FutureBlank, WaitIsLatest,
                              PayloadsEcho, EchoOf
    <3> QED BY <3>1, <3>2 DEF ProxyInv
  <2>2. CASE SettlePending("resolved", m.of, {AsResponse(d) : d \in m.data})
    <3>1. /\ {AsResponse(d) : d \in m.data} = AnswerTo(m.of)
          /\ AnswerTo(m.of) \in SUBSET Responses
      BY <2>0, EchoAnswers DEF ProxyInv, ProxyTyped
    <3>2. \A n \in payloads' : n.of # m.of
      BY <2>0, ProxyFields DEF ProxyInv, PayloadsEcho
    <3>3. m.of # waiting => Abandoned(m.of)
      BY <2>0 DEF ProxyInv, WaitIsLatest, PayloadsEcho, Abandoned
    <3>4. SettlePending("resolved", m.of, AnswerTo(m.of))
      BY <2>2, <3>1
    <3> QED BY <2>0, <3>1, <3>2, <3>3, <3>4, PendingKeeps, ProxyFields
            DEF ProxyInv, ProxyTyped, ProxyTypeOK
  <2> QED BY <1>5, <2>1, <2>2 DEF PayloadArrives
<1>6. ASSUME NEW c \in CallIds, NEW ok \in BOOLEAN, HttpReturns(c, ok)
      PROVE  ProxyInv'
  <2>0. /\ http[c] = "running"
        /\ http' = [http EXCEPT ![c] = IF ok THEN "done" ELSE "failed"]
        /\ UNCHANGED <<calls, asked, returned, payloads, attached, broken>>
    BY <1>6 DEF HttpReturns
  <2>1. /\ http' \in [CallIds -> {"none", "running", "done", "failed"}]
        /\ \A d \in CallIds : /\ http[d] = "failed" => http'[d] = "failed"
                              /\ http[d] = "none" <=> http'[d] = "none"
        /\ ~ok => http'[c] = "failed"
    BY <2>0, ProxyFields
  <2>2. CASE ok
    <3>0. UNCHANGED <<waiting, wait>>
      BY <1>6, <2>2 DEF HttpReturns
    <3>1. wait' \in [CallIds -> Waits] /\ SettledByCalls' /\ AnswersAreOwn'
      BY <2>0, <2>1, <3>0, NothingSettled
    <3>2. ProxyTyped' /\ FutureBlank' /\ WaitIsLatest'
      BY <2>0, <2>1, <3>0, <3>1, ProxyFields
         DEF ProxyInv, ProxyTyped, ProxyTypeOK, FutureBlank, WaitIsLatest
    <3>3. PayloadsEcho'
      BY <2>0, <2>1, <3>0, ProxyFields DEF ProxyInv, PayloadsEcho, EchoOf
    <3> QED BY <3>1, <3>2, <3>3 DEF ProxyInv
  <2>3. CASE ~ok
    <3>1. SettlePending("rejected", c, {})
      BY <1>6, <2>3 DEF HttpReturns
    <3>2. attached' \in BOOLEAN
      BY <2>0 DEF ProxyInv, ProxyTyped, ProxyTypeOK
    <3> QED BY <2>0, <2>1, <2>3, <3>1, <3>2, PendingKeeps, ProxyFields
  <2> QED BY <2>2, <2>3
<1>7. ASSUME SettlePending("rejected", waiting, {}), attached' \in BOOLEAN,
             UNCHANGED <<calls, asked, http, returned, payloads, broken>>
      PROVE  ProxyInv'
  <2>1. waiting # 0 => waiting \in CallIds
    BY ProxyFields DEF CallIds
  <2> QED BY <1>7, <2>1, PendingKeeps, ProxyFields
<1>8. CASE WaitFails
  BY <1>7, <1>8 DEF WaitFails, ProxyInv, ProxyTyped, ProxyTypeOK
<1>9. CASE Detach
  BY <1>7, <1>9 DEF Detach
<1>10. ASSUME NEW c \in CallIds, NEW gone \in BOOLEAN, TransportBreaks(c, gone)
       PROVE  ProxyInv'
  <2>1. /\ SettlePending("rejected", c, {}) /\ http[c] # "none"
        /\ broken' = broken \cup {c} /\ payloads' \subseteq payloads
        /\ UNCHANGED <<calls, asked, http, returned, attached>>
    BY <1>10 DEF TransportBreaks
  <2>2. attached' \in BOOLEAN /\ broken \subseteq broken' /\ broken' \subseteq CallIds
    BY <2>1, ProxyFields DEF ProxyInv, ProxyTyped, ProxyTypeOK
  <2>3. c \in broken' /\ {} \in SUBSET Responses
    BY <2>1
  <2> QED BY <2>1, <2>2, <2>3, PendingKeeps, ProxyFields
<1> QED BY <1>1, <1>2, <1>3, <1>4, <1>5, <1>6, <1>8, <1>9, <1>10 DEF ProxyNext

LEMMA ProxyStart == ProxyInit => ProxyInv
<1> SUFFICES ASSUME ProxyInit PROVE ProxyInv
  OBVIOUS
<1> USE ProxyAssumption DEF ProxyInit
<1>1. Nothing \in Waits
  BY DEF Nothing, Waits
<1>2. ProxyTyped
  BY <1>1 DEF ProxyTyped, ProxyTypeOK, Nothing
<1>3. AnswersAreOwn /\ FutureBlank /\ SettledByCalls
  BY DEF AnswersAreOwn, FutureBlank, SettledByCalls, Nothing
<1>4. WaitIsLatest /\ PayloadsEcho
  BY DEF WaitIsLatest, PayloadsEcho
<1> QED BY <1>2, <1>3, <1>4 DEF ProxyInv

\* Every generateContent() is settled by its own answer (the echo of what it
\* asked), its own HTTP failure, transport error or timer, or by what is left
\* over from an earlier call: its payload, its HTTP failure or a transport error
\* of its answer, for any number of calls (resolve() and reject() of the receiver).
THEOREM AnswersHold == ProxySpec => []AnswersAreOwn
<1>1. ProxyInv => AnswersAreOwn
  BY DEF ProxyInv
<1> QED BY ProxyStart, ProxyStep, <1>1, PTL DEF ProxySpec

-----------------------------------------------------------------------------
(* The upload engine.  Its failure codes.                                    *)

\* Whatever the API or the storage answers is a code of UploadFailure.
LEMMA ReceiptsTyped ==
    ASSUME NEW kind
    PROVE  Receipts(kind) \subseteq {"ok"} \cup Codes
<1>1. \A status : CodeOfApiStatus(status) \in Codes
  BY DEF CodeOfApiStatus, Codes
<1>2. \A a : CodeOfStorageAnswer(a) \in Codes
  <2> SUFFICES ASSUME NEW a PROVE CodeOfStorageAnswer(a) \in Codes
    OBVIOUS
  <2>1. ASSUME NEW c \in DOMAIN StorageCodes
        PROVE  StorageCodes[c] \in Codes
    BY DEF StorageCodes, Codes
  <2> QED BY <2>1 DEF CodeOfStorageAnswer, Codes
<1>3. InlineReceipts \subseteq {"ok"} \cup Codes
  BY <1>1 DEF InlineReceipts, Codes
<1>4. PresignedReceipts \subseteq {"ok"} \cup Codes
  BY <1>2 DEF PresignedReceipts, Codes
<1> QED BY <1>3, <1>4 DEF Receipts

LEMMA OkIsNoCode == "ok" \notin Codes /\ "none" \notin Codes
BY DEF Codes

-----------------------------------------------------------------------------
(* The sum of the bars. *)

\* upTo is defined: there is a function with its equation.
LEMMA SumExists ==
    ASSUME NEW bar \in [1..Sources -> Nat]
    PROVE  \E f \in [0..Sources -> Nat] :
              f = [n \in 0..Sources |-> IF n = 0 THEN 0 ELSE bar[n] + f[n - 1]]
<1> DEFINE IsSum(f, n) == /\ f \in [0..n -> Nat]
                         /\ f[0] = 0
                         /\ \A k \in 1..n : f[k] = bar[k] + f[k - 1]
           T == {n \in 0..Sources : ~\E f : IsSum(f, n)}
<1>0. Sources \in Nat
  BY UploadAssumption
<1>1. T = {}
  <2> SUFFICES ASSUME T # {} PROVE FALSE
    OBVIOUS
  <2>1. T \in SUBSET Nat
    BY <1>0
  <2>2. PICK n \in T : \A m \in T : ~(<<m, n>> \in OpToRel(<, Nat))
    BY <2>1, WFMin, NatLessThanWellFounded
  <2>3. \A m \in T : ~(m < n)
    BY <2>1, <2>2 DEF OpToRel
  <2>4. n # 0
    <3>1. IsSum([i \in {0} |-> 0], 0)
      BY <1>0
    <3> QED BY <3>1
  <2>5. n \in 1..Sources /\ n - 1 \in 0..Sources /\ n - 1 < n
    BY <1>0, <2>4
  <2>6. PICK f : IsSum(f, n - 1)
    BY <2>3, <2>5
  <2> DEFINE g == [k \in 0..n |-> IF k = n THEN bar[n] + f[n - 1] ELSE f[k]]
  <2>7. /\ g \in [0..n -> Nat] /\ g[0] = 0
        /\ g[n] = bar[n] + f[n - 1] /\ \A k \in 0..(n - 1) : g[k] = f[k]
    BY <1>0, <2>5, <2>6
  <2> HIDE DEF g
  <2>8. ASSUME NEW k \in 1..n
        PROVE  g[k] = bar[k] + g[k - 1]
    <3>1. CASE k = n
      BY <2>5, <2>7, <3>1
    <3>2. CASE k # n
      <4>1. k \in 1..(n - 1) /\ k \in 0..(n - 1) /\ k - 1 \in 0..(n - 1)
        BY <1>0, <2>5, <3>2
      <4> QED BY <2>6, <2>7, <4>1
    <3> QED BY <3>1, <3>2
  <2>9. IsSum(g, n)
    BY <2>7, <2>8
  <2> HIDE DEF IsSum
  <2> QED BY <2>9
<1>2. \E f : IsSum(f, Sources)
  <2>1. Sources \in 0..Sources
    BY <1>0
  <2> HIDE DEF IsSum
  <2> QED BY <1>1, <2>1
<1>3. PICK f : IsSum(f, Sources)
  BY <1>2
<1>4. f = [n \in 0..Sources |-> IF n = 0 THEN 0 ELSE bar[n] + f[n - 1]]
  BY <1>0, <1>3
<1> QED BY <1>3, <1>4

\* Two functions with the equation of upTo, of bars ordered slot by slot, are
\* ordered too.
LEMMA SumsOrdered ==
    ASSUME NEW bar \in [1..Sources -> Nat], NEW more \in [1..Sources -> Nat],
           \A i \in 1..Sources : bar[i] <= more[i],
           NEW f \in [0..Sources -> Nat], NEW g \in [0..Sources -> Nat],
           f = [n \in 0..Sources |-> IF n = 0 THEN 0 ELSE bar[n] + f[n - 1]],
           g = [n \in 0..Sources |-> IF n = 0 THEN 0 ELSE more[n] + g[n - 1]]
    PROVE  \A n \in 0..Sources : f[n] <= g[n]
<1> DEFINE T == {n \in 0..Sources : ~(f[n] <= g[n])}
<1>0. Sources \in Nat
  BY UploadAssumption
<1> SUFFICES ASSUME T # {} PROVE FALSE
  OBVIOUS
<1>1. T \in SUBSET Nat
  BY <1>0
<1>2. PICK n \in T : \A m \in T : ~(<<m, n>> \in OpToRel(<, Nat))
  BY <1>1, WFMin, NatLessThanWellFounded
<1>3. \A m \in T : ~(m < n)
  BY <1>1, <1>2 DEF OpToRel
<1>4. f[0] = 0 /\ g[0] = 0
  BY <1>0
<1>5. n # 0
  BY <1>4
<1>6. n \in 1..Sources /\ n - 1 \in 0..Sources /\ n - 1 < n
  BY <1>0, <1>5
<1>7. f[n - 1] <= g[n - 1]
  BY <1>3, <1>6
<1>8. f[n] = bar[n] + f[n - 1] /\ g[n] = more[n] + g[n - 1]
  BY <1>6
<1>9. bar[n] \in Nat /\ more[n] \in Nat /\ bar[n] <= more[n] /\ f[n - 1] \in Nat /\ g[n - 1] \in Nat
  BY <1>6
<1> QED BY <1>7, <1>8, <1>9

\* Whatever has the equation of upTo is a number everywhere.
LEMMA SumTyped ==
    ASSUME NEW bar \in [1..Sources -> Nat],
           NEW f, f = [n \in 0..Sources |-> IF n = 0 THEN 0 ELSE bar[n] + f[n - 1]]
    PROVE  f \in [0..Sources -> Nat]
<1> DEFINE T == {n \in 0..Sources : f[n] \notin Nat}
<1>0. Sources \in Nat
  BY UploadAssumption
<1>1. T = {}
  <2> SUFFICES ASSUME T # {} PROVE FALSE
    OBVIOUS
  <2>1. T \in SUBSET Nat
    BY <1>0
  <2>2. PICK n \in T : \A m \in T : ~(<<m, n>> \in OpToRel(<, Nat))
    BY <2>1, WFMin, NatLessThanWellFounded
  <2>3. \A m \in T : ~(m < n)
    BY <2>1, <2>2 DEF OpToRel
  <2>4. f[0] = 0
    BY <1>0
  <2>5. n \in 1..Sources /\ n - 1 \in 0..Sources /\ n - 1 < n
    BY <1>0, <2>4
  <2>6. f[n] = bar[n] + f[n - 1] /\ bar[n] \in Nat /\ f[n - 1] \in Nat
    BY <2>3, <2>5
  <2> QED BY <2>6
<1>2. \A n \in 0..Sources : f[n] \in Nat
  BY <1>1
<1>3. DOMAIN f = 0..Sources /\ f = [n \in 0..Sources |-> f[n]]
  OBVIOUS
<1> QED BY <1>2, <1>3

\* SumOf is what the function with the equation says.
LEMMA SumOfFact ==
    ASSUME NEW bar \in [1..Sources -> Nat]
    PROVE  \E f \in [0..Sources -> Nat] :
              /\ f = [n \in 0..Sources |-> IF n = 0 THEN 0 ELSE bar[n] + f[n - 1]]
              /\ SumOf(bar) = f[Sources]
<1>0. Sources \in Nat
  BY UploadAssumption
<1> DEFINE Eq(f) == f = [n \in 0..Sources |-> IF n = 0 THEN 0 ELSE bar[n] + f[n - 1]]
           up == CHOOSE f : Eq(f)
<1>1. PICK f \in [0..Sources -> Nat] : Eq(f)
  BY SumExists
<1>2. Eq(up)
  BY <1>1
<1>3. SumOf(bar) = up[Sources]
  BY DEF SumOf
<1> HIDE DEF up
<1>4. up \in [0..Sources -> Nat]
  BY <1>2, SumTyped
<1> QED BY <1>2, <1>3, <1>4

\* A bar that is fuller everywhere shows more.
LEMMA SumGrows ==
    ASSUME NEW bar \in [1..Sources -> Nat], NEW more \in [1..Sources -> Nat],
           \A i \in 1..Sources : bar[i] <= more[i]
    PROVE  SumOf(bar) <= SumOf(more)
<1>1. Sources \in 0..Sources
  BY UploadAssumption
<1>2. PICK f \in [0..Sources -> Nat] :
         /\ f = [n \in 0..Sources |-> IF n = 0 THEN 0 ELSE bar[n] + f[n - 1]]
         /\ SumOf(bar) = f[Sources]
  BY SumOfFact
<1>3. PICK g \in [0..Sources -> Nat] :
         /\ g = [n \in 0..Sources |-> IF n = 0 THEN 0 ELSE more[n] + g[n - 1]]
         /\ SumOf(more) = g[Sources]
  BY SumOfFact
<1>4. \A n \in 0..Sources : f[n] <= g[n]
  BY <1>2, <1>3, SumsOrdered
<1> QED BY <1>1, <1>2, <1>3, <1>4

\* A bar that is full everywhere shows the whole batch.
LEMMA SumFull ==
    ASSUME NEW bar \in [1..Sources -> Nat], \A i \in 1..Sources : bar[i] = Total
    PROVE  SumOf(bar) = Sources * Total
<1>0. Sources \in Nat /\ Total \in Nat
  BY UploadAssumption DEF Total
<1>1. PICK f \in [0..Sources -> Nat] :
         /\ f = [n \in 0..Sources |-> IF n = 0 THEN 0 ELSE bar[n] + f[n - 1]]
         /\ SumOf(bar) = f[Sources]
  BY SumOfFact
<1> DEFINE T == {n \in 0..Sources : f[n] # n * Total}
<1>2. T = {}
  <2> SUFFICES ASSUME T # {} PROVE FALSE
    OBVIOUS
  <2>1. T \in SUBSET Nat
    BY <1>0
  <2>2. PICK n \in T : \A m \in T : ~(<<m, n>> \in OpToRel(<, Nat))
    BY <2>1, WFMin, NatLessThanWellFounded
  <2>3. \A m \in T : ~(m < n)
    BY <2>1, <2>2 DEF OpToRel
  <2>4. f[0] = 0 /\ 0 * Total = 0
    BY <1>0, <1>1
  <2>5. n \in 1..Sources /\ n - 1 \in 0..Sources /\ n - 1 < n
    BY <1>0, <2>4
  <2>6. f[n] = bar[n] + f[n - 1] /\ bar[n] = Total /\ f[n - 1] = (n - 1) * Total
    BY <1>1, <2>3, <2>5
  <2>7. ASSUME NEW k \in Int, NEW x \in Int
        PROVE  x + (k - 1) * x = k * x
    OBVIOUS
  <2>8. n \in Int /\ Total \in Int
    BY <1>0
  <2>9. Total + (n - 1) * Total = n * Total
    BY <2>7, <2>8
  <2> QED BY <2>6, <2>9
<1>3. \A n \in 0..Sources : f[n] = n * Total
  BY <1>2
<1>4. Sources \in 0..Sources
  BY <1>0
<1> HIDE DEF T
<1> QED BY <1>1, <1>3, <1>4

-----------------------------------------------------------------------------
(* The batch. *)

\* What the fate of one slot of the server's list may be.
SlotInv(i) ==
    LET t == tickets[i]
        Delivered == i \in stored \/ (t.kind = "stored" /\ HasSource(i))
    IN  /\ step[i] = "idle" => receipt[i] = "none" /\ i \notin stored
        /\ step[i] # "idle" => i \in DOMAIN tickets
        /\ i \in stored => t.kind \notin {"rejected", "stored", "unknown"}
        /\ step[i] = "original" => /\ t.kind \in {"inline", "presigned-put"}
                                   /\ receipt[i] = "none" /\ i \notin stored
        /\ step[i] = "thumbnail" => Delivered /\ receipt[i] = "none"
        /\ step[i] = "ended" /\ stage # "rejected" =>
               (receipt[i] # "none" <=> Created(t))
        /\ receipt[i] # "none" => Created(t) /\ (receipt[i] = "ok" <=> Delivered)

\* The list is a prefix of the slots, and the workers take it in order.
ListInv ==
    /\ \E n \in 0..MaxTickets : tickets \in [1..n -> Tickets] /\ next \in 1..(n + 1)
    /\ stage = "starting" => next = 1
    /\ \A i \in Slots : i < next <=> step[i] # "idle"

\* What complete() is called with are the receipts of the finished pool.
PoolInv ==
    /\ stage \in {"completing", "returned"} =>
           /\ InFlight = {} /\ \A i \in DOMAIN tickets : i < next
           /\ completed = {[slot |-> i, receipt |-> receipt[i]] :
                              i \in {j \in DOMAIN tickets : receipt[j] # "none"}}
           /\ settledBar = 1..Sources
    /\ settledBar \subseteq 1..Sources

\* A worker dies at the end of a slot.
Ended == {i \in Slots : step[i] = "ended"}
DeadInv == dead <= Cardinality(Ended)

UploadInv == UploadTypeOK /\ ListInv /\ DeadInv /\ PoolInv /\ \A i \in Slots : SlotInv(i)

LEMMA UploadStart == UploadInit => UploadInv
<1> SUFFICES ASSUME UploadInit PROVE UploadInv
  OBVIOUS
<1>0. MaxTickets \in Nat /\ Sources \in Nat /\ Total \in Nat
  BY UploadAssumption DEF Total
<1>1. tickets \in [1..0 -> Tickets] /\ DOMAIN tickets = {}
  BY DEF UploadInit
<1>2. UploadTypeOK
  BY <1>0, <1>1 DEF UploadInit, UploadTypeOK, Slots
<1>3. ListInv
  BY <1>0, <1>1 DEF UploadInit, ListInv, Slots
<1>4. Ended = {}
  BY DEF UploadInit, Ended
<1>5. DeadInv
  BY <1>4, FS_EmptySet DEF DeadInv, UploadInit
<1>6. PoolInv /\ \A i \in Slots : SlotInv(i)
  BY <1>0, <1>1 DEF UploadInit, PoolInv, SlotInv
<1> QED BY <1>2, <1>3, <1>5, <1>6 DEF UploadInv

LEMMA UploadFields ==
    ASSUME UploadInv
    PROVE  /\ MaxTickets \in Nat /\ Sources \in Nat /\ Total \in Nat
           /\ next \in Nat /\ dead \in Nat
           /\ step \in [Slots -> {"idle", "original", "thumbnail", "ended"}]
           /\ receipt \in [Slots -> {"none", "ok"} \cup Codes]
           /\ sent \in [Slots -> 0..Total]
           /\ stored \subseteq Slots /\ settledBar \subseteq 1..Sources
           /\ DOMAIN tickets \subseteq Slots
           /\ \A i \in DOMAIN tickets : tickets[i] \in Tickets
           /\ \A i \in Slots : i \in Nat
BY UploadAssumption DEF UploadInv, UploadTypeOK, PoolInv, Total, Slots

\* The list may be counted.
LEMMA CountFact ==
    ASSUME UploadInv
    PROVE  /\ Count \in Nat /\ \A i \in DOMAIN tickets : i <= Count
           /\ next \in DOMAIN tickets <=> next <= Count
<1>1. PICK n \in 0..MaxTickets : tickets \in [1..n -> Tickets] /\ next \in 1..(n + 1)
  BY DEF UploadInv, ListInv
<1>2. n \in Nat /\ 1 \in Int /\ n \in Int
  BY <1>1, UploadAssumption
<1>3. DOMAIN tickets = 1..n
  BY <1>1
<1>4. Cardinality(1..n) = n
  BY <1>2, FS_Interval
<1> QED BY <1>1, <1>2, <1>3, <1>4 DEF Count

\* No set of slots is larger than the bound on the server's list.
LEMMA SlotsBounded ==
    ASSUME NEW S \in SUBSET Slots
    PROVE  IsFiniteSet(S) /\ Cardinality(S) \in Nat /\ Cardinality(S) <= MaxTickets
<1>1. MaxTickets \in Int /\ 1 \in Int /\ MaxTickets \in Nat
  BY UploadAssumption
<1>2. IsFiniteSet(Slots) /\ Cardinality(Slots) = MaxTickets
  BY <1>1, FS_Interval DEF Slots
<1> QED BY <1>2, FS_Subset, FS_CardinalityType

\* A worker's step on one slot keeps the invariant if it keeps that slot's.
LEMMA SlotStep ==
    ASSUME UploadInv, NEW i \in DOMAIN tickets,
           NEW s \in {"original", "thumbnail", "ended"},
           step' = [step EXCEPT ![i] = s], step[i] # "ended",
           \/ next' = next /\ step[i] # "idle"
           \/ next' = next + 1 /\ i = next,
           UNCHANGED <<tickets, sent, completed>>,
           stored' = stored \/ stored' = stored \cup {i},
           settledBar' = settledBar \/ (settledBar' = settledBar \cup {i} /\ HasSource(i)),
           NEW r \in {"none", "ok"} \cup Codes,
           receipt' = receipt \/ receipt' = [receipt EXCEPT ![i] = r],
           stage # "starting",
           stage' = stage \/ stage' = "rejected",
           dead' = dead \/ (dead' = dead + 1 /\ s = "ended"),
           SlotInv(i)'
    PROVE  UploadInv'
<1>0. i \in Slots /\ i \in Nat
  BY UploadFields
<1>1. stage \notin {"completing", "returned"} /\ stage' # "starting"
  <2>1. ASSUME stage \in {"completing", "returned"} PROVE FALSE
    <3>1. InFlight = {} /\ i < next
      BY <2>1 DEF UploadInv, PoolInv
    <3>2. step[i] \in {"original", "thumbnail"}
      BY <1>0, <3>1, UploadFields
    <3> QED BY <1>0, <3>1, <3>2 DEF InFlight
  <2> QED BY <2>1
<1>2. /\ step' \in [Slots -> {"idle", "original", "thumbnail", "ended"}]
      /\ step'[i] = s /\ \A j \in Slots \ {i} : step'[j] = step[j]
  BY <1>0, UploadFields
<1>3. /\ receipt' \in [Slots -> {"none", "ok"} \cup Codes]
      /\ \A j \in Slots \ {i} : receipt'[j] = receipt[j]
  BY <1>0, UploadFields
<1>4. ListInv'
  <2>1. PICK n \in 0..MaxTickets : tickets \in [1..n -> Tickets] /\ next \in 1..(n + 1)
    BY DEF UploadInv, ListInv
  <2>2. i \in 1..n
    BY <2>1
  <2>3. tickets' \in [1..n -> Tickets] /\ next' \in 1..(n + 1)
    BY <2>1, <2>2, UploadFields
  <2>4. \A j \in Slots : j < next' <=> step'[j] # "idle"
    BY <1>0, <1>2, UploadFields DEF UploadInv, ListInv
  <2> QED BY <1>1, <2>3, <2>4 DEF ListInv
<1>5. dead' \in 0..MaxTickets /\ DeadInv'
  <2>1. /\ IsFiniteSet(Ended) /\ Cardinality(Ended) \in Nat
        /\ Cardinality(Ended') \in Nat /\ Cardinality(Ended') <= MaxTickets
    <3>1. Ended \in SUBSET Slots /\ Ended' \in SUBSET Slots
      BY DEF Ended
    <3> QED BY <3>1, SlotsBounded
  <2>2. dead \in Nat /\ dead <= Cardinality(Ended) /\ MaxTickets \in Nat
    BY UploadFields DEF UploadInv, DeadInv
  <2>3. CASE s = "ended"
    <3>1. Ended' = Ended \cup {i} /\ i \notin Ended
      BY <1>0, <1>2, <2>3 DEF Ended
    <3>2. Cardinality(Ended') = Cardinality(Ended) + 1
      BY <2>1, <3>1, FS_AddElement
    <3> QED BY <2>1, <2>2, <3>2 DEF DeadInv
  <2>4. CASE s # "ended"
    <3>1. Ended' = Ended
      BY <1>0, <1>2, <2>4 DEF Ended
    <3> QED BY <2>1, <2>2, <2>4, <3>1 DEF DeadInv
  <2> QED BY <2>3, <2>4
<1>6. PoolInv'
  <2>1. stage' \notin {"completing", "returned"}
    BY <1>1
  <2>2. settledBar' \subseteq 1..Sources
    BY UploadFields DEF HasSource
  <2> QED BY <2>1, <2>2 DEF PoolInv
<1>7. \A j \in Slots : SlotInv(j)'
  <2> SUFFICES ASSUME NEW j \in Slots, j # i
               PROVE  SlotInv(j)'
    BY <1>0
  <2>1. SlotInv(j) /\ (j \in stored' <=> j \in stored)
    BY DEF UploadInv
  <2> QED BY <1>2, <1>3, <2>1 DEF SlotInv, Created, HasSource
<1>8. UploadTypeOK'
  <2>1. next' \in 1..MaxTickets + 1
    BY <1>4, UploadFields DEF ListInv
  <2>2. /\ stage' \in {"starting", "transfers", "completing", "returned", "rejected"}
        /\ stored' \subseteq Slots /\ settledBar' \subseteq Slots \cup 1..Sources
    BY <1>0 DEF UploadInv, UploadTypeOK
  <2> QED BY <1>2, <1>3, <1>5, <2>1, <2>2 DEF UploadInv, UploadTypeOK
<1> QED BY <1>4, <1>5, <1>6, <1>7, <1>8 DEF UploadInv

\* The end of a slot with the receipt it deserves.
LEMMA EndKeeps ==
    ASSUME UploadInv, NEW i \in DOMAIN tickets,
           NEW r \in {"none", "ok"} \cup Codes, EndTransfer(i, r), step[i] # "ended",
           \/ next' = next /\ step[i] # "idle"
           \/ next' = next + 1 /\ i = next,
           UNCHANGED <<tickets, sent, completed>>,
           stored' = stored \/ stored' = stored \cup {i},
           stage # "starting",
           r = "none" <=> ~Created(tickets[i]),
           r = "ok" <=> i \in stored' \/ (tickets[i].kind = "stored" /\ HasSource(i)),
           i \in stored' => tickets[i].kind \notin {"rejected", "stored", "unknown"}
    PROVE  UploadInv'
<1>0. i \in Slots /\ receipt[i] = "none"
  <2>1. i \in Slots /\ SlotInv(i) /\ step[i] \in {"idle", "original", "thumbnail"}
    BY UploadFields DEF UploadInv
  <2> QED BY <2>1 DEF SlotInv
<1>1. /\ step' = [step EXCEPT ![i] = "ended"]
      /\ settledBar' = settledBar \/ (settledBar' = settledBar \cup {i} /\ HasSource(i))
      /\ \/ receipt' = [receipt EXCEPT ![i] = r] /\ stage' = stage /\ dead' = dead
         \/ receipt' = receipt /\ stage' = "rejected" /\ dead' = dead + 1
  BY DEF EndTransfer
<1>2. step'[i] = "ended"
  BY <1>0, <1>1, UploadFields
<1>3. CASE receipt' = [receipt EXCEPT ![i] = r] /\ stage' = stage /\ dead' = dead
  <2>1. receipt'[i] = r
    BY <1>0, <1>3, UploadFields
  <2>2. SlotInv(i)'
    BY <1>2, <2>1 DEF SlotInv, Created, HasSource
  <2> QED BY <1>1, <1>3, <2>2, SlotStep
<1>4. CASE receipt' = receipt /\ stage' = "rejected" /\ dead' = dead + 1
  <2>1. SlotInv(i)'
    BY <1>0, <1>2, <1>4 DEF SlotInv, Created, HasSource
  <2> QED BY <1>1, <1>4, <2>1, SlotStep
<1> QED BY <1>1, <1>3, <1>4

\* What is awaited for a slot next.
LEMMA GoOnKeeps ==
    ASSUME UploadInv, NEW i \in DOMAIN tickets, NEW s \in {"original", "thumbnail"},
           step' = [step EXCEPT ![i] = s], step[i] # "ended",
           \/ next' = next /\ step[i] # "idle"
           \/ next' = next + 1 /\ i = next,
           UNCHANGED <<stage, dead, settledBar, receipt, tickets, sent, completed>>,
           stored' = stored \/ stored' = stored \cup {i},
           stage # "starting",
           i \in stored' => tickets[i].kind \notin {"rejected", "stored", "unknown"},
           s = "original" => tickets[i].kind \in {"inline", "presigned-put"} /\ i \notin stored',
           s = "thumbnail" => i \in stored' \/ (tickets[i].kind = "stored" /\ HasSource(i))
    PROVE  UploadInv'
<1>0. i \in Slots /\ receipt[i] = "none"
  <2>1. i \in Slots /\ SlotInv(i) /\ step[i] \in {"idle", "original", "thumbnail"}
    BY UploadFields DEF UploadInv
  <2> QED BY <2>1 DEF SlotInv
<1>1. step'[i] = s
  BY <1>0, UploadFields
<1>2. SlotInv(i)'
  BY <1>0, <1>1 DEF SlotInv, Created, HasSource
<1>3. "none" \in {"none", "ok"} \cup Codes
  OBVIOUS
<1> QED BY <1>2, <1>3, SlotStep

LEMMA TakeKeeps ==
    ASSUME UploadInv, TakeSlot
    PROVE  UploadInv'
<1>1. PICK i \in DOMAIN tickets : i = next
  BY DEF TakeSlot
<1>2. /\ i \in Slots /\ step[i] = "idle" /\ i \notin stored
  <2>1. i \in Slots /\ i \in Nat
    BY UploadFields
  <2>2. step[i] = "idle" /\ SlotInv(i)
    BY <1>1, <2>1, UploadFields DEF UploadInv, ListInv
  <2> QED BY <2>1, <2>2 DEF SlotInv
<1>3. /\ next' = next + 1 /\ stage # "starting"
      /\ UNCHANGED <<tickets, sent, stored, completed>>
  BY DEF TakeSlot
<1>4. tickets[i] \in Tickets /\ "unknown" \in Codes /\ "not-acceptable" \in Codes
  BY UploadFields DEF Codes
<1>5. CASE ~Created(tickets[i])
  <2>1. EndTransfer(i, "none")
    BY <1>1, <1>5 DEF TakeSlot, Created
  <2> QED BY <1>1, <1>2, <1>3, <1>5, <2>1, EndKeeps DEF Created
<1>6. CASE Created(tickets[i]) /\ tickets[i].kind = "stored"
  <2>1. CASE HasSource(i) /\ tickets[i].thumbnail /\ Thumbnail > 0
    <3>1. /\ step' = [step EXCEPT ![i] = "thumbnail"]
          /\ UNCHANGED <<stage, dead, settledBar, receipt>>
      BY <1>1, <1>6, <2>1 DEF TakeSlot
    <3> QED BY <1>1, <1>2, <1>3, <1>6, <2>1, <3>1, GoOnKeeps
  <2>2. CASE HasSource(i) /\ ~(tickets[i].thumbnail /\ Thumbnail > 0)
    <3>1. EndTransfer(i, "ok")
      BY <1>1, <1>6, <2>2 DEF TakeSlot
    <3> QED BY <1>1, <1>2, <1>3, <1>6, <2>2, <3>1, EndKeeps DEF Created
  <2>3. CASE ~HasSource(i)
    <3>1. EndTransfer(i, "unknown")
      BY <1>1, <1>6, <2>3 DEF TakeSlot
    <3> QED BY <1>1, <1>2, <1>3, <1>4, <1>6, <2>3, <3>1, EndKeeps DEF Created
  <2> QED BY <2>1, <2>2, <2>3
<1>7. CASE tickets[i].kind = "unknown"
  <2>1. EndTransfer(i, "not-acceptable")
    BY <1>1, <1>7 DEF TakeSlot, Created
  <2> QED BY <1>1, <1>2, <1>3, <1>4, <1>7, <2>1, EndKeeps DEF Created
<1>8. CASE Created(tickets[i]) /\ tickets[i].kind \notin {"stored", "unknown"}
  <2>0. tickets[i].kind \in {"inline", "presigned-put"}
    BY <1>4, <1>8 DEF Tickets, Kinds, Created
  <2>1. CASE HasSource(i)
    <3>1. /\ step' = [step EXCEPT ![i] = "original"]
          /\ UNCHANGED <<stage, dead, settledBar, receipt>>
      BY <1>1, <1>8, <2>1 DEF TakeSlot
    <3> QED BY <1>1, <1>2, <1>3, <2>0, <2>1, <3>1, GoOnKeeps
  <2>2. CASE ~HasSource(i)
    <3>1. EndTransfer(i, "unknown")
      BY <1>1, <1>8, <2>2 DEF TakeSlot
    <3> QED BY <1>1, <1>2, <1>3, <1>4, <2>0, <2>2, <3>1, EndKeeps DEF Created
  <2> QED BY <2>1, <2>2
<1> QED BY <1>5, <1>6, <1>7, <1>8

\* A slot in flight belongs to the list, and upload() is past start().
LEMMA InFlightFact ==
    ASSUME UploadInv, NEW i \in InFlight
    PROVE  /\ i \in Slots /\ i \in DOMAIN tickets /\ tickets[i] \in Tickets
           /\ stage # "starting" /\ SlotInv(i)
           /\ step[i] \in {"original", "thumbnail"}
<1>1. i \in Slots /\ step[i] \in {"original", "thumbnail"} /\ SlotInv(i)
  BY DEF InFlight, UploadInv
<1>2. i < next /\ i >= 1
  BY <1>1, UploadFields DEF UploadInv, ListInv, Slots
<1>3. stage # "starting"
  BY <1>1, <1>2, UploadFields DEF UploadInv, ListInv
<1> QED BY <1>1, <1>3, UploadFields DEF SlotInv

LEMMA OriginalKeeps ==
    ASSUME UploadInv, NEW i \in InFlight, NEW r \in Receipts(tickets[i].kind),
           OriginalEnds(i, r)
    PROVE  UploadInv'
<1>0. /\ i \in DOMAIN tickets /\ stage # "starting" /\ SlotInv(i)
      /\ step[i] = "original" /\ r \in {"ok"} \cup Codes
      /\ UNCHANGED <<tickets, next, sent, completed>>
  BY InFlightFact, ReceiptsTyped DEF OriginalEnds
<1>1. /\ tickets[i].kind \in {"inline", "presigned-put"} /\ receipt[i] = "none" /\ i \notin stored
  BY <1>0 DEF SlotInv
<1>2. CASE r = "ok"
  <2>1. stored' = stored \cup {i}
    BY <1>2 DEF OriginalEnds
  <2>2. CASE tickets[i].thumbnail /\ Thumbnail > 0
    <3>1. /\ step' = [step EXCEPT ![i] = "thumbnail"]
          /\ UNCHANGED <<stage, dead, settledBar, receipt>>
      BY <1>2, <2>2 DEF OriginalEnds
    <3> QED BY <1>0, <1>1, <2>1, <3>1, GoOnKeeps
  <2>3. CASE ~(tickets[i].thumbnail /\ Thumbnail > 0)
    <3>1. EndTransfer(i, "ok")
      BY <1>2, <2>3 DEF OriginalEnds
    <3> QED BY <1>0, <1>1, <2>1, <3>1, EndKeeps DEF Created
  <2> QED BY <2>2, <2>3
<1>3. CASE r # "ok"
  <2>1. EndTransfer(i, r) /\ stored' = stored
    BY <1>3 DEF OriginalEnds
  <2> QED BY <1>0, <1>1, <1>3, <2>1, EndKeeps, OkIsNoCode DEF Created
<1> QED BY <1>2, <1>3

LEMMA ThumbnailKeeps ==
    ASSUME UploadInv, NEW i \in InFlight, ThumbnailEnds(i)
    PROVE  UploadInv'
<1>0. /\ i \in DOMAIN tickets /\ stage # "starting" /\ SlotInv(i)
      /\ step[i] = "thumbnail" /\ EndTransfer(i, "ok")
      /\ UNCHANGED <<tickets, next, sent, stored, completed>>
  BY InFlightFact DEF ThumbnailEnds
<1>1. /\ i \in stored => tickets[i].kind \notin {"rejected", "stored", "unknown"}
      /\ i \in stored \/ (tickets[i].kind = "stored" /\ HasSource(i))
  BY <1>0 DEF SlotInv
<1> QED BY <1>0, <1>1, EndKeeps DEF Created

LEMMA ReportKeeps ==
    ASSUME UploadInv, NEW i \in InFlight, NEW bytes \in 0..Total + 1, Report(i, bytes)
    PROVE  /\ UploadInv'
           /\ \A j \in Slots : sent'[j] >= sent[j]
<1>0. /\ i \in Slots /\ sent[i] \in 0..Total /\ Original \in Nat /\ bytes \in Nat
      /\ Total \in Nat
  BY InFlightFact, UploadFields, UploadAssumption
<1>1. \A b \in Nat : Clamp(i, b) \in 0..Total /\ Clamp(i, b) >= sent[i]
  BY <1>0 DEF Clamp
<1>2. PICK b \in Nat : sent' = [sent EXCEPT ![i] = Clamp(i, b)]
  <2>1. bytes \in Nat /\ Original + bytes \in Nat
    BY <1>0
  <2>2. CASE step[i] = "thumbnail"
    <3>1. sent' = [sent EXCEPT ![i] = Clamp(i, Original + bytes)]
      BY <2>2 DEF Report
    <3> QED BY <2>1, <3>1
  <2>3. CASE step[i] # "thumbnail"
    <3>1. sent' = [sent EXCEPT ![i] = Clamp(i, bytes)]
      BY <2>3 DEF Report
    <3> QED BY <2>1, <3>1
  <2> QED BY <2>2, <2>3
<1>3. sent' \in [Slots -> 0..Total] /\ \A j \in Slots : sent'[j] >= sent[j]
  BY <1>0, <1>1, <1>2, UploadFields
<1>4. UNCHANGED <<stage, tickets, next, step, dead, settledBar, receipt, stored, completed>>
  BY DEF Report
<1>5. UploadTypeOK' /\ ListInv' /\ PoolInv'
  BY <1>3, <1>4 DEF UploadInv, UploadTypeOK, ListInv, PoolInv, InFlight
<1>6. DeadInv' /\ \A j \in Slots : SlotInv(j)'
  BY <1>4 DEF UploadInv, DeadInv, Ended, SlotInv
<1> QED BY <1>3, <1>5, <1>6 DEF UploadInv

LEMMA StartKeeps ==
    ASSUME UploadInv, StartAnswers
    PROVE  UploadInv'
<1>0. /\ stage = "starting" /\ next = 1
      /\ UNCHANGED <<next, step, dead, sent, settledBar, receipt, stored, completed>>
  BY DEF StartAnswers, UploadInv, ListInv
<1>1. PICK n \in 0..MaxTickets : tickets' \in [1..n -> Tickets]
  <2>1. CASE UNCHANGED tickets
    BY <2>1 DEF UploadInv, ListInv
  <2>2. CASE \E n \in 0..MaxTickets : tickets' \in [1..n -> Tickets]
    BY <2>2
  <2> QED BY <2>1, <2>2 DEF StartAnswers
<1>2. stage' \in {"transfers", "rejected"}
  BY DEF StartAnswers
<1>3. n \in Nat /\ MaxTickets \in Nat /\ n <= MaxTickets
  BY <1>1, UploadAssumption
<1>4. ListInv'
  BY <1>0, <1>1, <1>2, <1>3 DEF UploadInv, ListInv
<1>5. UploadTypeOK'
  BY <1>0, <1>1, <1>2, <1>3 DEF UploadInv, UploadTypeOK, Slots
<1>6. \A i \in Slots : step[i] = "idle"
  BY <1>0, UploadFields DEF UploadInv, ListInv, Slots
<1>7. \A i \in Slots : SlotInv(i)'
  BY <1>0, <1>6 DEF UploadInv, SlotInv
<1>8. DeadInv' /\ PoolInv'
  BY <1>0, <1>2 DEF UploadInv, DeadInv, Ended, PoolInv
<1> QED BY <1>4, <1>5, <1>7, <1>8 DEF UploadInv

\* The pool is through: every slot of the list has ended.
LEMMA PoolOver ==
    ASSUME UploadInv, next > Count, InFlight = {}
    PROVE  \A i \in DOMAIN tickets : i \in Slots /\ i < next /\ step[i] = "ended"
<1> SUFFICES ASSUME NEW i \in DOMAIN tickets
             PROVE  i \in Slots /\ i < next /\ step[i] = "ended"
  OBVIOUS
<1>1. i \in Slots /\ i \in Nat /\ i <= Count /\ Count \in Nat
  BY CountFact, UploadFields
<1>2. i < next
  BY <1>1, UploadFields
<1>3. step[i] # "idle"
  BY <1>1, <1>2 DEF UploadInv, ListInv
<1> QED BY <1>1, <1>2, <1>3, UploadFields DEF InFlight

LEMMA PoolKeeps ==
    ASSUME UploadInv, PoolDone
    PROVE  UploadInv'
<1>0. /\ stage = "transfers" /\ next > Count /\ InFlight = {} /\ settledBar' = 1..Sources
      /\ UNCHANGED <<tickets, next, step, dead, sent, receipt, stored>>
      /\ stage' \in {"returned", "completing"}
  BY DEF PoolDone
<1>1. completed' = {[slot |-> i, receipt |-> receipt[i]] :
                        i \in {j \in DOMAIN tickets : receipt[j] # "none"}}
  BY DEF PoolDone
<1>2. ListInv' /\ DeadInv'
  BY <1>0 DEF UploadInv, ListInv, DeadInv, Ended
<1>3. \A i \in Slots : SlotInv(i)'
  BY <1>0 DEF UploadInv, SlotInv
<1>4. PoolInv'
  <2>1. InFlight' = {} /\ \A i \in DOMAIN tickets' : i < next'
    BY <1>0, PoolOver DEF InFlight
  <2> QED BY <1>0, <1>1, <2>1 DEF PoolInv
<1>5. completed' \subseteq [slot : Slots, receipt : {"ok"} \cup Codes]
  <2>1. \A i \in DOMAIN tickets : i \in Slots /\ receipt[i] \in {"none", "ok"} \cup Codes
    BY UploadFields
  <2> QED BY <1>1, <2>1
<1>6. UploadTypeOK'
  BY <1>0, <1>5 DEF UploadInv, UploadTypeOK
<1> QED BY <1>2, <1>3, <1>4, <1>6 DEF UploadInv

LEMMA LateSettleKeeps ==
    ASSUME UploadInv, NEW i \in 1..Sources, LateSettleThrows(i)
    PROVE  UploadInv'
<1>0. /\ settledBar' = settledBar \cup 1..i /\ stage' = "rejected"
      /\ UNCHANGED <<tickets, next, step, dead, sent, receipt, stored, completed>>
  BY DEF LateSettleThrows
<1>1. settledBar' \subseteq 1..Sources
  BY <1>0, UploadFields
<1>2. UploadTypeOK' /\ ListInv' /\ DeadInv' /\ PoolInv'
  BY <1>0, <1>1 DEF UploadInv, UploadTypeOK, ListInv, DeadInv, Ended, PoolInv
<1>3. \A j \in Slots : SlotInv(j)'
  BY <1>0 DEF UploadInv, SlotInv
<1> QED BY <1>2, <1>3 DEF UploadInv

LEMMA CompleteKeeps ==
    ASSUME UploadInv, CompleteAnswers
    PROVE  UploadInv'
<1>0. /\ stage = "completing" /\ stage' \in {"returned", "rejected"}
      /\ UNCHANGED <<tickets, next, step, dead, sent, settledBar, receipt, stored, completed>>
  BY DEF CompleteAnswers
<1>1. UploadTypeOK' /\ ListInv' /\ DeadInv'
  BY <1>0 DEF UploadInv, UploadTypeOK, ListInv, DeadInv, Ended
<1>2. PoolInv'
  BY <1>0 DEF UploadInv, PoolInv, InFlight
<1>3. \A j \in Slots : SlotInv(j)'
  BY <1>0 DEF UploadInv, SlotInv
<1> QED BY <1>1, <1>2, <1>3 DEF UploadInv

LEMMA UploadStep == UploadInv /\ [UploadNext]_uploadVars => UploadInv'
<1> SUFFICES ASSUME UploadInv, [UploadNext]_uploadVars PROVE UploadInv'
  OBVIOUS
<1>1. CASE UNCHANGED uploadVars
  BY <1>1 DEF uploadVars, UploadInv, UploadTypeOK, ListInv, DeadInv, Ended, PoolInv, InFlight,
              SlotInv
<1> QED
  BY <1>1, StartKeeps, TakeKeeps, PoolKeeps, CompleteKeeps, LateSettleKeeps, OriginalKeeps,
     ThumbnailKeeps, ReportKeeps DEF UploadNext

LEMMA UploadAlways == UploadSpec => []UploadInv
BY UploadStart, UploadStep, PTL DEF UploadSpec

\* complete() is called, and upload() returns, with exactly one receipt for every
\* upload the server created, an "ok" for exactly the originals that arrived, for
\* any batch, any list the server answers with, any order in which transfers
\* settle and whatever throws (upload() and transferTracked() of engine.ts).
THEOREM CompletesHolds == UploadSpec => []CompletesWhatWasSent
<1>1. UploadInv => CompletesWhatWasSent
  <2> SUFFICES ASSUME UploadInv, stage \in {"completing", "returned"}
               PROVE  /\ InFlight = {}
                      /\ {c.slot : c \in completed} = {i \in DOMAIN tickets : Created(tickets[i])}
                      /\ \A c \in completed :
                            c.receipt = "ok" <=>
                                \/ c.slot \in stored
                                \/ tickets[c.slot].kind = "stored" /\ HasSource(c.slot)
    BY DEF CompletesWhatWasSent
  <2>1. /\ InFlight = {}
        /\ completed = {[slot |-> i, receipt |-> receipt[i]] :
                           i \in {j \in DOMAIN tickets : receipt[j] # "none"}}
        /\ \A i \in DOMAIN tickets : i < next
    BY DEF UploadInv, PoolInv
  <2>2. \A i \in DOMAIN tickets : /\ i \in Slots /\ SlotInv(i)
                                  /\ step[i] = "ended"
    <3> SUFFICES ASSUME NEW i \in DOMAIN tickets
                 PROVE  i \in Slots /\ SlotInv(i) /\ step[i] = "ended"
      OBVIOUS
    <3>1. i \in Slots /\ i < next
      BY <2>1, UploadFields
    <3>2. step[i] # "idle" /\ SlotInv(i)
      BY <3>1 DEF UploadInv, ListInv
    <3> QED BY <2>1, <3>1, <3>2, UploadFields DEF InFlight
  <2>3. \A i \in DOMAIN tickets : receipt[i] # "none" <=> Created(tickets[i])
    BY <2>2 DEF SlotInv
  <2>4. {c.slot : c \in completed} = {j \in DOMAIN tickets : receipt[j] # "none"}
    <3> DEFINE D == {j \in DOMAIN tickets : receipt[j] # "none"}
               R(i) == [slot |-> i, receipt |-> receipt[i]]
    <3>1. \A i \in D : R(i).slot = i
      OBVIOUS
    <3>2. completed = {R(i) : i \in D}
      BY <2>1
    <3> HIDE DEF D, R
    <3>3. {c.slot : c \in completed} = D
      BY <3>1, <3>2
    <3> QED BY <3>3 DEF D
  <2>5. {j \in DOMAIN tickets : receipt[j] # "none"} = {i \in DOMAIN tickets : Created(tickets[i])}
    BY <2>3
  <2>6. ASSUME NEW c \in completed
        PROVE  c.receipt = "ok" <=> \/ c.slot \in stored
                                    \/ tickets[c.slot].kind = "stored" /\ HasSource(c.slot)
    <3>1. PICK i \in DOMAIN tickets : /\ receipt[i] # "none"
                                      /\ c = [slot |-> i, receipt |-> receipt[i]]
      BY <2>1
    <3>2. c.slot = i /\ c.receipt = receipt[i]
      BY <3>1
    <3>3. SlotInv(i)
      BY <2>2
    <3> QED BY <3>1, <3>2, <3>3 DEF SlotInv
  <2> QED BY <2>1, <2>4, <2>5, <2>6
<1> QED BY <1>1, UploadAlways, PTL

-----------------------------------------------------------------------------
(* The progress bar. *)

Bar == [i \in 1..Sources |-> BarOf(i)]

\* What the bar shows of a file is at most its size.
BarShape == /\ Bar \in [1..Sources -> Nat]
            /\ \A i \in 1..Sources : BarOf(i) \in 0..Total
LEMMA BarTyped == UploadInv => BarShape
BY UploadFields DEF BarShape, Bar, BarOf

\* No step takes a settled file back, or a reported byte.
LEMMA BarGrows ==
    ASSUME UploadInv, UploadNext
    PROVE  /\ settledBar \subseteq settledBar'
           /\ \A j \in Slots : sent'[j] >= sent[j]
<1>0. \A j \in Slots : sent[j] >= sent[j]
  BY UploadFields
<1>1. ASSUME NEW i \in InFlight, NEW bytes \in 0..Total + 1, Report(i, bytes)
      PROVE  settledBar \subseteq settledBar' /\ \A j \in Slots : sent'[j] >= sent[j]
  BY <1>1, ReportKeeps DEF Report
<1>2. StartAnswers \/ CompleteAnswers => settledBar' = settledBar /\ sent' = sent
  BY DEF StartAnswers, CompleteAnswers
<1>3. TakeSlot => settledBar \subseteq settledBar' /\ sent' = sent
  BY DEF TakeSlot, EndTransfer
<1>4. PoolDone => settledBar \subseteq settledBar' /\ sent' = sent
  BY UploadFields DEF PoolDone
<1>5. \A i \in 1..Sources : LateSettleThrows(i) => settledBar \subseteq settledBar' /\ sent' = sent
  BY DEF LateSettleThrows
<1>6. \A i \in InFlight : \A r : OriginalEnds(i, r) => settledBar \subseteq settledBar' /\ sent' = sent
  BY DEF OriginalEnds, EndTransfer
<1>7. \A i \in InFlight : ThumbnailEnds(i) => settledBar \subseteq settledBar' /\ sent' = sent
  BY DEF ThumbnailEnds, EndTransfer
<1> QED BY <1>0, <1>1, <1>2, <1>3, <1>4, <1>5, <1>6, <1>7 DEF UploadNext

\* The progress bar never moves back and is full when upload() returns, for any
\* batch, however the executors report and in whatever order files settle
\* (report(), settle() and snapshot() of progress.ts).
THEOREM BarHolds == UploadSpec => BarForward
<1> DEFINE A == /\ SentBytes' >= SentBytes
                /\ stage' = "returned" => SentBytes' = Sources * Total
<1>1. UploadInv /\ UploadInv' /\ [UploadNext]_uploadVars => [A]_uploadVars
  <2> SUFFICES ASSUME UploadInv, UploadInv', UploadNext PROVE A
    BY DEF uploadVars
  <2>1. /\ Bar \in [1..Sources -> Nat] /\ Bar' \in [1..Sources -> Nat]
        /\ \A i \in 1..Sources : BarOf(i) \in 0..Total
        /\ \A i \in 1..Sources : BarOf(i)' \in 0..Total
    <3>1. BarShape /\ BarShape'
      BY BarTyped, PTL
    <3> QED BY <3>1 DEF BarShape
  <2>2. \A i \in 1..Sources : BarOf(i) <= BarOf(i)'
    BY <2>1, BarGrows DEF BarOf
  <2>3. \A i \in 1..Sources : Bar[i] <= Bar'[i]
    BY <2>2 DEF Bar
  <2>4. SentBytes = SumOf(Bar) /\ SentBytes' = SumOf(Bar')
    BY DEF SentBytes, Bar
  <2>5. SumOf(Bar) <= SumOf(Bar')
    BY <2>1, <2>3, SumGrows
  <2>6. ASSUME stage' = "returned"
        PROVE  SumOf(Bar') = Sources * Total
    <3>1. settledBar' = 1..Sources
      BY <2>6 DEF UploadInv, PoolInv
    <3>2. \A i \in 1..Sources : Bar'[i] = Total
      BY <3>1 DEF Bar, BarOf
    <3> QED BY <2>1, <3>2, SumFull
  <2>7. SumOf(Bar) \in Nat /\ SumOf(Bar') \in Nat
    <3>1. Sources \in 0..Sources
      BY UploadAssumption
    <3> QED BY <2>1, <3>1, SumOfFact
  <2> QED BY <2>4, <2>5, <2>6, <2>7
<1> HIDE DEF A
<1>2. UploadSpec => [][A]_uploadVars
  BY UploadAlways, <1>1, PTL DEF UploadSpec
<1> QED BY <1>2 DEF A, BarForward

-----------------------------------------------------------------------------
(* The services side by side.                                                *)

ServicesInv == ClientInv /\ StoreInv /\ TickerInv /\ UploadInv /\ ProxyInv

LEMMA ServicesStart == Init => ServicesInv
BY ClientStart, StoreInit, TickerStart, UploadStart, ProxyStart DEF Init, ServicesInv

LEMMA ServicesStep == ServicesInv /\ [Next]_<<service, serviceVars>> => ServicesInv'
<1> SUFFICES ASSUME ServicesInv, [Next]_<<service, serviceVars>> PROVE ServicesInv'
  OBVIOUS
<1>1. /\ [ClientNext]_clientVars
      /\ [SyncNext]_<<syncVars, tickerVars>>
      /\ [UploadNext]_uploadVars
      /\ [ProxyNext]_proxyVars
  BY DEF Next, serviceVars
<1> QED BY <1>1, ClientStep, StoreNext, TickerNext, UploadStep, ProxyStep DEF ServicesInv

\* The state of every service is of its type in every behaviour, for any number
\* of clients, requests, models, files, tickets and generations.
THEOREM ServicesTyped == Spec => []ServicesTypeOK
<1>1. ServicesInv => ServicesTypeOK
  BY DEF ServicesInv, ServicesTypeOK, ClientInv, StoreInv, TickerInv, UploadInv, ProxyInv,
         ProxyTyped
<1> QED BY ServicesStart, ServicesStep, <1>1, PTL DEF Spec
=============================================================================

---------------------------- MODULE BuffersProof ----------------------------
(* Proofs about everything that buffers but the stream buffer itself: the    *)
(* token buffer, the stream adapter, the log trace and the progress tracker, *)
(* and all of them side by side.                                             *)
EXTENDS MCBuffers, StreamBufferProof, JSONSplitProof

-----------------------------------------------------------------------------
(* Sequences of numbers. *)

Elems(s) == {s[i] : i \in 1..Len(s)}
Ascending(s) == \A i, j \in 1..Len(s) : i < j => s[i] < s[j]

LEMMA ElemsConcat ==
    ASSUME NEW s \in Seq(Nat), NEW t \in Seq(Nat)
    PROVE  Elems(s \o t) = Elems(s) \cup Elems(t)
<1> DEFINE all == s \o t
<1>1. /\ Len(s) \in Nat /\ Len(t) \in Nat /\ Len(all) = Len(s) + Len(t)
      /\ \A i \in 1..Len(all) : all[i] = IF i <= Len(s) THEN s[i] ELSE t[i - Len(s)]
  OBVIOUS
<1>2. ASSUME NEW i \in 1..Len(all) PROVE all[i] \in Elems(s) \cup Elems(t)
  <2>1. CASE i <= Len(s)
    BY <1>1, <2>1 DEF Elems
  <2>2. CASE ~(i <= Len(s))
    <3>1. i - Len(s) \in 1..Len(t)
      BY <1>1, <2>2
    <3> QED BY <1>1, <2>2, <3>1 DEF Elems
  <2> QED BY <2>1, <2>2
<1>3. ASSUME NEW i \in 1..Len(s) PROVE s[i] \in Elems(all)
  <2>1. i \in 1..Len(all) /\ all[i] = s[i]
    BY <1>1
  <2> QED BY <2>1 DEF Elems
<1>4. ASSUME NEW i \in 1..Len(t) PROVE t[i] \in Elems(all)
  <2>1. i + Len(s) \in 1..Len(all) /\ all[i + Len(s)] = t[i]
    BY <1>1
  <2> QED BY <2>1 DEF Elems
<1> QED BY <1>2, <1>3, <1>4 DEF Elems

LEMMA AscendingConcat ==
    ASSUME NEW s \in Seq(Nat), NEW t \in Seq(Nat)
    PROVE  Ascending(s \o t) <=> /\ Ascending(s) /\ Ascending(t)
                                 /\ \A x \in Elems(s) : \A y \in Elems(t) : x < y
<1> DEFINE all == s \o t
<1>1. /\ Len(s) \in Nat /\ Len(t) \in Nat /\ Len(all) = Len(s) + Len(t)
      /\ \A i \in 1..Len(s) : i \in 1..Len(all) /\ all[i] = s[i]
      /\ \A i \in 1..Len(t) : i + Len(s) \in 1..Len(all) /\ all[i + Len(s)] = t[i]
      /\ \A i \in 1..Len(all) : all[i] = IF i <= Len(s) THEN s[i] ELSE t[i - Len(s)]
  OBVIOUS
<1> HIDE DEF all
<1>2. ASSUME Ascending(all)
      PROVE  /\ Ascending(s) /\ Ascending(t)
             /\ \A x \in Elems(s) : \A y \in Elems(t) : x < y
  <2>1. Ascending(s)
    BY <1>1, <1>2 DEF Ascending
  <2>2. Ascending(t)
    <3> SUFFICES ASSUME NEW i \in 1..Len(t), NEW j \in 1..Len(t), i < j PROVE t[i] < t[j]
      BY DEF Ascending
    <3>1. /\ i + Len(s) \in 1..Len(all) /\ j + Len(s) \in 1..Len(all) /\ i + Len(s) < j + Len(s)
          /\ all[i + Len(s)] = t[i] /\ all[j + Len(s)] = t[j]
      BY <1>1
    <3> QED BY <1>2, <3>1 DEF Ascending
  <2>3. ASSUME NEW i \in 1..Len(s), NEW j \in 1..Len(t) PROVE s[i] < t[j]
    <3>1. i < j + Len(s)
      BY <1>1
    <3> QED BY <1>1, <1>2, <3>1 DEF Ascending
  <2> QED BY <2>1, <2>2, <2>3 DEF Elems
<1>3. ASSUME Ascending(s), Ascending(t),
             \A x \in Elems(s) : \A y \in Elems(t) : x < y
      PROVE  Ascending(all)
  <2> SUFFICES ASSUME NEW i \in 1..Len(all), NEW j \in 1..Len(all), i < j
               PROVE  all[i] < all[j]
    BY DEF Ascending
  <2>1. CASE j <= Len(s)
    <3>1. i \in 1..Len(s) /\ j \in 1..Len(s) /\ all[i] = s[i] /\ all[j] = s[j]
      BY <1>1, <2>1
    <3> QED BY <1>3, <3>1 DEF Ascending
  <2>2. CASE i <= Len(s) /\ ~(j <= Len(s))
    <3>1. i \in 1..Len(s) /\ j - Len(s) \in 1..Len(t) /\ all[i] = s[i] /\ all[j] = t[j - Len(s)]
      BY <1>1, <2>2
    <3> QED BY <1>3, <3>1 DEF Elems
  <2>3. CASE ~(i <= Len(s))
    <3>1. /\ i - Len(s) \in 1..Len(t) /\ j - Len(s) \in 1..Len(t) /\ i - Len(s) < j - Len(s)
          /\ all[i] = t[i - Len(s)] /\ all[j] = t[j - Len(s)]
      BY <1>1, <2>3
    <3> QED BY <1>3, <3>1 DEF Ascending
  <2> QED BY <1>1, <2>1, <2>2, <2>3
<1> QED BY <1>2, <1>3 DEF all

LEMMA OneElement ==
    ASSUME NEW x \in Nat
    PROVE  <<x>> \in Seq(Nat) /\ Elems(<<x>>) = {x} /\ Ascending(<<x>>)
BY DEF Elems, Ascending

LEMMA NoElement == Elems(<<>>) = {} /\ Ascending(<<>>)
BY DEF Elems, Ascending

-----------------------------------------------------------------------------
(* TokenBuffer: every token is taken once and in order, or lost with a       *)
(* callback that rejected, or waits for a timer.                             *)

Tokens == 1..MaxTokens

\* The tokens that are left are in order, and only tokens that came are lost.
TokenOrder ==
    /\ Ascending(tokensOut \o (inFlush \o tokens))
    /\ Elems(tokensOut \o (inFlush \o tokens)) = (1..tokensIn) \ tokensLost
    /\ tokensLost \subseteq 1..tokensIn
TokenWaits == tokens # <<>> => tokenTimer = "armed" \/ stranded

TokenInv == TokenTypeOK /\ TokenOrder /\ TokenWaits

LEMMA TokenInvMeans == TokenInv => TokensAccounted
<1> SUFFICES ASSUME TokenInv PROVE TokensAccounted
  OBVIOUS
<1>1. tokensOut \in Seq(Tokens) /\ inFlush \in Seq(Tokens) /\ tokens \in Seq(Tokens)
  BY DEF TokenInv, TokenTypeOK, Tokens
<1>2. TokensKept = tokensOut \o (inFlush \o tokens) /\ TokensKept \in Seq(Tokens)
  BY <1>1, ConcatAssociative DEF TokensKept
<1>3. DOMAIN TokensKept = 1..Len(TokensKept)
  BY <1>2
<1> HIDE DEF TokensKept
<1> QED BY <1>2, <1>3 DEF TokenInv, TokenOrder, TokenWaits, TokensAccounted, Ascending, Elems

LEMMA TokenStart == TokenInit => TokenInv
<1> SUFFICES ASSUME TokenInit PROVE TokenInv
  OBVIOUS
<1>0. <<>> \in Seq(1..MaxTokens) /\ 0 \in 0..MaxTokens
  BY TokenAssumption
<1>1. TokenTypeOK /\ TokenWaits
  BY <1>0 DEF TokenInit, TokenTypeOK, TokenWaits
<1>2. tokensOut \o (inFlush \o tokens) = <<>>
  BY DEF TokenInit
<1>3. 1..tokensIn = {}
  BY DEF TokenInit
<1> QED BY <1>1, <1>2, <1>3, NoElement DEF TokenInit, TokenInv, TokenOrder

\* What TokenOrder says of the three sequences apart.
LEMMA TokenOrderParts ==
    ASSUME NEW a \in Seq(Nat), NEW b \in Seq(Nat), NEW c \in Seq(Nat)
    PROVE  /\ Elems(a \o (b \o c)) = Elems(a) \cup Elems(b) \cup Elems(c)
           /\ Ascending(a \o (b \o c)) <=>
                  /\ Ascending(a) /\ Ascending(b) /\ Ascending(c)
                  /\ \A x \in Elems(a) : \A y \in Elems(b) \cup Elems(c) : x < y
                  /\ \A x \in Elems(b) : \A y \in Elems(c) : x < y
<1>1. b \o c \in Seq(Nat)
  OBVIOUS
<1>2. Elems(b \o c) = Elems(b) \cup Elems(c)
  BY ElemsConcat
<1>3. Elems(a \o (b \o c)) = Elems(a) \cup Elems(b \o c)
  BY <1>1, ElemsConcat
<1>4. Ascending(a \o (b \o c)) <=> /\ Ascending(a) /\ Ascending(b \o c)
                                   /\ \A x \in Elems(a) : \A y \in Elems(b \o c) : x < y
  BY <1>1, AscendingConcat
<1>5. Ascending(b \o c) <=> /\ Ascending(b) /\ Ascending(c)
                            /\ \A x \in Elems(b) : \A y \in Elems(c) : x < y
  BY AscendingConcat
<1> QED BY <1>2, <1>3, <1>4, <1>5

\* A token that comes is behind all others.
LEMMA NextToken ==
    ASSUME NEW s \in Seq(Nat), NEW n \in Nat, NEW x, x = n + 1,
           Ascending(s), \A e \in Elems(s) : e <= n
    PROVE  /\ Append(s, x) \in Seq(Nat) /\ Ascending(Append(s, x))
           /\ Elems(Append(s, x)) = Elems(s) \cup {x}
<1>1. Append(s, x) = s \o <<x>> /\ <<x>> \in Seq(Nat)
  OBVIOUS
<1>2. Elems(<<x>>) = {x} /\ Ascending(<<x>>)
  BY OneElement
<1>3. Elems(s) \subseteq Nat
  BY DEF Elems
<1>4. \A e \in Elems(s) : \A y \in Elems(<<x>>) : e < y
  BY <1>2, <1>3
<1>5. Ascending(s \o <<x>>)
  BY <1>1, <1>2, <1>4, AscendingConcat
<1>6. Elems(s \o <<x>>) = Elems(s) \cup {x}
  <2>1. s \in Seq(Nat) /\ <<x>> \in Seq(Nat)
    BY <1>1
  <2>2. Elems(s \o <<x>>) = Elems(s) \cup Elems(<<x>>)
    BY ONLY <2>1, ElemsConcat
  <2> QED BY <1>2, <2>2
<1>7. s \o <<x>> \in Seq(Nat)
  BY <1>1
<1> QED BY <1>1, <1>5, <1>6, <1>7

LEMMA TokenTypes ==
    ASSUME TokenTypeOK, [TokenNext]_tokenVars
    PROVE  TokenTypeOK'
<1>1. /\ tokens \in Seq(Tokens) /\ inFlush \in Seq(Tokens) /\ tokensOut \in Seq(Tokens)
      /\ tokenTimer \in {"off", "armed", "spent"} /\ awaitsFlush \in BOOLEAN
      /\ stranded \in BOOLEAN /\ tokensIn \in 0..MaxTokens /\ tokensLost \subseteq Tokens
  BY DEF TokenTypeOK, Tokens
<1>2. SUFFICES
        /\ tokens' \in Seq(Tokens) /\ inFlush' \in Seq(Tokens) /\ tokensOut' \in Seq(Tokens)
        /\ tokenTimer' \in {"off", "armed", "spent"} /\ awaitsFlush' \in BOOLEAN
        /\ stranded' \in BOOLEAN /\ tokensIn' \in 0..MaxTokens /\ tokensLost' \subseteq Tokens
  BY DEF TokenTypeOK, Tokens
<1>3. ASSUME NEW buffer \in Seq(Tokens), FlushTokens(buffer)
      PROVE  /\ tokens' \in Seq(Tokens) /\ inFlush' \in Seq(Tokens)
             /\ tokenTimer' \in {"off", "armed", "spent"} /\ stranded' \in BOOLEAN
  <2>1. <<>> \in Seq(Tokens)
    OBVIOUS
  <2> QED BY <1>3, <2>1 DEF FlushTokens
<1>4. CASE AddToken
  <2>1. tokensIn + 1 \in Tokens /\ tokensIn' = tokensIn + 1
    BY <1>1, <1>4, TokenAssumption DEF AddToken, Tokens
  <2>2. Append(tokens, tokensIn + 1) \in Seq(Tokens)
    BY <1>1, <2>1
  <2>3. tokensIn' \in 0..MaxTokens
    BY <2>1 DEF Tokens
  <2> QED BY <1>1, <1>3, <1>4, <2>2, <2>3 DEF AddToken
<1>5. CASE TokenTimerFires
  BY <1>1, <1>3, <1>5 DEF TokenTimerFires
<1>6. CASE FlushCalled
  BY <1>1, <1>3, <1>6 DEF FlushCalled
<1>7. CASE CloseTokens
  BY <1>1, <1>3, <1>7 DEF CloseTokens, ClearTokenTimer
<1>8. ASSUME NEW ok \in BOOLEAN, CallbackEnds(ok) PROVE TokenTypeOK'
  <2>1. {inFlush[i] : i \in DOMAIN inFlush} \subseteq Tokens
    BY <1>1
  <2>2. tokensOut \o inFlush \in Seq(Tokens) /\ <<>> \in Seq(Tokens)
    BY <1>1
  <2>3. tokenTimer' \in {"off", "armed", "spent"} /\ stranded' \in BOOLEAN
    BY <1>1, <1>8 DEF CallbackEnds, ClearTokenTimer
  <2>4. tokensOut' \in Seq(Tokens) /\ tokensLost' \subseteq Tokens
    BY <1>1, <1>8, <2>1, <2>2 DEF CallbackEnds
  <2>5. inFlush' \in Seq(Tokens) /\ tokens' \in Seq(Tokens) /\ awaitsFlush' \in BOOLEAN
        /\ tokensIn' \in 0..MaxTokens
    BY <1>1, <1>8, <2>2 DEF CallbackEnds
  <2> QED BY <2>3, <2>4, <2>5 DEF TokenTypeOK, Tokens
<1>9. CASE UNCHANGED tokenVars
  BY <1>1, <1>9 DEF tokenVars
<1> QED BY <1>4, <1>5, <1>6, <1>7, <1>8, <1>9 DEF TokenNext, TokenTypeOK, Tokens

LEMMA TokenStep == TokenInv /\ [TokenNext]_tokenVars => TokenInv'
<1> SUFFICES ASSUME TokenInv, [TokenNext]_tokenVars PROVE TokenInv'
  OBVIOUS
<1>0. Seq(Tokens) \subseteq Seq(Nat)
  <2>1. Tokens \subseteq Nat
    BY DEF Tokens
  <2> QED BY <2>1, SeqMonotonic
<1>1. TokenTypeOK /\ TokenTypeOK'
  BY TokenTypes DEF TokenInv
<1>2. /\ tokens \in Seq(Nat) /\ inFlush \in Seq(Nat) /\ tokensOut \in Seq(Nat)
      /\ tokensIn \in Nat
  BY <1>0, <1>1 DEF TokenTypeOK, Tokens
<1>3. /\ Elems(tokensOut) \cup Elems(inFlush) \cup Elems(tokens) = (1..tokensIn) \ tokensLost
      /\ Ascending(tokensOut) /\ Ascending(inFlush) /\ Ascending(tokens)
      /\ \A x \in Elems(tokensOut) : \A y \in Elems(inFlush) \cup Elems(tokens) : x < y
      /\ \A x \in Elems(inFlush) : \A y \in Elems(tokens) : x < y
      /\ tokensLost \subseteq 1..tokensIn
  BY <1>1, <1>2, TokenOrderParts DEF TokenInv, TokenOrder
<1>4. SUFFICES /\ Elems(tokensOut') \cup Elems(inFlush') \cup Elems(tokens')
                      = (1..tokensIn') \ tokensLost'
               /\ Ascending(tokensOut') /\ Ascending(inFlush') /\ Ascending(tokens')
               /\ \A x \in Elems(tokensOut') : \A y \in Elems(inFlush') \cup Elems(tokens') : x < y
               /\ \A x \in Elems(inFlush') : \A y \in Elems(tokens') : x < y
               /\ tokensLost' \subseteq 1..tokensIn'
               /\ TokenWaits'
  <2>1. tokens' \in Seq(Nat) /\ inFlush' \in Seq(Nat) /\ tokensOut' \in Seq(Nat)
    BY <1>0, <1>1 DEF TokenTypeOK, Tokens
  <2> QED BY <1>1, <1>4, <2>1, TokenOrderParts DEF TokenInv, TokenOrder
<1>5. Elems(<<>>) = {} /\ Ascending(<<>>)
  BY NoElement
<1>6. CASE AddToken
  <2> DEFINE buffer == Append(tokens, tokensIn + 1)
  <2>0. \A e \in Elems(tokens) : e <= tokensIn
    BY <1>3
  <2>1. /\ Ascending(buffer) /\ Elems(buffer) = Elems(tokens) \cup {tokensIn + 1}
    BY <1>2, <1>3, <2>0, NextToken
  <2>2. /\ tokensIn' = tokensIn + 1 /\ tokensLost' = tokensLost /\ tokensOut' = tokensOut
        /\ 1..tokensIn' = (1..tokensIn) \cup {tokensIn + 1} /\ tokensIn + 1 \notin tokensLost
    BY <1>2, <1>3, <1>6 DEF AddToken
  <2>3. \/ inFlush = <<>> /\ inFlush' = buffer /\ tokens' = <<>>
        \/ inFlush' = inFlush /\ tokens' = buffer
    BY <1>6 DEF AddToken, CanFlushTokens, FlushTokens
  <2>4. TokenWaits'
    BY <1>1, <1>6 DEF AddToken, FlushTokens, TokenWaits, TokenTypeOK
  <2>5. \A x \in Elems(tokensOut) \cup Elems(inFlush) : x < tokensIn + 1
    BY <1>2, <1>3
  <2> HIDE DEF buffer
  <2>6. CASE inFlush = <<>> /\ inFlush' = buffer /\ tokens' = <<>>
    BY <1>3, <1>5, <2>1, <2>2, <2>4, <2>5, <2>6
  <2>7. CASE inFlush' = inFlush /\ tokens' = buffer
    BY <1>3, <2>1, <2>2, <2>4, <2>5, <2>7
  <2> QED BY <2>3, <2>6, <2>7
\* A flush moves what waits to the callback.
<1>7. CASE TokenTimerFires \/ FlushCalled \/ CloseTokens
  <2>1. /\ tokensIn' = tokensIn /\ tokensLost' = tokensLost /\ tokensOut' = tokensOut
    BY <1>7 DEF TokenTimerFires, FlushCalled, CloseTokens
  <2>2. \/ inFlush = <<>> /\ inFlush' = tokens /\ tokens' = <<>>
        \/ inFlush' = inFlush /\ tokens' = tokens
    BY <1>7 DEF TokenTimerFires, FlushCalled, CloseTokens, CanFlushTokens, FlushTokens
  <2>3. TokenWaits'
    BY <1>7 DEF TokenTimerFires, FlushCalled, CloseTokens, FlushTokens, ClearTokenTimer,
                TokenInv, TokenWaits
  <2> QED BY <1>3, <1>5, <2>1, <2>2, <2>3
<1>8. ASSUME NEW ok \in BOOLEAN, CallbackEnds(ok)
      PROVE  /\ Elems(tokensOut') \cup Elems(inFlush') \cup Elems(tokens')
                    = (1..tokensIn') \ tokensLost'
             /\ Ascending(tokensOut') /\ Ascending(inFlush') /\ Ascending(tokens')
             /\ \A x \in Elems(tokensOut') : \A y \in Elems(inFlush') \cup Elems(tokens') : x < y
             /\ \A x \in Elems(inFlush') : \A y \in Elems(tokens') : x < y
             /\ tokensLost' \subseteq 1..tokensIn'
             /\ TokenWaits'
  <2>1. tokensIn' = tokensIn /\ tokens' = tokens /\ inFlush' = <<>>
    BY <1>8 DEF CallbackEnds
  <2>2. TokenWaits'
    BY <1>8 DEF CallbackEnds, ClearTokenTimer, TokenInv, TokenWaits
  <2>3. CASE ok
    <3>1. tokensOut' = tokensOut \o inFlush /\ tokensLost' = tokensLost
      BY <1>8, <2>3 DEF CallbackEnds
    <3>2. Elems(tokensOut') = Elems(tokensOut) \cup Elems(inFlush) /\ Ascending(tokensOut')
      BY <1>2, <1>3, <3>1, ElemsConcat, AscendingConcat
    <3> QED BY <1>3, <1>5, <2>1, <2>2, <3>1, <3>2
  <2>4. CASE ~ok
    <3>1. DOMAIN inFlush = 1..Len(inFlush)
      BY <1>2
    <3>2. tokensOut' = tokensOut /\ tokensLost' = tokensLost \cup Elems(inFlush)
      BY <1>8, <2>4, <3>1 DEF CallbackEnds, Elems
    <3>3. \A x \in Elems(inFlush) : x \in Nat /\ x \notin Elems(tokensOut) /\ x \notin Elems(tokens)
      BY <1>2, <1>3
    <3> QED BY <1>3, <1>5, <2>1, <2>2, <3>2, <3>3
  <2> QED BY <2>3, <2>4
<1>9. CASE UNCHANGED tokenVars
  BY <1>3, <1>9 DEF tokenVars, TokenInv, TokenWaits
<1> QED BY <1>6, <1>7, <1>8, <1>9 DEF TokenNext

\* Every token added is taken once and in order, is lost with a callback that
\* rejected, is with one, or waits for a timer or for a step that TokensAccounted
\* names (add(), flush(), close() of token.ts), whatever the interleaving.
THEOREM TokensAreAccounted == TokenSpec => []TokensAccounted
BY TokenStart, TokenStep, TokenInvMeans, PTL DEF TokenSpec

-----------------------------------------------------------------------------
(* Progress: the last snapshot of a task shows its last change, its end is   *)
(* the last thing sent of it, and a consumer keeps the latest of each.       *)

\* What holds the properties of the snapshots up: numbers are drawn in order,
\* and a task that has ended is not sent again.
SnapshotsNumbered == \A s \in emitted : s.seq <= snapshotNo
EndsAreEnds == \A s \in emitted : s.status \in Terminal => taskStatus[s.id] \in Terminal
DirtyRuns == \A t \in dirty : taskStatus[t] \in {"pending", "running"}
StartedCounts == \A t \in TaskIds : taskStatus[t] # "absent" => version[t] # 0
ShowsLast == \A t \in TaskIds : version[t] = 0 \/
    (\E s \in Emitted(t) : s.version = version[t]) \/ (t \in dirty \cap window)
EndsLast == \A s \in emitted : s.status \in Terminal =>
    \A r \in Emitted(s.id) : r.seq <= s.seq

ReporterTyped ==
    /\ taskStatus \in [TaskIds -> {"absent", "pending", "running"} \cup Terminal]
    /\ version \in [TaskIds -> 0..MaxChanges]
    /\ dirty \subseteq TaskIds /\ window \subseteq TaskIds /\ beating \in BOOLEAN
    /\ snapshotNo \in 0..MaxSnapshots
    /\ emitted \subseteq Snapshots /\ inTransit \subseteq emitted
ReporterInv ==
    /\ ReporterTyped /\ SnapshotsNumbered /\ EndsAreEnds /\ DirtyRuns /\ StartedCounts
    /\ ShowsLast /\ EndsLast

StoreInv ==
    /\ store \in Seq(Snapshots) /\ newest \in [TaskIds -> 0..MaxSnapshots]
    /\ \A i \in 1..Len(store) : store[i].seq = newest[store[i].id]
    /\ \A i, j \in 1..Len(store) : store[i].id = store[j].id => i = j
    /\ Len(store) <= MaxTasks

ProgressInv == ReporterInv /\ StoreInv

\* What emit() does, of tasks that have started.
LEMMA EmitFacts ==
    ASSUME ReporterTyped, SnapshotsNumbered, NEW order, NEW n \in Nat,
           order \in [1..n -> TaskIds], Emit(order),
           version' \in [TaskIds -> 0..MaxChanges],
           taskStatus' \in [TaskIds -> {"absent", "pending", "running"} \cup Terminal],
           \A i \in 1..n : version'[order[i]] # 0 /\ taskStatus'[order[i]] # "absent"
    PROVE  /\ snapshotNo' \in 0..MaxSnapshots /\ emitted \subseteq emitted'
           /\ emitted' \subseteq Snapshots /\ inTransit' \subseteq emitted' /\ SnapshotsNumbered'
           /\ \A i \in 1..n : \E s \in emitted' : s.id = order[i] /\ s.version = version'[order[i]]
           /\ \A s \in emitted' \ emitted :
                  /\ s.seq > snapshotNo
                  /\ \E i \in 1..n : s.id = order[i] /\ s.status = taskStatus'[order[i]]
                                     /\ s.seq = snapshotNo + i
<1> DEFINE snap(i) == [id |-> order[i], seq |-> snapshotNo + i, version |-> version'[order[i]],
                       status |-> taskStatus'[order[i]]]
           out == {snap(i) : i \in DOMAIN order}
<1>1. DOMAIN order = 1..n /\ Len(order) = n
  OBVIOUS
<1>2. /\ snapshotNo + n <= MaxSnapshots /\ snapshotNo' = snapshotNo + n
      /\ emitted' = emitted \cup out
      /\ \E taken \in SUBSET out : inTransit' = inTransit \cup taken
  BY <1>1 DEF Emit
<1>3. snapshotNo \in Nat /\ MaxSnapshots \in Nat
  BY ProgressAssumption DEF ReporterTyped
<1>4. ASSUME NEW i \in 1..n
      PROVE  /\ snap(i) \in Snapshots /\ snap(i).seq = snapshotNo + i /\ snap(i).id = order[i]
             /\ snap(i).version = version'[order[i]] /\ snap(i).status = taskStatus'[order[i]]
  <2>1. /\ order[i] \in TaskIds /\ snapshotNo + i \in 1..MaxSnapshots
        /\ version'[order[i]] \in 1..MaxChanges
        /\ taskStatus'[order[i]] \in {"pending", "running"} \cup Terminal
    BY <1>2, <1>3, ProgressAssumption
  <2> QED BY <2>1 DEF Snapshots
<1>5. \A s \in out : \E i \in 1..n : s = snap(i)
  BY <1>1
<1>6. \A i \in 1..n : snap(i) \in emitted'
  BY <1>1, <1>2
<1> HIDE DEF snap, out
<1>7. emitted' \subseteq Snapshots /\ inTransit' \subseteq emitted'
  BY <1>2, <1>4, <1>5 DEF ReporterTyped
<1>8. \A s \in emitted' \ emitted : \E i \in 1..n : s = snap(i)
  BY <1>2, <1>5
<1>9. SnapshotsNumbered'
  <2>1. ASSUME NEW s \in emitted' PROVE s.seq <= snapshotNo'
    <3>1. CASE s \in emitted
      <4>1. s.seq \in Nat /\ s.seq <= snapshotNo
        BY <3>1 DEF ReporterTyped, SnapshotsNumbered, Snapshots
      <4> QED BY <1>2, <1>3, <4>1
    <3>2. CASE s \notin emitted
      BY <1>2, <1>3, <1>4, <1>8, <3>2
    <3> QED BY <3>1, <3>2
  <2> QED BY <2>1 DEF SnapshotsNumbered
<1>10. snapshotNo' \in 0..MaxSnapshots /\ emitted \subseteq emitted'
  BY <1>2, <1>3
<1>11. ASSUME NEW s \in emitted' \ emitted
       PROVE  /\ s.seq > snapshotNo
              /\ \E i \in 1..n : s.id = order[i] /\ s.status = taskStatus'[order[i]]
                                 /\ s.seq = snapshotNo + i
  <2>1. PICK i \in 1..n : s = snap(i)
    BY <1>8
  <2>2. s.seq = snapshotNo + i /\ s.id = order[i] /\ s.status = taskStatus'[order[i]]
    BY <1>4, <2>1
  <2>3. s.seq > snapshotNo
    BY <1>3, <2>2
  <2> QED BY <2>2, <2>3
<1> QED BY <1>4, <1>6, <1>7, <1>9, <1>10, <1>11

\* A step that emits snapshots of tasks that have not ended keeps all that is
\* said of the snapshots; a task that is not sent must be shown as before.
LEMMA EmitKeeps ==
    ASSUME ReporterInv, NEW order, NEW n \in Nat,
           order \in [1..n -> TaskIds], Emit(order),
           version' \in [TaskIds -> 0..MaxChanges],
           taskStatus' \in [TaskIds -> {"absent", "pending", "running"} \cup Terminal],
           \A i \in 1..n : /\ version'[order[i]] # 0 /\ taskStatus'[order[i]] # "absent"
                           /\ taskStatus[order[i]] \notin Terminal
                           /\ taskStatus'[order[i]] \in Terminal => n = 1,
           \A t \in TaskIds : taskStatus[t] \in Terminal => taskStatus'[t] \in Terminal,
           \A t \in TaskIds : \/ \E i \in 1..n : t = order[i]
                              \/ /\ version'[t] = version[t]
                                 /\ t \in dirty \cap window => t \in dirty' \cap window',
           dirty' \subseteq TaskIds, window' \subseteq TaskIds, beating' \in BOOLEAN,
           DirtyRuns', StartedCounts'
    PROVE  ReporterInv'
<1>1. /\ ReporterTyped /\ SnapshotsNumbered /\ EndsAreEnds /\ ShowsLast /\ EndsLast
      /\ snapshotNo \in Nat
  BY DEF ReporterInv, ReporterTyped
<1>2. /\ snapshotNo' \in 0..MaxSnapshots /\ emitted \subseteq emitted'
      /\ emitted' \subseteq Snapshots /\ inTransit' \subseteq emitted' /\ SnapshotsNumbered'
      /\ \A i \in 1..n : \E s \in emitted' : s.id = order[i] /\ s.version = version'[order[i]]
      /\ \A s \in emitted' \ emitted :
             /\ s.seq > snapshotNo
             /\ \E i \in 1..n : s.id = order[i] /\ s.status = taskStatus'[order[i]]
                                /\ s.seq = snapshotNo + i
  <2>1. \A i \in 1..n : version'[order[i]] # 0 /\ taskStatus'[order[i]] # "absent"
    OBVIOUS
  <2>2. /\ n \in Nat /\ order \in [1..n -> TaskIds] /\ Emit(order)
        /\ version' \in [TaskIds -> 0..MaxChanges]
        /\ taskStatus' \in [TaskIds -> {"absent", "pending", "running"} \cup Terminal]
    OBVIOUS
  <2> QED BY ONLY <1>1, <2>1, <2>2, EmitFacts
<1>3. ReporterTyped'
  BY <1>2 DEF ReporterTyped
<1>4. EndsAreEnds'
  <2> SUFFICES ASSUME NEW s \in emitted', s.status \in Terminal
               PROVE  taskStatus'[s.id] \in Terminal
    BY DEF EndsAreEnds
  <2>1. CASE s \in emitted
    <3>1. s.id \in TaskIds
      BY <1>1, <2>1 DEF ReporterTyped, Snapshots
    <3> QED BY <1>1, <2>1, <3>1 DEF EndsAreEnds
  <2>2. CASE s \notin emitted
    BY <1>2, <2>2
  <2> QED BY <2>1, <2>2
<1>5. EndsLast'
  <2> SUFFICES ASSUME NEW s \in emitted', s.status \in Terminal,
                      NEW r \in emitted', r.id = s.id
               PROVE  r.seq <= s.seq
    BY DEF EndsLast, Emitted
  <2>1. r.seq \in Nat /\ s.seq \in Nat
    BY <1>2 DEF Snapshots
  <2>2. CASE s \in emitted
    <3>1. taskStatus[s.id] \in Terminal
      BY <1>1, <2>2 DEF EndsAreEnds
    <3>2. r \in emitted
      BY <1>2, <3>1
    <3> QED BY <1>1, <2>2, <3>2 DEF EndsLast, Emitted
  <2>3. CASE s \notin emitted
    <3>1. s.seq > snapshotNo /\ n = 1 /\ s.seq = snapshotNo + 1
      <4>1. PICK i \in 1..n : s.id = order[i] /\ s.status = taskStatus'[order[i]]
                              /\ s.seq = snapshotNo + i
        BY <1>2, <2>3
      <4>2. n = 1
        BY <4>1
      <4> QED BY <1>1, <4>1, <4>2
    <3>2. CASE r \in emitted
      <4>1. r.seq <= snapshotNo
        BY <1>1, <3>2 DEF SnapshotsNumbered
      <4> QED BY <1>1, <2>1, <3>1, <4>1
    <3>3. CASE r \notin emitted
      <4>1. PICK i \in 1..n : r.seq = snapshotNo + i
        BY <1>2, <3>3
      <4> QED BY <1>1, <3>1, <4>1
    <3> QED BY <3>2, <3>3
  <2> QED BY <2>2, <2>3
<1>6. ShowsLast'
  <2> SUFFICES ASSUME NEW t \in TaskIds
               PROVE  \/ version'[t] = 0 \/ t \in dirty' \cap window'
                      \/ \E s \in emitted' : s.id = t /\ s.version = version'[t]
    BY DEF ShowsLast, Emitted
  <2>1. CASE \E i \in 1..n : t = order[i]
    BY <1>2, <2>1
  <2>2. CASE version'[t] = version[t] /\ (t \in dirty \cap window => t \in dirty' \cap window')
    <3>1. \/ version[t] = 0 \/ t \in dirty \cap window
          \/ \E s \in emitted : s.id = t /\ s.version = version[t]
      BY <1>1 DEF ShowsLast, Emitted
    <3> QED BY <1>2, <2>2, <3>1
  <2> QED BY <2>1, <2>2
<1> QED BY <1>2, <1>3, <1>4, <1>5, <1>6 DEF ReporterInv

\* A step that emits nothing keeps them too, if no task is shown less.
LEMMA QuietKeeps ==
    ASSUME ReporterInv, UNCHANGED <<snapshotNo, emitted, inTransit>>,
           version' \in [TaskIds -> 0..MaxChanges],
           taskStatus' \in [TaskIds -> {"absent", "pending", "running"} \cup Terminal],
           \A t \in TaskIds : taskStatus[t] \in Terminal => taskStatus'[t] \in Terminal,
           \A t \in TaskIds : \/ t \in dirty' \cap window'
                              \/ /\ version'[t] = version[t]
                                 /\ t \in dirty \cap window => t \in dirty' \cap window',
           dirty' \subseteq TaskIds, window' \subseteq TaskIds, beating' \in BOOLEAN,
           DirtyRuns', StartedCounts'
    PROVE  ReporterInv'
<1>1. ReporterTyped' /\ SnapshotsNumbered'
  BY DEF ReporterInv, ReporterTyped, SnapshotsNumbered
<1>2. EndsAreEnds'
  BY DEF ReporterInv, ReporterTyped, EndsAreEnds, Snapshots
<1>3. EndsLast'
  BY DEF ReporterInv, EndsLast, Emitted
<1>4. ShowsLast'
  BY DEF ReporterInv, ShowsLast, Emitted
<1> QED BY <1>1, <1>2, <1>3, <1>4 DEF ReporterInv

\* The tasks of a set in some order: each of them, as a sequence.
LEMMA OrderFacts ==
    ASSUME NEW T \in SUBSET TaskIds, NEW order \in SetToSeqs(T)
    PROVE  \E n \in Nat : /\ order \in [1..n -> TaskIds]
                          /\ \A i \in 1..n : order[i] \in T
                          /\ \A t \in T : \E i \in 1..n : t = order[i]
<1> DEFINE n == Cardinality(T)
           D == 1..n
<1>1. IsFiniteSet(T) /\ n \in Nat
  BY FS_Subset, FS_CardinalityType, ProgressAssumption
<1>2. order \in [D -> T] /\ \A i, j \in D : i # j => order[i] # order[j]
  BY DEF SetToSeqs
<1>3. IsFiniteSet(D) /\ Cardinality(D) = n
  BY <1>1, FS_Interval
<1> HIDE DEF D
<1>4. order \in Surjection(D, T)
  <2>1. order \in Injection(D, T)
    BY <1>2 DEF Injection, IsInjective
  <2> QED BY <1>1, <1>3, <2>1, FS_Injection
<1> QED BY <1>1, <1>2, <1>4 DEF Surjection, D

Statuses == {"absent", "pending", "running"} \cup Terminal

\* A local change of task t, which takes its next version.
LEMMA ChangedFacts ==
    ASSUME ReporterInv, NEW t \in TaskIds, NEW status \in {"pending", "running"} \cup Terminal,
           Changed(t, status)
    PROVE  /\ version' \in [TaskIds -> 0..MaxChanges] /\ taskStatus' \in [TaskIds -> Statuses]
           /\ version'[t] # 0 /\ taskStatus'[t] = status
           /\ \A u \in TaskIds \ {t} : version'[u] = version[u] /\ taskStatus'[u] = taskStatus[u]
           /\ StartedCounts'
<1>1. version \in [TaskIds -> 0..MaxChanges] /\ taskStatus \in [TaskIds -> Statuses]
  BY DEF ReporterInv, ReporterTyped, Statuses
<1>2. /\ version[t] < MaxChanges
      /\ version' = [version EXCEPT ![t] = version[t] + 1]
      /\ taskStatus' = [taskStatus EXCEPT ![t] = status]
  BY DEF Changed
<1>3. version[t] + 1 \in 1..MaxChanges
  BY <1>1, <1>2, ProgressAssumption
<1>4. /\ version' \in [TaskIds -> 0..MaxChanges] /\ taskStatus' \in [TaskIds -> Statuses]
  BY <1>1, <1>2, <1>3 DEF Statuses
<1>5. /\ version'[t] # 0 /\ taskStatus'[t] = status
      /\ \A u \in TaskIds \ {t} : version'[u] = version[u] /\ taskStatus'[u] = taskStatus[u]
  BY <1>1, <1>2, <1>3
<1>6. StartedCounts'
  BY <1>5 DEF ReporterInv, StartedCounts
<1> QED BY <1>4, <1>5, <1>6

\* A change that is sent at once.
LEMMA ChangeSentKeeps ==
    ASSUME ReporterInv, NEW t \in TaskIds, NEW status \in {"pending", "running"} \cup Terminal,
           Changed(t, status), Emit(<<t>>), taskStatus[t] \notin Terminal,
           \/ /\ status \notin Terminal /\ dirty' = dirty
              /\ window' \in {window, window \cup {t}}
           \/ dirty' = dirty \ {t} /\ window' = window \ {t},
           beating' = beating
    PROVE  ReporterInv'
<1>1. /\ version' \in [TaskIds -> 0..MaxChanges] /\ taskStatus' \in [TaskIds -> Statuses]
      /\ version'[t] # 0 /\ taskStatus'[t] = status
      /\ \A u \in TaskIds \ {t} : version'[u] = version[u] /\ taskStatus'[u] = taskStatus[u]
      /\ StartedCounts'
  BY ChangedFacts
<1>2. dirty \subseteq TaskIds /\ window \subseteq TaskIds /\ beating \in BOOLEAN /\ DirtyRuns
  BY DEF ReporterInv, ReporterTyped
<1>3. /\ <<t>> \in [1..1 -> TaskIds] /\ \A i \in 1..1 : <<t>>[i] = t
  OBVIOUS
<1>4. status # "absent"
  BY DEF Terminal
<1>5. DirtyRuns'
  BY <1>1, <1>2 DEF DirtyRuns, Terminal
<1>6. \A u \in TaskIds : \/ \E i \in 1..1 : u = <<t>>[i]
                         \/ /\ version'[u] = version[u]
                            /\ u \in dirty \cap window => u \in dirty' \cap window'
  BY <1>1, <1>3
<1>7. \A u \in TaskIds : taskStatus[u] \in Terminal => taskStatus'[u] \in Terminal
  BY <1>1
<1>8. dirty' \subseteq TaskIds /\ window' \subseteq TaskIds /\ beating' \in BOOLEAN
  BY <1>2
<1>9. PICK order : order = <<t>>
  OBVIOUS
<1>10. /\ order \in [1..1 -> TaskIds] /\ Emit(order) /\ 1 \in Nat
       /\ \A i \in 1..1 : /\ version'[order[i]] # 0 /\ taskStatus'[order[i]] # "absent"
                          /\ taskStatus[order[i]] \notin Terminal
                          /\ taskStatus'[order[i]] \in Terminal => 1 = 1
       /\ \A u \in TaskIds : \/ \E i \in 1..1 : u = order[i]
                             \/ /\ version'[u] = version[u]
                                /\ u \in dirty \cap window => u \in dirty' \cap window'
  BY <1>1, <1>3, <1>4, <1>6, <1>9
<1> QED BY <1>1, <1>5, <1>7, <1>8, <1>10, EmitKeeps DEF Statuses

\* Tasks that run are sent again, all of those in T.
LEMMA ResendKeeps ==
    ASSUME ReporterInv, UNCHANGED <<taskStatus, version>>,
           NEW T \in SUBSET TaskIds, \A t \in T : taskStatus[t] \in {"pending", "running"},
           NEW order, NEW n \in Nat, order \in [1..n -> TaskIds], Emit(order),
           \A i \in 1..n : order[i] \in T,
           \A t \in T : \E i \in 1..n : t = order[i],
           dirty' \subseteq dirty, window' \subseteq window, beating' \in BOOLEAN,
           \A t \in (dirty \cap window) \ T : t \in dirty' \cap window'
    PROVE  ReporterInv'
<1>1. /\ version' \in [TaskIds -> 0..MaxChanges] /\ taskStatus' \in [TaskIds -> Statuses]
      /\ dirty \subseteq TaskIds /\ window \subseteq TaskIds /\ DirtyRuns /\ StartedCounts
  BY DEF ReporterInv, ReporterTyped, Statuses
<1>2. DirtyRuns' /\ StartedCounts'
  BY <1>1 DEF DirtyRuns, StartedCounts
<1>3. \A i \in 1..n : /\ version'[order[i]] # 0 /\ taskStatus'[order[i]] # "absent"
                      /\ taskStatus[order[i]] \notin Terminal
                      /\ taskStatus'[order[i]] \in Terminal => n = 1
  BY <1>1 DEF StartedCounts, Terminal
<1>4. \A t \in TaskIds : \/ \E i \in 1..n : t = order[i]
                         \/ /\ version'[t] = version[t]
                            /\ t \in dirty \cap window => t \in dirty' \cap window'
  OBVIOUS
<1>5. \A t \in TaskIds : taskStatus[t] \in Terminal => taskStatus'[t] \in Terminal
  OBVIOUS
<1>6. dirty' \subseteq TaskIds /\ window' \subseteq TaskIds
  BY <1>1
<1> QED BY <1>1, <1>2, <1>3, <1>4, <1>5, <1>6, EmitKeeps DEF Statuses

LEMMA ReporterStart == ProgressInit => ReporterInv
<1> SUFFICES ASSUME ProgressInit PROVE ReporterInv
  OBVIOUS
<1>1. 0 \in 0..MaxSnapshots /\ 0 \in 0..MaxChanges
  BY ProgressAssumption
<1>2. ReporterTyped
  BY <1>1 DEF ProgressInit, ReporterTyped
<1> QED BY <1>2 DEF ProgressInit, ReporterInv, SnapshotsNumbered, EndsAreEnds, DirtyRuns,
                    StartedCounts, ShowsLast, EndsLast

LEMMA ReporterStep ==
    ASSUME ReporterInv, ProgressNext
    PROVE  ReporterInv'
<1>1. /\ version \in [TaskIds -> 0..MaxChanges] /\ taskStatus \in [TaskIds -> Statuses]
      /\ dirty \subseteq TaskIds /\ window \subseteq TaskIds /\ beating \in BOOLEAN
      /\ DirtyRuns /\ StartedCounts
  BY DEF ReporterInv, ReporterTyped, Statuses
<1>2. ASSUME NEW t \in TaskIds, StartTask(t) PROVE ReporterInv'
  BY <1>2, ChangeSentKeeps DEF StartTask, Terminal
<1>3. ASSUME NEW t \in TaskIds, NEW status \in Terminal, Finish(t, status) PROVE ReporterInv'
  BY <1>3, ChangeSentKeeps DEF Finish, Terminal
<1>4. ASSUME NEW t \in TaskIds, NEW status \in {"pending", "running"}, Update(t, status)
      PROVE  ReporterInv'
  <2>1. PICK new \in {"pending", "running"} : Changed(t, new)
    BY <1>4 DEF Update
  <2>2. taskStatus[t] \in {"pending", "running"} /\ beating' = beating
    BY <1>4 DEF Update
  <2>3. CASE /\ t \in window /\ dirty' = dirty \cup {t}
             /\ UNCHANGED <<window, snapshotNo, emitted, inTransit>>
    <3>1. /\ version' \in [TaskIds -> 0..MaxChanges] /\ taskStatus' \in [TaskIds -> Statuses]
          /\ version'[t] # 0 /\ taskStatus'[t] = new
          /\ \A u \in TaskIds \ {t} : version'[u] = version[u] /\ taskStatus'[u] = taskStatus[u]
          /\ StartedCounts'
      BY <2>1, ChangedFacts
    <3>2. DirtyRuns'
      BY <1>1, <2>3, <3>1 DEF DirtyRuns
    <3>3. \A u \in TaskIds : taskStatus[u] \in Terminal => taskStatus'[u] \in Terminal
      BY <2>2, <3>1 DEF Terminal
    <3>4. \A u \in TaskIds : \/ u \in dirty' \cap window'
                             \/ /\ version'[u] = version[u]
                                /\ u \in dirty \cap window => u \in dirty' \cap window'
      BY <2>3, <3>1
    <3> QED BY <1>1, <2>2, <2>3, <3>1, <3>2, <3>3, <3>4, QuietKeeps DEF Statuses
  <2>4. CASE /\ Emit(<<t>>) /\ UNCHANGED dirty
             /\ window' = IF Throttled THEN window \cup {t} ELSE window
    BY <2>1, <2>2, <2>4, ChangeSentKeeps DEF Terminal
  <2> QED BY <1>4, <2>3, <2>4 DEF Update
<1>5. ASSUME NEW t \in TaskIds, WindowEnds(t) PROVE ReporterInv'
  <2>1. UNCHANGED <<taskStatus, version, beating>>
    BY <1>5 DEF WindowEnds
  <2>2. CASE t \in dirty
    <3>1. dirty' = dirty \ {t} /\ Emit(<<t>>) /\ window' = window
      BY <1>5, <2>2 DEF WindowEnds
    <3>2. PICK order : order = <<t>>
      OBVIOUS
    <3>3. order \in [1..1 -> TaskIds] /\ \A i \in 1..1 : order[i] = t
      BY <3>2
    <3>4. PICK T : T = {t}
      OBVIOUS
    <3>5. T \in SUBSET TaskIds /\ \A u \in T : taskStatus[u] \in {"pending", "running"}
      BY <1>1, <2>2, <3>4 DEF DirtyRuns
    <3>6. /\ \A i \in 1..1 : order[i] \in T
          /\ \A u \in T : \E i \in 1..1 : u = order[i]
      BY <3>3, <3>4
    <3>7. /\ dirty' \subseteq dirty /\ window' \subseteq window /\ beating' \in BOOLEAN
          /\ \A u \in (dirty \cap window) \ T : u \in dirty' \cap window'
      BY <1>1, <2>1, <3>1, <3>4
    <3>8. /\ ReporterInv /\ UNCHANGED <<taskStatus, version>> /\ 1 \in Nat
          /\ Emit(order) /\ order \in [1..1 -> TaskIds]
      BY <2>1, <3>1, <3>2, <3>3
    <3> QED BY ONLY <3>5, <3>6, <3>7, <3>8, ResendKeeps
  <2>3. CASE t \notin dirty
    <3>1. window' = window \ {t} /\ UNCHANGED <<dirty, snapshotNo, emitted, inTransit>>
      BY <1>5, <2>3 DEF WindowEnds
    <3>2. DirtyRuns' /\ StartedCounts'
      BY <1>1, <2>1, <3>1 DEF DirtyRuns, StartedCounts
    <3> QED BY <1>1, <2>1, <2>3, <3>1, <3>2, QuietKeeps DEF Statuses
  <2> QED BY <2>2, <2>3
<1>6. CASE Heartbeat
  <2> DEFINE T == {t \in TaskIds : taskStatus[t] = "running"}
  <2>1. PICK order \in SetToSeqs(T) : Emit(order)
    BY <1>6 DEF Heartbeat
  <2>2. /\ dirty' = {t \in dirty : taskStatus[t] # "running"}
        /\ UNCHANGED <<taskStatus, version, window, beating>>
    BY <1>6 DEF Heartbeat
  <2>3. /\ T \in SUBSET TaskIds /\ \A t \in T : taskStatus[t] \in {"pending", "running"}
        /\ dirty' \subseteq dirty /\ window' \subseteq window /\ beating' \in BOOLEAN
        /\ \A t \in (dirty \cap window) \ T : t \in dirty' \cap window'
    BY <1>1, <2>2
  <2> HIDE DEF T
  <2>4. PICK n \in Nat : /\ order \in [1..n -> TaskIds]
                         /\ \A i \in 1..n : order[i] \in T
                         /\ \A t \in T : \E i \in 1..n : t = order[i]
    BY <2>1, <2>3, OrderFacts
  <2> QED BY <2>1, <2>2, <2>3, <2>4, ResendKeeps
<1>7. CASE CloseReporter
  <2>1. PICK order \in SetToSeqs(dirty) : Emit(order)
    BY <1>7 DEF CloseReporter
  <2>2. PICK n \in Nat : /\ order \in [1..n -> TaskIds]
                         /\ \A i \in 1..n : order[i] \in dirty
                         /\ \A t \in dirty : \E i \in 1..n : t = order[i]
    BY <1>1, <2>1, OrderFacts
  <2>3. /\ dirty' = {} /\ window' = {} /\ beating' = FALSE /\ UNCHANGED <<taskStatus, version>>
    BY <1>7 DEF CloseReporter
  <2>4. \A t \in dirty : taskStatus[t] \in {"pending", "running"}
    BY <1>1 DEF DirtyRuns
  <2>5. /\ dirty \in SUBSET TaskIds /\ dirty' \subseteq dirty /\ window' \subseteq window
        /\ beating' \in BOOLEAN
        /\ \A t \in (dirty \cap window) \ dirty : t \in dirty' \cap window'
    BY <1>1, <2>3
  <2>6. UNCHANGED <<taskStatus, version>>
    BY <2>3
  <2> QED BY <2>1, <2>2, <2>4, <2>5, <2>6, ResendKeeps
<1>8. ASSUME NEW s \in inTransit, ReceiveSnapshot(s) PROVE ReporterInv'
  <2>1. UNCHANGED <<localVars, snapshotNo, emitted, inTransit>>
    BY <1>8 DEF ReceiveSnapshot
  <2> QED BY <2>1 DEF localVars, ReporterInv, ReporterTyped, SnapshotsNumbered, EndsAreEnds,
                      DirtyRuns, StartedCounts, ShowsLast, EndsLast, Emitted
<1> QED BY <1>2, <1>3, <1>4, <1>5, <1>6, <1>7, <1>8 DEF ProgressNext

\* RemoveAt: the elements before k, and those behind it one place further up.
LEMMA RemoveAtFacts ==
    ASSUME NEW S, NEW s \in Seq(S), NEW k \in 1..Len(s)
    PROVE  /\ RemoveAt(s, k) \in Seq(S) /\ Len(RemoveAt(s, k)) = Len(s) - 1
           /\ \A i \in 1..(Len(s) - 1) : RemoveAt(s, k)[i] = IF i < k THEN s[i] ELSE s[i + 1]
<1> DEFINE a == SubSeq(s, 1, k - 1)
           b == SubSeq(s, k + 1, Len(s))
<1>1. Len(s) \in Nat
  OBVIOUS
<1>2. /\ a \in Seq(S) /\ Len(a) = k - 1 /\ \A i \in 1..(k - 1) : a[i] = s[i]
  BY <1>1
<1>3. /\ b \in Seq(S) /\ Len(b) = Len(s) - k /\ \A i \in 1..(Len(s) - k) : b[i] = s[i + k]
  BY <1>1
<1> HIDE DEF a, b
<1>4. /\ a \o b \in Seq(S) /\ Len(a \o b) = Len(s) - 1
      /\ \A i \in 1..(Len(s) - 1) : (a \o b)[i] = IF i <= Len(a) THEN a[i] ELSE b[i - Len(a)]
  <2>1. /\ a \o b \in Seq(S) /\ Len(a \o b) = Len(a) + Len(b)
        /\ \A i \in 1..(Len(a) + Len(b)) : (a \o b)[i] = IF i <= Len(a) THEN a[i] ELSE b[i - Len(a)]
    BY <1>2, <1>3, ConcatProperties
  <2>2. Len(a) + Len(b) = Len(s) - 1
    BY <1>1, <1>2, <1>3
  <2> QED BY <2>1, <2>2
<1>5. ASSUME NEW i \in 1..(Len(s) - 1)
      PROVE  (a \o b)[i] = IF i < k THEN s[i] ELSE s[i + 1]
  <2>1. CASE i < k
    <3>1. i \in 1..(k - 1) /\ i <= Len(a)
      BY <1>1, <1>2, <2>1
    <3> QED BY <1>2, <1>4, <2>1, <3>1
  <2>2. CASE ~(i < k)
    <3>1. i - (k - 1) \in 1..(Len(s) - k) /\ ~(i <= Len(a)) /\ (i - (k - 1)) + k = i + 1
      BY <1>1, <1>2, <2>2
    <3>2. (a \o b)[i] = b[i - (k - 1)]
      BY <1>2, <1>4, <3>1
    <3> QED BY <1>3, <2>2, <3>1, <3>2
  <2> QED BY <2>1, <2>2
<1>6. RemoveAt(s, k) = a \o b
  BY DEF RemoveAt, a, b
<1> QED BY <1>4, <1>5, <1>6

LEMMA NatMax ==
    ASSUME NEW T \in SUBSET Nat, T # {}, NEW most \in Nat, \A t \in T : t <= most
    PROVE  \E n \in T : \A m \in T : m <= n
<1> DEFINE above == {n \in Nat : \A t \in T : t <= n}
<1>1. PICK n \in above : \A m \in above : n <= m
  BY NatMin
<1>2. n \in T
  <2> SUFFICES ASSUME n \notin T PROVE FALSE
    OBVIOUS
  <2>1. n - 1 \in above
    <3>1. \A t \in T : t <= n /\ t # n /\ t \in Nat /\ n \in Nat
      BY <1>1
    <3>2. PICK t \in T : TRUE
      OBVIOUS
    <3>3. n - 1 \in Nat
      BY <3>1, <3>2
    <3> QED BY <3>1, <3>3
  <2> QED BY <1>1, <2>1
<1> QED BY <1>1, <1>2

\* evict() finds a task when the map is too long, and one only, not the new.
LEMMA EvictedFacts ==
    ASSUME NEW map \in Seq(Snapshots), NEW keep, MaxTasks < Len(map),
           map[1].id # keep
    PROVE  \E k \in 1..Len(map) : Evicted(map, keep) = {k} /\ map[k].id # keep
<1> DEFINE others == {i \in DOMAIN map : map[i].id # keep}
           ended == {i \in others : map[i].status \in Terminal}
           from == IF ended # {} THEN ended ELSE others
<1>1. DOMAIN map = 1..Len(map) /\ Len(map) \in Nat /\ MaxTasks \in Nat \ {0}
  BY ProgressAssumption
<1>2. 1 \in others
  BY <1>1
<1>3. from \in SUBSET Nat /\ from # {} /\ from \subseteq others
  BY <1>1, <1>2
<1>4. Evicted(map, keep) = {i \in from : \A j \in from : i <= j}
  BY <1>1 DEF Evicted
<1> HIDE DEF from
<1>5. PICK k \in from : \A m \in from : k <= m
  BY <1>3, NatMin
<1>6. \A i \in from : (\A j \in from : i <= j) => i = k
  BY <1>3, <1>5
<1>7. Evicted(map, keep) = {k}
  BY <1>4, <1>5, <1>6
<1> QED BY <1>1, <1>3, <1>7

LEMMA StoreStart == ProgressInit => StoreInv
<1> SUFFICES ASSUME ProgressInit PROVE StoreInv
  OBVIOUS
<1>1. 0 \in 0..MaxSnapshots /\ <<>> \in Seq(Snapshots) /\ Len(<<>>) = 0 /\ 0 <= MaxTasks
  BY ProgressAssumption
<1> QED BY <1>1 DEF ProgressInit, StoreInv

LEMMA StoreStep ==
    ASSUME StoreInv, NEW s \in Snapshots, ReceiveSnapshot(s)
    PROVE  StoreInv'
<1>1. /\ store \in Seq(Snapshots) /\ newest \in [TaskIds -> 0..MaxSnapshots]
      /\ \A i \in 1..Len(store) : store[i].seq = newest[store[i].id]
      /\ \A i, j \in 1..Len(store) : store[i].id = store[j].id => i = j
      /\ Len(store) <= MaxTasks /\ Len(store) \in Nat /\ MaxTasks \in Nat \ {0}
      /\ DOMAIN store = 1..Len(store)
  BY ProgressAssumption DEF StoreInv
<1>2. s.id \in TaskIds /\ s.seq \in 0..MaxSnapshots
  BY ProgressAssumption DEF Snapshots
<1>3. \A i \in 1..Len(store) : store[i] \in Snapshots /\ store[i].id \in TaskIds
  <2>1. \A i \in 1..Len(store) : store[i] \in Snapshots
    BY <1>1
  <2>2. \A r \in Snapshots : r.id \in TaskIds
    BY DEF Snapshots
  <2> QED BY <2>1, <2>2
<1>4. CASE s.id \in Stored
  <2>1. /\ store' = [i \in 1..Len(store) |-> IF store[i].id = s.id THEN s ELSE store[i]]
        /\ newest' = [newest EXCEPT ![s.id] = s.seq]
    BY <1>1, <1>4 DEF ReceiveSnapshot
  <2>2. store' \in Seq(Snapshots) /\ Len(store') = Len(store)
    BY <1>1, <1>3, <2>1
  <2>3. newest' \in [TaskIds -> 0..MaxSnapshots]
    BY <1>1, <1>2, <2>1
  <2>4. \A i \in 1..Len(store) : store'[i].id = store[i].id
    BY <2>1
  <2>5. \A i \in 1..Len(store) : store'[i].seq = newest'[store'[i].id]
    BY <1>1, <1>2, <1>3, <2>1
  <2>6. \A i, j \in 1..Len(store) : store'[i].id = store'[j].id => i = j
    BY <1>1, <2>4
  <2> QED BY <1>1, <2>2, <2>3, <2>5, <2>6 DEF StoreInv
<1>5. CASE s.id \notin Stored
  <2> DEFINE map == Append(store, s)
             gone == Evicted(map, s.id)
  <2>1. /\ store' = IF gone = {} THEN map ELSE RemoveAt(map, CHOOSE i \in gone : TRUE)
        /\ newest' = [t \in TaskIds |-> IF t = s.id THEN s.seq
                          ELSE IF \E i \in gone : map[i].id = t THEN 0 ELSE newest[t]]
    BY <1>5 DEF ReceiveSnapshot
  <2>2. /\ map \in Seq(Snapshots) /\ Len(map) = Len(store) + 1
        /\ \A i \in 1..Len(store) : map[i] = store[i]
        /\ map[Len(store) + 1] = s
    BY <1>1
  <2> HIDE DEF map
  <2>3. \A i \in 1..Len(store) : store[i].id # s.id
    BY <1>1, <1>5 DEF Stored
  <2>4. /\ \A i \in 1..Len(map) :
               /\ map[i] \in Snapshots /\ map[i].id \in TaskIds
               /\ map[i].id = s.id => map[i].seq = s.seq
               /\ map[i].id # s.id => map[i].seq = newest[map[i].id]
        /\ \A i, j \in 1..Len(map) : map[i].id = map[j].id => i = j
    <3>1. \A i \in 1..Len(map) : i \in 1..Len(store) \/ i = Len(store) + 1
      BY <1>1, <2>2
    <3>2. ASSUME NEW i \in 1..Len(map)
          PROVE  /\ map[i] \in Snapshots /\ map[i].id \in TaskIds
                 /\ map[i].id = s.id => map[i].seq = s.seq
                 /\ map[i].id # s.id => map[i].seq = newest[map[i].id]
      BY <1>1, <1>2, <1>3, <2>2, <2>3, <3>1
    <3>3. ASSUME NEW i \in 1..Len(map), NEW j \in 1..Len(map), map[i].id = map[j].id
          PROVE  i = j
      BY <1>1, <2>2, <2>3, <3>1, <3>3
    <3> QED BY <3>2, <3>3
  <2>5. newest' \in [TaskIds -> 0..MaxSnapshots]
    <3>1. 0 \in 0..MaxSnapshots
      BY ProgressAssumption
    <3> HIDE DEF gone
    <3> QED BY <1>1, <1>2, <2>1, <3>1
  <2>6. CASE Len(map) <= MaxTasks
    <3>1. gone = {}
      <4>1. ~(Len(map) > MaxTasks)
        BY <1>1, <2>2, <2>6
      <4> QED BY <4>1 DEF Evicted
    <3> HIDE DEF gone
    <3>2. store' = map
      BY <2>1, <3>1
    <3>3. \A i \in 1..Len(map) : map[i].seq = newest'[map[i].id]
      BY <2>1, <2>4, <3>1
    <3> QED BY <2>2, <2>4, <2>5, <2>6, <3>2, <3>3 DEF StoreInv
  <2>7. CASE ~(Len(map) <= MaxTasks)
    <3>1. 1 \in 1..Len(store) /\ Len(map) = MaxTasks + 1
      BY <1>1, <2>2, <2>7
    <3>2. PICK k \in 1..Len(map) : gone = {k} /\ map[k].id # s.id
      <4>1. map[1].id # s.id /\ MaxTasks < Len(map)
        BY <1>1, <2>2, <2>3, <3>1
      <4> QED BY <2>2, <4>1, EvictedFacts
    <3> HIDE DEF gone
    <3>3. store' = RemoveAt(map, k)
      BY <2>1, <3>2
    <3>4. /\ store' \in Seq(Snapshots) /\ Len(store') = Len(map) - 1
          /\ \A i \in 1..(Len(map) - 1) : store'[i] = IF i < k THEN map[i] ELSE map[i + 1]
      BY <2>2, <3>3, RemoveAtFacts
    <3> DEFINE at(i) == IF i < k THEN i ELSE i + 1
    <3>5. \A i \in 1..Len(store') : at(i) \in 1..Len(map) /\ at(i) # k /\ store'[i] = map[at(i)]
      BY <1>1, <2>2, <3>4
    <3>6. \A i, j \in 1..Len(store') : at(i) = at(j) => i = j
      OBVIOUS
    <3>7. ASSUME NEW m \in 1..Len(map), m # k PROVE map[m].seq = newest'[map[m].id]
      <4>1. map[m].id # map[k].id /\ map[m].id \in TaskIds
        BY <2>4, <3>7
      <4>2. CASE map[m].id = s.id
        BY <2>1, <2>4, <4>1, <4>2
      <4>3. CASE map[m].id # s.id
        <5>1. newest'[map[m].id] = newest[map[m].id]
          BY <2>1, <3>2, <4>1, <4>3
        <5> QED BY <2>4, <4>3, <5>1
      <4> QED BY <4>2, <4>3
    <3> HIDE DEF at
    <3>8. ASSUME NEW i \in 1..Len(store') PROVE store'[i].seq = newest'[store'[i].id]
      <4>1. PICK m \in 1..Len(map) : m # k /\ store'[i] = map[m]
        BY <3>5
      <4> QED BY <3>7, <4>1
    <3>9. ASSUME NEW i \in 1..Len(store'), NEW j \in 1..Len(store'), store'[i].id = store'[j].id
          PROVE  i = j
      <4>1. at(i) \in 1..Len(map) /\ at(j) \in 1..Len(map)
            /\ store'[i] = map[at(i)] /\ store'[j] = map[at(j)]
        BY <3>5
      <4>2. at(i) = at(j)
        BY <2>4, <3>9, <4>1
      <4> QED BY <3>6, <4>2
    <3>10. Len(store') <= MaxTasks
      BY <1>1, <3>1, <3>4
    <3> QED BY <2>5, <3>4, <3>8, <3>9, <3>10 DEF StoreInv
  <2> QED BY <2>6, <2>7
<1> QED BY <1>4, <1>5

LEMMA ProgressStart == ASSUME ProgressInit PROVE ProgressInv
BY ReporterStart, StoreStart DEF ProgressInv

LEMMA ProgressStep ==
    ASSUME ProgressInv, [ProgressNext]_progressVars
    PROVE  ProgressInv'
<1>1. ReporterInv /\ StoreInv
  BY DEF ProgressInv
<1>2. CASE ProgressNext
  <2>1. ReporterInv'
    BY <1>1, <1>2, ReporterStep
  <2>2. CASE UNCHANGED consumerVars
    <3>1. StoreInv'
      BY <1>1, <2>2 DEF consumerVars, StoreInv
    <3> QED BY <2>1, <3>1 DEF ProgressInv
  <2>3. ASSUME NEW s \in inTransit, ReceiveSnapshot(s) PROVE ProgressInv'
    <3>1. s \in Snapshots
      BY <1>1 DEF ReporterInv, ReporterTyped
    <3>2. StoreInv'
      BY <1>1, <2>3, <3>1, StoreStep
    <3> QED BY <2>1, <3>2 DEF ProgressInv
  <2> QED BY <1>2, <2>2, <2>3 DEF ProgressNext, StartTask, WindowEnds, Update, Finish,
                                  Heartbeat, CloseReporter
<1>3. CASE UNCHANGED progressVars
  BY <1>1, <1>3 DEF progressVars, ProgressInv, ReporterInv, ReporterTyped, SnapshotsNumbered,
                    EndsAreEnds, DirtyRuns, StartedCounts, ShowsLast, EndsLast, Emitted, StoreInv
<1> QED BY <1>2, <1>3

LEMMA ProgressInvMeans == ASSUME ProgressInv PROVE ProgressTypeOK /\ ProgressHonest
<1>1. ReporterInv /\ StoreInv /\ DOMAIN store = 1..Len(store)
  BY DEF ProgressInv, StoreInv
<1> QED BY <1>1 DEF ReporterInv, ReporterTyped, StoreInv, ShowsLast, EndsLast,
                    ProgressTypeOK, ProgressHonest

-----------------------------------------------------------------------------
(* LogTrace: what the wire loses is counted, nothing is told twice, and      *)
(* nothing waits that no flush will send.                                    *)

\* The bytes of a buffer are a running sum.
LEMMA BytesSum ==
    ASSUME NEW s \in Seq(LogEntry)
    PROVE  \E f \in [0..Len(s) -> Nat] :
              /\ f[0] = 0 /\ Bytes(s) = f[Len(s)]
              /\ \A n \in 1..Len(s) : f[n] = f[n - 1] + (s[n].size + 1)
<1> DEFINE N == Len(s)
           w == [i \in 1..N |-> s[i].size + 1]
           Own(f) == f = [i \in 0..N |-> IF i = 0 THEN 0 ELSE f[i - 1] + (s[i].size + 1)]
<1>1. N \in Nat /\ \A i \in 1..N : s[i].size \in Nat
  <2>1. \A i \in 1..N : s[i] \in LogEntry
    OBVIOUS
  <2>2. \A e \in LogEntry : e.size \in Nat
    BY LogTraceAssumption DEF LogEntry
  <2> QED BY <2>1, <2>2
<1>2. \A i \in 1..N : w[i] = s[i].size + 1 /\ w[i] \in Nat
  BY <1>1
<1>3. \A f : Own(f) <=> IsSum(f, N, w)
  <2> SUFFICES ASSUME NEW f PROVE Own(f) <=> IsSum(f, N, w)
    OBVIOUS
  <2>1. \A i \in 0..N : i # 0 => i \in 1..N
    BY <1>1
  <2>2. [i \in 0..N |-> IF i = 0 THEN 0 ELSE f[i - 1] + (s[i].size + 1)]
        = [i \in 0..N |-> IF i = 0 THEN 0 ELSE f[i - 1] + w[i]]
    BY <1>2, <2>1
  <2> QED BY <2>2 DEF IsSum
<1>4. Bytes(s) = (CHOOSE f : Own(f))[N]
  BY DEF Bytes
<1> HIDE DEF N, w, Own
<1>5. \E f : Own(f)
  BY <1>1, <1>2, <1>3, SumExists
<1>6. PICK f : Own(f) /\ Bytes(s) = f[N]
  BY <1>4, <1>5
<1>7. /\ f \in [0..N -> Nat] /\ f[0] = 0
      /\ \A n \in 1..N : f[n] = f[n - 1] + w[n]
  <2>1. N \in Nat /\ IsSum(f, N, w) /\ \A i \in 1..N : w[i] \in Nat
    BY <1>1, <1>2, <1>3, <1>6
  <2> QED BY ONLY <2>1, SumFacts
<1> QED BY <1>2, <1>6, <1>7 DEF N

LEMMA BytesGrow ==
    ASSUME NEW s \in Seq(LogEntry), NEW e \in LogEntry
    PROVE  Bytes(s) \in Nat /\ Bytes(Append(s, e)) = Bytes(s) + (e.size + 1)
<1> DEFINE t == Append(s, e)
<1>1. t \in Seq(LogEntry) /\ Len(t) = Len(s) + 1 /\ Len(s) \in Nat
      /\ \A i \in 1..Len(s) : t[i] = s[i]
  OBVIOUS
<1>2. t[Len(s) + 1] = e
  OBVIOUS
<1>3. PICK f \in [0..Len(s) -> Nat] :
          /\ f[0] = 0 /\ Bytes(s) = f[Len(s)]
          /\ \A n \in 1..Len(s) : f[n] = f[n - 1] + (s[n].size + 1)
  BY BytesSum
<1> HIDE DEF t
<1>4. PICK g \in [0..Len(t) -> Nat] :
          /\ g[0] = 0 /\ Bytes(t) = g[Len(t)]
          /\ \A n \in 1..Len(t) : g[n] = g[n - 1] + (t[n].size + 1)
  BY <1>1, BytesSum
<1>5. \A n \in 0..Len(s) : g[n] = f[n]
  <2> DEFINE T == {n \in 0..Len(s) : g[n] # f[n]}
  <2> SUFFICES ASSUME T # {} PROVE FALSE
    OBVIOUS
  <2>1. T \in SUBSET Nat
    BY <1>1
  <2>2. PICK n \in T : \A m \in T : n <= m
    BY <2>1, NatMin
  <2>3. n \in 1..Len(s) /\ n - 1 \in 0..Len(s) /\ ~(n <= n - 1) /\ n \in 1..Len(t)
    BY <1>1, <1>3, <1>4
  <2>4. g[n - 1] = f[n - 1]
    BY <2>2, <2>3
  <2>5. g[n] = g[n - 1] + (t[n].size + 1) /\ f[n] = f[n - 1] + (s[n].size + 1)
    BY <1>3, <1>4, <2>3
  <2> QED BY <1>1, <2>3, <2>4, <2>5
<1>6. g[Len(s) + 1] = g[Len(s)] + (e.size + 1)
  BY <1>1, <1>2, <1>4
<1> QED BY <1>1, <1>3, <1>4, <1>5, <1>6 DEF t

LEMMA BytesNone == Bytes(<<>>) = 0
<1>1. <<>> \in Seq(LogEntry) /\ Len(<<>>) = 0
  OBVIOUS
<1> QED BY <1>1, BytesSum

-----------------------------------------------------------------------------
\* The entries of a batch have numbers of their own.
OwnNumbers(b) == \A i, j \in 1..Len(b) : b[i].seq = b[j].seq => i = j

NumbersIn(set) == UNION {SeqsOf(b) : b \in set}
Accounted == 1..logSeq = dropped \cup SeqsOf(logBuffer) \cup NumbersIn(batches)
WillFlush == logBuffer # <<>> => ~logClosed /\ (logTimer \/ ~Timed)

\* What holds LossIsExact up: the consumer's account is what has arrived, and who
\* is told is in it.
ReporterHolds ==
    /\ logBuffer \in Seq(LogEntry)
    /\ logTimer \in BOOLEAN /\ sentOnce \in BOOLEAN /\ logClosed \in BOOLEAN
    /\ logSeq \in 0..MaxLogs
    /\ \A b \in batches : b \in Seq(LogEntry) /\ OwnNumbers(b)
    /\ OwnNumbers(logBuffer)
    /\ dropped \subseteq 1..MaxLogs
    /\ Accounted /\ WillFlush
    /\ Bytes(logBuffer) <= MaxBatchBytes + 1

ConsumerHolds ==
    /\ maxSeq \in 0..MaxLogs /\ seen \subseteq 1..MaxLogs /\ arrived \subseteq 1..MaxLogs
    /\ seen \subseteq 1..maxSeq
    /\ ring \subseteq LogEntry
    /\ told \in [1..MaxLogs -> Nat]
    /\ \A k \in 1..MaxLogs : told[k] <= 1 /\ (told[k] # 0 => k \in seen)
    /\ threwInBatch \in BOOLEAN
    /\ threwInBatch \/ seen = arrived

LogInv == ReporterHolds /\ ConsumerHolds

LEMMA SeqsOfFacts ==
    ASSUME NEW s \in Seq(LogEntry), NEW e \in LogEntry
    PROVE  /\ SeqsOf(s) = {s[i].seq : i \in 1..Len(s)} /\ SeqsOf(s) \subseteq 1..MaxLogs
           /\ SeqsOf(Append(s, e)) = SeqsOf(s) \cup {e.seq}
           /\ e.seq \notin SeqsOf(s) /\ OwnNumbers(s) => OwnNumbers(Append(s, e))
<1>1. /\ DOMAIN s = 1..Len(s) /\ Len(s) \in Nat
      /\ \A i \in 1..Len(s) : s[i] \in LogEntry
  OBVIOUS
<1>2. \A x \in LogEntry : x.seq \in 1..MaxLogs
  BY DEF LogEntry
<1>3. SeqsOf(s) = {s[i].seq : i \in 1..Len(s)} /\ SeqsOf(s) \subseteq 1..MaxLogs
  BY <1>1, <1>2 DEF SeqsOf
<1> DEFINE t == Append(s, e)
<1>4. /\ DOMAIN t = 1..(Len(s) + 1) /\ Len(t) = Len(s) + 1 /\ t[Len(s) + 1] = e
      /\ \A i \in 1..Len(s) : t[i] = s[i]
  BY <1>1
<1> HIDE DEF t
<1>5. \A i \in 1..(Len(s) + 1) : i \in 1..Len(s) \/ i = Len(s) + 1
  BY <1>1
<1>6. SeqsOf(t) = SeqsOf(s) \cup {e.seq}
  <2>1. ASSUME NEW k \in SeqsOf(t) PROVE k \in SeqsOf(s) \cup {e.seq}
    <3>1. PICK i \in 1..(Len(s) + 1) : k = t[i].seq
      BY <1>4 DEF SeqsOf
    <3>2. CASE i \in 1..Len(s)
      BY <1>1, <1>4, <3>1, <3>2 DEF SeqsOf
    <3>3. CASE i = Len(s) + 1
      BY <1>4, <3>1, <3>3
    <3> QED BY <1>5, <3>2, <3>3
  <2>2. ASSUME NEW k \in SeqsOf(s) PROVE k \in SeqsOf(t)
    <3>1. PICK i \in 1..Len(s) : k = s[i].seq
      BY <1>1 DEF SeqsOf
    <3>2. i \in 1..(Len(s) + 1) /\ k = t[i].seq
      BY <1>1, <1>4, <3>1
    <3> QED BY <1>4, <3>2 DEF SeqsOf
  <2>3. e.seq \in SeqsOf(t)
    <3>1. Len(s) + 1 \in 1..(Len(s) + 1)
      BY <1>1
    <3> QED BY <1>4, <3>1 DEF SeqsOf
  <2> QED BY <2>1, <2>2, <2>3
<1>7. ASSUME e.seq \notin SeqsOf(s), OwnNumbers(s) PROVE OwnNumbers(t)
  <2> SUFFICES ASSUME NEW i \in 1..(Len(s) + 1), NEW j \in 1..(Len(s) + 1),
                      t[i].seq = t[j].seq
               PROVE  i = j
    BY <1>4 DEF OwnNumbers
  <2>1. \A k \in 1..Len(s) : s[k].seq # e.seq
    BY <1>3, <1>7
  <2>2. CASE i \in 1..Len(s) /\ j \in 1..Len(s)
    BY <1>4, <1>7, <2>2 DEF OwnNumbers
  <2> QED BY <1>4, <1>5, <2>1, <2>2
<1> QED BY <1>3, <1>6, <1>7 DEF t

LEMMA NumbersInFacts ==
    /\ \A S, T : NumbersIn(S \cup T) = NumbersIn(S) \cup NumbersIn(T)
    /\ \A b : NumbersIn({b}) = SeqsOf(b)
    /\ NumbersIn({}) = {}
<1>1. ASSUME NEW S, NEW T, NEW k
      PROVE  k \in NumbersIn(S \cup T) <=> k \in NumbersIn(S) \/ k \in NumbersIn(T)
  <2>1. \A X : k \in NumbersIn(X) <=> \E b \in X : k \in SeqsOf(b)
    BY DEF NumbersIn
  <2> QED BY <2>1
<1>2. \A b : NumbersIn({b}) = SeqsOf(b)
  BY DEF NumbersIn
<1>3. NumbersIn({}) = {}
  BY DEF NumbersIn
<1> QED BY <1>1, <1>2, <1>3

\* No batch given to the sink is forgotten.
LEMMA SinkFacts ==
    ASSUME NEW out, Sink(out)
    PROVE  /\ batches \subseteq batches' /\ batches' \subseteq batches \cup out
           /\ dropped' \cup NumbersIn(batches') = dropped \cup NumbersIn(batches) \cup NumbersIn(out)
           /\ dropped' \subseteq dropped \cup NumbersIn(out)
<1>1. PICK taken \in SUBSET out :
          /\ batches' = batches \cup taken
          /\ dropped' = dropped \cup NumbersIn(out \ taken)
  BY DEF Sink, NumbersIn
<1>2. taken \cup (out \ taken) = out
  OBVIOUS
<1>3. /\ NumbersIn(batches') = NumbersIn(batches) \cup NumbersIn(taken)
      /\ NumbersIn(out) = NumbersIn(taken) \cup NumbersIn(out \ taken)
  BY <1>1, <1>2, NumbersInFacts
<1> QED BY <1>1, <1>3

LEMMA LogStart == ASSUME LogInit PROVE LogInv
<1>1. 0 \in 0..MaxLogs /\ <<>> \in Seq(LogEntry) /\ Len(<<>>) = 0 /\ 1..0 = {}
  BY LogTraceAssumption
<1>2. SeqsOf(<<>>) = {}
  BY DEF SeqsOf
<1>3. OwnNumbers(<<>>)
  BY <1>1 DEF OwnNumbers
<1>4. Bytes(logBuffer) <= MaxBatchBytes + 1
  BY BytesNone, LogTraceAssumption DEF LogInit
<1>5. Accounted
  BY <1>1, <1>2, NumbersInFacts DEF LogInit, Accounted
<1>6. ReporterHolds
  <2>1. /\ logBuffer = <<>> /\ logTimer = FALSE /\ sentOnce = FALSE /\ logClosed = FALSE
        /\ logSeq = 0 /\ batches = {} /\ dropped = {}
    BY DEF LogInit
  <2>2. OwnNumbers(logBuffer)
    BY <1>3, <2>1
  <2>3. WillFlush
    BY <2>1 DEF WillFlush
  <2> QED BY <1>1, <1>4, <1>5, <2>1, <2>2, <2>3 DEF ReporterHolds
<1>7. ConsumerHolds
  <2>1. told = [k \in 1..MaxLogs |-> 0] /\ threwInBatch = FALSE /\ maxSeq = 0
        /\ seen = {} /\ ring = {} /\ arrived = {}
    BY DEF LogInit
  <2>2. told \in [1..MaxLogs -> Nat] /\ \A k \in 1..MaxLogs : told[k] = 0
    BY <2>1
  <2>3. threwInBatch \in BOOLEAN /\ (threwInBatch \/ seen = arrived)
    BY <2>1
  <2>4. /\ maxSeq \in 0..MaxLogs /\ seen \subseteq 1..MaxLogs /\ arrived \subseteq 1..MaxLogs
        /\ seen \subseteq 1..maxSeq /\ ring \subseteq LogEntry
    BY <1>1, <2>1
  <2>5. \A k \in 1..MaxLogs : told[k] <= 1 /\ (told[k] # 0 => k \in seen)
    BY <2>2
  <2> QED BY <2>2, <2>3, <2>4, <2>5 DEF ConsumerHolds
<1> QED BY <1>6, <1>7 DEF LogInv

\* log(), whatever is sent of what waits and of the entry.
LEMMA LogKeeps ==
    ASSUME ReporterHolds, NEW level \in {"debug", "error"}, NEW size \in 1..(MaxBatchBytes + 1),
           Log(level, size)
    PROVE  ReporterHolds'
<1> DEFINE cut == IF size > MaxBatchBytes THEN MaxBatchBytes ELSE size
           entry == [seq |-> logSeq + 1, level |-> level, size |-> cut]
           exceeds == logBuffer # <<>> /\ Bytes(logBuffer) + cut + 1 > MaxBatchBytes
           before == IF exceeds THEN {logBuffer} ELSE {}
           kept == IF exceeds THEN <<>> ELSE logBuffer
           buffer == Append(kept, entry)
           leads == Timed /\ ~sentOnce /\ ~exceeds
           atOnce == level = "error" \/ Len(buffer) >= FlushCount \/ leads
           out == IF atOnce THEN before \cup {buffer} ELSE before
<1>1. /\ ~logClosed /\ logSeq < MaxLogs /\ logSeq' = logSeq + 1
      /\ Sink(out)
      /\ logBuffer' = IF atOnce THEN <<>> ELSE buffer
      /\ sentOnce' = (sentOnce \/ atOnce \/ exceeds)
      /\ logTimer' = (~atOnce /\ Timed)
      /\ logClosed' = logClosed
  BY DEF Log
<1>2. /\ logBuffer \in Seq(LogEntry) /\ logSeq \in 0..MaxLogs /\ MaxLogs \in Nat
      /\ OwnNumbers(logBuffer) /\ dropped \subseteq 1..MaxLogs
      /\ \A b \in batches : b \in Seq(LogEntry) /\ OwnNumbers(b)
      /\ Accounted /\ Bytes(logBuffer) <= MaxBatchBytes + 1
      /\ MaxBatchBytes \in Nat \ {0} /\ Timed \in BOOLEAN
  BY LogTraceAssumption DEF ReporterHolds
<1>3. cut \in 1..MaxBatchBytes
  BY <1>2
<1>4. logSeq + 1 \in 1..MaxLogs
  BY <1>1, <1>2
<1> HIDE DEF cut
<1>5. entry \in LogEntry /\ entry.seq = logSeq + 1 /\ entry.size = cut
  BY <1>3, <1>4 DEF LogEntry
<1> HIDE DEF entry
<1>6. <<>> \in Seq(LogEntry) /\ SeqsOf(<<>>) = {} /\ OwnNumbers(<<>>) /\ Bytes(<<>>) = 0
  BY BytesNone DEF SeqsOf, OwnNumbers
<1>7. Bytes(logBuffer) \in Nat
  BY <1>2, <1>5, BytesGrow
<1>8. /\ kept \in Seq(LogEntry) /\ OwnNumbers(kept) /\ SeqsOf(kept) \subseteq SeqsOf(logBuffer)
      /\ Bytes(kept) \in Nat /\ Bytes(kept) + (cut + 1) <= MaxBatchBytes + 1
      /\ SeqsOf(logBuffer) = SeqsOf(kept) \cup NumbersIn(before)
  <2>1. CASE exceeds
    <3>1. kept = <<>> /\ before = {logBuffer}
      BY <2>1
    <3>2. NumbersIn({logBuffer}) = SeqsOf(logBuffer)
      BY NumbersInFacts
    <3> HIDE DEF kept, before
    <3> QED BY <1>2, <1>3, <1>6, <3>1, <3>2
  <2>2. CASE ~exceeds
    <3>1. kept = logBuffer /\ before = {}
      BY <2>2
    <3>2. Bytes(logBuffer) + (cut + 1) <= MaxBatchBytes + 1
      <4>1. CASE logBuffer = <<>>
        BY <1>2, <1>3, <1>6, <4>1
      <4>2. CASE logBuffer # <<>>
        BY <1>2, <1>3, <1>7, <2>2, <4>2
      <4> QED BY <4>1, <4>2
    <3>3. NumbersIn({}) = {}
      BY NumbersInFacts
    <3> HIDE DEF kept, before
    <3> QED BY <1>2, <1>7, <3>1, <3>2, <3>3
  <2> QED BY <2>1, <2>2
<1>9. \A b \in before : b = logBuffer
  OBVIOUS
<1> HIDE DEF exceeds, before, kept
<1>10. /\ buffer \in Seq(LogEntry) /\ SeqsOf(buffer) = SeqsOf(kept) \cup {logSeq + 1}
       /\ Bytes(buffer) <= MaxBatchBytes + 1 /\ OwnNumbers(buffer)
  <2>1. buffer \in Seq(LogEntry)
    BY <1>5, <1>8
  <2>2. logSeq + 1 \notin SeqsOf(kept)
    <3>1. SeqsOf(kept) \subseteq 1..logSeq
      BY <1>2, <1>8 DEF Accounted
    <3> QED BY <1>2, <3>1
  <2> QED BY <1>5, <1>8, <2>1, <2>2, SeqsOfFacts, BytesGrow
<1> HIDE DEF buffer, leads, atOnce
<1>11. \A b \in out : b = logBuffer \/ b = buffer
  BY <1>9
<1>12. SeqsOf(logBuffer) \cup {logSeq + 1} =
           SeqsOf(logBuffer') \cup NumbersIn(out)
  <2>1. CASE atOnce
    <3>1. out = before \cup {buffer} /\ SeqsOf(logBuffer') = {}
      BY <1>1, <1>6, <2>1
    <3>2. NumbersIn(before \cup {buffer}) =
              NumbersIn(before) \cup SeqsOf(buffer)
      <4>1. NumbersIn(before \cup {buffer}) = NumbersIn(before) \cup NumbersIn({buffer})
        BY NumbersInFacts
      <4>2. NumbersIn({buffer}) = SeqsOf(buffer)
        BY NumbersInFacts
      <4> QED BY <4>1, <4>2
    <3> QED BY <1>8, <1>10, <3>1, <3>2
  <2>2. CASE ~atOnce
    <3>1. out = before /\ SeqsOf(logBuffer') = SeqsOf(buffer)
      BY <1>1, <2>2
    <3> QED BY <1>8, <1>10, <3>1
  <2> QED BY <2>1, <2>2
<1> HIDE DEF out
<1>13. /\ batches' \subseteq batches \cup out
       /\ dropped' \cup NumbersIn(batches') =
              dropped \cup NumbersIn(batches) \cup NumbersIn(out)
       /\ dropped' \subseteq dropped \cup NumbersIn(out)
  BY <1>1, SinkFacts
<1>14. Accounted'
  <2>1. 1..(logSeq + 1) = 1..logSeq \cup {logSeq + 1}
    BY <1>2
  <2>2. 1..logSeq' = dropped' \cup SeqsOf(logBuffer') \cup NumbersIn(batches')
    BY <1>1, <1>2, <1>12, <1>13, <2>1 DEF Accounted
  <2> QED BY <2>2 DEF Accounted, SeqsOf, NumbersIn
<1>15. /\ logBuffer' \in Seq(LogEntry) /\ OwnNumbers(logBuffer') /\ Bytes(logBuffer') <= MaxBatchBytes + 1
  BY <1>1, <1>2, <1>6, <1>10
<1>16. \A b \in batches' : b \in Seq(LogEntry) /\ OwnNumbers(b)
  BY <1>2, <1>10, <1>11, <1>13
<1>17. dropped' \subseteq 1..MaxLogs
  <2>1. SeqsOf(logBuffer) \subseteq 1..MaxLogs
    BY <1>2, <1>5, SeqsOfFacts
  <2> QED BY <1>2, <1>4, <1>12, <1>13, <2>1
<1>18. WillFlush'
  BY <1>1, <1>2 DEF WillFlush
<1>19. logSeq' \in 0..MaxLogs /\ logTimer' \in BOOLEAN /\ sentOnce' \in BOOLEAN /\ logClosed' \in BOOLEAN
  BY <1>1, <1>2, <1>4 DEF ReporterHolds
<1> QED BY <1>14, <1>15, <1>16, <1>17, <1>18, <1>19 DEF ReporterHolds, OwnNumbers, Bytes

\* flush() and close().
LEMMA FlushLogsKeeps ==
    ASSUME ReporterHolds, NEW closes \in BOOLEAN, FlushLogs(closes)
    PROVE  ReporterHolds'
<1> DEFINE out == IF logBuffer = <<>> THEN {} ELSE {logBuffer}
<1>1. /\ ~logClosed /\ Sink(out) /\ logBuffer' = <<>> /\ logTimer' = FALSE
      /\ sentOnce' = (sentOnce \/ logBuffer # <<>>) /\ logClosed' = closes /\ logSeq' = logSeq
  BY DEF FlushLogs
<1>2. /\ logBuffer \in Seq(LogEntry) /\ OwnNumbers(logBuffer)
      /\ \A b \in batches : b \in Seq(LogEntry) /\ OwnNumbers(b)
      /\ dropped \subseteq 1..MaxLogs /\ logSeq \in 0..MaxLogs /\ MaxLogs \in Nat /\ Accounted
      /\ MaxBatchBytes \in Nat
  BY LogTraceAssumption DEF ReporterHolds
<1>3. <<>> \in Seq(LogEntry) /\ SeqsOf(<<>>) = {} /\ OwnNumbers(<<>>) /\ Bytes(<<>>) = 0
  BY BytesNone DEF SeqsOf, OwnNumbers
<1>4. NumbersIn(out) = SeqsOf(logBuffer) /\ \A b \in out : b = logBuffer
  BY <1>3, NumbersInFacts
<1> HIDE DEF out
<1>5. /\ batches' \subseteq batches \cup out
      /\ dropped' \cup NumbersIn(batches') = dropped \cup NumbersIn(batches) \cup NumbersIn(out)
      /\ dropped' \subseteq dropped \cup NumbersIn(out)
  BY <1>1, SinkFacts
<1>6. Accounted'
  <2>1. 1..logSeq' = dropped' \cup SeqsOf(logBuffer') \cup NumbersIn(batches')
    BY <1>1, <1>2, <1>3, <1>4, <1>5 DEF Accounted
  <2> QED BY <2>1 DEF Accounted, SeqsOf, NumbersIn
<1>7. dropped' \subseteq 1..MaxLogs
  <2>1. 1..logSeq \subseteq 1..MaxLogs
    BY <1>2
  <2> QED BY <1>2, <1>4, <1>5, <2>1 DEF Accounted
<1>8. /\ logBuffer' \in Seq(LogEntry) /\ OwnNumbers(logBuffer') /\ Bytes(logBuffer') <= MaxBatchBytes + 1
  BY <1>1, <1>2, <1>3
<1>9. \A b \in batches' : b \in Seq(LogEntry) /\ OwnNumbers(b)
  BY <1>2, <1>4, <1>5
<1>10. WillFlush' /\ logTimer' \in BOOLEAN /\ sentOnce' \in BOOLEAN /\ logClosed' \in BOOLEAN
       /\ logSeq' \in 0..MaxLogs
  BY <1>1, <1>2 DEF WillFlush, ReporterHolds
<1> QED BY <1>6, <1>7, <1>8, <1>9, <1>10 DEF ReporterHolds, OwnNumbers, Bytes

\* What the consumer does leaves the reporter alone, and the reverse.
reporterAndWire == <<reporterVars, batches>>
readerVars == <<seen, maxSeq, ring, told, arrived, threwInBatch>>

LEMMA ReporterAlone ==
    ASSUME ReporterHolds, UNCHANGED reporterAndWire PROVE ReporterHolds'
<1>1. /\ logBuffer' = logBuffer /\ logTimer' = logTimer /\ sentOnce' = sentOnce
      /\ logClosed' = logClosed /\ logSeq' = logSeq /\ dropped' = dropped /\ batches' = batches
  BY DEF reporterAndWire, reporterVars
<1>2. Accounted' /\ WillFlush' /\ Bytes(logBuffer)' = Bytes(logBuffer)
  BY <1>1 DEF ReporterHolds, Accounted, WillFlush, Bytes, SeqsOf, NumbersIn
<1> QED BY <1>1, <1>2 DEF ReporterHolds, OwnNumbers

LEMMA ReaderAlone ==
    ASSUME ConsumerHolds, UNCHANGED readerVars PROVE ConsumerHolds'
BY DEF ConsumerHolds, readerVars

LEMMA MaxOfFacts ==
    ASSUME NEW set \in SUBSET (1..MaxLogs), NEW least \in 0..MaxLogs
    PROVE  /\ MaxOf(set, least) \in 0..MaxLogs /\ least <= MaxOf(set, least)
           /\ \A j \in set : j <= MaxOf(set, least)
<1> DEFINE from == set \cup {least}
<1>1. MaxLogs \in Nat
  BY LogTraceAssumption
<1>2. from \in SUBSET (0..MaxLogs) /\ least \in from
  BY <1>1
<1>3. \E k \in from : \A j \in from : j <= k
  <2>1. from \in SUBSET Nat /\ from # {} /\ \A j \in from : j <= MaxLogs
    BY <1>1, <1>2
  <2> HIDE DEF from
  <2> QED BY <1>1, <2>1, NatMax
<1>4. MaxOf(set, least) \in from /\ \A j \in from : j <= MaxOf(set, least)
  BY <1>3 DEF MaxOf
<1> QED BY <1>2, <1>4

\* receive(), up to where a subscriber may throw.
LEMMA ReceiveBatchKeeps ==
    ASSUME ReporterHolds, ConsumerHolds, NEW b \in batches, NEW last \in 1..Len(b),
           ReceiveBatch(b, last)
    PROVE  ConsumerHolds'
<1> DEFINE fresh == {i \in 1..last : b[i].seq \notin seen}
           shown == {i \in fresh : b[i].level \in ShownLevels}
           numbers == {b[i].seq : i \in fresh}
           times == [k \in 1..MaxLogs |-> Cardinality({i \in shown : b[i].seq = k})]
<1>1. /\ seen' = seen \cup numbers /\ maxSeq' = MaxOf(numbers, maxSeq)
      /\ ring' = Latest(ring \cup {b[i] : i \in shown})
      /\ told' = [k \in 1..MaxLogs |-> told[k] + times[k]]
      /\ arrived' = arrived \cup SeqsOf(b)
      /\ threwInBatch' = (threwInBatch \/ last < Len(b))
  BY DEF ReceiveBatch, Tell
<1>2. /\ b \in Seq(LogEntry) /\ OwnNumbers(b) /\ Len(b) \in Nat
      /\ DOMAIN b = 1..Len(b) /\ last \in 1..Len(b) /\ 1..last \subseteq 1..Len(b)
      /\ \A i \in 1..Len(b) : b[i] \in LogEntry
  BY DEF ReporterHolds
<1>3. \A i \in 1..Len(b) : b[i].seq \in 1..MaxLogs
  BY <1>2 DEF LogEntry
<1>4. numbers \subseteq 1..MaxLogs /\ numbers \subseteq SeqsOf(b) /\ SeqsOf(b) \subseteq 1..MaxLogs
  BY <1>2, <1>3 DEF SeqsOf
<1>5. maxSeq' \in 0..MaxLogs /\ maxSeq <= maxSeq' /\ \A j \in numbers : j <= maxSeq'
  BY <1>1, <1>4, MaxOfFacts DEF ConsumerHolds
<1>6. /\ seen' \subseteq 1..MaxLogs /\ seen' \subseteq 1..maxSeq' /\ arrived' \subseteq 1..MaxLogs
  <2>1. maxSeq \in 0..MaxLogs /\ seen \subseteq 1..maxSeq /\ arrived \subseteq 1..MaxLogs
        /\ MaxLogs \in Nat /\ seen \subseteq 1..MaxLogs
    BY LogTraceAssumption DEF ConsumerHolds
  <2> HIDE DEF numbers
  <2>2. seen' \subseteq 1..maxSeq'
    BY <1>1, <1>4, <1>5, <2>1
  <2> QED BY <1>1, <1>4, <2>1, <2>2
<1>7. ring' \subseteq LogEntry
  <2>1. ring \cup {b[i] : i \in shown} \subseteq LogEntry
    BY <1>2 DEF ConsumerHolds
  <2>2. \A entries : Latest(entries) \subseteq entries
    BY DEF Latest
  <2> QED BY <1>1, <2>1, <2>2
<1>8. \A k \in 1..MaxLogs : /\ times[k] \in 0..1
                            /\ times[k] # 0 => k \in numbers /\ k \notin seen
  <2> SUFFICES ASSUME NEW k \in 1..MaxLogs
               PROVE  times[k] \in 0..1 /\ (times[k] # 0 => k \in numbers /\ k \notin seen)
    OBVIOUS
  <2> DEFINE at == {i \in shown : b[i].seq = k}
  <2>3. times[k] = Cardinality(at)
    OBVIOUS
  <2>1. CASE at = {}
    <3>1. times[k] = 0
      BY <2>1, <2>3, FS_EmptySet
    <3> QED BY <3>1
  <2>2. CASE at # {}
    <3>1. PICK i \in 1..last : i \in at /\ b[i].seq = k /\ b[i].seq \notin seen
      BY <2>2
    <3>2. \A j \in at : j = i
      BY <1>2, <3>1 DEF OwnNumbers
    <3>3. at = {i}
      BY <3>1, <3>2
    <3>4. times[k] = 1
      BY <2>3, <3>3, FS_Singleton
    <3>5. k \in numbers /\ k \notin seen
      BY <3>1
    <3> QED BY <3>4, <3>5
  <2> QED BY <2>1, <2>2
<1>9. /\ told' \in [1..MaxLogs -> Nat]
      /\ \A k \in 1..MaxLogs : told'[k] <= 1 /\ (told'[k] # 0 => k \in seen')
  <2>1. /\ told \in [1..MaxLogs -> Nat]
        /\ \A k \in 1..MaxLogs : told[k] <= 1 /\ (told[k] # 0 => k \in seen)
    BY DEF ConsumerHolds
  <2> HIDE DEF times, numbers
  <2>2. \A k \in 1..MaxLogs : told'[k] = told[k] + times[k]
    BY <1>1
  <2>3. told' \in [1..MaxLogs -> Nat]
    <3>1. \A k \in 1..MaxLogs : told[k] + times[k] \in Nat
      BY <1>8, <2>1
    <3> QED BY <1>1, <3>1
  <2>4. ASSUME NEW k \in 1..MaxLogs PROVE told'[k] <= 1 /\ (told'[k] # 0 => k \in seen')
    <3>1. times[k] \in 0..1 /\ (times[k] # 0 => k \in numbers /\ k \notin seen)
      BY <1>8
    <3>3. told[k] \in 0..1 /\ (told[k] # 0 => k \in seen)
      BY <2>1
    <3>2. told'[k] = told[k] + times[k]
      BY <2>2
    <3> QED BY <1>1, <3>1, <3>2, <3>3
  <2> QED BY <2>3, <2>4
<1>10. threwInBatch' \/ seen' = arrived'
  <2>1. CASE threwInBatch \/ last < Len(b)
    BY <1>1, <2>1
  <2>2. CASE ~threwInBatch /\ ~(last < Len(b))
    <3>4. ~(last < Len(b))
      BY <2>2
    <3>5. Len(b) \in Nat /\ last \in 1..Len(b)
      BY <1>2
    <3>1. last = Len(b)
      BY <3>4, <3>5
    <3>2. SeqsOf(b) \subseteq seen \cup numbers
      BY <1>2, <3>1 DEF SeqsOf
    <3>3. seen = arrived
      BY <2>2 DEF ConsumerHolds
    <3> QED BY <1>1, <1>4, <3>2, <3>3
  <2> QED BY <2>1, <2>2
<1>11. threwInBatch' \in BOOLEAN
  BY <1>1 DEF ConsumerHolds
<1> QED BY <1>5, <1>6, <1>7, <1>9, <1>10, <1>11 DEF ConsumerHolds

LEMMA LogStep ==
    ASSUME LogInv, [LogNext]_logVars
    PROVE  LogInv'
<1>1. ReporterHolds /\ ConsumerHolds
  BY DEF LogInv
<1>2. ASSUME NEW level \in {"debug", "error"}, NEW size \in 1..(MaxBatchBytes + 1), Log(level, size)
      PROVE  LogInv'
  <2>1. ReporterHolds'
    BY <1>1, <1>2, LogKeeps
  <2>2. UNCHANGED readerVars
    BY <1>2 DEF Log, readerVars
  <2> QED BY <1>1, <2>1, <2>2, ReaderAlone DEF LogInv
<1>3. ASSUME NEW closes \in BOOLEAN, FlushLogs(closes) PROVE LogInv'
  <2>1. ReporterHolds'
    BY <1>1, <1>3, FlushLogsKeeps
  <2>2. UNCHANGED readerVars
    BY <1>3 DEF FlushLogs, readerVars
  <2> QED BY <1>1, <2>1, <2>2, ReaderAlone DEF LogInv
<1>4. ASSUME NEW b \in batches, NEW last \in 1..Len(b), ReceiveBatch(b, last) PROVE LogInv'
  <2>1. ConsumerHolds'
    BY <1>1, <1>4, ReceiveBatchKeeps
  <2>2. UNCHANGED reporterAndWire
    BY <1>4 DEF ReceiveBatch, reporterAndWire
  <2> QED BY <1>1, <2>1, <2>2, ReporterAlone DEF LogInv
<1>5. CASE ClearRing
  <2>1. UNCHANGED reporterAndWire /\ ring' = {} /\ UNCHANGED <<seen, maxSeq, told, arrived, threwInBatch>>
    BY <1>5 DEF ClearRing, reporterAndWire
  <2>2. ConsumerHolds'
    BY <1>1, <2>1 DEF ConsumerHolds
  <2> QED BY <1>1, <2>1, <2>2, ReporterAlone DEF LogInv
<1>6. CASE UNCHANGED logVars
  <2>1. UNCHANGED reporterAndWire /\ UNCHANGED readerVars
    BY <1>6 DEF logVars, reporterAndWire, reporterVars, readerVars
  <2> QED BY <1>1, <2>1, ReporterAlone, ReaderAlone DEF LogInv
<1> QED BY <1>2, <1>3, <1>4, <1>5, <1>6 DEF LogNext

LEMMA LogInvMeans == ASSUME LogInv PROVE LogTypeOK /\ LossIsExact
<1>1. ReporterHolds /\ ConsumerHolds
  BY DEF LogInv
<1>2. LogTypeOK
  BY <1>1 DEF ReporterHolds, ConsumerHolds, LogTypeOK
<1>3. threwInBatch \/ GapCount = Cardinality((1..maxSeq) \ arrived)
  <2>1. maxSeq \in Nat /\ seen \subseteq 1..maxSeq
    BY <1>1 DEF ConsumerHolds
  <2>2. IsFiniteSet(1..maxSeq) /\ Cardinality(1..maxSeq) = maxSeq
    BY <2>1, FS_Interval
  <2>3. Cardinality((1..maxSeq) \ seen) = maxSeq - Cardinality((1..maxSeq) \cap seen)
    BY <2>2, FS_Difference
  <2>4. (1..maxSeq) \cap seen = seen
    BY <2>1
  <2> QED BY <1>1, <2>3, <2>4 DEF ConsumerHolds, GapCount
<1> QED BY <1>1, <1>2, <1>3 DEF ReporterHolds, ConsumerHolds, Accounted, NumbersIn, WillFlush, LossIsExact

\* gapCount is what the wire lost unless a subscriber threw, no entry is told
\* twice, and every entry logged is sent, reported as dropped or about to be
\* flushed (log(), flush() and receive() of logtrace.ts), for any limits.
THEOREM LossesAreCounted == LogSpec => []LossIsExact
<1>1. LogInit => LogInv
  BY LogStart
<1>2. LogInv /\ [LogNext]_logVars => LogInv'
  BY LogStep
<1>3. LogInv => LossIsExact
  BY LogInvMeans
<1> QED BY <1>1, <1>2, <1>3, PTL DEF LogSpec

-----------------------------------------------------------------------------
(* StreamNetwork: what is handed on is what was sent, in order and whole.    *)

\* What compactStreamEvent() leaves out restoreStreamEvent() puts back.
LEMMA RestoresCompacted ==
    ASSUME NEW e \in FlushEvents
    PROVE  Restored(Compacted(e)) = e
<1>1. /\ e \in [data : Seq(Chars), chunks : Seq(ChunkEvents)]
      /\ e.chunks \in Seq(ChunkEvents)
  BY StreamNetworkAssumption
<1>2. CASE ~CanCompact(e)
  BY <1>2 DEF Compacted, Restored
<1>3. CASE CanCompact(e)
  <2> DEFINE without == [j \in DOMAIN e.chunks |-> [e.chunks[j] EXCEPT !.data = <<>>]]
             bare == [e EXCEPT !.chunks = without]
             again == [j \in DOMAIN without |-> [without[j] EXCEPT !.data = TextOf(bare, j)]]
  <2>1. Compacted(e) = [event |-> bare, compact |-> TRUE]
    BY <1>3 DEF Compacted
  <2>2. Restored(Compacted(e)) = [bare EXCEPT !.chunks = [j \in DOMAIN bare.chunks |->
                                     [bare.chunks[j] EXCEPT !.data = TextOf(bare, j)]]]
    <3> HIDE DEF bare
    <3> QED BY <2>1 DEF Restored
  <2>3. bare.chunks = without /\ bare.data = e.data
    BY <1>1
  <2>4. /\ DOMAIN without = DOMAIN e.chunks
        /\ \A j \in DOMAIN e.chunks : e.chunks[j] \in ChunkEvents
    BY <1>1
  <2>5. \A j \in DOMAIN e.chunks :
            /\ without[j].chars = e.chunks[j].chars
            /\ \A text : [without[j] EXCEPT !.data = text] = [e.chunks[j] EXCEPT !.data = text]
    BY <2>4 DEF ChunkEvents
  <2>6. Lengths(without) = Lengths(e.chunks)
    BY <2>4, <2>5 DEF Lengths
  <2> HIDE DEF without
  <2>7. \A j : TextOf(bare, j) = TextOf(e, j)
    <3> HIDE DEF bare
    <3> QED BY <2>3, <2>6 DEF TextOf
  <2>8. \A j \in DOMAIN e.chunks : TextOf(e, j) = e.chunks[j].data
    BY <1>3 DEF CanCompact
  <2> HIDE DEF bare
  <2>9. \A j \in DOMAIN e.chunks : [without[j] EXCEPT !.data = TextOf(bare, j)] = e.chunks[j]
    <3> SUFFICES ASSUME NEW j \in DOMAIN e.chunks
                 PROVE  [without[j] EXCEPT !.data = TextOf(bare, j)] = e.chunks[j]
      OBVIOUS
    <3>1. TextOf(bare, j) = e.chunks[j].data
      BY <2>7, <2>8
    <3>2. [without[j] EXCEPT !.data = TextOf(bare, j)] = [e.chunks[j] EXCEPT !.data = e.chunks[j].data]
      BY <2>5, <3>1
    <3>3. [e.chunks[j] EXCEPT !.data = e.chunks[j].data] = e.chunks[j]
      BY <2>4 DEF ChunkEvents
    <3> QED BY <3>2, <3>3
  <2>10. again = e.chunks
    <3>1. e.chunks = [j \in DOMAIN e.chunks |-> e.chunks[j]]
      BY <1>1
    <3>2. again = [j \in DOMAIN e.chunks |-> e.chunks[j]]
      BY <2>4, <2>9
    <3> QED BY <3>1, <3>2
  <2>11. Restored(Compacted(e)) = [bare EXCEPT !.chunks = e.chunks]
    BY <2>2, <2>3, <2>10
  <2>12. [bare EXCEPT !.chunks = e.chunks] = e
    BY <1>1 DEF bare
  <2> QED BY <2>11, <2>12
<1> QED BY <1>2, <1>3

Packet(k, e) == [seq |-> k, event |-> Compacted(e).event, compact |-> Compacted(e).compact]

\* Every packet is that of the event its number was drawn for; the numbers handed
\* on are those below the next one.
NetTyped ==
    /\ awaitingReady \subseteq [no : 1..given, event : FlushEvents] /\ IsFiniteSet(awaitingReady)
    /\ given \in 0..MaxEvents /\ seqNo \in Nat /\ nextSeq \in 0..seqNo
    /\ seqNo + Cardinality(awaitingReady) <= given
    /\ sentAs \in Seq(FlushEvents) /\ Len(sentAs) = seqNo
    /\ delivered \in Seq(FlushEvents) /\ Len(delivered) = nextSeq
IsPacket(p) == p.seq \in 0..(seqNo - 1) /\ p = Packet(p.seq, sentAs[p.seq + 1])
NetInv ==
    /\ NetTyped
    /\ \A p \in onWire \cup held : IsPacket(p)
    /\ \A i \in 1..nextSeq : delivered[i] = sentAs[i]
    /\ interrupted \in BOOLEAN
    /\ interrupted \/ \A p \in held : p.seq # nextSeq

LEMMA PacketFacts ==
    ASSUME NEW k, NEW e \in FlushEvents
    PROVE  Packet(k, e).seq = k /\ Restored(Packet(k, e)) = e
<1>1. Restored(Packet(k, e)) = Restored(Compacted(e))
  BY DEF Packet, Restored, Compacted
<1> QED BY <1>1, RestoresCompacted DEF Packet

LEMMA StreamNetStart == ASSUME StreamNetInit PROVE NetInv
<1>1. <<>> \in Seq(FlushEvents) /\ Len(<<>>) = 0 /\ MaxEvents \in Nat
  BY StreamNetworkAssumption
<1>2. IsFiniteSet({}) /\ Cardinality({}) = 0
  BY FS_EmptySet
<1>3. NetTyped
  BY <1>1, <1>2 DEF StreamNetInit, NetTyped
<1> QED BY <1>1, <1>3 DEF StreamNetInit, NetInv

LEMMA GiveKeeps ==
    ASSUME NetInv, NEW e \in FlushEvents, GiveEvent(e)
    PROVE  NetInv'
<1> DEFINE a == [no |-> given + 1, event |-> e]
<1>1. /\ given < MaxEvents /\ given' = given + 1 /\ awaitingReady' = awaitingReady \cup {a}
      /\ UNCHANGED <<seqNo, onWire, nextSeq, held, delivered, sentAs, interrupted>>
  BY DEF GiveEvent
<1>2. /\ awaitingReady \subseteq [no : 1..given, event : FlushEvents] /\ IsFiniteSet(awaitingReady)
      /\ given \in 0..MaxEvents /\ MaxEvents \in Nat /\ seqNo \in Nat
      /\ seqNo + Cardinality(awaitingReady) <= given
  BY StreamNetworkAssumption DEF NetInv, NetTyped
<1>3. a \notin awaitingReady /\ a \in [no : 1..(given + 1), event : FlushEvents]
  BY <1>2
<1>4. awaitingReady \subseteq [no : 1..(given + 1), event : FlushEvents]
  BY <1>2
<1> HIDE DEF a
<1>5. /\ IsFiniteSet(awaitingReady') /\ Cardinality(awaitingReady') = Cardinality(awaitingReady) + 1
      /\ Cardinality(awaitingReady) \in Nat
  BY <1>1, <1>2, <1>3, FS_AddElement, FS_CardinalityType
<1>6. seqNo' + Cardinality(awaitingReady') <= given' /\ given' \in 0..MaxEvents
  BY <1>1, <1>2, <1>5
<1>7. awaitingReady' \subseteq [no : 1..given', event : FlushEvents]
  BY <1>1, <1>3, <1>4
<1>8. NetTyped'
  BY <1>1, <1>5, <1>6, <1>7 DEF NetInv, NetTyped
<1> QED BY <1>1, <1>8 DEF NetInv, IsPacket

LEMMA SendKeeps ==
    ASSUME NetInv, NEW a \in awaitingReady, NEW throws \in BOOLEAN, SendEvent(a, throws)
    PROVE  NetInv'
<1>1. /\ awaitingReady' = awaitingReady \ {a} /\ seqNo' = seqNo + 1
      /\ sentAs' = Append(sentAs, a.event)
      /\ onWire' \subseteq onWire \cup {Packet(seqNo, a.event)}
      /\ UNCHANGED <<given, nextSeq, held, delivered, interrupted>>
  BY DEF SendEvent, Packet
<1>2. /\ awaitingReady \subseteq [no : 1..given, event : FlushEvents] /\ IsFiniteSet(awaitingReady)
      /\ given \in 0..MaxEvents /\ seqNo \in Nat /\ nextSeq \in 0..seqNo
      /\ seqNo + Cardinality(awaitingReady) <= given
      /\ sentAs \in Seq(FlushEvents) /\ Len(sentAs) = seqNo
      /\ delivered \in Seq(FlushEvents) /\ Len(delivered) = nextSeq
  BY DEF NetInv, NetTyped
<1>3. a.event \in FlushEvents
  BY <1>2
<1>4. /\ IsFiniteSet(awaitingReady') /\ Cardinality(awaitingReady') = Cardinality(awaitingReady) - 1
      /\ Cardinality(awaitingReady) \in Nat
  BY <1>1, <1>2, FS_RemoveElement, FS_CardinalityType
<1>5. /\ sentAs' \in Seq(FlushEvents) /\ Len(sentAs') = seqNo + 1
      /\ \A i \in 1..seqNo : sentAs'[i] = sentAs[i]
  BY <1>1, <1>2, <1>3
<1>6. sentAs'[seqNo + 1] = a.event
  BY <1>1, <1>2
<1>7. NetTyped'
  <2>1. seqNo' + Cardinality(awaitingReady') <= given' /\ seqNo' \in Nat /\ nextSeq' \in 0..seqNo'
    BY <1>1, <1>2, <1>4
  <2>2. awaitingReady' \subseteq [no : 1..given', event : FlushEvents] /\ given' \in 0..MaxEvents
    BY <1>1, <1>2
  <2> QED BY <1>1, <1>2, <1>4, <1>5, <2>1, <2>2 DEF NetTyped
<1>8. ASSUME NEW p \in onWire' \cup held' PROVE IsPacket(p)'
  <2>1. CASE p \in onWire \cup held
    <3>1. p.seq \in 0..(seqNo - 1) /\ p = Packet(p.seq, sentAs[p.seq + 1])
      BY <2>1 DEF NetInv, IsPacket
    <3>2. p.seq + 1 \in 1..seqNo /\ p.seq \in 0..(seqNo' - 1)
      BY <1>1, <1>2, <3>1
    <3>3. sentAs'[p.seq + 1] = sentAs[p.seq + 1]
      BY <1>5, <3>2
    <3>4. p.seq \in 0..(seqNo' - 1) /\ p = Packet(p.seq, sentAs'[p.seq + 1])
      BY <3>1, <3>2, <3>3
    <3> QED BY <3>4 DEF IsPacket, Packet, Compacted, CanCompact
  <2>2. CASE p = Packet(seqNo, a.event)
    <3>1. p.seq = seqNo
      BY <1>3, <2>2, PacketFacts
    <3>2. p.seq \in 0..(seqNo' - 1) /\ p = Packet(p.seq, sentAs'[p.seq + 1])
      BY <1>1, <1>2, <1>6, <2>2, <3>1
    <3> QED BY <3>2 DEF IsPacket, Packet, Compacted, CanCompact
  <2> QED BY <1>1, <2>1, <2>2
<1>9. \A i \in 1..nextSeq' : delivered'[i] = sentAs'[i]
  BY <1>1, <1>2, <1>5 DEF NetInv
<1>10. interrupted' \in BOOLEAN /\ (interrupted' \/ \A p \in held' : p.seq # nextSeq')
  BY <1>1 DEF NetInv
<1> QED BY <1>7, <1>8, <1>9, <1>10 DEF NetInv

\* accept(): the packets from the next number on, up to the first that is missing.
LEMMA AcceptKeeps ==
    ASSUME NetInv, NEW p \in onWire, NEW last \in 0..MaxEvents, AcceptPacket(p, last)
    PROVE  NetInv'
<1> DEFINE filed == {q \in held : q.seq # p.seq} \cup {p}
           due == {q \in Due(filed, nextSeq) : q.seq >= nextSeq}
           reach == {nextSeq} \cup {q.seq + 1 : q \in due}
           left == {q \in due : q.seq >= last}
           more == [i \in 1..(last - nextSeq) |-> Restored(At(due, nextSeq + i - 1))]
<1>1. /\ held' = filed \ (due \ left) /\ nextSeq' = last
      /\ delivered' = delivered \o more
      /\ interrupted' = (left # {})
      /\ last \in IF due = {} THEN {nextSeq} ELSE {q.seq + 1 : q \in due}
      /\ UNCHANGED <<awaitingReady, given, seqNo, onWire, sentAs>>
  BY DEF AcceptPacket
<1>2. /\ seqNo \in Nat /\ nextSeq \in 0..seqNo
      /\ sentAs \in Seq(FlushEvents) /\ Len(sentAs) = seqNo
      /\ delivered \in Seq(FlushEvents) /\ Len(delivered) = nextSeq
      /\ \A i \in 1..nextSeq : delivered[i] = sentAs[i]
  BY DEF NetInv, NetTyped
<1>3. \A q \in filed : q.seq \in 0..(seqNo - 1) /\ q = Packet(q.seq, sentAs[q.seq + 1])
  BY DEF NetInv, IsPacket
<1>4. filed \subseteq onWire \cup held
  OBVIOUS
<1> HIDE DEF filed
<1>5. \A q : q \in due <=> /\ q \in filed /\ q.seq >= nextSeq
                           /\ \A k \in nextSeq..q.seq : \E r \in filed : r.seq = k
  BY DEF Due
<1> HIDE DEF due
<1>6. last \in reach
  BY <1>1
<1>7. /\ last \in nextSeq..seqNo /\ last \in Nat /\ nextSeq \in Nat
      /\ \A k \in nextSeq..(last - 1) : \E q \in due : q.seq = k
  <2>1. CASE last = nextSeq
    BY <1>2, <2>1
  <2>2. CASE \E q \in due : last = q.seq + 1
    <3>1. PICK q \in due : last = q.seq + 1
      BY <2>2
    <3>2. /\ q \in filed /\ q.seq \in 0..(seqNo - 1) /\ q.seq >= nextSeq
          /\ \A k \in nextSeq..q.seq : \E r \in filed : r.seq = k
      BY <1>3, <1>5
    <3>3. last \in nextSeq..seqNo /\ last \in Nat /\ last - 1 = q.seq
      BY <1>2, <3>1, <3>2
    <3>4. ASSUME NEW k \in nextSeq..q.seq PROVE \E r \in due : r.seq = k
      <4>1. PICK r \in filed : r.seq = k
        BY <3>2
      <4>2. \A j \in nextSeq..k : j \in nextSeq..q.seq
        BY <1>2, <3>2
      <4>3. k >= nextSeq
        BY <1>2, <3>2
      <4>4. r \in due
        BY <1>5, <3>2, <4>1, <4>2, <4>3
      <4> QED BY <4>1, <4>4
    <3> QED BY <1>2, <3>3, <3>4
  <2> QED BY <1>6, <2>1, <2>2
<1>8. ASSUME NEW k \in nextSeq..(last - 1)
      PROVE  k + 1 \in 1..seqNo /\ Restored(At(due, k)) = sentAs[k + 1]
  <2>1. k + 1 \in 1..seqNo
    BY <1>2, <1>7
  <2>2. At(due, k) \in due /\ At(due, k).seq = k
    BY <1>7 DEF At
  <2>3. At(due, k) = Packet(k, sentAs[k + 1])
    BY <1>3, <1>5, <2>2
  <2>4. sentAs[k + 1] \in FlushEvents
    BY <1>2, <2>1
  <2> QED BY <2>1, <2>3, <2>4, PacketFacts
<1>9. /\ more \in Seq(FlushEvents) /\ Len(more) = last - nextSeq
      /\ \A i \in 1..(last - nextSeq) : more[i] = sentAs[nextSeq + i]
  <2>1. ASSUME NEW i \in 1..(last - nextSeq)
        PROVE  more[i] = sentAs[nextSeq + i] /\ more[i] \in FlushEvents
    <3>1. nextSeq + i - 1 \in nextSeq..(last - 1) /\ (nextSeq + i - 1) + 1 = nextSeq + i
      BY <1>7
    <3>2. more[i] = Restored(At(due, nextSeq + i - 1))
      OBVIOUS
    <3>3. more[i] = sentAs[nextSeq + i] /\ nextSeq + i \in 1..seqNo
      BY <1>8, <3>1, <3>2
    <3> HIDE DEF more
    <3> QED BY <1>2, <3>3
  <2>2. last - nextSeq \in Nat /\ more = [i \in 1..(last - nextSeq) |-> more[i]]
    BY <1>7
  <2> HIDE DEF more
  <2>3. more \in [1..(last - nextSeq) -> FlushEvents]
    BY <2>1, <2>2
  <2>4. more \in Seq(FlushEvents) /\ Len(more) = last - nextSeq
    BY <2>2, <2>3
  <2> QED BY <2>1, <2>4
<1> HIDE DEF more
<1>10. /\ delivered' \in Seq(FlushEvents) /\ Len(delivered') = last
       /\ \A i \in 1..last : delivered'[i] = sentAs[i]
  <2>1. /\ delivered \o more \in Seq(FlushEvents)
        /\ Len(delivered \o more) = nextSeq + (last - nextSeq)
        /\ \A i \in 1..(nextSeq + (last - nextSeq)) : (delivered \o more)[i] =
               IF i <= nextSeq THEN delivered[i] ELSE more[i - nextSeq]
    <3>1. delivered \o more \in Seq(FlushEvents) /\ Len(delivered \o more) = Len(delivered) + Len(more)
      BY <1>2, <1>9, ConcatProperties
    <3>2. \A i \in 1..(Len(delivered) + Len(more)) : (delivered \o more)[i] =
              IF i <= Len(delivered) THEN delivered[i] ELSE more[i - Len(delivered)]
      BY <1>2, <1>9, ConcatProperties
    <3> QED BY <1>2, <1>9, <3>1, <3>2
  <2>2. nextSeq + (last - nextSeq) = last
    BY <1>7
  <2>3. ASSUME NEW i \in 1..last PROVE delivered'[i] = sentAs[i]
    <3>1. CASE i <= nextSeq
      <4>1. i \in 1..nextSeq
        BY <1>7, <3>1
      <4> QED BY <1>1, <1>2, <2>1, <2>2, <3>1, <4>1
    <3>2. CASE ~(i <= nextSeq)
      <4>1. i - nextSeq \in 1..(last - nextSeq) /\ nextSeq + (i - nextSeq) = i
        BY <1>7, <3>2
      <4> QED BY <1>1, <1>9, <2>1, <2>2, <3>2, <4>1
    <3> QED BY <3>1, <3>2
  <2> QED BY <1>1, <2>1, <2>2, <2>3
<1>11. interrupted' \in BOOLEAN /\ (interrupted' \/ \A q \in held' : q.seq # last)
  <2> SUFFICES ASSUME NEW q \in filed, q \notin due, q.seq = last PROVE FALSE
    BY <1>1
  <2>1. last >= nextSeq
    BY <1>7
  <2>2. ASSUME NEW k \in nextSeq..last PROVE \E r \in filed : r.seq = k
    <3>1. CASE k = last
      BY <3>1
    <3>2. CASE k # last
      <4>1. k \in nextSeq..(last - 1)
        BY <1>7, <3>2
      <4> QED BY <1>5, <1>7, <4>1
    <3> QED BY <3>1, <3>2
  <2> QED BY <1>5, <2>1, <2>2
<1>12. NetTyped'
  <2>1. nextSeq' \in 0..seqNo' /\ seqNo' \in Nat
    BY <1>1, <1>2, <1>7
  <2> QED BY <1>1, <1>2, <1>10, <2>1 DEF NetInv, NetTyped
<1>13. \A q \in onWire' \cup held' : IsPacket(q)'
  BY <1>1, <1>4 DEF NetInv, IsPacket
<1> QED BY <1>1, <1>10, <1>11, <1>12, <1>13 DEF NetInv

LEMMA StreamNetStep ==
    ASSUME NetInv, [StreamNetNext]_streamNetVars
    PROVE  NetInv'
<1>1. CASE UNCHANGED streamNetVars
  BY <1>1 DEF streamNetVars, NetInv, NetTyped, IsPacket
<1> QED BY <1>1, GiveKeeps, SendKeeps, AcceptKeeps DEF StreamNetNext

LEMMA NetInvMeans == ASSUME NetInv PROVE StreamNetTypeOK /\ EventsIntact
<1>1. /\ awaitingReady \subseteq [no : 1..given, event : FlushEvents] /\ IsFiniteSet(awaitingReady)
      /\ given \in 0..MaxEvents /\ seqNo \in Nat /\ nextSeq \in 0..seqNo
      /\ seqNo + Cardinality(awaitingReady) <= given
      /\ sentAs \in Seq(FlushEvents) /\ Len(sentAs) = seqNo
      /\ delivered \in Seq(FlushEvents) /\ Len(delivered) = nextSeq
      /\ MaxEvents \in Nat
  BY StreamNetworkAssumption DEF NetInv, NetTyped
<1>2. seqNo \in 0..MaxEvents /\ nextSeq \in 0..MaxEvents
  BY <1>1, FS_CardinalityType
<1>3. awaitingReady \subseteq [no : 1..MaxEvents, event : FlushEvents]
  BY <1>1
<1>4. \A e \in FlushEvents : /\ Compacted(e).compact \in BOOLEAN
                             /\ Compacted(e).event \in FlushEvents \cup {Compacted(d).event : d \in FlushEvents}
  BY DEF Compacted
<1>5. ASSUME NEW p \in onWire \cup held PROVE p \in StreamPackets
  <2>1. p.seq \in 0..(seqNo - 1) /\ p = Packet(p.seq, sentAs[p.seq + 1])
    BY DEF NetInv, IsPacket
  <2>2. sentAs[p.seq + 1] \in FlushEvents /\ p.seq \in 0..MaxEvents
    BY <1>1, <1>2, <2>1
  <2> QED BY <1>4, <2>1, <2>2 DEF Packet, StreamPackets
<1>6. StreamNetTypeOK
  BY <1>1, <1>2, <1>3, <1>5 DEF NetInv, StreamNetTypeOK
<1>7. delivered = SubSeq(sentAs, 1, nextSeq)
  <2>1. delivered = [i \in 1..nextSeq |-> delivered[i]]
    BY <1>1
  <2>2. SubSeq(sentAs, 1, nextSeq) = [i \in 1..nextSeq |-> sentAs[i]]
    BY <1>1
  <2> QED BY <2>1, <2>2 DEF NetInv
<1> QED BY <1>1, <1>6, <1>7 DEF NetInv, EventsIntact

\* Whatever the network loses, repeats or reorders, the receiver hands on the
\* first events sent, each once, in order and with the text of every chunk, and
\* stops only at a number that has not come or behind a consumer that threw at
\* once (accept(), compactStreamEvent() and restoreStreamEvent() of network.ts),
\* for any events.
THEOREM EventsStayIntact == StreamNetSpec => []EventsIntact
<1>1. StreamNetInit => NetInv
  BY StreamNetStart
<1>2. NetInv /\ [StreamNetNext]_streamNetVars => NetInv'
  BY StreamNetStep
<1>3. NetInv => EventsIntact
  BY NetInvMeans
<1> QED BY <1>1, <1>2, <1>3, PTL DEF StreamNetSpec

-----------------------------------------------------------------------------
(* What shares a run shares no state: a behaviour of the whole is one of     *)
(* every part.                                                               *)

LEMMA PartsStart ==
    BuffersInit => /\ StreamInit /\ TokenInit /\ StreamNetInit
                   /\ LogInit /\ ProgressInit /\ DocumentInit
BY DEF BuffersInit

LEMMA PartsStep ==
    [BuffersNext]_buffersVars =>
        /\ [StreamNext]_streamVars /\ [TokenNext]_tokenVars /\ [StreamNetNext]_streamNetVars
        /\ [LogNext]_logVars /\ [ProgressNext]_progressVars /\ [DocumentNext]_jsonVars
BY DEF BuffersNext, buffersVars

\* Whoever watches is told the truth: a task's last change is shown or about to
\* be, its end is final, the consumer keeps the latest of each (progress.ts), and
\* progress() and snapshot() count what was accepted and handed over (stream.ts).
THEOREM ProgressIsTold == BuffersSpec => []ProgressTold
<1>1. StreamInit => StreamInv
  BY StreamInvInit
<1>2. StreamInv /\ [StreamNext]_streamVars => StreamInv'
  BY StreamInvStep
<1>3. ProgressInit => ProgressInv
  BY ProgressStart
<1>4. ProgressInv /\ [ProgressNext]_progressVars => ProgressInv'
  BY ProgressStep
<1>5. StreamInv /\ ProgressInv => ProgressTold
  BY ProgressInvMeans DEF StreamInv, ProgressTold
<1> QED BY <1>1, <1>2, <1>3, <1>4, <1>5, PartsStart, PartsStep, PTL DEF BuffersSpec

\* Of every part, in every state: what the variables hold (types of the fields of
\* stream.ts, token.ts, network.ts, logtrace.ts, progress.ts and transport.ts).
THEOREM BuffersTyped == BuffersSpec => []BuffersTypeOK
<1>1. StreamInit => StreamInv
  BY StreamInvInit
<1>2. StreamInv /\ [StreamNext]_streamVars => StreamInv'
  BY StreamInvStep
<1>3. TokenInit => TokenInv
  BY TokenStart
<1>4. TokenInv /\ [TokenNext]_tokenVars => TokenInv'
  BY TokenStep
<1>5. StreamNetInit => NetInv
  BY StreamNetStart
<1>6. NetInv /\ [StreamNetNext]_streamNetVars => NetInv'
  BY StreamNetStep
<1>7. LogInit => LogInv
  BY LogStart
<1>8. LogInv /\ [LogNext]_logVars => LogInv'
  BY LogStep
<1>9. ProgressInit => ProgressInv
  BY ProgressStart
<1>10. ProgressInv /\ [ProgressNext]_progressVars => ProgressInv'
  BY ProgressStep
<1>11. DocumentInit => DocumentTypeOK
  BY DocumentStart
<1>12. DocumentTypeOK /\ [DocumentNext]_jsonVars => DocumentTypeOK'
  BY DocumentStep
<1>13. StreamInv /\ TokenInv /\ NetInv /\ LogInv /\ ProgressInv /\ DocumentTypeOK => BuffersTypeOK
  BY NetInvMeans, LogInvMeans, ProgressInvMeans DEF StreamInv, TokenInv, BuffersTypeOK
<1> QED BY <1>1, <1>2, <1>3, <1>4, <1>5, <1>6, <1>7, <1>8, <1>9, <1>10, <1>11, <1>12, <1>13,
           PartsStart, PartsStep, PTL DEF BuffersSpec
=============================================================================

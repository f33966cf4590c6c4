------------------------------ MODULE TokenBuffer ------------------------------
(***************************************************************************)
(* TokenBuffer (src/src/buffer/token.ts): tokens are joined and given to   *)
(* an asynchronous callback when enough of them wait or a timer fires.     *)
(* The two strategies differ only in their numbers; useBuffer = false,     *)
(* which keeps no state, is left out.                                      *)
(***************************************************************************)
EXTENDS Naturals, Sequences

CONSTANTS
    TokenLimit,     \* bufferSize or maxTokensForTime
    MaxTokens       \* bound on the tokens added

ASSUME TokenAssumption == TokenLimit \in Nat \ {0} /\ MaxTokens \in Nat

VARIABLES
    tokens,         \* tokens not yet given to the callback
    tokenTimer,     \* "off"; "armed"; "spent": it fired, but the field is set
    inFlush,        \* what the callback is busy with; empty: no flush runs
    awaitsFlush,    \* a close() waits for that flush
    tokensIn,       \* history: number of tokens added
    tokensOut,      \* history: tokens the callback has taken
    tokensLost,     \* history: tokens of callbacks that rejected
    stranded        \* history: no timer was set for tokens that were kept

tokenVars == <<tokens, tokenTimer, inFlush, awaitsFlush, tokensIn, tokensOut,
               tokensLost, stranded>>

TokenInit ==
    /\ tokens = <<>> /\ inFlush = <<>> /\ tokensOut = <<>>
    /\ tokenTimer = "off"
    /\ awaitsFlush = FALSE
    /\ tokensIn = 0
    /\ tokensLost = {}
    /\ stranded = FALSE

\* flush() while one runs, or of an empty buffer, returns at once.
CanFlushTokens(buffer) == inFlush = <<>> /\ buffer # <<>>

\* flush(): the tokens and the timer go, and the callback is called.
FlushTokens(buffer) ==
    /\ inFlush' = buffer
    /\ tokens' = <<>>
    /\ tokenTimer' = "off"
    /\ stranded' = FALSE

\* add(): flush when enough tokens wait, else set the timer unless one is set,
\* or was: the field of a timer that found a flush running is not cleared.
AddToken ==
    LET buffer == Append(tokens, tokensIn + 1)
    IN  /\ tokensIn < MaxTokens
        /\ tokensIn' = tokensIn + 1
        /\ \/ Len(buffer) >= TokenLimit /\ CanFlushTokens(buffer) /\ FlushTokens(buffer)
           \/ /\ Len(buffer) >= TokenLimit /\ ~CanFlushTokens(buffer)
              /\ tokens' = buffer
              /\ stranded' = TRUE
              /\ UNCHANGED <<tokenTimer, inFlush>>
           \/ /\ Len(buffer) < TokenLimit
              /\ tokens' = buffer
              /\ tokenTimer' = IF tokenTimer = "off" THEN "armed" ELSE tokenTimer
              /\ stranded' = (stranded \/ tokenTimer = "spent")
              /\ UNCHANGED inFlush
        /\ UNCHANGED <<awaitsFlush, tokensOut, tokensLost>>

\* The timer only calls flush().
TokenTimerFires ==
    /\ tokenTimer = "armed"
    /\ IF CanFlushTokens(tokens)
       THEN FlushTokens(tokens)
       ELSE /\ tokenTimer' = "spent"
            /\ stranded' = (stranded \/ tokens # <<>>)
            /\ UNCHANGED <<tokens, inFlush>>
    /\ UNCHANGED <<awaitsFlush, tokensIn, tokensOut, tokensLost>>

\* flush() from outside.
FlushCalled ==
    /\ CanFlushTokens(tokens)
    /\ FlushTokens(tokens)
    /\ UNCHANGED <<awaitsFlush, tokensIn, tokensOut, tokensLost>>

\* The last line of close().
ClearTokenTimer ==
    /\ tokenTimer' = "off"
    /\ stranded' = (stranded \/ tokens # <<>>)

\* Mutant of CallbackEnds: the buffer is emptied after the callback.
CallbackEndsEmptying(ok) ==
    /\ inFlush # <<>>
    /\ inFlush' = <<>>
    /\ tokens' = <<>>
    /\ tokensOut' = IF ok THEN tokensOut \o inFlush ELSE tokensOut
    /\ tokensLost' = IF ok THEN tokensLost
                     ELSE tokensLost \cup {inFlush[i] : i \in DOMAIN inFlush}
    /\ awaitsFlush' = FALSE
    /\ IF awaitsFlush /\ ok THEN ClearTokenTimer ELSE UNCHANGED <<tokenTimer, stranded>>
    /\ UNCHANGED tokensIn

\* The callback resolves or rejects; the close() that started it goes on,
\* unless it has been rejected with it.
CallbackEnds(ok) ==
    /\ inFlush # <<>>
    /\ inFlush' = <<>>
    /\ tokensOut' = IF ok THEN tokensOut \o inFlush ELSE tokensOut
    /\ tokensLost' = IF ok THEN tokensLost
                     ELSE tokensLost \cup {inFlush[i] : i \in DOMAIN inFlush}
    /\ awaitsFlush' = FALSE
    /\ IF awaitsFlush /\ ok THEN ClearTokenTimer ELSE UNCHANGED <<tokenTimer, stranded>>
    /\ UNCHANGED <<tokens, tokensIn>>

\* close(): flush, wait for it, clear the timer.  A flush already running is
\* not waited for: what the buffer holds behind it stays there.
CloseTokens ==
    /\ \/ CanFlushTokens(tokens) /\ FlushTokens(tokens) /\ awaitsFlush' = TRUE
       \/ ~CanFlushTokens(tokens) /\ ClearTokenTimer /\ UNCHANGED <<tokens, inFlush, awaitsFlush>>
    /\ UNCHANGED <<tokensIn, tokensOut, tokensLost>>

TokenNext ==
    \/ AddToken \/ TokenTimerFires \/ FlushCalled \/ CloseTokens
    \/ \E ok \in BOOLEAN : CallbackEnds(ok)

TokenSpec == TokenInit /\ [][TokenNext]_tokenVars

-----------------------------------------------------------------------------
TokenTypeOK ==
    /\ tokens \in Seq(1..MaxTokens) /\ inFlush \in Seq(1..MaxTokens)
    /\ tokensOut \in Seq(1..MaxTokens)
    /\ tokenTimer \in {"off", "armed", "spent"}
    /\ awaitsFlush \in BOOLEAN /\ stranded \in BOOLEAN
    /\ tokensIn \in 0..MaxTokens
    /\ tokensLost \subseteq 1..MaxTokens

TokensKept == tokensOut \o inFlush \o tokens

\* Callbacks never overlap or overtake: what has been taken, what is with the
\* callback and what waits are, in this order, all the tokens but those of
\* rejected callbacks.  And tokens that wait have a timer that will flush them,
\* except those stranded in one of three ways: enough tokens came during a
\* flush, a timer was spent during one, or close() cleared it (lines 48-109).
TokensAccounted ==
    /\ \A i, j \in DOMAIN TokensKept : i < j => TokensKept[i] < TokensKept[j]
    /\ {TokensKept[i] : i \in DOMAIN TokensKept} = (1..tokensIn) \ tokensLost
    /\ tokens # <<>> => tokenTimer = "armed" \/ stranded
=============================================================================

------------------------------- MODULE MCBuffers -------------------------------
(***************************************************************************)
(* Everything that buffers, for TLC: the stream buffer, the token buffer,  *)
(* the stream adapter, the log trace, the progress tracker, and the JSON   *)
(* transport that splits documents into packets.  They share no state, so  *)
(* a behaviour picks one, and the others stay in their initial states.     *)
(***************************************************************************)
EXTENDS StreamProgress, TokenBuffer, StreamNetwork, LogTrace, Progress, JSONSplit, TLC

CONSTANTS w1, w2, t1, t2

VARIABLE part

\* A flush of two chunks, and one whose first chunk claims a wrong length.
TwoFlushes ==
    {[data |-> <<"a", "b">>, chunks |-> <<[data |-> <<"a">>, chars |-> n],
                                          [data |-> <<"b">>, chars |-> 1]>>] : n \in {1, 2}}

\* Characters of one, two and three bytes; keys with "/" and "~" in them; a user's
\* own object that looks like a marker; a character wider than a chunk.
Utf8Length == "x" :> 1 @@ "w" :> 2 @@ "h" :> 3
Leaf(path, text) == [path |-> path, leaf |-> [text |-> text]]
SplitDocuments ==
    {<< Leaf(<< <<"a", "/">> >>, <<"x", "x", "w">>),
        [path |-> << <<"u">>, <<"0">> >>, leaf |-> [cid |-> <<0, 1>>]],
        Leaf(<< <<"q">> >>, <<"w">>) >>,
     << Leaf(<< <<"~", "1">> >>, <<"x", "x", "x", "x">>),
        Leaf(<< <<"p">>, <<"0">> >>, <<"w", "x">>) >>,
     << Leaf(<< <<"p">>, <<"0">> >>, <<"h">>) >>}
ChildrenOfP == {<< <<"p">>, <<"*">> >>}

\* Chunks of different sizes, and an estimate that is too small.
ChunkSizes == <<1, 2, 3, 2>>

BuffersInit ==
    /\ part \in {"stream", "tokens", "adapter", "logs", "progress", "documents"}
    /\ StreamInit /\ TokenInit /\ StreamNetInit /\ LogInit /\ ProgressInit /\ DocumentInit
    /\ part # "progress" => ~beating
    /\ part # "documents" => idsUnique

BuffersNext ==
    /\ UNCHANGED part
    /\ \/ /\ part = "stream" /\ StreamNext
          /\ UNCHANGED <<tokenVars, streamNetVars, logVars, progressVars, jsonVars>>
       \/ /\ part = "tokens" /\ TokenNext
          /\ UNCHANGED <<streamVars, streamNetVars, logVars, progressVars, jsonVars>>
       \/ /\ part = "adapter" /\ StreamNetNext
          /\ UNCHANGED <<streamVars, tokenVars, logVars, progressVars, jsonVars>>
       \/ /\ part = "logs" /\ LogNext
          /\ UNCHANGED <<streamVars, tokenVars, streamNetVars, progressVars, jsonVars>>
       \/ /\ part = "progress" /\ ProgressNext
          /\ UNCHANGED <<streamVars, tokenVars, streamNetVars, logVars, jsonVars>>
       \/ /\ part = "documents" /\ DocumentNext
          /\ UNCHANGED <<streamVars, tokenVars, streamNetVars, logVars, progressVars>>

buffersVars == <<part, streamVars, tokenVars, streamNetVars, logVars, progressVars, jsonVars>>

\* Only the stream buffer is held to fairness; in the initial state, where it
\* stays when another part is picked, nothing it is fair about is enabled.
BuffersSpec == BuffersInit /\ [][BuffersNext]_buffersVars /\ Fairness

\* The state of every part is of its type.
BuffersTypeOK ==
    /\ StreamTypeOK /\ TokenTypeOK /\ StreamNetTypeOK
    /\ LogTypeOK /\ ProgressTypeOK /\ DocumentTypeOK

\* Who watches progress is told the truth, of tasks and of streams.
ProgressTold == ProgressHonest /\ StreamToldTrue
=============================================================================

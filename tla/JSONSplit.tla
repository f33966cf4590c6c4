------------------------------- MODULE JSONSplit -------------------------------
(***************************************************************************)
(* How a JSON object becomes packets and is put together again, in the     *)
(* mode without acks (src/src/socket/transport.ts).  A document is the     *)
(* sequence of its leaves, each with its path from the root; a path is a   *)
(* sequence of keys, and keys and texts are sequences of characters.  The  *)
(* network loses, repeats, reorders and damages packets; an error packet   *)
(* and one that is no transport packet change nothing here, and a send()   *)
(* that throws half way is one whose other packets were lost.  The split   *)
(* hook of the options, which may have further leaves cut, is left out.    *)
(***************************************************************************)
EXTENDS Integers, SequencesExt

CONSTANTS
    Documents,          \* set of documents
    Width,              \* UTF-8 length of every character of their texts
    LargeValueBytes,
    MaxPacketBytes,     \* limit of the network, from which chunkBytes derives
    PreferredSplitPaths,
    MaxDocuments,       \* bound on an instance's calls of send()
    MaxRestarts         \* bound on the instances that follow one another

VARIABLES
    idsUnique,          \* the identity provider: random ids, or counters
    instance,           \* number of restarts of the sender
    lastIds,            \* its counters, of transport ids and of chunk ids
    sentDocs,           \* history: documents sent, with their tids
    packets,            \* packets the network may still deliver
    partials,           \* states: tid -> what has arrived of its message
    attached,           \* the receiver has not been detached
    rebuilt             \* history: what the listeners were handed

jsonVars == <<idsUnique, instance, lastIds, sentDocs, packets, partials, attached, rebuilt>>

-----------------------------------------------------------------------------
\* Math.min(1024, Math.max(64, maxPacketBytes / 2)) is reserved for the envelope.
EnvelopeReserveBytes ==
    LET half == MaxPacketBytes \div 2
        least == IF half < 64 THEN 64 ELSE half
    IN  IF least < 1024 THEN least ELSE 1024

ChunkBytes == MaxPacketBytes - EnvelopeReserveBytes

\* A document's leaves have distinct paths, as those of one object do; a path
\* is a sequence of keys.
ASSUME JSONAssumption ==
    /\ ChunkBytes \in Nat \ {0} /\ LargeValueBytes \in Nat
    /\ Width \in [DOMAIN Width -> Nat]
    /\ \A doc \in Documents :
           /\ doc \in Seq({doc[i] : i \in DOMAIN doc})
           /\ \A i, j \in DOMAIN doc : doc[i].path = doc[j].path => i = j
           /\ \A i \in DOMAIN doc :
                  /\ doc[i] \in [path : Seq(Seq(STRING)), leaf : {doc[i].leaf}]
                  /\ "text" \in DOMAIN doc[i].leaf =>
                         doc[i].leaf \in [text : Seq(DOMAIN Width)]
    /\ MaxDocuments \in Nat /\ MaxRestarts \in Nat

ByteLength(text) == FoldLeft(LAMBDA n, ch : n + Width[ch], 0, text)

\* JSON pointers: "~" becomes "~0", and then "/" becomes "~1".
ReplaceChar(text, ch, by) ==
    FoldLeft(LAMBDA s, x : s \o IF x = ch THEN by ELSE <<x>>, <<>>, text)

EscapeJSONPointer(key) ==
    ReplaceChar(ReplaceChar(key, "~", <<"~", "0">>), "/", <<"~", "1">>)

\* Every "~" with ch behind it becomes by, from left to right.
ReplaceTilde(text, ch, by) ==
    LET Step(done, x) ==
            IF done.tilde /\ x = ch
            THEN [out |-> Append(Front(done.out), by), tilde |-> FALSE]
            ELSE [out |-> Append(done.out, x), tilde |-> x = "~"]
    IN  FoldLeft(Step, [out |-> <<>>, tilde |-> FALSE], text).out

\* Mutant of UnescapeJSONPointer: the other order.
UnescapeTildeFirst(segment) == ReplaceTilde(ReplaceTilde(segment, "0", "~"), "1", "/")

UnescapeJSONPointer(segment) == ReplaceTilde(ReplaceTilde(segment, "1", "/"), "0", "~")

Pointer(path) == FoldLeft(LAMBDA s, key : s \o <<"/">> \o EscapeJSONPointer(key), <<>>, path)

\* path.split('/').slice(1)
Segments(pointer) ==
    FoldLeft(LAMBDA segs, ch : IF ch = "/" THEN Append(segs, <<>>)
                               ELSE [segs EXCEPT ![Len(segs)] = Append(@, ch)],
             <<>>, pointer)

PathOf(pointer) ==
    LET segments == Segments(pointer)
    IN  [i \in DOMAIN segments |-> UnescapeJSONPointer(segments[i])]

MatchesPreferredSplitPath(pointer) ==
    LET segments == Segments(pointer)
    IN  \E pattern \in PreferredSplitPaths :
            /\ Len(pattern) = Len(segments)
            /\ \A i \in DOMAIN pattern : pattern[i] \in {<<"*">>, segments[i]}

ShouldSplit(pointer, size) ==
    \/ size > LargeValueBytes
    \/ /\ MatchesPreferredSplitPath(pointer)
       /\ size > LargeValueBytes \/ size > ChunkBytes

\* Pieces of at most ChunkBytes, never cut inside a character.
SplitStringByBytes(text) ==
    LET Step(parts, ch) ==
            IF parts # <<>> /\ ByteLength(Last(parts)) + Width[ch] <= ChunkBytes
            THEN Front(parts) \o << Append(Last(parts), ch) >>
            ELSE Append(parts, <<ch>>)
    IN  FoldLeft(Step, <<>>, text)

-----------------------------------------------------------------------------
IsText(leaf) == "text" \in DOMAIN leaf

\* The leaves that are replaced by a marker and sent in chunks.
SplitAt(doc) ==
    {i \in DOMAIN doc : /\ IsText(doc[i].leaf)
                        /\ ShouldSplit(Pointer(doc[i].path), ByteLength(doc[i].leaf.text))}

\* A character wider than a chunk: splitJSON throws.
Unsplittable(doc) ==
    \E i \in SplitAt(doc) : \E j \in DOMAIN doc[i].leaf.text :
        Width[doc[i].leaf.text[j]] > ChunkBytes

\* The n-th id of this instance; counters start over in the next one.
NewId(n) == <<IF idsUnique THEN instance ELSE 0, n>>

\* splitJSON: one manifest with a ref for each marker, the end, and the
\* chunks.  A hash is the data it was taken of: collisions are left out.
SplitJSON(doc) ==
    LET tid == NewId(lastIds.tid + 1)
        Cid(i) == NewId(lastIds.cid + Cardinality(SplitAt(doc) \cap (1..i)))
        Parts(i) == SplitStringByBytes(doc[i].leaf.text)
    IN  {[type |-> "json:manifest", tid |-> tid,
          root |-> [i \in DOMAIN doc |->
                       IF i \in SplitAt(doc) THEN [path |-> doc[i].path, leaf |-> [cid |-> Cid(i)]]
                       ELSE doc[i]],
          refs |-> {[cid |-> Cid(i), path |-> Pointer(doc[i].path), chunks |-> Len(Parts(i)),
                     size |-> ByteLength(doc[i].leaf.text)] : i \in SplitAt(doc)}]}
        \cup {[type |-> "json:complete", tid |-> tid]}
        \cup UNION {{[type |-> "json:chunk", tid |-> tid, cid |-> Cid(i), index |-> j,
                      total |-> Len(Parts(i)), data |-> Parts(i)[j], hash |-> Parts(i)[j]]
                        : j \in DOMAIN Parts(i)} : i \in SplitAt(doc)}

\* send(): the counters advance, and the packets go out unless splitting throws.
SendDocument(doc) ==
    /\ lastIds.tid < MaxDocuments
    /\ lastIds' = [tid |-> lastIds.tid + 1, cid |-> lastIds.cid + Cardinality(SplitAt(doc))]
    /\ IF Unsplittable(doc) THEN UNCHANGED <<packets, sentDocs>>
       ELSE /\ packets' = packets \cup SplitJSON(doc)
            /\ sentDocs' = sentDocs \cup {[tid |-> NewId(lastIds.tid + 1), doc |-> doc]}
    /\ UNCHANGED <<idsUnique, instance, partials, attached, rebuilt>>

\* The sender's process, or another one on the same network, starts counting anew.
SenderRestarts ==
    /\ instance < MaxRestarts
    /\ instance' = instance + 1
    /\ lastIds' = [tid |-> 0, cid |-> 0]
    /\ UNCHANGED <<idsUnique, sentDocs, packets, partials, attached, rebuilt>>

-----------------------------------------------------------------------------
\* getState() of a tid it does not know.
FreshPartial == [manifest |-> {}, chunks |-> {}, complete |-> FALSE, got |-> {}]
GetPartial(tid) == IF tid \in DOMAIN partials THEN partials[tid] ELSE FreshPartial

\* setByJSONPointer and getByJSONPointer address the leaf whose path this is.
Addressed(root, pointer) == {i \in DOMAIN root : root[i].path = PathOf(pointer)}

\* The cids are distinct and every ref leads to its marker.
ValidateManifest(m) ==
    /\ \A r1, r2 \in m.refs : r1.cid = r2.cid => r1 = r2
    /\ \A r \in m.refs : \E i \in Addressed(m.root, r.path) : m.root[i].leaf = [cid |-> r.cid]

ValidateChunk(m, chunk) == \E r \in m.refs : r.cid = chunk.cid /\ r.chunks = chunk.total

\* Of the chunks that came before their manifest.
ValidateBufferedChunks(m, s) == \A c \in s.chunks : ValidateChunk(m, c)

\* The chunks of a ref, once all indices are there, and their text.
ChunksOf(s, r) == {c \in s.chunks : c.cid = r.cid}
AllThere(s, r) == {c.index : c \in ChunksOf(s, r)} = 1..r.chunks
Joined(s, r) ==
    FlattenSeq([j \in 1..r.chunks |-> (CHOOSE c \in ChunksOf(s, r) : c.index = j).data])

ValidateSizes(s) ==
    \A m \in s.manifest : \A r \in m.refs : AllThere(s, r) => ByteLength(Joined(s, r)) = r.size

\* assembleJSON: each leaf a ref addresses gets the text of its chunks.
CanAssemble(s) == s.complete /\ \E m \in s.manifest : \A r \in m.refs : AllThere(s, r)
RootWith(s, m) ==
    [i \in DOMAIN m.root |->
        IF \E r \in m.refs : i \in Addressed(m.root, r.path)
        THEN [m.root[i] EXCEPT !.leaf =
                 [text |-> Joined(s, CHOOSE r \in m.refs : i \in Addressed(m.root, r.path))]]
        ELSE m.root[i]]

\* acceptChunk: of the first undamaged copy that the manifest, if it is there,
\* has a ref for.
ChunkAccepted(s, chunk) ==
    IF /\ chunk.hash = chunk.data
       /\ \A m \in s.manifest : ValidateChunk(m, chunk)
       /\ \A c \in s.chunks : c.cid # chunk.cid \/ c.index # chunk.index
    THEN [s EXCEPT !.chunks = @ \cup {chunk}]
    ELSE s

\* Keep the state; or hand the document over, if that completes it.
Keep(tid, s) ==
    /\ partials' = [t \in DOMAIN partials \cup {tid} |-> IF t = tid THEN s ELSE partials[t]]
    /\ UNCHANGED rebuilt
Conclude(tid, s) ==
    IF ValidateSizes(s) /\ CanAssemble(s)
    THEN /\ partials' = [t \in DOMAIN partials \ {tid} |-> partials[t]]
         /\ \E m \in s.manifest : rebuilt' = rebuilt \cup {[tid |-> tid, doc |-> RootWith(s, m)]}
    ELSE Keep(tid, s)

\* What the receiver takes for a packet at all.
IsJSONChunkRef(r) == r.size \in Nat /\ r.chunks \in Nat \ {0}

IsJSONTransportPacket(p) ==
    \/ p.type = "json:complete"
    \/ p.type = "json:chunk" /\ p.index \in 1..p.total
    \/ p.type = "json:manifest" /\ \A r \in p.refs : IsJSONChunkRef(r)

\* acceptPacket() without reliable mode.  A second manifest, one that does not
\* validate, and one that the chunks buffered before do not fit end the call;
\* the last of them stays.
ReceivePacket(p) ==
    LET s == [GetPartial(p.tid) EXCEPT !.got = IF p \in packets THEN @ \cup {p} ELSE @]
        known == [s EXCEPT !.manifest = {p}]
    IN  /\ attached /\ IsJSONTransportPacket(p)
        /\ \/ p.type = "json:complete" /\ Conclude(p.tid, [s EXCEPT !.complete = TRUE])
           \/ p.type = "json:chunk" /\ Conclude(p.tid, ChunkAccepted(s, p))
           \/ /\ p.type = "json:manifest"
              /\ \/ (s.manifest # {} \/ ~ValidateManifest(p)) /\ Keep(p.tid, s)
                 \/ /\ s.manifest = {} /\ ValidateManifest(p)
                    /\ IF ValidateBufferedChunks(p, s)
                       THEN Conclude(p.tid, known) ELSE Keep(p.tid, known)
        /\ UNCHANGED <<idsUnique, instance, lastIds, sentDocs, packets, attached>>

\* The leading byte is flipped; the hash stays.
CorruptChunkData(data) == <<IF data[1] = "X" THEN "Y" ELSE "X">> \o Tail(data)

\* What a conditioned network (src/demo/socket-verifier) hands on of a packet,
\* at any later time, unless it drops it: the packet, or a damaged chunk.
Conditioned(p) ==
    {p} \cup {[q EXCEPT !.data = CorruptChunkData(@)] : q \in {r \in {p} : r.type = "json:chunk"}}

\* cleanup() of a message that waited too long.
PartialExpires(tid) ==
    /\ partials' = [t \in DOMAIN partials \ {tid} |-> partials[t]]
    /\ UNCHANGED <<idsUnique, instance, lastIds, sentDocs, packets, attached, rebuilt>>

DetachDocuments ==
    /\ attached
    /\ attached' = FALSE
    /\ partials' = <<>>
    /\ UNCHANGED <<idsUnique, instance, lastIds, sentDocs, packets, rebuilt>>

DocumentInit ==
    /\ idsUnique \in BOOLEAN
    /\ instance = 0 /\ lastIds = [tid |-> 0, cid |-> 0]
    /\ sentDocs = {} /\ packets = {} /\ rebuilt = {}
    /\ partials = <<>> /\ attached = TRUE

DocumentNext ==
    \/ \E doc \in Documents : SendDocument(doc)
    \/ SenderRestarts \/ DetachDocuments
    \/ \E p \in packets : \E frame \in Conditioned(p) : ReceivePacket(frame)
    \/ \E tid \in DOMAIN partials : PartialExpires(tid)

DocumentSpec == DocumentInit /\ [][DocumentNext]_jsonVars

-----------------------------------------------------------------------------
DocumentTypeOK ==
    /\ idsUnique \in BOOLEAN /\ attached \in BOOLEAN
    /\ instance \in 0..MaxRestarts
    /\ lastIds \in [tid : 0..MaxDocuments, cid : Nat]
    /\ \A s \in sentDocs : s.doc \in Documents

\* Unless counters have started over, a document that is handed over is the one
\* that was sent under its tid, and one of which every packet has come is no
\* longer waiting; and no chunk is larger than chunkBytes (lines 350-447,
\* 636-724, 982-1060, 1150-1275).
DocumentsIntact ==
    /\ idsUnique \/ instance = 0 =>
           /\ rebuilt \subseteq sentDocs
           /\ \A tid \in DOMAIN partials :
                  ~({p \in packets : p.tid = tid} \subseteq partials[tid].got)
    /\ \A p \in packets : p.type = "json:chunk" => ByteLength(p.data) <= ChunkBytes
=============================================================================

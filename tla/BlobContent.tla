---------------------------- MODULE BlobContent ----------------------------
(***************************************************************************)
(* How the content of one blob is put together from chunks of extents, and *)
(* how a range of it is read back while requests go on writing.            *)
(*                                                                         *)
(* A payload is a sequence of units (a page, or a byte), numbered in the   *)
(* order in which clients sent them: a unit tells which write it is from,  *)
(* and which part of it.  0 is a zero byte.  A chunk [id, offset, count]   *)
(* is a part of an extent.  Conditions, leases and blob types that do not  *)
(* fit refuse a request before it gets here; a refused request is no step. *)
(*                                                                         *)
(* The document of a blob is a live object: downloadBlob() returns it      *)
(* itself, and a request that awaits I/O finds it changed.                 *)
(***************************************************************************)
EXTENDS Integers, SequencesExt

CONSTANTS
    Stores,      \* the extent stores to choose from: "fs", "memory"
    Kinds,       \* the types of blobs that are created
    Asked,       \* the ranges <<start, end>> that downloads ask for; a range
                 \* header that ends before it starts is refused
    MaxLen,      \* bound on the length of the blob, in units
    MaxUnits,    \* bound on the units that are sent
    MaxStaged,   \* bound on the staged blocks
    MaxBlocks    \* bound on the committed blocks

ASSUME BlobContentAssumption ==
    /\ Stores \subseteq {"fs", "memory"}
    /\ Kinds \subseteq {"block", "append", "page"}
    /\ Asked \subseteq Nat \X Nat /\ \A range \in Asked : range[1] <= range[2]
    /\ MaxLen \in Nat \ {0} /\ MaxUnits \in Nat
    /\ MaxStaged \in Nat /\ MaxBlocks \in Nat

VARIABLES
    store,       \* the extent store in use
    extents,     \* id |-> the buffers of the extent
    doc,         \* the document of the blob
    staged,      \* its staged blocks
    upload,      \* an Upload Pages request between its check and its merge
    reader,      \* a Get Blob request
    bytes        \* position |-> the unit last written there, 0 if none is

contentVars == <<store, extents, doc, staged, upload, reader, bytes>>

ZeroExtentId == 0
Positions == 0 .. MaxLen - 1
Infinity == 2 * MaxLen    \* the end of a range that names none
NoBlob == [type |-> "none", len |-> 0, md5 |-> FALSE,
           persistency |-> <<>>, blocks |-> <<>>, ranges |-> <<>>]
Idle == [phase |-> "idle"]

Chunk(id, offset, count) == [id |-> id, offset |-> offset, count |-> count]
PageRange(start, end, chunk) == [start |-> start, end |-> end, persistency |-> chunk]
Smaller(a, b) == IF a < b THEN a ELSE b

\* ranges.splice(at, count, ...new): `at' counts from 0 and may lie behind the end.
Splice(seq, at, count, new) ==
    SubSeq(seq, 1, Smaller(at, Len(seq))) \o new \o SubSeq(seq, at + count + 1, Len(seq))

----------------------------------------------------------------------------
(* PageBlobRangesManager.  Indices count from 0, as in the code.           *)

PositionInRange(range, position) == range.start <= position /\ position <= range.end

\* The first range that does not end before `position', by bisection.
LocateFirstImpactedRange(ranges, position) ==
    LET Hit(i) == \/ PositionInRange(ranges[i + 1], position)
                  \/ position < ranges[i + 1].start
        locate[part \in (0 .. Len(ranges)) \X (0 .. Len(ranges))] ==
            LET from == part[1]
                to == part[2]
                mid == (from + to) \div 2
            IN  IF from >= to THEN Infinity
                ELSE IF from = to - 1 THEN IF Hit(from) THEN from ELSE Infinity
                ELSE IF locate[<<from, mid>>] # Infinity THEN locate[<<from, mid>>]
                ELSE IF Hit(mid) THEN mid
                ELSE locate[<<mid + 1, to>>]
    IN  locate[<<0, Len(ranges)>>]

\* The last range that does not start behind `position'.
LocateLastImpactedRange(ranges, position) ==
    LET Hit(i) == \/ PositionInRange(ranges[i + 1], position)
                  \/ position > ranges[i + 1].end
        locate[part \in (0 .. Len(ranges)) \X (0 .. Len(ranges))] ==
            LET from == part[1]
                to == part[2]
                mid == (from + to) \div 2
            IN  IF from >= to THEN -1
                ELSE IF from = to - 1 THEN IF Hit(from) THEN from ELSE -1
                ELSE IF locate[<<mid + 1, to>>] > -1 THEN locate[<<mid + 1, to>>]
                ELSE IF Hit(mid) THEN mid
                ELSE locate[<<from, mid>>]
    IN  locate[<<0, Len(ranges)>>]

SelectImpactedRanges(ranges, start, end) ==
    [first |-> LocateFirstImpactedRange(ranges, start),
     last |-> LocateLastImpactedRange(ranges, end)]

Count(scope) == IF scope.first > scope.last THEN 0 ELSE scope.last - scope.first + 1

\* What remains of the first range before `start' ...
SplitFirst(range, start) ==
    IF PositionInRange(range, start) /\ range.start < start
    THEN <<PageRange(range.start, start - 1,
                 Chunk(range.persistency.id, range.persistency.offset, start - range.start))>>
    ELSE <<>>

\* Faulty variant: the chunk of the remainder still begins where the range did.
SplitLastSameOffset(range, end) ==
    IF PositionInRange(range, end) /\ end < range.end
    THEN <<PageRange(end + 1, range.end,
                 Chunk(range.persistency.id, range.persistency.offset, range.end - end))>>
    ELSE <<>>

\* ... and of the last one behind `end'.
SplitLast(range, end) ==
    IF PositionInRange(range, end) /\ end < range.end
    THEN <<PageRange(end + 1, range.end,
                 Chunk(range.persistency.id,
                       range.persistency.offset + (end + 1 - range.start), range.end - end))>>
    ELSE <<>>

MergeRange(ranges, start, end, chunk) ==
    LET scope == SelectImpactedRanges(ranges, start, end)
        new == <<PageRange(start, end, chunk)>>
    IN  IF Count(scope) = 0 THEN Splice(ranges, scope.first, 0, new)
        ELSE Splice(ranges, scope.first, Count(scope),
                    SplitFirst(ranges[scope.first + 1], start) \o new
                        \o SplitLast(ranges[scope.last + 1], end))

ClearRange(ranges, start, end) ==
    LET scope == SelectImpactedRanges(ranges, start, end)
    IN  IF Count(scope) = 0 THEN ranges
        ELSE Splice(ranges, scope.first, Count(scope),
                    SplitFirst(ranges[scope.first + 1], start)
                        \o SplitLast(ranges[scope.last + 1], end))

\* Faulty variant: a range that reaches over the end is not cut.
CutRangesAtStart(ranges, start, end) ==
    LET scope == SelectImpactedRanges(ranges, start, end)
        impacted == SubSeq(ranges, scope.first + 1, scope.last + 1)
        CutStart(r) == IF PositionInRange(r, start) /\ r.start < start
                       THEN PageRange(start, r.end,
                                  Chunk(r.persistency.id, start - r.start + r.persistency.offset,
                                        r.persistency.count - (start - r.start)))
                       ELSE r
    IN  IF Count(scope) = 0 THEN <<>> ELSE [impacted EXCEPT ![1] = CutStart(@)]

\* The parts of the ranges within start .. end.
CutRanges(ranges, start, end) ==
    LET scope == SelectImpactedRanges(ranges, start, end)
        impacted == SubSeq(ranges, scope.first + 1, scope.last + 1)
        CutStart(r) == IF PositionInRange(r, start) /\ r.start < start
                       THEN PageRange(start, r.end,
                                  Chunk(r.persistency.id, start - r.start + r.persistency.offset,
                                        r.persistency.count - (start - r.start)))
                       ELSE r
        CutEnd(r) == IF PositionInRange(r, end) /\ end < r.end
                     THEN PageRange(r.start, end,
                                Chunk(r.persistency.id, r.persistency.offset,
                                      r.persistency.count - (r.end - end)))
                     ELSE r
    IN  IF Count(scope) = 0 THEN <<>>
        ELSE [[impacted EXCEPT ![1] = CutStart(@)] EXCEPT ![Len(impacted)] = CutEnd(@)]

ZeroRange(start, end) ==
    IF start > end THEN <<>> ELSE <<PageRange(start, end, Chunk(ZeroExtentId, 0, end + 1 - start))>>

\* The same with ranges of zeros before, between and behind them.
FillZeroRanges(ranges, start, end) ==
    LET cut == CutRanges(ranges, start, end)
        Gap(i) == ZeroRange(cut[i].end + 1, IF i = Len(cut) THEN end ELSE cut[i + 1].start - 1)
    IN  IF cut = <<>> THEN ZeroRange(start, end)
        ELSE ZeroRange(start, cut[1].start - 1)
                 \o FlattenSeq([i \in DOMAIN cut |-> <<cut[i]>> \o Gap(i)])

----------------------------------------------------------------------------
(* The extent stores.                                                      *)

Units == 1 .. MaxUnits
Sent == Len(FlattenSeq(FlattenSeq(extents)))
Payload(n) == [i \in 1 .. n |-> Sent + i]

\* The ways in which a stream may deliver a payload.
Deliveries(units) ==
    {<<units>>} \cup {<<SubSeq(units, 1, k), SubSeq(units, k + 1, Len(units))>> : k \in 1 .. Len(units) - 1}

\* appendExtent: FSExtentStore appends to a file (to which one, and what may
\* go wrong, is in FSExtentStore); MemoryExtentStore keeps the buffers that
\* the stream delivered as an extent of their own.
AppendExtent(n) ==
    /\ Sent + n <= MaxUnits
    /\ \/ store = "fs" /\ extents' = <<Append(IF extents = <<>> THEN <<>> ELSE extents[1], Payload(n))>>
       \/ store = "memory" /\ \E b \in Deliveries(Payload(n)) : extents' = Append(extents, b)

NewChunk(n) == IF store = "fs" THEN Chunk(1, Sent, n) ELSE Chunk(Len(extents) + 1, 0, n)

\* FSExtentStore.readExtent: a read stream over the bytes of the chunk.
ReadFile(buffers, chunk) == SubSeq(FlattenSeq(buffers), chunk.offset + 1, chunk.offset + chunk.count)

\* MemoryExtentStore.readExtent: skips and takes buffer by buffer.
ReadBuffers(buffers, chunk) ==
    LET Take(state, buffer) ==
            IF state.take = 0 THEN state
            ELSE IF state.skip > 0 /\ Len(buffer) <= state.skip
                 THEN [state EXCEPT !.skip = @ - Len(buffer)]
            ELSE LET slice == SubSeq(buffer, state.skip + 1,
                                     Smaller(state.skip + state.take, Len(buffer)))
                 IN  [skip |-> 0, take |-> state.take - Len(slice), out |-> state.out \o slice]
    IN  FoldLeft(Take, [skip |-> chunk.offset, take |-> chunk.count, out |-> <<>>], buffers).out

ReadExtent(chunk) ==
    IF chunk.count = 0 THEN <<>>
    ELSE IF chunk.id = ZeroExtentId THEN [i \in 1 .. chunk.count |-> 0]
    ELSE IF store = "fs" THEN ReadFile(extents[chunk.id], chunk)
    ELSE ReadBuffers(extents[chunk.id], chunk)

\* readExtents, the same in both stores: the `count' units behind the first
\* `offset' of the chunks' concatenation; fails if there are fewer.
Failed == <<-1>>
ReadExtents(chunks, offset, count) ==
    LET end == offset + count
        Take(state, chunk) ==
            LET next == state.at + chunk.count
                from == IF offset > state.at THEN offset - state.at ELSE 0
                beyond == IF end <= next THEN next - end ELSE 0
            IN  IF next <= offset THEN [state EXCEPT !.at = next]
                ELSE IF end <= state.at THEN state
                ELSE [at |-> next,
                      out |-> state.out \o ReadExtent(Chunk(chunk.id, chunk.offset + from,
                                                            chunk.count - from - beyond))]
        read == FoldLeft(Take, [at |-> 0, out |-> <<>>], chunks)
    IN  IF count = 0 THEN <<>> ELSE IF read.at < end THEN Failed ELSE read.out

----------------------------------------------------------------------------
(* Writing.                                                                *)

\* `bytes' after `units' are written from a position on.
Written(at, units) ==
    [p \in Positions |-> IF at <= p /\ p < at + Len(units) THEN units[p - at + 1] ELSE bytes[p]]
Zeros == [p \in Positions |-> 0]

\* Put Blob of a block blob; the service records its MD5.  A new document
\* replaces the old one, which a download in progress keeps.
PutBlob(n) ==
    /\ "block" \in Kinds
    /\ AppendExtent(n)
    /\ doc' = [NoBlob EXCEPT !.type = "block", !.len = n, !.md5 = TRUE, !.persistency = <<NewChunk(n)>>]
    /\ bytes' = [p \in Positions |-> IF p < n THEN Payload(n)[p + 1] ELSE 0]
    /\ UNCHANGED <<store, staged, upload, reader>>

\* Put Blob without a body: a chunk that counts nothing is as good as none.
PutEmptyBlob ==
    /\ "block" \in Kinds
    /\ doc' = [NoBlob EXCEPT !.type = "block", !.md5 = TRUE]
    /\ bytes' = Zeros
    /\ UNCHANGED <<store, extents, staged, upload, reader>>

StageBlock(n) ==
    /\ "block" \in Kinds /\ doc.type \in {"none", "block"}
    /\ Len(staged) < MaxStaged
    /\ AppendExtent(n)
    /\ staged' = Append(staged, NewChunk(n))
    /\ UNCHANGED <<store, doc, upload, reader, bytes>>

\* Commit Block List of committed and staged blocks, some of them repeated or
\* left out.  The old persistency stays in a document that has one.
CommitBlockList(list) ==
    /\ "block" \in Kinds /\ doc.type \in {"none", "block"}
    /\ LET len == FoldLeft(LAMBDA total, block : total + block.count, 0, list)
           units == FlattenSeq([i \in DOMAIN list |-> ReadExtent(list[i])])
       IN  /\ len <= MaxLen
           /\ doc' = [doc EXCEPT !.type = "block", !.len = len, !.md5 = FALSE, !.blocks = list]
           /\ bytes' = [p \in Positions |-> IF p < len THEN units[p + 1] ELSE 0]
    /\ staged' = <<>>
    /\ UNCHANGED <<store, extents, upload, reader>>

CreateEmpty(type, len) ==
    /\ type \in Kinds
    /\ doc' = [NoBlob EXCEPT !.type = type, !.len = len]
    /\ bytes' = Zeros
    /\ UNCHANGED <<store, extents, staged, upload, reader>>

AppendBlock(n) ==
    /\ doc.type = "append" /\ doc.len + n <= MaxLen
    /\ Len(doc.blocks) < MaxBlocks
    /\ AppendExtent(n)
    /\ doc' = [doc EXCEPT !.blocks = Append(@, NewChunk(n)), !.len = @ + n]
    /\ bytes' = Written(doc.len, Payload(n))
    /\ UNCHANGED <<store, staged, upload, reader>>

\* Upload Pages checks that the range starts within the blob and stores the
\* payload ...
UploadPages(start, end) ==
    /\ doc.type = "page" /\ upload = Idle
    /\ start < doc.len
    /\ AppendExtent(end - start + 1)
    /\ upload' = [phase |-> "stored", start |-> start, end |-> end,
                  chunk |-> NewChunk(end - start + 1), units |-> Payload(end - start + 1)]
    /\ UNCHANGED <<store, doc, staged, reader, bytes>>

\* ... and merges the range into what the blob is by then.
MergePages ==
    /\ upload # Idle
    /\ upload' = Idle
    /\ IF doc.type = "page"
       THEN /\ doc' = [doc EXCEPT !.ranges = MergeRange(@, upload.start, upload.end, upload.chunk)]
            /\ bytes' = Written(upload.start, upload.units)
       ELSE UNCHANGED <<doc, bytes>>
    /\ UNCHANGED <<store, extents, staged, reader>>

\* `end' is Infinity without a range header.
ClearPages(start, end) ==
    /\ doc.type = "page"
    /\ start < doc.len
    /\ doc' = [doc EXCEPT !.ranges = ClearRange(@, start, end)]
    /\ bytes' = [p \in Positions |-> IF start <= p /\ p <= end THEN 0 ELSE bytes[p]]
    /\ UNCHANGED <<store, extents, staged, upload, reader>>

\* Shrinking clears what lies between the new and the old length.
Resize(len) ==
    /\ doc.type = "page"
    /\ doc' = [doc EXCEPT !.len = len,
                          !.ranges = IF doc.len > len THEN ClearRange(@, len, doc.len - 1) ELSE @]
    /\ bytes' = [p \in Positions |-> IF len <= p /\ p < doc.len THEN 0 ELSE bytes[p]]
    /\ UNCHANGED <<store, extents, staged, upload, reader>>

----------------------------------------------------------------------------
(* Reading.                                                                *)

\* The range that a download answers: what it asks for, cut at the length.
\* One that starts at the length is answered, with nothing.
RangeAllowed(d, start, end) ==
    /\ start <= d.len
    /\ ~(d.len = 0 /\ end # 0 /\ end # Infinity)
RangeEnd(d, end) == IF end + 1 >= d.len THEN d.len - 1 ELSE end

\* What bodyGetter reads: chunks, an offset into their concatenation and a
\* count.  The ranges of a page blob, with zeros between them ...
PageBodyGetter(d, start, end) ==
    LET count == end - start + 1
        filled == IF count <= 0 THEN <<>> ELSE FillZeroRanges(d.ranges, start, end)
    IN  [chunks |-> [i \in DOMAIN filled |-> filled[i].persistency], offset |-> 0, count |-> count]

\* ... the blocks of another blob, or the payload of its Put Blob.
BlockBodyGetter(d, start, end) ==
    LET count == end - start + 1
        Part(chunk) == Chunk(chunk.id, chunk.offset + start, Smaller(chunk.count, count))
    IN  IF d.blocks # <<>> THEN [chunks |-> d.blocks, offset |-> start, count |-> count]
        ELSE IF d.persistency = <<>> THEN [chunks |-> <<>>, offset |-> 0, count |-> 0]
        ELSE [chunks |-> <<Part(d.persistency[1])>>, offset |-> 0,
              count |-> Part(d.persistency[1]).count]

BodyGetter(d, start, end) ==
    IF d.type = "page" THEN PageBodyGetter(d, start, end) ELSE BlockBodyGetter(d, start, end)

Body(getter) == ReadExtents(getter.chunks, getter.offset, getter.count)

\* Downloads read ranges, blocks and length before they first await.
StartDownload(start, last, getter) ==
    /\ reader = Idle
    /\ reader' = [phase |-> "hash", start |-> start, end |-> last,
                  hash |-> last - start + 1 # doc.len \/ ~doc.md5,
                  body |-> <<>>, getter |-> getter,
                  then |-> [p \in 1 .. last - start + 1 |-> bytes[start + p - 1]]]
    /\ UNCHANGED <<store, extents, doc, staged, upload, bytes>>

DownloadPageBlob(start, end) ==
    LET last == RangeEnd(doc, end)
    IN  /\ doc.type = "page"
        /\ RangeAllowed(doc, start, end)
        /\ StartDownload(start, last, PageBodyGetter(doc, start, last))

DownloadBlockBlobOrAppendBlob(start, end) ==
    LET last == RangeEnd(doc, end)
    IN  /\ doc.type \in {"block", "append"}
        /\ RangeAllowed(doc, start, end)
        /\ StartDownload(start, last, BlockBodyGetter(doc, start, last))

Download(start, end) == DownloadPageBlob(start, end) \/ DownloadBlockBlobOrAppendBlob(start, end)

\* The body that is hashed, if the answer has to compute an MD5 ...
ReadHash ==
    /\ reader.phase = "hash"
    /\ reader' = [reader EXCEPT !.phase = IF reader.hash THEN "body" ELSE "answer",
                                !.body = Body(reader.getter)]
    /\ UNCHANGED <<store, extents, doc, staged, upload, bytes>>

\* Faulty variant: the second body is looked up in the document anew.
ReadBodyAnew ==
    /\ reader.phase = "body"
    /\ LET again == Body(BodyGetter(doc, reader.start, Smaller(reader.end, doc.len - 1)))
       IN  reader' = [reader EXCEPT !.phase = IF again = reader.body THEN "answer" ELSE "mixed",
                                    !.body = again]
    /\ UNCHANGED <<store, extents, doc, staged, upload, bytes>>

\* ... is read again to be sent.
ReadBody ==
    /\ reader.phase = "body"
    /\ LET again == Body(reader.getter)
       IN  reader' = [reader EXCEPT !.phase = IF again = reader.body THEN "answer" ELSE "mixed",
                                    !.body = again]
    /\ UNCHANGED <<store, extents, doc, staged, upload, bytes>>

AnswerDownload ==
    /\ reader.phase \in {"answer", "mixed"}
    /\ reader' = Idle
    /\ UNCHANGED <<store, extents, doc, staged, upload, bytes>>

\* The pages that getPageRanges lists, the whole length without a range
\* header.  A range that starts behind the end is refused.
PageRangesAllowed(start) == start < doc.len
GetPageRanges(start, end) == CutRanges(doc.ranges, start, end)

----------------------------------------------------------------------------
ContentInit ==
    /\ store \in Stores
    /\ extents = <<>> /\ doc = NoBlob /\ staged = <<>>
    /\ upload = Idle /\ reader = Idle
    /\ bytes = Zeros

Blocks == {staged[i] : i \in DOMAIN staged} \cup {doc.blocks[i] : i \in DOMAIN doc.blocks}
Ends(start) == (start .. MaxLen - 1) \cup {Infinity}

ContentNext ==
    \/ \E n \in 1 .. MaxLen : PutBlob(n) \/ StageBlock(n) \/ AppendBlock(n)
    \/ PutEmptyBlob
    \/ \E k \in 0 .. MaxBlocks : \E list \in [1 .. k -> Blocks] : CommitBlockList(list)
    \/ CreateEmpty("append", 0)
    \/ \E len \in 0 .. MaxLen : CreateEmpty("page", len) \/ Resize(len)
    \/ \E start \in Positions : \E end \in start .. MaxLen - 1 : UploadPages(start, end)
    \/ MergePages
    \/ \E start \in Positions : \E end \in Ends(start) : ClearPages(start, end)
    \/ \E range \in Asked : Download(range[1], range[2])
    \/ ReadHash \/ ReadBody \/ AnswerDownload

ContentSpec == ContentInit /\ [][ContentNext]_contentVars

----------------------------------------------------------------------------
\* A range of the blob that a download may ask for reads as the units last
\* written to its positions, zero where none is: whatever splits, merges and
\* clears mergeRange(), clearRange() and resizePageBlob() made, whichever
\* chunks commitBlockList() selected, and wherever a chunk lies in its extent.
ContentIsLastWrites ==
    doc.type # "none" =>
        \A start \in 0 .. doc.len - 1 : \A end \in start .. doc.len - 1 :
            Body(BodyGetter(doc, start, end)) = [p \in 1 .. end - start + 1 |-> bytes[start + p - 1]]

\* getPageRanges() lists, in order and without overlap, exactly the written
\* pages of the range that was asked for.
PageRangesAreWritten ==
    doc.type = "page" =>
        \A start \in {p \in Positions : PageRangesAllowed(p)} : \A end \in Ends(start) :
            LET listed == GetPageRanges(start, end)
            IN  /\ \A i \in 1 .. Len(listed) - 1 : listed[i].end < listed[i + 1].start
                /\ UNION {listed[i].start .. listed[i].end : i \in DOMAIN listed}
                       = {p \in Positions : start <= p /\ p <= end /\ bytes[p] # 0}

\* A download sends the content that the blob had when the request read its
\* document, and the MD5 it computes is of what it sends, although the body is
\* read twice and the document may be written to, or replaced, in between.
DownloadIsOneVersion ==
    reader.phase \in {"answer", "mixed"} =>
        reader.phase = "answer" /\ reader.body = reader.then
=============================================================================

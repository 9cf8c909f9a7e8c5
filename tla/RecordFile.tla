----------------------------- MODULE RecordFile -----------------------------
(***************************************************************************)
(* A recording: vnx::RecordWriter and vnx::RecordReader.                   *)
(*                                                                         *)
(* The file is a sequence of records, and a position in it is an index of  *)
(* that sequence. A block begins with its index, which is written empty    *)
(* and again when the block is full or the file is flushed; the blocks are *)
(* linked both ways. A sample that was published again is a pointer to its *)
(* data. The writer may crash: what was appended since the last write of   *)
(* an index may be lost. The reader keeps the index of one block, a        *)
(* position in it, and the position of the file it will read from next.    *)
(***************************************************************************)
EXTENDS Integers, Sequences, FiniteSets

Seqs == INSTANCE SequencesExt

CONSTANTS
    None,
    Channel,        \* publishers with their topic
    BlockSize,      \* RecordHeader::block_size
    MaxSamples,     \* bound: samples that are written
    MaxSeek         \* bound: samples that are skipped by one seek

ASSUME ConstantsAssumption ==
    BlockSize \in Nat \ {0} /\ MaxSamples \in Nat /\ MaxSeek \in Nat

VARIABLES
    file,           \* the records
    writer,         \* what the writer is doing
    curr_block_pos, \* RecordWriter::curr_block_pos
    curr_block,     \* RecordWriter::curr_block with the entries that are used
    channel_map,    \* RecordWriter::channel_map
    written,        \* the samples and where they are in the file (history)
    flushed,        \* how many must survive a crash (history)
    reader          \* the state of RecordReader, None if it is not open

writerVars == <<file, writer, curr_block_pos, curr_block, channel_map, written, flushed>>
vars == <<writerVars, reader>>

Sample  == [chan : Channel, seq_num : 1..MaxSamples]
Pos     == Nat \ {0}
Index   == [prev_block : Pos \cup {0}, next_block : Pos \cup {0}, index : Seq(Pos)]
Record  == Index \cup Sample \cup [position : Pos]
Reader  == [block : Index, index_pos : Nat, pos : Pos, sample : Sample,
            begin : BOOLEAN, end : BOOLEAN, ok : BOOLEAN, failed : BOOLEAN, stepped_back : BOOLEAN]

TypeOK ==
    /\ file \in Seq(Record)
    /\ writer \in {"open", "link", "index", "closed"}
    /\ curr_block_pos \in Pos /\ curr_block \in Index
    /\ channel_map \in [Channel -> [seq_num : 0..MaxSamples, output_pos : Pos \cup {0}]]
    /\ written \in Seq([sample : Sample, pos : Pos])
    /\ flushed \in 0..Len(written)
    /\ reader = None \/ reader \in Reader

\* Records of the file: an index, a sample, or the position of one.
IsIndex(r)   == "index" \in DOMAIN r
IsPointer(r) == "position" \in DOMAIN r

EmptyBlock(prev) == [prev_block |-> prev, next_block |-> 0, index |-> <<>>]

Init ==
    /\ file = <<EmptyBlock(0)>>
    /\ writer = "open"
    /\ curr_block_pos = 1 /\ curr_block = EmptyBlock(0)
    /\ channel_map = [c \in Channel |-> [seq_num |-> 0, output_pos |-> 0]]
    /\ written = <<>> /\ flushed = 0
    /\ reader = None

-----------------------------------------------------------------------------
(* RecordWriter *)

\* write() of sample n of channel c: the next, or the last one again.
Write(c, n) ==
    LET pos    == Len(file) + 1
        is_new == n > channel_map[c].seq_num \/ channel_map[c].output_pos = 0
    IN  /\ writer = "open" /\ Len(written) < MaxSamples
        /\ file' = Append(file, IF is_new THEN [chan |-> c, seq_num |-> n]
                                ELSE [position |-> channel_map[c].output_pos])
        /\ curr_block' = [curr_block EXCEPT !.index = Append(@, pos)]
        /\ channel_map' = [channel_map EXCEPT
             ![c] = [seq_num |-> n, output_pos |-> IF is_new THEN pos ELSE @.output_pos]]
        /\ written' = Append(written, [sample |-> [chan |-> c, seq_num |-> n], pos |-> pos])
        /\ writer' = IF Len(curr_block'.index) = BlockSize THEN "link" ELSE "open"
        /\ UNCHANGED <<curr_block_pos, flushed, reader>>

\* Mutant: the full block is linked without its entries.
AddBlockLinkOnly ==
    /\ writer = "link"
    /\ file' = [file EXCEPT ![curr_block_pos].next_block = Len(file) + 1]
    /\ flushed' = Len(written)
    /\ writer' = "index"
    /\ UNCHANGED <<curr_block_pos, curr_block, channel_map, written, reader>>

\* add_block() writes the index of the full block, linked to the next,
AddBlockLink ==
    /\ writer = "link"
    /\ file' = [file EXCEPT ![curr_block_pos] = [curr_block EXCEPT !.next_block = Len(file) + 1]]
    /\ flushed' = Len(written)
    /\ writer' = "index"
    /\ UNCHANGED <<curr_block_pos, curr_block, channel_map, written, reader>>

\* and then the empty index of that.
AddBlockIndex ==
    /\ writer = "index"
    /\ curr_block_pos' = Len(file) + 1
    /\ curr_block' = EmptyBlock(curr_block_pos)
    /\ file' = Append(file, curr_block')
    /\ writer' = "open"
    /\ UNCHANGED <<channel_map, written, flushed, reader>>

\* flush(), by a timer or by close(), rewrites the index.
Flush(next) ==
    /\ writer = "open" /\ next \in {"open", "closed"}
    /\ file' = [file EXCEPT ![curr_block_pos] = curr_block]
    /\ flushed' = Len(written)
    /\ writer' = next
    /\ UNCHANGED <<curr_block_pos, curr_block, channel_map, written, reader>>

\* The program ends: what it had not forced to the file may be lost.
Crash ==
    /\ writer # "closed"
    /\ \E n \in 1..Len(file) :
         /\ flushed > 0 => n >= written[flushed].pos
         /\ file' = SubSeq(file, 1, n)
    /\ writer' = "closed"
    /\ UNCHANGED <<curr_block_pos, curr_block, channel_map, written, flushed, reader>>

-----------------------------------------------------------------------------
(* RecordReader *)

\* Mutant: the file is left where the data of a pointer was.
ReadSampleAstray(rd) ==
    IF rd.pos > Len(file) THEN [rd EXCEPT !.end = TRUE]
    ELSE LET r == file[rd.pos] IN
         IF IsIndex(r) THEN [rd EXCEPT !.failed = TRUE]
         ELSE IF IsPointer(r)
         THEN [rd EXCEPT !.pos = r.position + 1, !.sample = file[r.position]]
         ELSE [rd EXCEPT !.pos = @ + 1, !.sample = r]

\* read_sample() at the position of the file. The data of a pointer is read where
\* it is, and the file goes on after the pointer.
ReadSample(rd) ==
    IF rd.pos > Len(file) THEN [rd EXCEPT !.end = TRUE]
    ELSE LET r == file[rd.pos] IN
         IF IsIndex(r) THEN [rd EXCEPT !.failed = TRUE]
         ELSE [rd EXCEPT !.pos = @ + 1,
                         !.sample = IF IsPointer(r) THEN file[r.position] ELSE r]

SeekAndRead(rd) == ReadSample([rd EXCEPT !.pos = rd.block.index[rd.index_pos]])

\* Mutant: the last block is taken for the end when it is empty.
SeekNextStays(rd) ==
    LET r  == [rd EXCEPT !.begin = FALSE, !.end = FALSE, !.ok = TRUE, !.index_pos = @ + 1]
        next == rd.block.next_block
        stay == [rd EXCEPT !.begin = FALSE, !.end = TRUE, !.ok = FALSE]
    IN  IF r.index_pos <= Len(rd.block.index) THEN r
        ELSE IF next = 0 THEN stay
        ELSE IF next > Len(file) THEN [r EXCEPT !.failed = TRUE, !.ok = FALSE]
        ELSE IF file[next].index = <<>>
        THEN [stay EXCEPT !.index_pos = 1]
        ELSE [r EXCEPT !.block = file[next], !.index_pos = 1, !.pos = next + 1]

\* seek_next(): the next entry, in this block or the next. At the end the reader
\* stays; when the last block is empty it goes back to the one before. When the
\* index that was linked is not there, it throws.
SeekNext(rd) ==
    LET r  == [rd EXCEPT !.begin = FALSE, !.end = FALSE, !.ok = TRUE, !.index_pos = @ + 1]
        next == rd.block.next_block
        stay == [rd EXCEPT !.begin = FALSE, !.end = TRUE, !.ok = FALSE]
    IN  IF r.index_pos <= Len(rd.block.index) THEN r
        ELSE IF next = 0 THEN stay
        ELSE IF next > Len(file) THEN [r EXCEPT !.failed = TRUE, !.ok = FALSE]
        ELSE IF file[next].index = <<>>
        THEN [SeekAndRead(stay) EXCEPT !.end = TRUE]
        ELSE [r EXCEPT !.block = file[next], !.index_pos = 1, !.pos = next + 1]

\* seek_prev(): the entry before, where the file is not moved to, or the last one
\* of the block before, which is read.
SeekPrev(rd) ==
    LET r == [rd EXCEPT !.begin = FALSE, !.end = FALSE, !.ok = TRUE, !.index_pos = @ - 1]
        prev == rd.block.prev_block
    IN  IF r.index_pos >= 1 THEN r
        ELSE IF prev = 0 THEN [rd EXCEPT !.begin = TRUE, !.end = FALSE, !.ok = FALSE]
        ELSE SeekAndRead([r EXCEPT !.block = file[prev], !.index_pos = Len(file[prev].index)])

Usable == reader # None /\ ~ reader.failed

\* reset(): the first sample of the file, unless the first index is empty.
Open ==
    /\ reader = None /\ writer = "closed" /\ file[1].index # <<>>
    /\ reader' = SeekAndRead(
         [block |-> file[1], index_pos |-> 1, pos |-> 2, sample |-> written[1].sample,
          begin |-> FALSE, end |-> FALSE, ok |-> TRUE, failed |-> FALSE, stepped_back |-> FALSE])
    /\ UNCHANGED writerVars

ReadNext ==
    /\ Usable
    /\ LET r == SeekNext(reader) IN reader' = IF r.ok THEN ReadSample(r) ELSE r
    /\ UNCHANGED writerVars

ReadPrev ==
    /\ Usable
    /\ LET r == SeekPrev(reader)
           s == IF r.ok THEN ReadSample(r) ELSE r
       IN  reader' = [s EXCEPT !.stepped_back = TRUE]
    /\ UNCHANGED writerVars

\* The reader after each step of seek_by_count(), up to one that fails.
Steps(k) == IF k > 0 THEN k ELSE -k

SeekPath(k) ==
    LET path[i \in 0..Steps(k)] ==
          IF i = 0 THEN [reader EXCEPT !.ok = TRUE]
          ELSE IF ~ path[i - 1].ok \/ path[i - 1].failed THEN path[i - 1]
          ELSE IF k > 0 THEN SeekNext(path[i - 1]) ELSE SeekPrev(path[i - 1])
    IN  path

\* seek_by_count(): then the sample there is read.
SeekByCount(k) ==
    LET r == SeekPath(k)[Steps(k)]
    IN  /\ Usable
        /\ reader' = IF r.failed THEN r ELSE [SeekAndRead(r) EXCEPT !.stepped_back = @ /\ k = 0]
        /\ UNCHANGED writerVars

-----------------------------------------------------------------------------
WriterStep ==
    \/ \E c \in Channel, n \in 1..MaxSamples :
         n \in {channel_map[c].seq_num, channel_map[c].seq_num + 1} /\ Write(c, n)
    \/ AddBlockLink \/ AddBlockIndex \/ Flush("open") \/ Flush("closed") \/ Crash

ReaderStep ==
    Open \/ ReadNext \/ ReadPrev \/ \E k \in (-MaxSeek)..MaxSeek : SeekByCount(k)

Next == WriterStep \/ ReaderStep

Spec == Init /\ [][Next]_vars

-----------------------------------------------------------------------------
(* Properties. *)

\* Which sample that was written the reader is at, by its index.
Rank(rd) == CHOOSE i \in DOMAIN written : written[i].pos = rd.block.index[rd.index_pos]

\* The sample a reader returns is the one that was written where its index says,
\* although read_next() does not look at the positions in it, and although a
\* sample may be a pointer to another; whatever steps and seeks came before, but
\* for read_prev() (RecordReader.cpp:170, 242; RecordWriter.cpp:78).
SampleAtIndex ==
    Usable /\ ~ reader.stepped_back => reader.sample = written[Rank(reader)].sample

\* The samples whose position is in an index of the file, which are the first ones.
Readable ==
    LET blocks == {file[b] : b \in {i \in DOMAIN file : IsIndex(file[i])}} IN
    Cardinality(UNION {Seqs!ToSet(b.index) : b \in blocks})

\* The reader goes by k samples, or stays within what can be read.
MovesBy(k) ==
    LET to == Rank(reader) + k IN
    Usable' => Rank(reader)' = IF to < 1 THEN 1 ELSE IF to > Readable THEN Readable ELSE to

\* Steps and seeks go by the samples that were written, within a block, over
\* blocks, over an empty last block and back, and stop at the first and the last
\* sample, or at an index that is not there (RecordReader.cpp:164, 189, 209).
MovesBySamples ==
    [][ /\ ReadNext => MovesBy(1)
        /\ \A k \in (-MaxSeek)..MaxSeek : SeekByCount(k) => MovesBy(k) ]_vars

\* A crash loses nothing that was flushed or is in a full block: a reader that
\* is at the end, or that failed to go on, has got to it (RecordWriter.cpp:185).
FlushedReadable ==
    reader # None /\ ~ reader.stepped_back =>
        /\ reader.end => Rank(reader) >= flushed
        /\ reader.failed =>
             /\ reader.index_pos > Len(reader.block.index)
             /\ flushed = 0 \/ written[flushed].pos <= Seqs!Last(reader.block.index)

\* read_prev() does what RecordReader.h:48 says, "Read the previous sample and
\* return it", when there is one and the reader is at a sample of its own. It does
\* not: within a block the file is not moved (RecordReader.cpp:192).
PrevReturnsPrevious ==
    [][ ReadPrev /\ Usable' /\ ~ reader.stepped_back /\ Rank(reader) > 1 =>
            reader'.sample = written[Rank(reader) - 1].sample ]_vars
=============================================================================

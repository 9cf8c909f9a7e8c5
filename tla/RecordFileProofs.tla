-------------------------- MODULE RecordFileProofs --------------------------
(***************************************************************************)
(* Theorems about RecordFile, for any number of channels, any size of the  *)
(* blocks and any number of samples, stops of the program included.        *)
(*                                                                         *)
(* An index is right because its entries are the positions that follow it  *)
(* (BlocksInv) and the positions of samples increase (WrittenInv); nothing *)
(* that was flushed is behind the last index (LastInv); a sample is what   *)
(* was written there because only an index is ever overwritten, and a      *)
(* pointer is to a sample before it (PointersInv). A reader is at an entry *)
(* of a block that is in the file, with the file behind its sample         *)
(* (ReaderInv). The steps of seek_by_count() are a recursive function;     *)
(* that it exists, and that every value of it is such a reader, is proved  *)
(* by induction on the number of steps (EveryNumber).                      *)
(*                                                                         *)
(* That a step goes by one sample needs besides that the file is nothing   *)
(* but blocks, one behind the other, each full but the last (TilesInv):    *)
(* then no sample is between two entries that follow each other            *)
(* (NextEntry), and the samples in an index are the first ones             *)
(* (ReadableIs).                                                           *)
(***************************************************************************)
EXTENDS RecordFile, WellFoundedInduction, FiniteSetTheorems, TLAPS

\* A block of the file begins at b.
IsBlock(b) == b \in DOMAIN file /\ IsIndex(file[b])

\* What is read at position p of file f.
DataIn(f, p) == IF IsPointer(f[p]) THEN f[f[p].position] ELSE f[p]

\* A pointer is to a sample that is before it.
PointersInv ==
    \A p \in DOMAIN file : IsPointer(file[p]) =>
        file[p].position \in 1..(p - 1) /\ file[file[p].position] \in Sample

\* The samples are in the file in the order they were written in; what the file
\* has of them is what was written, and it has what was flushed.
WrittenInv ==
    /\ \A i, j \in DOMAIN written : i < j => written[i].pos < written[j].pos
    /\ \A i \in DOMAIN written : written[i].pos \in DOMAIN file =>
         ~ IsIndex(file[written[i].pos]) /\ DataIn(file, written[i].pos) = written[i].sample
    /\ \A i \in 1..flushed : written[i].pos \in DOMAIN file
    /\ writer # "closed" => \A i \in DOMAIN written : written[i].pos \in DOMAIN file

\* A block of the file: its entries follow it and were flushed; it is full when
\* the next is linked, and that is in its place if it is in the file; the one
\* before is in the file and has entries.
BlocksInv ==
    /\ IsBlock(1)
    /\ \A b \in DOMAIN file : IsIndex(file[b]) =>
         /\ \A k \in DOMAIN file[b].index :
              /\ file[b].index[k] = b + k
              /\ \E i \in 1..flushed : written[i].pos = b + k
         /\ file[b].next_block # 0 =>
              /\ file[b].next_block = b + BlockSize + 1 /\ Len(file[b].index) = BlockSize
              /\ file[b].next_block \in DOMAIN file => IsIndex(file[file[b].next_block])
         /\ file[b].next_block = 0 => b = curr_block_pos
         /\ file[b].prev_block # 0 =>
              IsBlock(file[b].prev_block) /\ file[b].prev_block < b /\ file[file[b].prev_block].index # <<>>

\* All that was flushed is in the blocks up to the last index.
LastInv == IsBlock(curr_block_pos) /\ flushed > 0 =>
              written[flushed].pos <= curr_block_pos + Len(file[curr_block_pos].index)

\* The writer is in the last block, and knows where the data of each channel is.
WriterInv == writer # "closed" =>
    /\ IsBlock(curr_block_pos)
    /\ curr_block.next_block = 0
    /\ curr_block.prev_block = file[curr_block_pos].prev_block
    /\ Len(file[curr_block_pos].index) <= Len(curr_block.index)
    /\ Len(file) = curr_block_pos + Len(curr_block.index)
    /\ \A k \in DOMAIN curr_block.index :
         /\ curr_block.index[k] = curr_block_pos + k
         /\ \E i \in DOMAIN written : written[i].pos = curr_block_pos + k
    /\ writer = "open" => Len(curr_block.index) < BlockSize
    /\ writer # "open" => Len(curr_block.index) = BlockSize
    /\ writer = "index" => file[curr_block_pos].next_block # 0 /\ flushed = Len(written)
         /\ file[curr_block_pos].index = curr_block.index
    /\ \A b \in DOMAIN file : IsIndex(file[b]) =>
         file[b].next_block <= IF writer = "index" THEN Len(file) + 1 ELSE Len(file)
    /\ \A c \in Channel : channel_map[c].output_pos # 0 =>
         /\ channel_map[c].output_pos \in DOMAIN file
         /\ file[channel_map[c].output_pos] = [chan |-> c, seq_num |-> channel_map[c].seq_num]

\* A reader is at an entry of a block,
At(rd) == \E b \in DOMAIN file :
    IsIndex(file[b]) /\ rd.block = file[b] /\ rd.index_pos \in DOMAIN rd.block.index

\* the file is behind the sample of the entry, which was read,
InPlace(rd) ==
    /\ rd.pos = rd.block.index[rd.index_pos] + 1
    /\ rd.sample = DataIn(file, rd.block.index[rd.index_pos])

\* all that was flushed is up to entry k,
Covers(rd, k) == flushed > 0 => written[flushed].pos <= rd.block.index[k]

\* or the index that follows is not there.
Stopped(rd) ==
    /\ ~ rd.end /\ rd.block.index # <<>> /\ rd.index_pos > Len(rd.block.index)
    /\ Covers(rd, Len(rd.block.index))

\* What holds of a reader; read_prev() leaves the file anywhere.
Settled(rd) ==
    /\ ~ rd.failed => At(rd)
    /\ ~ rd.failed /\ ~ rd.stepped_back => InPlace(rd) /\ (rd.end => Covers(rd, rd.index_pos))
    /\ rd.failed /\ ~ rd.stepped_back => Stopped(rd)

\* There is a reader once the writer is done.
ReaderInv == reader # None => writer = "closed" /\ Settled(reader)

\* The invariant.
IInv == TypeOK /\ PointersInv /\ WrittenInv /\ BlocksInv /\ LastInv /\ WriterInv /\ ReaderInv

-----------------------------------------------------------------------------
(* Records and sequences of them. *)

\* A record is an index, a pointer or a sample.
LEMMA Kinds ==
  ASSUME NEW r \in Record
  PROVE  \/ r \in Index /\ IsIndex(r) /\ ~ IsPointer(r)
         \/ r \in [position : Pos] /\ IsPointer(r) /\ ~ IsIndex(r)
         \/ r \in Sample /\ ~ IsIndex(r) /\ ~ IsPointer(r)
<1>1. CASE r \in Index
  BY <1>1 DEF Index, IsIndex, IsPointer
<1>2. CASE r \in [position : Pos]
  BY <1>2 DEF IsIndex, IsPointer
<1>3. CASE r \in Sample
  BY <1>3 DEF Sample, IsIndex, IsPointer
<1> QED BY <1>1, <1>2, <1>3 DEF Record

\* An index is no sample and no pointer.
LEMMA IndexKind ==
  ASSUME NEW r \in Index
  PROVE  r \in Record /\ IsIndex(r) /\ ~ IsPointer(r)
BY DEF Index, IsIndex, IsPointer, Record

\* A sample is no index and no pointer.
LEMMA SampleKind ==
  ASSUME NEW r \in Sample
  PROVE  r \in Record /\ ~ IsIndex(r) /\ ~ IsPointer(r)
BY DEF Sample, IsIndex, IsPointer, Record

\* A pointer is no index.
LEMMA PointerKind ==
  ASSUME NEW p \in Pos, NEW r, r = [position |-> p]
  PROVE  r \in Record /\ ~ IsIndex(r) /\ IsPointer(r) /\ r.position = p
<1>1. r \in [position : Pos]
  OBVIOUS
<1> QED BY <1>1 DEF IsIndex, IsPointer, Record

\* The elements of a sequence.
LEMMA Elements ==
  ASSUME NEW S, NEW q \in Seq(S)
  PROVE  /\ DOMAIN q = 1..Len(q) /\ Len(q) \in Nat
         /\ \A i \in DOMAIN q : q[i] \in S
OBVIOUS

\* What is in a sequence after Append.
LEMMA Appended ==
  ASSUME NEW S, NEW q \in Seq(S), NEW e \in S
  PROVE  /\ Append(q, e) \in Seq(S)
         /\ DOMAIN Append(q, e) = 1..(Len(q) + 1) /\ DOMAIN q = 1..Len(q) /\ Len(q) \in Nat
         /\ Len(Append(q, e)) = Len(q) + 1
         /\ \A i \in DOMAIN q : i \in DOMAIN Append(q, e) /\ Append(q, e)[i] = q[i]
         /\ Append(q, e)[Len(q) + 1] = e
OBVIOUS

\* What is in a sequence after one element is replaced.
LEMMA Replaced ==
  ASSUME NEW S, NEW q \in Seq(S), NEW e \in S, NEW p \in DOMAIN q
  PROVE  /\ [q EXCEPT ![p] = e] \in Seq(S)
         /\ Len([q EXCEPT ![p] = e]) = Len(q)
         /\ DOMAIN [q EXCEPT ![p] = e] = DOMAIN q
         /\ [q EXCEPT ![p] = e][p] = e
         /\ \A i \in DOMAIN q : i # p => [q EXCEPT ![p] = e][i] = q[i]
OBVIOUS

\* What is in the first part of a sequence.
LEMMA Cut ==
  ASSUME NEW S, NEW q \in Seq(S), NEW n \in 1..Len(q)
  PROVE  /\ SubSeq(q, 1, n) \in Seq(S)
         /\ Len(SubSeq(q, 1, n)) = n
         /\ DOMAIN SubSeq(q, 1, n) = 1..n /\ 1..n \subseteq DOMAIN q
         /\ \A i \in 1..n : SubSeq(q, 1, n)[i] = q[i]
OBVIOUS

\* What the file and the history of the writer hold.
LEMMA Fields ==
  ASSUME TypeOK
  PROVE  /\ DOMAIN file = 1..Len(file) /\ Len(file) \in Nat
         /\ \A p \in DOMAIN file : file[p] \in Record
         /\ \A p \in DOMAIN file : IsIndex(file[p]) => file[p] \in Index
         /\ DOMAIN written = 1..Len(written) /\ Len(written) \in Nat
         /\ \A i \in DOMAIN written : written[i].pos \in Pos /\ written[i].sample \in Sample
         /\ flushed \in 0..Len(written)
         /\ BlockSize \in Pos
         /\ curr_block \in Index /\ curr_block_pos \in Pos
         /\ DOMAIN curr_block.index = 1..Len(curr_block.index) /\ Len(curr_block.index) \in Nat
<1>1. file \in Seq(Record) /\ written \in Seq([sample : Sample, pos : Pos])
  BY DEF TypeOK
<1>2. DOMAIN file = 1..Len(file) /\ Len(file) \in Nat /\ \A p \in DOMAIN file : file[p] \in Record
  BY <1>1, Elements
<1>3. \A p \in DOMAIN file : IsIndex(file[p]) => file[p] \in Index
  BY <1>2, Kinds
<1>4. /\ DOMAIN written = 1..Len(written) /\ Len(written) \in Nat
      /\ \A i \in DOMAIN written : written[i] \in [sample : Sample, pos : Pos]
  BY <1>1, Elements
<1>5. curr_block \in Index /\ curr_block_pos \in Pos /\ flushed \in 0..Len(written)
  BY DEF TypeOK
<1>6. curr_block.index \in Seq(Pos)
  BY <1>5 DEF Index
<1>7. DOMAIN curr_block.index = 1..Len(curr_block.index) /\ Len(curr_block.index) \in Nat
  BY <1>6, Elements
<1>8. BlockSize \in Pos
  BY ConstantsAssumption DEF Pos
<1> QED BY <1>2, <1>3, <1>4, <1>5, <1>7, <1>8

\* The entries of an index.
LEMMA IndexFields ==
  ASSUME NEW x \in Index
  PROVE  /\ DOMAIN x.index = 1..Len(x.index) /\ Len(x.index) \in Nat
         /\ \A k \in DOMAIN x.index : x.index[k] \in Pos
         /\ x.next_block \in Nat /\ x.prev_block \in Nat
         /\ x.index \in Seq(Pos)
         /\ x.index # <<>> <=> Len(x.index) > 0
<1>1. x.index \in Seq(Pos) /\ x.next_block \in Nat /\ x.prev_block \in Nat
  BY DEF Index, Pos
<1> QED BY <1>1, Elements

-----------------------------------------------------------------------------
(* What each step of the writer does to the file. *)

\* A step of the writer puts a record behind the others,
Appends(r) ==
    /\ r \in Record
    /\ file' \in Seq(Record)
    /\ Len(file') = Len(file) + 1 /\ DOMAIN file' = 1..(Len(file) + 1)
    /\ \A p \in DOMAIN file : file'[p] = file[p]
    /\ file'[Len(file) + 1] = r

\* writes the index of the last block again,
Rewrites(x) ==
    /\ x \in Index
    /\ file' \in Seq(Record)
    /\ Len(file') = Len(file) /\ DOMAIN file' = DOMAIN file
    /\ \A p \in DOMAIN file : p # curr_block_pos => file'[p] = file[p]
    /\ file'[curr_block_pos] = x

\* or loses the end of the file.
Loses(n) ==
    /\ n \in 1..Len(file)
    /\ flushed > 0 => n >= written[flushed].pos
    /\ file' \in Seq(Record)
    /\ Len(file') = n /\ DOMAIN file' = 1..n
    /\ \A p \in 1..n : p \in DOMAIN file /\ file'[p] = file[p]

\* The record that write() puts into the file.
Written(c, n) ==
    IF n > channel_map[c].seq_num \/ channel_map[c].output_pos = 0
    THEN [chan |-> c, seq_num |-> n] ELSE [position |-> channel_map[c].output_pos]

\* What write() changes (RecordWriter.cpp:65).
LEMMA WriteStep ==
  ASSUME TypeOK, NEW c \in Channel, NEW n \in 1..MaxSamples, Write(c, n)
  PROVE  /\ Appends(Written(c, n))
         /\ Written(c, n) = [chan |-> c, seq_num |-> n]
              \/ /\ channel_map[c].output_pos # 0 /\ n <= channel_map[c].seq_num
                 /\ Written(c, n) = [position |-> channel_map[c].output_pos]
                 /\ channel_map[c].output_pos \in Pos
         /\ [chan |-> c, seq_num |-> n] \in Sample
         /\ written' = Append(written, [sample |-> [chan |-> c, seq_num |-> n], pos |-> Len(file) + 1])
         /\ Len(file) + 1 \in Pos
         /\ curr_block'.index = Append(curr_block.index, Len(file) + 1)
         /\ curr_block'.next_block = curr_block.next_block
         /\ curr_block'.prev_block = curr_block.prev_block
         /\ curr_block' \in Index
<1> DEFINE r == Written(c, n)
<1>1. [chan |-> c, seq_num |-> n] \in Sample
  BY DEF Sample
<1>2. channel_map[c] \in [seq_num : 0..MaxSamples, output_pos : Pos \cup {0}]
  BY DEF TypeOK
<1>3. \/ r = [chan |-> c, seq_num |-> n]
      \/ /\ channel_map[c].output_pos # 0 /\ n <= channel_map[c].seq_num
         /\ r = [position |-> channel_map[c].output_pos]
         /\ channel_map[c].output_pos \in Pos
  BY <1>2, ConstantsAssumption DEF Written
<1>4. r \in Record
  BY <1>1, <1>3, SampleKind, PointerKind
<1>5. file' = Append(file, r)
  BY DEF Write, Written
<1>6. file \in Seq(Record)
  BY DEF TypeOK
<1>7. Appends(r)
  BY <1>4, <1>5, <1>6, Appended DEF Appends
<1>8. Len(file) + 1 \in Pos
  BY <1>6, Elements DEF Pos
<1>9. curr_block' = [curr_block EXCEPT !.index = Append(@, Len(file) + 1)]
  BY DEF Write
<1>10. curr_block \in Index /\ curr_block.index \in Seq(Pos)
  BY DEF TypeOK, Index
<1>11. Append(curr_block.index, Len(file) + 1) \in Seq(Pos)
  BY <1>8, <1>10, Appended
<1>12. /\ curr_block'.index = Append(curr_block.index, Len(file) + 1)
       /\ curr_block'.next_block = curr_block.next_block
       /\ curr_block'.prev_block = curr_block.prev_block
       /\ curr_block' \in Index
  BY <1>9, <1>10, <1>11 DEF Index
<1>13. written' = Append(written, [sample |-> [chan |-> c, seq_num |-> n], pos |-> Len(file) + 1])
  BY DEF Write
<1> QED BY <1>1, <1>3, <1>7, <1>8, <1>12, <1>13

\* What add_block() changes with the index of the full block (RecordWriter.cpp:185).
LEMMA LinkStep ==
  ASSUME TypeOK, curr_block_pos \in DOMAIN file, AddBlockLink
  PROVE  Rewrites([curr_block EXCEPT !.next_block = Len(file) + 1])
<1> DEFINE x == [curr_block EXCEPT !.next_block = Len(file) + 1]
<1>1. file \in Seq(Record) /\ curr_block \in Index /\ Len(file) + 1 \in Pos
  BY Fields DEF TypeOK, Pos
<1>2. x \in Index
  BY <1>1 DEF Index
<1>3. x \in Record
  BY <1>2, IndexKind
<1>4. file' = [file EXCEPT ![curr_block_pos] = x]
  BY DEF AddBlockLink
<1> HIDE DEF x
<1>5. Rewrites(x)
  BY <1>1, <1>2, <1>3, <1>4, Replaced DEF Rewrites
<1> QED BY <1>5 DEF x

\* What flush() changes (RecordWriter.cpp:120).
LEMMA FlushStep ==
  ASSUME TypeOK, curr_block_pos \in DOMAIN file, NEW next, Flush(next)
  PROVE  Rewrites(curr_block)
<1>1. file \in Seq(Record) /\ curr_block \in Index
  BY DEF TypeOK
<1>2. curr_block \in Record
  BY <1>1, IndexKind
<1>3. file' = [file EXCEPT ![curr_block_pos] = curr_block]
  BY DEF Flush
<1> QED BY <1>1, <1>2, <1>3, Replaced DEF Rewrites

\* What add_block() changes with the index of the next block (RecordWriter.cpp:191).
LEMMA IndexStep ==
  ASSUME TypeOK, AddBlockIndex
  PROVE  /\ Appends(EmptyBlock(curr_block_pos)) /\ EmptyBlock(curr_block_pos) \in Index
         /\ curr_block_pos' = Len(file) + 1 /\ Len(file) + 1 \in Pos
         /\ curr_block' = EmptyBlock(curr_block_pos)
<1>1. file \in Seq(Record) /\ curr_block_pos \in Pos
  BY DEF TypeOK
<1>2. EmptyBlock(curr_block_pos) \in Index
  BY <1>1 DEF EmptyBlock, Index
<1>3. EmptyBlock(curr_block_pos) \in Record
  BY <1>2, IndexKind
<1>4. file' = Append(file, EmptyBlock(curr_block_pos))
  BY DEF AddBlockIndex
<1>5. Appends(EmptyBlock(curr_block_pos))
  BY <1>1, <1>3, <1>4, Appended DEF Appends
<1>6. Len(file) + 1 \in Pos
  BY <1>1, Elements DEF Pos
<1> QED BY <1>2, <1>5, <1>6 DEF AddBlockIndex

\* What a crash changes.
LEMMA CrashStep ==
  ASSUME TypeOK, Crash
  PROVE  \E n \in 1..Len(file) : Loses(n)
<1>1. PICK n \in 1..Len(file) :
        (flushed > 0 => n >= written[flushed].pos) /\ file' = SubSeq(file, 1, n)
  BY DEF Crash
<1>2. file \in Seq(Record)
  BY DEF TypeOK
<1>3. Loses(n)
  BY <1>1, <1>2, Cut DEF Loses
<1> QED BY <1>3

\* The writer keeps the types.
LEMMA WriterTypes ==
  ASSUME TypeOK, WriterInv, WriterStep
  PROVE  TypeOK'
<1> USE Fields
<1>0. writer # "closed" => curr_block_pos \in DOMAIN file
  BY DEF WriterInv, IsBlock
<1>00. UNCHANGED reader
  BY DEF WriterStep, Write, AddBlockLink, AddBlockIndex, Flush, Crash
<1>1. ASSUME NEW c \in Channel, NEW n \in 1..MaxSamples, Write(c, n)
      PROVE  TypeOK'
  <2>1. file' \in Seq(Record) /\ curr_block' \in Index
    BY <1>1, WriteStep DEF Appends
  <2>2. /\ written' \in Seq([sample : Sample, pos : Pos]) /\ Len(written') = Len(written) + 1
    <3>1. [sample |-> [chan |-> c, seq_num |-> n], pos |-> Len(file) + 1] \in [sample : Sample, pos : Pos]
      BY <1>1, WriteStep
    <3>2. written \in Seq([sample : Sample, pos : Pos])
      BY DEF TypeOK
    <3>3. written' = Append(written, [sample |-> [chan |-> c, seq_num |-> n], pos |-> Len(file) + 1])
      BY <1>1, WriteStep
    <3> QED BY <3>1, <3>2, <3>3, Appended
  <2>3. channel_map' \in [Channel -> [seq_num : 0..MaxSamples, output_pos : Pos \cup {0}]]
    <3>0. n \in 0..MaxSamples
      BY <1>1, ConstantsAssumption
    <3>1. Len(file) + 1 \in Pos /\ n \in 0..MaxSamples
      BY <1>1, WriteStep, <3>0
    <3>2. channel_map[c].output_pos \in Pos \cup {0}
      BY DEF TypeOK
    <3>3. \E o \in Pos \cup {0} : channel_map' = [channel_map EXCEPT ![c] = [seq_num |-> n, output_pos |-> o]]
      <4>1. CASE n > channel_map[c].seq_num \/ channel_map[c].output_pos = 0
        BY <1>1, <3>1, <4>1 DEF Write
      <4>2. CASE ~ (n > channel_map[c].seq_num \/ channel_map[c].output_pos = 0)
        BY <1>1, <3>2, <4>2 DEF Write
      <4> QED BY <4>1, <4>2
    <3> QED BY <3>1, <3>3 DEF TypeOK
  <2>4. UNCHANGED <<curr_block_pos, flushed>> /\ writer' \in {"open", "link"}
    BY <1>1 DEF Write
  <2>5. flushed' \in 0..Len(written')
    BY <2>2, <2>4
  <2> QED BY <1>00, <2>1, <2>2, <2>3, <2>4, <2>5 DEF TypeOK
<1>2. CASE AddBlockLink
  <2>1. file' \in Seq(Record)
    BY <1>0, <1>2, LinkStep DEF Rewrites, AddBlockLink
  <2> QED BY <1>2, <1>00, <2>1 DEF AddBlockLink, TypeOK
<1>3. CASE AddBlockIndex
  <2>1. file' \in Seq(Record) /\ curr_block' \in Index /\ curr_block_pos' \in Pos
    BY <1>3, IndexStep DEF Appends
  <2> QED BY <1>3, <1>00, <2>1 DEF AddBlockIndex, TypeOK
<1>4. ASSUME NEW next, Flush(next)
      PROVE  TypeOK'
  <2>1. file' \in Seq(Record)
    BY <1>0, <1>4, FlushStep DEF Rewrites, Flush
  <2> QED BY <1>4, <1>00, <2>1 DEF Flush, TypeOK
<1>5. CASE Crash
  <2>1. file' \in Seq(Record)
    BY <1>5, CrashStep DEF Loses
  <2> QED BY <1>5, <1>00, <2>1 DEF Crash, TypeOK
<1> QED BY <1>1, <1>2, <1>3, <1>4, <1>5 DEF WriterStep

-----------------------------------------------------------------------------
(* The writer keeps the rest of the invariant. *)

\* Up to position m the file is as it was, but for what an index holds.
Same(m) ==
    \A p \in 1..m :
      /\ p \in DOMAIN file /\ p \in DOMAIN file'
      /\ file'[p] = file[p] \/ (IsIndex(file[p]) /\ IsIndex(file'[p]))

\* What is read in the part of the file that is as it was.
LEMMA Kept ==
  ASSUME TypeOK, PointersInv, NEW m \in Nat, Same(m), NEW p \in 1..m, ~ IsIndex(file'[p])
  PROVE  /\ ~ IsIndex(file[p]) /\ file'[p] = file[p]
         /\ DataIn(file', p) = DataIn(file, p)
         /\ IsPointer(file'[p]) =>
              file'[p].position \in 1..(p - 1) /\ file'[file'[p].position] \in Sample
<1>1. p \in DOMAIN file /\ ~ IsIndex(file[p]) /\ file'[p] = file[p]
  BY DEF Same
<1>2. CASE IsPointer(file[p])
  <2>1. PICK q \in 1..(p - 1) : file[p].position = q /\ file[q] \in Sample
    BY <1>1, <1>2 DEF PointersInv
  <2>2. ~ IsIndex(file[q]) /\ q \in 1..m
    BY <2>1, SampleKind
  <2>3. file'[q] = file[q]
    BY <2>2 DEF Same
  <2> QED BY <1>1, <1>2, <2>1, <2>3 DEF DataIn
<1>3. CASE ~ IsPointer(file[p])
  BY <1>1, <1>3 DEF DataIn
<1> QED BY <1>1, <1>2, <1>3

\* The samples that are in the part of the file that is as it was.
LEMMA WrittenKept ==
  ASSUME TypeOK, PointersInv, WrittenInv, NEW m \in Nat, Same(m),
         NEW i \in DOMAIN written, NEW p \in 1..m, p = written[i].pos
  PROVE  ~ IsIndex(file'[p]) /\ DataIn(file', p) = written[i].sample
<1>0. \A q \in 1..m : q \in DOMAIN file
  BY DEF Same
<1>1. p \in DOMAIN file
  BY <1>0
<1>2. ~ IsIndex(file[p]) /\ DataIn(file, p) = written[i].sample
  BY <1>1 DEF WrittenInv
<1>3. ~ IsIndex(file'[p])
  BY <1>2 DEF Same
<1> QED BY <1>2, <1>3, Kept

\* Every step of the writer leaves a part of the file as it was.
LEMMA StepsAreSame ==
  ASSUME TypeOK
  PROVE  /\ \A r : Appends(r) => Same(Len(file))
         /\ \A x : Rewrites(x) /\ IsBlock(curr_block_pos) => Same(Len(file))
         /\ \A n \in Nat : Loses(n) => Same(n)
<1>1. DOMAIN file = 1..Len(file) /\ Len(file) \in Nat
  BY Fields
<1>2. ASSUME NEW r, Appends(r)
      PROVE  Same(Len(file))
  BY <1>1, <1>2 DEF Same, Appends
<1>3. ASSUME NEW x, Rewrites(x), IsBlock(curr_block_pos)
      PROVE  Same(Len(file))
  <2>1. IsIndex(file[curr_block_pos]) /\ IsIndex(file'[curr_block_pos])
    BY <1>3, IndexKind DEF Rewrites, IsBlock
  <2> QED BY <1>1, <1>3, <2>1 DEF Same, Rewrites
<1>4. ASSUME NEW n \in Nat, Loses(n)
      PROVE  Same(n)
  BY <1>1, <1>4 DEF Same, Loses
<1> QED BY <1>2, <1>3, <1>4

\* What the invariant says before a step of write().
LEMMA WriteBefore ==
  ASSUME IInv, NEW c \in Channel, NEW n \in 1..MaxSamples, Write(c, n),
         n \in {channel_map[c].seq_num, channel_map[c].seq_num + 1}
  PROVE  /\ Same(Len(file)) /\ DOMAIN file' = 1..(Len(file) + 1) /\ Len(file') = Len(file) + 1
         /\ \A p \in DOMAIN file : file'[p] = file[p]
         /\ file'[Len(file) + 1] \in Record /\ ~ IsIndex(file'[Len(file) + 1])
         /\ DataIn(file', Len(file) + 1) = [chan |-> c, seq_num |-> n]
         /\ IsPointer(file'[Len(file) + 1]) =>
              /\ file'[Len(file) + 1].position \in 1..Len(file)
              /\ file'[file'[Len(file) + 1].position] \in Sample
         /\ DOMAIN written' = 1..(Len(written) + 1) /\ Len(written') = Len(written) + 1
         /\ \A i \in DOMAIN written : written'[i] = written[i]
         /\ written'[Len(written) + 1] = [sample |-> [chan |-> c, seq_num |-> n], pos |-> Len(file) + 1]
<1> DEFINE L == Len(file) + 1
           s == [chan |-> c, seq_num |-> n]
<1>1. TypeOK /\ PointersInv /\ WriterInv /\ writer # "closed"
  BY DEF IInv, Write
<1>2. DOMAIN file = 1..Len(file) /\ Len(file) \in Nat
  BY <1>1, Fields
<1>3. Appends(Written(c, n)) /\ s \in Sample
  BY <1>1, WriteStep
<1>4. Same(Len(file))
  BY <1>1, <1>3, StepsAreSame
<1>5. /\ DOMAIN file' = 1..L /\ Len(file') = L /\ \A p \in DOMAIN file : file'[p] = file[p]
      /\ file'[L] = Written(c, n) /\ file'[L] \in Record
  BY <1>3 DEF Appends
<1> DEFINE Goal ==
             /\ ~ IsIndex(file'[L]) /\ DataIn(file', L) = s
             /\ IsPointer(file'[L]) => file'[L].position \in 1..Len(file) /\ file'[file'[L].position] \in Sample
<1>6. ASSUME Written(c, n) = s
      PROVE  Goal
  <2>1. ~ IsIndex(s) /\ ~ IsPointer(s)
    BY <1>3, SampleKind
  <2>2. file'[L] = s
    BY <1>5, <1>6
  <2>3. DataIn(file', L) = s
    BY <2>1, <2>2 DEF DataIn
  <2> QED BY <2>1, <2>2, <2>3
<1>7. ASSUME channel_map[c].output_pos # 0, n <= channel_map[c].seq_num,
             Written(c, n) = [position |-> channel_map[c].output_pos],
             channel_map[c].output_pos \in Pos
      PROVE  Goal
  <2>1. PICK o \in Pos : o = channel_map[c].output_pos /\ o # 0
    BY <1>7
  <2>2. ~ IsIndex(file'[L]) /\ IsPointer(file'[L]) /\ file'[L].position = o
    BY <1>5, <1>7, <2>1, PointerKind
  <2>3. o \in DOMAIN file /\ file[o] = [chan |-> c, seq_num |-> channel_map[c].seq_num]
    BY <1>1, <2>1 DEF WriterInv
  <2>4. n = channel_map[c].seq_num
    <3>1. channel_map[c].seq_num \in 0..MaxSamples
      BY <1>1 DEF TypeOK
    <3> QED BY <1>7, <3>1
  <2>5. file'[o] = s
    BY <1>5, <2>3, <2>4
  <2>6. DataIn(file', L) = s
    BY <2>2, <2>5 DEF DataIn
  <2>7. file'[L].position \in 1..Len(file) /\ file'[file'[L].position] \in Sample
    <3>1. o \in 1..Len(file)
      BY <1>2, <2>3
    <3> QED BY <1>3, <2>2, <2>5, <3>1
  <2> QED BY <2>2, <2>6, <2>7
<1>8. Goal
  <2>1. \/ Written(c, n) = s
        \/ /\ channel_map[c].output_pos # 0 /\ n <= channel_map[c].seq_num
           /\ Written(c, n) = [position |-> channel_map[c].output_pos]
           /\ channel_map[c].output_pos \in Pos
    BY <1>1, WriteStep
  <2> HIDE DEF Goal
  <2> QED BY <1>6, <1>7, <2>1
<1>9. /\ DOMAIN written' = 1..(Len(written) + 1) /\ Len(written') = Len(written) + 1
      /\ \A i \in DOMAIN written : written'[i] = written[i]
      /\ written'[Len(written) + 1] = [sample |-> s, pos |-> L]
  <2>1. written' = Append(written, [sample |-> s, pos |-> L]) /\ L \in Pos
    BY <1>1, WriteStep
  <2>2. [sample |-> s, pos |-> L] \in [sample : Sample, pos : Pos]
    BY <1>3, <2>1
  <2>3. written \in Seq([sample : Sample, pos : Pos])
    BY <1>1 DEF TypeOK
  <2> HIDE DEF s, L
  <2> QED BY <2>1, <2>2, <2>3, Appended
<1> QED BY <1>4, <1>5, <1>8, <1>9

\* write() keeps the invariant (RecordWriter.cpp:65).
LEMMA WriteKeeps ==
  ASSUME IInv, NEW c \in Channel, NEW n \in 1..MaxSamples, Write(c, n),
         n \in {channel_map[c].seq_num, channel_map[c].seq_num + 1}
  PROVE  PointersInv' /\ WrittenInv' /\ BlocksInv' /\ LastInv' /\ WriterInv'
<1> DEFINE L == Len(file) + 1
           w == Len(written) + 1
           s == [chan |-> c, seq_num |-> n]
<1>0. /\ TypeOK /\ PointersInv /\ WrittenInv /\ BlocksInv /\ LastInv /\ WriterInv /\ writer = "open"
  BY DEF IInv, Write
<1>1. /\ DOMAIN file = 1..Len(file) /\ Len(file) \in Nat
      /\ DOMAIN written = 1..Len(written) /\ Len(written) \in Nat
      /\ \A i \in DOMAIN written : written[i].pos \in Pos
      /\ flushed \in 0..Len(written)
      /\ BlockSize \in Pos /\ curr_block_pos \in Pos
      /\ DOMAIN curr_block.index = 1..Len(curr_block.index) /\ Len(curr_block.index) \in Nat
  BY <1>0, Fields
<1>2. /\ Same(Len(file)) /\ DOMAIN file' = 1..L /\ Len(file') = L
      /\ \A p \in DOMAIN file : file'[p] = file[p]
      /\ file'[L] \in Record /\ ~ IsIndex(file'[L]) /\ DataIn(file', L) = s
      /\ IsPointer(file'[L]) => file'[L].position \in 1..Len(file) /\ file'[file'[L].position] \in Sample
      /\ DOMAIN written' = 1..w /\ Len(written') = w
      /\ \A i \in DOMAIN written : written'[i] = written[i]
      /\ written'[w] = [sample |-> s, pos |-> L]
  BY WriteBefore
<1>3. written'[w].sample = s /\ written'[w].pos = L
  BY <1>2
<1>4. \A i \in DOMAIN written : written[i].pos \in 1..Len(file)
  BY <1>0, <1>1 DEF WrittenInv
<1>5. UNCHANGED <<curr_block_pos, flushed>>
  BY DEF Write
<1>6. DOMAIN file' = DOMAIN file \cup {L} /\ L \notin DOMAIN file
  BY <1>1, <1>2
<1>7. DOMAIN written' = DOMAIN written \cup {w} /\ w \notin DOMAIN written
  BY <1>1, <1>2
<1>8. \A b \in DOMAIN file' : IsIndex(file'[b]) => b \in DOMAIN file /\ file'[b] = file[b] /\ IsIndex(file[b])
  BY <1>2, <1>6
<1>9. \A b \in DOMAIN file : IsIndex(file[b]) => file[b] \in Index /\ file[b].next_block \in Nat
  BY <1>0, Fields, IndexFields
<1>10. PointersInv'
  <2>1. ASSUME NEW p \in DOMAIN file', IsPointer(file'[p])
        PROVE  file'[p].position \in 1..(p - 1) /\ file'[file'[p].position] \in Sample
    <3>1. CASE p = L
      BY <1>2, <2>1, <3>1
    <3>2. CASE p \in DOMAIN file
      <4>1. p \in 1..Len(file) /\ file'[p] = file[p] /\ file[p] \in Record
        BY <1>0, <1>1, <1>2, <3>2, Fields
      <4>2. ~ IsIndex(file'[p])
        BY <2>1, <4>1, Kinds
      <4> QED BY <1>0, <1>1, <1>2, <2>1, <4>1, <4>2, Kept
    <3> QED BY <1>6, <3>1, <3>2
  <2> QED BY <2>1 DEF PointersInv
<1>11. WrittenInv'
  <2>1. ASSUME NEW i \in DOMAIN written', NEW j \in DOMAIN written', i < j
        PROVE  written'[i].pos < written'[j].pos
    <3>1. CASE j \in DOMAIN written
      <4>1. i \in DOMAIN written
        BY <1>1, <1>2, <2>1, <3>1
      <4> QED BY <1>0, <1>2, <2>1, <3>1, <4>1 DEF WrittenInv
    <3>2. CASE j = w
      <4>1. i \in DOMAIN written
        BY <1>1, <1>2, <2>1, <3>2
      <4>2. written'[i].pos \in 1..Len(file)
        BY <1>2, <1>4, <4>1
      <4> QED BY <1>1, <1>3, <3>2, <4>2
    <3> QED BY <1>7, <3>1, <3>2
  <2>2. ASSUME NEW i \in DOMAIN written'
        PROVE  /\ written'[i].pos \in DOMAIN file'
               /\ ~ IsIndex(file'[written'[i].pos]) /\ DataIn(file', written'[i].pos) = written'[i].sample
    <3>1. CASE i \in DOMAIN written
      <4>1. PICK p \in 1..Len(file) : p = written[i].pos
        BY <1>4, <3>1
      <4>2. ~ IsIndex(file'[p]) /\ DataIn(file', p) = written[i].sample
        BY <1>0, <1>1, <1>2, <3>1, <4>1, WrittenKept
      <4>3. written'[i].pos = p /\ written'[i].sample = written[i].sample /\ p \in DOMAIN file'
        BY <1>1, <1>2, <3>1, <4>1
      <4> QED BY <4>2, <4>3
    <3>2. CASE i = w
      BY <1>2, <1>3, <1>6, <3>2
    <3> QED BY <1>7, <3>1, <3>2
  <2>3. 1..flushed' \subseteq DOMAIN written'
    BY <1>1, <1>2, <1>5
  <2> QED BY <2>1, <2>2, <2>3 DEF WrittenInv
<1>12. BlocksInv'
  <2>1. 1 \in DOMAIN file' /\ IsIndex(file'[1])
    BY <1>0, <1>2, <1>6 DEF BlocksInv, IsBlock
  <2>2. ASSUME NEW b \in DOMAIN file', IsIndex(file'[b]), NEW x, x = file'[b]
        PROVE  /\ \A k \in DOMAIN x.index :
                    x.index[k] = b + k /\ \E i \in 1..flushed' : written'[i].pos = b + k
               /\ x.next_block # 0 =>
                    /\ x.next_block = b + BlockSize + 1 /\ Len(x.index) = BlockSize
                    /\ x.next_block \in DOMAIN file' => IsIndex(file'[x.next_block])
               /\ x.next_block = 0 => b = curr_block_pos'
               /\ x.prev_block # 0 =>
                    /\ x.prev_block \in DOMAIN file' /\ IsIndex(file'[x.prev_block])
                    /\ x.prev_block < b /\ file'[x.prev_block].index # <<>>
    <3>1. b \in DOMAIN file /\ IsIndex(file[b]) /\ x = file[b]
      BY <1>8, <2>2
    <3>2. ASSUME NEW k \in DOMAIN x.index
          PROVE  x.index[k] = b + k /\ \E i \in 1..flushed' : written'[i].pos = b + k
      <4>1. PICK i \in 1..flushed : written[i].pos = b + k
        BY <1>0, <3>1, <3>2 DEF BlocksInv
      <4>2. i \in DOMAIN written /\ i \in 1..flushed'
        BY <1>1, <1>5
      <4> QED BY <1>0, <1>2, <3>1, <3>2, <4>1, <4>2 DEF BlocksInv
    <3>3. ASSUME x.next_block # 0
          PROVE  /\ x.next_block = b + BlockSize + 1 /\ Len(x.index) = BlockSize
                 /\ IsIndex(file'[x.next_block])
      <4>1. x.next_block <= Len(file)
        BY <1>0, <3>1 DEF WriterInv
      <4>2. x.next_block \in DOMAIN file
        BY <1>1, <1>9, <3>1, <3>3, <4>1
      <4> QED BY <1>0, <1>2, <3>1, <3>3, <4>2 DEF BlocksInv
    <3>4. x.next_block = 0 => b = curr_block_pos'
      BY <1>0, <1>5, <3>1 DEF BlocksInv
    <3>5. ASSUME x.prev_block # 0
          PROVE  /\ x.prev_block \in DOMAIN file' /\ IsIndex(file'[x.prev_block])
                 /\ x.prev_block < b /\ file'[x.prev_block].index # <<>>
      BY <1>0, <1>2, <1>6, <3>1, <3>5 DEF BlocksInv, IsBlock
    <3> QED BY <3>2, <3>3, <3>4, <3>5
  <2> QED BY <2>1, <2>2 DEF BlocksInv, IsBlock
<1>13. LastInv'
  <2>1. SUFFICES ASSUME IsBlock(curr_block_pos)', flushed' > 0
                 PROVE  written'[flushed'].pos <= curr_block_pos' + Len(file'[curr_block_pos'].index)
    BY DEF LastInv
  <2>2. IsBlock(curr_block_pos) /\ file'[curr_block_pos] = file[curr_block_pos]
    BY <1>5, <1>8, <2>1 DEF IsBlock
  <2>3. flushed \in DOMAIN written /\ flushed > 0
    BY <1>1, <1>5, <2>1
  <2> QED BY <1>0, <1>2, <1>5, <2>2, <2>3 DEF LastInv
<1>14. WriterInv'
  <2> DEFINE cb == curr_block'
  <2>0. /\ Len(file) = curr_block_pos + Len(curr_block.index)
        /\ Len(curr_block.index) < BlockSize
        /\ curr_block_pos \in Nat /\ BlockSize \in Nat /\ Len(curr_block.index) \in Nat
    BY <1>0, <1>1, ZenonT(60) DEF WriterInv, Pos
  <2>1. /\ cb.index = Append(curr_block.index, L) /\ cb.next_block = curr_block.next_block
        /\ cb.prev_block = curr_block.prev_block /\ L \in Pos
    BY <1>0, WriteStep
  <2>2. /\ DOMAIN cb.index = 1..(Len(curr_block.index) + 1)
        /\ Len(cb.index) = Len(curr_block.index) + 1
        /\ \A k \in DOMAIN curr_block.index : cb.index[k] = curr_block.index[k]
        /\ cb.index[Len(curr_block.index) + 1] = L
    <3>1. curr_block.index \in Seq(Pos)
      BY <1>0, Fields, IndexFields
    <3> QED BY <2>1, <3>1, Appended
  <2>3. writer' = IF Len(cb.index) = BlockSize THEN "link" ELSE "open"
    BY DEF Write
  <2>4. IsBlock(curr_block_pos) /\ file'[curr_block_pos] = file[curr_block_pos]
    BY <1>0, <1>2 DEF WriterInv, IsBlock
  <2>5. Len(file[curr_block_pos].index) \in Nat
    BY <1>9, <2>4, IndexFields DEF IsBlock
  <2>6. /\ curr_block_pos' \in DOMAIN file' /\ IsIndex(file'[curr_block_pos'])
        /\ cb.next_block = 0 /\ cb.prev_block = file'[curr_block_pos'].prev_block
    BY <1>0, <1>5, <1>6, <2>1, <2>4 DEF WriterInv, IsBlock
  <2>7. Len(file'[curr_block_pos'].index) <= Len(cb.index)
    BY <1>0, <1>1, <1>5, <2>2, <2>4, <2>5, SMTT(60) DEF WriterInv
  <2>8. Len(file') = curr_block_pos' + Len(cb.index)
    BY <1>2, <1>5, <2>0, <2>2
  <2>9. ASSUME NEW k \in DOMAIN cb.index
        PROVE  cb.index[k] = curr_block_pos' + k /\ \E i \in DOMAIN written' : written'[i].pos = curr_block_pos' + k
    <3>1. CASE k = Len(curr_block.index) + 1
      <4>1. curr_block_pos + k = L
        BY <2>0, <3>1
      <4> QED BY <1>3, <1>5, <1>7, <2>2, <3>1, <4>1
    <3>2. CASE k \in DOMAIN curr_block.index
      <4>1. PICK i \in DOMAIN written : written[i].pos = curr_block_pos + k
        BY <1>0, <3>2 DEF WriterInv
      <4>2. i \in DOMAIN written' /\ written'[i].pos = curr_block_pos + k
        BY <1>2, <1>7, <4>1
      <4>3. curr_block.index[k] = curr_block_pos + k
        BY <1>0, <3>2 DEF WriterInv
      <4> QED BY <1>5, <2>2, <3>2, <4>2, <4>3
    <3> QED BY <1>1, <2>2, <2>9, <3>1, <3>2, SMTT(60)
  <2>10. /\ writer' = "open" => Len(cb.index) < BlockSize
         /\ writer' # "open" => Len(cb.index) = BlockSize
         /\ writer' # "index"
    BY <2>0, <2>2, <2>3
  <2>11. ASSUME NEW b \in DOMAIN file', IsIndex(file'[b])
         PROVE  file'[b].next_block <= Len(file')
    <3>1. b \in DOMAIN file /\ file'[b] = file[b] /\ IsIndex(file[b]) /\ file[b].next_block \in Nat
      BY <1>8, <1>9, <2>11
    <3>2. file[b].next_block <= Len(file)
      BY <1>0, <3>1 DEF WriterInv
    <3> QED BY <1>1, <1>2, <3>1, <3>2
  <2>12. ASSUME NEW d \in Channel, channel_map'[d].output_pos # 0
         PROVE  /\ channel_map'[d].output_pos \in DOMAIN file'
                /\ file'[channel_map'[d].output_pos] = [chan |-> d, seq_num |-> channel_map'[d].seq_num]
    <3> DEFINE is_new == n > channel_map[c].seq_num \/ channel_map[c].output_pos = 0
    <3>1. channel_map' = [channel_map EXCEPT
             ![c] = [seq_num |-> n, output_pos |-> IF is_new THEN L ELSE channel_map[c].output_pos]]
      BY DEF Write
    <3>2. channel_map \in [Channel -> [seq_num : 0..MaxSamples, output_pos : Pos \cup {0}]]
      BY <1>0 DEF TypeOK
    <3>3. CASE d # c
      <4>1. channel_map'[d] = channel_map[d]
        BY <3>1, <3>2, <3>3
      <4>2. /\ channel_map[d].output_pos \in DOMAIN file
            /\ file[channel_map[d].output_pos] = [chan |-> d, seq_num |-> channel_map[d].seq_num]
        BY <1>0, <2>12, <4>1 DEF WriterInv
      <4> QED BY <1>2, <1>6, <4>1, <4>2
    <3>4. CASE d = c /\ is_new
      <4>1. channel_map'[d].output_pos = L /\ channel_map'[d].seq_num = n
        BY <3>1, <3>2, <3>4
      <4>2. file'[L] = s
        <5>1. Appends(Written(c, n))
          BY <1>0, WriteStep
        <5>2. Written(c, n) = s
          BY <3>4 DEF Written
        <5> QED BY <5>1, <5>2 DEF Appends
      <4> QED BY <1>6, <3>4, <4>1, <4>2
    <3>5. CASE d = c /\ ~ is_new
      <4>1. channel_map'[d].output_pos = channel_map[c].output_pos /\ channel_map'[d].seq_num = n
        BY <3>1, <3>2, <3>5
      <4>2. n = channel_map[c].seq_num
        BY <3>2, <3>5
      <4>3. /\ channel_map[c].output_pos \in DOMAIN file
            /\ file[channel_map[c].output_pos] = [chan |-> c, seq_num |-> channel_map[c].seq_num]
        BY <1>0, <2>12, <3>5, <4>1 DEF WriterInv
      <4> QED BY <1>2, <1>6, <3>5, <4>1, <4>2, <4>3
    <3> QED BY <3>3, <3>4, <3>5
  <2> HIDE DEF cb, L, w, s
  <2>13. IsBlock(curr_block_pos)'
    BY <2>6 DEF IsBlock
  <2> QED BY <2>6, <2>7, <2>8, <2>9, <2>10, <2>11, <2>12, <2>13, ZenonT(60) DEF WriterInv, cb
<1> QED BY <1>10, <1>11, <1>12, <1>13, <1>14

\* Writing the index of the last block again keeps the invariant of the file
\* (RecordWriter.cpp:178).
LEMMA RewriteKeeps ==
  ASSUME IInv, writer \in {"open", "link"}, NEW x, Rewrites(x),
         x.index = curr_block.index, x.prev_block = curr_block.prev_block,
         x.next_block = 0 \/ (writer = "link" /\ x.next_block = Len(file) + 1),
         flushed' = Len(written), UNCHANGED <<curr_block_pos, curr_block, written>>
  PROVE  /\ PointersInv' /\ WrittenInv' /\ BlocksInv' /\ LastInv'
         /\ \A b \in DOMAIN file' : IsIndex(file'[b]) /\ b # curr_block_pos =>
              IsIndex(file[b]) /\ file'[b] = file[b] /\ file[b].next_block <= Len(file)
<1>0. /\ TypeOK /\ PointersInv /\ WrittenInv /\ BlocksInv /\ LastInv /\ WriterInv /\ writer # "closed"
  BY DEF IInv
<1>1. /\ DOMAIN file = 1..Len(file) /\ Len(file) \in Nat
      /\ DOMAIN written = 1..Len(written) /\ Len(written) \in Nat
      /\ flushed \in 0..Len(written)
      /\ BlockSize \in Nat \ {0} /\ curr_block_pos \in Nat
      /\ DOMAIN curr_block.index = 1..Len(curr_block.index) /\ Len(curr_block.index) \in Nat
  BY <1>0, Fields DEF Pos
<1>2. /\ DOMAIN file' = DOMAIN file /\ Len(file') = Len(file)
      /\ \A p \in DOMAIN file : p # curr_block_pos => file'[p] = file[p]
      /\ file'[curr_block_pos] = x /\ x \in Index /\ IsIndex(x) /\ ~ IsPointer(x)
  BY IndexKind DEF Rewrites
<1>3. /\ curr_block_pos \in DOMAIN file /\ IsIndex(file[curr_block_pos])
      /\ file[curr_block_pos] \in Index
      /\ curr_block.prev_block = file[curr_block_pos].prev_block
      /\ Len(file[curr_block_pos].index) <= Len(curr_block.index)
      /\ Len(file) = curr_block_pos + Len(curr_block.index)
      /\ writer = "link" => Len(curr_block.index) = BlockSize
  BY <1>0, Fields DEF WriterInv, IsBlock
<1>4. Same(Len(file))
  BY <1>0, <1>3, StepsAreSame DEF IsBlock
<1>5. \A p \in DOMAIN file : IsIndex(file'[p]) <=> IsIndex(file[p])
  BY <1>2, <1>3
<1>6. \A i \in DOMAIN written : written[i].pos \in 1..Len(file)
  BY <1>0, <1>1 DEF WrittenInv
<1>7. file[curr_block_pos].index # <<>> => x.index # <<>>
  <2>1. Len(x.index) \in Nat /\ (x.index # <<>> <=> Len(x.index) > 0)
    BY <1>2, IndexFields
  <2>2. /\ Len(file[curr_block_pos].index) \in Nat
        /\ file[curr_block_pos].index # <<>> <=> Len(file[curr_block_pos].index) > 0
    BY <1>3, IndexFields
  <2> QED BY <1>3, <2>1, <2>2
<1>10. PointersInv'
  <2>1. ASSUME NEW p \in DOMAIN file', IsPointer(file'[p])
        PROVE  file'[p].position \in 1..(p - 1) /\ file'[file'[p].position] \in Sample
    <3>1. p # curr_block_pos /\ p \in 1..Len(file)
      BY <1>1, <1>2, <2>1
    <3>2. ~ IsIndex(file'[p])
      <4>1. file'[p] = file[p] /\ file[p] \in Record
        BY <1>0, <1>1, <1>2, <3>1, Fields
      <4> QED BY <2>1, <4>1, Kinds
    <3> QED BY <1>0, <1>1, <1>4, <2>1, <3>1, <3>2, Kept
  <2> QED BY <2>1 DEF PointersInv
<1>11. WrittenInv'
  <2>1. ASSUME NEW i \in DOMAIN written'
        PROVE  /\ written'[i].pos \in DOMAIN file'
               /\ ~ IsIndex(file'[written'[i].pos]) /\ DataIn(file', written'[i].pos) = written'[i].sample
    <3>1. PICK p \in 1..Len(file) : p = written[i].pos /\ i \in DOMAIN written
      BY <1>6, <2>1
    <3>2. ~ IsIndex(file'[p]) /\ DataIn(file', p) = written[i].sample
      BY <1>0, <1>1, <1>4, <3>1, WrittenKept
    <3> QED BY <1>1, <1>2, <3>1, <3>2
  <2>2. \A i, j \in DOMAIN written' : i < j => written'[i].pos < written'[j].pos
    BY <1>0 DEF WrittenInv
  <2>3. 1..flushed' = DOMAIN written'
    BY <1>1
  <2> QED BY <2>1, <2>2, <2>3 DEF WrittenInv
<1>12. BlocksInv'
  <2>1. 1 \in DOMAIN file' /\ IsIndex(file'[1])
    BY <1>0, <1>2, <1>5 DEF BlocksInv, IsBlock
  <2>2. ASSUME NEW b \in DOMAIN file', IsIndex(file'[b]), NEW y, y = file'[b]
        PROVE  /\ \A k \in DOMAIN y.index :
                    y.index[k] = b + k /\ \E i \in 1..flushed' : written'[i].pos = b + k
               /\ y.next_block # 0 =>
                    /\ y.next_block = b + BlockSize + 1 /\ Len(y.index) = BlockSize
                    /\ y.next_block \in DOMAIN file' => IsIndex(file'[y.next_block])
               /\ y.next_block = 0 => b = curr_block_pos'
               /\ y.prev_block # 0 =>
                    /\ y.prev_block \in DOMAIN file' /\ IsIndex(file'[y.prev_block])
                    /\ y.prev_block < b /\ file'[y.prev_block].index # <<>>
    <3>1. b \in DOMAIN file /\ IsIndex(file[b])
      BY <1>2, <1>5, <2>2
    <3>2. ASSUME y.prev_block # 0
          PROVE  /\ y.prev_block \in DOMAIN file' /\ IsIndex(file'[y.prev_block])
                 /\ y.prev_block < b /\ file'[y.prev_block].index # <<>>
      <4>1. y.prev_block = file[b].prev_block
        BY <1>2, <1>3, <2>2, <3>1
      <4>2. PICK p \in DOMAIN file : p = y.prev_block /\ IsIndex(file[p]) /\ p < b /\ file[p].index # <<>>
        BY <1>0, <3>1, <3>2, <4>1 DEF BlocksInv, IsBlock
      <4>3. file'[p].index # <<>>
        BY <1>2, <1>7, <4>2
      <4> QED BY <1>2, <1>5, <4>2, <4>3
    <3>3. CASE b # curr_block_pos
      <4>1. y = file[b]
        BY <1>2, <2>2, <3>1, <3>3
      <4>2. \A k \in DOMAIN y.index : y.index[k] = b + k /\ \E i \in 1..flushed' : written'[i].pos = b + k
        <5>1. 1..flushed \subseteq 1..flushed'
          BY <1>1
        <5> QED BY <1>0, <3>1, <4>1, <5>1 DEF BlocksInv
      <4>3. y.next_block # 0 =>
              /\ y.next_block = b + BlockSize + 1 /\ Len(y.index) = BlockSize
              /\ y.next_block \in DOMAIN file' => IsIndex(file'[y.next_block])
        BY <1>0, <1>2, <1>5, <3>1, <4>1 DEF BlocksInv
      <4>4. y.next_block # 0
        BY <1>0, <3>1, <3>3, <4>1 DEF BlocksInv
      <4> QED BY <3>2, <4>2, <4>3, <4>4
    <3>4. CASE b = curr_block_pos
      <4>1. y = x
        BY <1>2, <2>2, <3>4
      <4>2. \A k \in DOMAIN y.index : y.index[k] = b + k /\ \E i \in 1..flushed' : written'[i].pos = b + k
        <5>1. 1..flushed' = DOMAIN written
          BY <1>1
        <5> QED BY <1>0, <3>4, <4>1, <5>1 DEF WriterInv
      <4>3. y.next_block # 0 =>
              /\ y.next_block = b + BlockSize + 1 /\ Len(y.index) = BlockSize
              /\ y.next_block \notin DOMAIN file'
        BY <1>1, <1>2, <1>3, <3>4, <4>1, SMTT(60)
      <4> QED BY <3>2, <3>4, <4>2, <4>3
    <3> QED BY <3>3, <3>4
  <2> QED BY <2>1, <2>2 DEF BlocksInv, IsBlock
<1>13. LastInv'
  <2>1. SUFFICES ASSUME flushed' > 0
                 PROVE  written'[flushed'].pos <= curr_block_pos' + Len(file'[curr_block_pos'].index)
    BY DEF LastInv
  <2>2. flushed' \in DOMAIN written
    BY <1>1, <2>1
  <2>3. written'[flushed'].pos <= Len(file)
    BY <1>1, <1>6, <2>2
  <2> QED BY <1>2, <1>3, <2>3
<1>14. ASSUME NEW b \in DOMAIN file', IsIndex(file'[b]), b # curr_block_pos
       PROVE  IsIndex(file[b]) /\ file'[b] = file[b] /\ file[b].next_block <= Len(file)
  <2>1. b \in DOMAIN file /\ IsIndex(file[b]) /\ file'[b] = file[b]
    BY <1>2, <1>14
  <2> QED BY <1>0, <2>1 DEF WriterInv
<1> QED BY <1>10, <1>11, <1>12, <1>13, <1>14

\* add_block() keeps the invariant with the index of the full block
\* (RecordWriter.cpp:185).
LEMMA LinkKeeps ==
  ASSUME IInv, AddBlockLink
  PROVE  PointersInv' /\ WrittenInv' /\ BlocksInv' /\ LastInv' /\ WriterInv'
<1> DEFINE x == [curr_block EXCEPT !.next_block = Len(file) + 1]
<1>0. /\ TypeOK /\ BlocksInv /\ WriterInv /\ writer = "link" /\ curr_block \in Index
      /\ Len(file) \in Nat /\ writer' = "index" /\ flushed' = Len(written)
      /\ UNCHANGED <<curr_block_pos, curr_block, channel_map, written>>
  BY Fields DEF IInv, AddBlockLink
<1>1. curr_block_pos \in DOMAIN file /\ IsIndex(file[curr_block_pos])
  BY <1>0 DEF WriterInv, IsBlock
<1>2. Rewrites(x)
  BY <1>0, <1>1, LinkStep
<1>3. /\ x.index = curr_block.index /\ x.prev_block = curr_block.prev_block
      /\ x.next_block = Len(file) + 1
  BY <1>0 DEF Index
<1> HIDE DEF x
<1>4. /\ PointersInv' /\ WrittenInv' /\ BlocksInv' /\ LastInv'
      /\ \A b \in DOMAIN file' : IsIndex(file'[b]) /\ b # curr_block_pos =>
           IsIndex(file[b]) /\ file'[b] = file[b] /\ file[b].next_block <= Len(file)
  BY <1>0, <1>2, <1>3, RewriteKeeps
<1>5. /\ DOMAIN file' = DOMAIN file /\ Len(file') = Len(file) /\ file'[curr_block_pos] = x
      /\ IsIndex(x) /\ x \in Index
      /\ \A p \in DOMAIN file : p # curr_block_pos => file'[p] = file[p]
  BY <1>2, IndexKind DEF Rewrites
<1>6. WriterInv'
  <2>1. /\ curr_block_pos \in DOMAIN file' /\ IsIndex(file'[curr_block_pos])
        /\ curr_block.next_block = 0 /\ curr_block.prev_block = file'[curr_block_pos].prev_block
        /\ Len(file') = curr_block_pos + Len(curr_block.index)
        /\ Len(curr_block.index) = BlockSize
        /\ file'[curr_block_pos].index = curr_block.index
        /\ \A k \in DOMAIN curr_block.index :
             /\ curr_block.index[k] = curr_block_pos + k
             /\ \E i \in DOMAIN written : written[i].pos = curr_block_pos + k
    BY <1>0, <1>1, <1>3, <1>5 DEF WriterInv
  <2>2. Len(file'[curr_block_pos].index) <= Len(curr_block.index)
    BY <1>0, <2>1, IndexFields
  <2>3. ASSUME NEW b \in DOMAIN file', IsIndex(file'[b])
        PROVE  file'[b].next_block <= Len(file') + 1
    <3>1. CASE b = curr_block_pos
      BY <1>0, <1>3, <1>5, <3>1
    <3>2. CASE b # curr_block_pos
      <4>1. file[b].next_block <= Len(file) /\ file'[b] = file[b] /\ IsIndex(file[b]) /\ b \in DOMAIN file
        BY <1>4, <1>5, <2>3, <3>2
      <4>2. file[b].next_block \in Nat
        BY <1>0, <4>1, Fields, IndexFields
      <4> QED BY <1>0, <1>5, <4>1, <4>2
    <3> QED BY <3>1, <3>2
  <2>4. ASSUME NEW c \in Channel, channel_map[c].output_pos # 0
        PROVE  /\ channel_map[c].output_pos \in DOMAIN file'
               /\ file'[channel_map[c].output_pos] = [chan |-> c, seq_num |-> channel_map[c].seq_num]
    <3>1. /\ channel_map[c].output_pos \in DOMAIN file
          /\ file[channel_map[c].output_pos] = [chan |-> c, seq_num |-> channel_map[c].seq_num]
      BY <1>0, <2>4 DEF WriterInv
    <3>2. channel_map[c].output_pos # curr_block_pos
      BY <1>1, <3>1 DEF IsIndex
    <3> QED BY <1>5, <3>1, <3>2
  <2>5. file'[curr_block_pos].next_block # 0
    BY <1>0, <1>3, <1>5
  <2> QED BY <1>0, <2>1, <2>2, <2>3, <2>4, <2>5 DEF WriterInv, IsBlock
<1> QED BY <1>4, <1>6

\* flush() keeps the invariant (RecordWriter.cpp:120).
LEMMA FlushKeeps ==
  ASSUME IInv, NEW next, Flush(next)
  PROVE  PointersInv' /\ WrittenInv' /\ BlocksInv' /\ LastInv' /\ WriterInv'
<1> DEFINE x == curr_block
<1>0. /\ TypeOK /\ WriterInv /\ writer = "open" /\ curr_block \in Index
      /\ Len(file) \in Nat /\ writer' \in {"open", "closed"} /\ flushed' = Len(written)
      /\ UNCHANGED <<curr_block_pos, curr_block, channel_map, written>>
  BY Fields DEF IInv, Flush
<1>1. curr_block_pos \in DOMAIN file /\ IsIndex(file[curr_block_pos])
  BY <1>0 DEF WriterInv, IsBlock
<1>2. Rewrites(x)
  BY <1>0, <1>1, FlushStep
<1>3. x.next_block = 0
  BY <1>0 DEF WriterInv
<1>4. /\ PointersInv' /\ WrittenInv' /\ BlocksInv' /\ LastInv'
      /\ \A b \in DOMAIN file' : IsIndex(file'[b]) /\ b # curr_block_pos =>
           IsIndex(file[b]) /\ file'[b] = file[b] /\ file[b].next_block <= Len(file)
  BY <1>0, <1>2, <1>3, RewriteKeeps
<1>5. /\ DOMAIN file' = DOMAIN file /\ Len(file') = Len(file) /\ file'[curr_block_pos] = x
      /\ IsIndex(x)
      /\ \A p \in DOMAIN file : p # curr_block_pos => file'[p] = file[p]
  BY <1>2, IndexKind DEF Rewrites
<1>6. WriterInv'
  <2>1. /\ curr_block_pos \in DOMAIN file' /\ IsIndex(file'[curr_block_pos])
        /\ curr_block.next_block = 0 /\ curr_block.prev_block = file'[curr_block_pos].prev_block
        /\ Len(file') = curr_block_pos + Len(curr_block.index)
        /\ Len(curr_block.index) < BlockSize
        /\ \A k \in DOMAIN curr_block.index :
             /\ curr_block.index[k] = curr_block_pos + k
             /\ \E i \in DOMAIN written : written[i].pos = curr_block_pos + k
    BY <1>0, <1>1, <1>3, <1>5 DEF WriterInv
  <2>2. Len(file'[curr_block_pos].index) <= Len(curr_block.index)
    <3>1. Len(curr_block.index) \in Nat
      BY <1>0, IndexFields
    <3> QED BY <1>5, <3>1
  <2>3. ASSUME NEW b \in DOMAIN file', IsIndex(file'[b])
        PROVE  file'[b].next_block <= Len(file')
    <3>1. CASE b = curr_block_pos
      BY <1>0, <1>3, <1>5, <3>1
    <3>2. CASE b # curr_block_pos
      BY <1>4, <1>5, <2>3, <3>2
    <3> QED BY <3>1, <3>2
  <2>4. ASSUME NEW c \in Channel, channel_map[c].output_pos # 0
        PROVE  /\ channel_map[c].output_pos \in DOMAIN file'
               /\ file'[channel_map[c].output_pos] = [chan |-> c, seq_num |-> channel_map[c].seq_num]
    <3>1. /\ channel_map[c].output_pos \in DOMAIN file
          /\ file[channel_map[c].output_pos] = [chan |-> c, seq_num |-> channel_map[c].seq_num]
      BY <1>0, <2>4 DEF WriterInv
    <3>2. channel_map[c].output_pos # curr_block_pos
      BY <1>1, <3>1 DEF IsIndex
    <3> QED BY <1>5, <3>1, <3>2
  <2> QED BY <1>0, <2>1, <2>2, <2>3, <2>4 DEF WriterInv, IsBlock
<1> QED BY <1>4, <1>6


\* add_block() keeps the invariant with the index of the next block
\* (RecordWriter.cpp:191).
LEMMA IndexKeeps ==
  ASSUME IInv, AddBlockIndex
  PROVE  PointersInv' /\ WrittenInv' /\ BlocksInv' /\ LastInv' /\ WriterInv'
<1> DEFINE x == EmptyBlock(curr_block_pos)
           L == Len(file) + 1
<1>0. /\ TypeOK /\ PointersInv /\ WrittenInv /\ BlocksInv /\ WriterInv /\ writer = "index"
      /\ writer' = "open" /\ UNCHANGED <<channel_map, written, flushed>>
  BY DEF IInv, AddBlockIndex
<1>1. /\ DOMAIN file = 1..Len(file) /\ Len(file) \in Nat
      /\ DOMAIN written = 1..Len(written) /\ Len(written) \in Nat
      /\ flushed \in 0..Len(written)
      /\ BlockSize \in Nat \ {0} /\ curr_block_pos \in Nat \ {0}
  BY <1>0, Fields DEF Pos
<1>2. Appends(x) /\ x \in Index /\ curr_block_pos' = L /\ L \in Pos /\ curr_block' = x
  BY <1>0, IndexStep
<1>3. IsIndex(x) /\ ~ IsPointer(x)
  BY <1>2, IndexKind
<1>4. x.index = <<>> /\ DOMAIN x.index = {} /\ Len(x.index) = 0 /\ x.next_block = 0 /\ x.prev_block = curr_block_pos
  BY DEF EmptyBlock
<1>5. /\ DOMAIN file' = DOMAIN file \cup {L} /\ L \notin DOMAIN file /\ Len(file') = L
      /\ \A p \in DOMAIN file : file'[p] = file[p]
      /\ file'[L] = x
  BY <1>1, <1>2 DEF Appends
<1>6. Same(Len(file))
  BY <1>0, <1>2, StepsAreSame
<1> HIDE DEF x
<1>7. /\ curr_block_pos \in DOMAIN file /\ IsIndex(file[curr_block_pos])
      /\ file[curr_block_pos].index # <<>> /\ file[curr_block_pos].next_block # 0
      /\ flushed = Len(written)
      /\ \A b \in DOMAIN file : IsIndex(file[b]) => file[b].next_block \in 0..L
  <2>1. /\ curr_block_pos \in DOMAIN file /\ IsIndex(file[curr_block_pos])
        /\ file[curr_block_pos].index = curr_block.index /\ file[curr_block_pos].next_block # 0
        /\ flushed = Len(written) /\ Len(curr_block.index) = BlockSize
    BY <1>0 DEF WriterInv, IsBlock
  <2>2. file[curr_block_pos].index # <<>>
    BY <1>1, <2>1
  <2>3. ASSUME NEW b \in DOMAIN file, IsIndex(file[b])
        PROVE  file[b].next_block \in 0..L
    <3>1. file[b].next_block <= L
      BY <1>0, <2>3 DEF WriterInv
    <3>2. file[b].next_block \in Nat
      BY <1>0, <2>3, Fields, IndexFields
    <3> QED BY <1>1, <3>1, <3>2
  <2> QED BY <2>1, <2>2, <2>3
<1>8. \A i \in DOMAIN written : written[i].pos \in 1..Len(file)
  BY <1>0, <1>1 DEF WrittenInv
<1>10. PointersInv'
  <2>1. ASSUME NEW p \in DOMAIN file', IsPointer(file'[p])
        PROVE  file'[p].position \in 1..(p - 1) /\ file'[file'[p].position] \in Sample
    <3>1. p # L /\ p \in 1..Len(file)
      BY <1>1, <1>3, <1>5, <2>1
    <3>2. ~ IsIndex(file'[p])
      <4>1. file'[p] = file[p] /\ file[p] \in Record
        BY <1>0, <1>1, <1>5, <3>1, Fields
      <4> QED BY <2>1, <4>1, Kinds
    <3> QED BY <1>0, <1>1, <1>6, <2>1, <3>1, <3>2, Kept
  <2> QED BY <2>1 DEF PointersInv
<1>11. WrittenInv'
  <2>1. ASSUME NEW i \in DOMAIN written'
        PROVE  /\ written'[i].pos \in DOMAIN file'
               /\ ~ IsIndex(file'[written'[i].pos]) /\ DataIn(file', written'[i].pos) = written'[i].sample
    <3>1. PICK p \in 1..Len(file) : p = written[i].pos /\ i \in DOMAIN written
      BY <1>0, <1>8, <2>1
    <3>2. ~ IsIndex(file'[p]) /\ DataIn(file', p) = written[i].sample
      BY <1>0, <1>1, <1>6, <3>1, WrittenKept
    <3> QED BY <1>0, <1>1, <1>5, <3>1, <3>2
  <2>2. \A i, j \in DOMAIN written' : i < j => written'[i].pos < written'[j].pos
    BY <1>0 DEF WrittenInv
  <2>3. 1..flushed' = DOMAIN written'
    BY <1>0, <1>1, <1>7
  <2> QED BY <2>1, <2>2, <2>3 DEF WrittenInv
<1>12. BlocksInv'
  <2>1. 1 \in DOMAIN file' /\ IsIndex(file'[1])
    BY <1>0, <1>5 DEF BlocksInv, IsBlock
  <2>2. ASSUME NEW b \in DOMAIN file', IsIndex(file'[b]), NEW y, y = file'[b]
        PROVE  /\ \A k \in DOMAIN y.index :
                    y.index[k] = b + k /\ \E i \in 1..flushed' : written'[i].pos = b + k
               /\ y.next_block # 0 =>
                    /\ y.next_block = b + BlockSize + 1 /\ Len(y.index) = BlockSize
                    /\ y.next_block \in DOMAIN file' => IsIndex(file'[y.next_block])
               /\ y.next_block = 0 => b = curr_block_pos'
               /\ y.prev_block # 0 =>
                    /\ y.prev_block \in DOMAIN file' /\ IsIndex(file'[y.prev_block])
                    /\ y.prev_block < b /\ file'[y.prev_block].index # <<>>
    <3>1. CASE b = L
      <4>1. y = x
        BY <1>5, <2>2, <3>1
      <4>2. curr_block_pos < L
        BY <1>1, <1>7
      <4> QED BY <1>2, <1>4, <1>5, <1>7, <3>1, <4>1, <4>2
    <3>2. CASE b \in DOMAIN file
      <4>1. y = file[b] /\ IsIndex(file[b])
        BY <1>5, <2>2, <3>2
      <4>2. \A k \in DOMAIN y.index : y.index[k] = b + k /\ \E i \in 1..flushed' : written'[i].pos = b + k
        BY <1>0, <3>2, <4>1 DEF BlocksInv
      <4>3. y.next_block # 0
        BY <1>0, <1>7, <3>2, <4>1 DEF BlocksInv
      <4>4. y.next_block = b + BlockSize + 1 /\ Len(y.index) = BlockSize
        BY <1>0, <3>2, <4>1, <4>3 DEF BlocksInv
      <4>5. y.next_block \in DOMAIN file' => IsIndex(file'[y.next_block])
        BY <1>0, <1>3, <1>5, <3>2, <4>1, <4>3 DEF BlocksInv
      <4>6. y.prev_block # 0 =>
              /\ y.prev_block \in DOMAIN file' /\ IsIndex(file'[y.prev_block])
              /\ y.prev_block < b /\ file'[y.prev_block].index # <<>>
        BY <1>0, <1>5, <3>2, <4>1 DEF BlocksInv, IsBlock
      <4> QED BY <4>2, <4>3, <4>4, <4>5, <4>6
    <3> QED BY <1>5, <3>1, <3>2
  <2> QED BY <2>1, <2>2 DEF BlocksInv, IsBlock
<1>13. LastInv'
  <2>1. SUFFICES ASSUME flushed' > 0
                 PROVE  written'[flushed'].pos <= curr_block_pos' + Len(file'[curr_block_pos'].index)
    BY DEF LastInv
  <2>2. flushed \in DOMAIN written
    BY <1>0, <1>1, <2>1
  <2>3. written[flushed].pos \in 1..Len(file)
    BY <1>8, <2>2
  <2>4. Len(file'[curr_block_pos'].index) = 0 /\ curr_block_pos' = Len(file) + 1
    BY <1>2, <1>4, <1>5
  <2> QED BY <1>0, <1>1, <2>3, <2>4
<1>14. WriterInv'
  <2>1. /\ curr_block_pos' \in DOMAIN file' /\ IsIndex(file'[curr_block_pos'])
        /\ curr_block'.next_block = 0 /\ curr_block'.prev_block = file'[curr_block_pos'].prev_block
        /\ Len(file') = curr_block_pos' + Len(curr_block'.index)
        /\ Len(curr_block'.index) < BlockSize
        /\ Len(file'[curr_block_pos'].index) <= Len(curr_block'.index)
        /\ DOMAIN curr_block'.index = {}
    BY <1>1, <1>2, <1>3, <1>4, <1>5
  <2>2. ASSUME NEW b \in DOMAIN file', IsIndex(file'[b])
        PROVE  file'[b].next_block <= Len(file')
    <3>1. CASE b = L
      BY <1>1, <1>4, <1>5, <3>1
    <3>2. CASE b \in DOMAIN file
      BY <1>1, <1>5, <1>7, <2>2, <3>2
    <3> QED BY <1>5, <3>1, <3>2
  <2>3. ASSUME NEW c \in Channel, channel_map'[c].output_pos # 0
        PROVE  /\ channel_map'[c].output_pos \in DOMAIN file'
               /\ file'[channel_map'[c].output_pos] = [chan |-> c, seq_num |-> channel_map'[c].seq_num]
    <3>1. /\ channel_map[c].output_pos \in DOMAIN file
          /\ file[channel_map[c].output_pos] = [chan |-> c, seq_num |-> channel_map[c].seq_num]
      BY <1>0, <2>3 DEF WriterInv
    <3> QED BY <1>0, <1>5, <3>1
  <2> QED BY <1>0, <2>1, <2>2, <2>3 DEF WriterInv, IsBlock
<1> QED BY <1>10, <1>11, <1>12, <1>13, <1>14

\* A crash keeps the invariant.
LEMMA CrashKeeps ==
  ASSUME IInv, Crash
  PROVE  PointersInv' /\ WrittenInv' /\ BlocksInv' /\ LastInv' /\ WriterInv'
<1>0. /\ TypeOK /\ PointersInv /\ WrittenInv /\ BlocksInv /\ LastInv
      /\ writer' = "closed" /\ UNCHANGED <<curr_block_pos, written, flushed>>
  BY DEF IInv, Crash
<1>1. PICK n \in 1..Len(file) : Loses(n)
  BY <1>0, CrashStep
<1>2. /\ n \in Nat /\ DOMAIN file' = 1..n /\ 1..n \subseteq DOMAIN file
      /\ \A p \in 1..n : file'[p] = file[p]
      /\ flushed > 0 => n >= written[flushed].pos
  BY <1>1 DEF Loses
<1>3. Same(n)
  BY <1>0, <1>1, <1>2, StepsAreSame
<1>4. /\ DOMAIN written = 1..Len(written) /\ Len(written) \in Nat
      /\ flushed \in 0..Len(written)
      /\ \A i \in DOMAIN written : written[i].pos \in Nat \ {0}
  BY <1>0, Fields DEF Pos
<1>10. PointersInv'
  <2>1. ASSUME NEW p \in DOMAIN file', IsPointer(file'[p])
        PROVE  file'[p].position \in 1..(p - 1) /\ file'[file'[p].position] \in Sample
    <3>1. p \in 1..n
      BY <1>2
    <3>2. ~ IsIndex(file'[p])
      <4>1. file'[p] = file[p] /\ file[p] \in Record
        BY <1>0, <1>2, <3>1, Fields
      <4> QED BY <2>1, <4>1, Kinds
    <3> QED BY <1>0, <1>2, <1>3, <2>1, <3>1, <3>2, Kept
  <2> QED BY <2>1 DEF PointersInv
<1>11. WrittenInv'
  <2>1. ASSUME NEW i \in DOMAIN written', written'[i].pos \in DOMAIN file'
        PROVE  ~ IsIndex(file'[written'[i].pos]) /\ DataIn(file', written'[i].pos) = written'[i].sample
    <3>1. PICK p \in 1..n : p = written[i].pos /\ i \in DOMAIN written
      BY <1>0, <1>2, <2>1
    <3>2. ~ IsIndex(file'[p]) /\ DataIn(file', p) = written[i].sample
      BY <1>0, <1>2, <1>3, <3>1, WrittenKept
    <3> QED BY <1>0, <3>1, <3>2
  <2>2. \A i, j \in DOMAIN written' : i < j => written'[i].pos < written'[j].pos
    BY <1>0 DEF WrittenInv
  <2>3. ASSUME NEW i \in 1..flushed
        PROVE  written[i].pos \in 1..n
    <3>1. i \in DOMAIN written /\ flushed \in DOMAIN written /\ flushed > 0
      BY <1>4
    <3>2. i = flushed \/ written[i].pos < written[flushed].pos
      <4>1. i = flushed \/ i < flushed
        BY <1>4
      <4> QED BY <1>0, <3>1, <4>1 DEF WrittenInv
    <3>3. written[i].pos \in Nat \ {0} /\ written[flushed].pos \in Nat /\ n >= written[flushed].pos
      BY <1>2, <1>4, <3>1
    <3> QED BY <1>2, <3>2, <3>3
  <2> QED BY <1>0, <1>2, <2>1, <2>2, <2>3 DEF WrittenInv
<1>12. BlocksInv'
  <2>1. 1 \in DOMAIN file' /\ IsIndex(file'[1])
    BY <1>0, <1>1, <1>2 DEF BlocksInv, IsBlock
  <2>2. ASSUME NEW b \in DOMAIN file', IsIndex(file'[b]), NEW y, y = file'[b]
        PROVE  /\ \A k \in DOMAIN y.index :
                    y.index[k] = b + k /\ \E i \in 1..flushed' : written'[i].pos = b + k
               /\ y.next_block # 0 =>
                    /\ y.next_block = b + BlockSize + 1 /\ Len(y.index) = BlockSize
                    /\ y.next_block \in DOMAIN file' => IsIndex(file'[y.next_block])
               /\ y.next_block = 0 => b = curr_block_pos'
               /\ y.prev_block # 0 =>
                    /\ y.prev_block \in DOMAIN file' /\ IsIndex(file'[y.prev_block])
                    /\ y.prev_block < b /\ file'[y.prev_block].index # <<>>
    <3>1. b \in DOMAIN file /\ b \in 1..n /\ y = file[b] /\ IsIndex(file[b])
      BY <1>2, <2>2
    <3>2. /\ \A k \in DOMAIN y.index : y.index[k] = b + k /\ \E i \in 1..flushed' : written'[i].pos = b + k
          /\ y.next_block = 0 => b = curr_block_pos'
      BY <1>0, <3>1 DEF BlocksInv
    <3>3. y.next_block # 0 =>
            /\ y.next_block = b + BlockSize + 1 /\ Len(y.index) = BlockSize
            /\ y.next_block \in DOMAIN file' => IsIndex(file'[y.next_block])
      BY <1>0, <1>2, <3>1 DEF BlocksInv
    <3>4. ASSUME y.prev_block # 0
          PROVE  /\ y.prev_block \in DOMAIN file' /\ IsIndex(file'[y.prev_block])
                 /\ y.prev_block < b /\ file'[y.prev_block].index # <<>>
      <4>1. PICK p \in DOMAIN file : p = y.prev_block /\ IsIndex(file[p]) /\ p < b /\ file[p].index # <<>>
        BY <1>0, <3>1, <3>4 DEF BlocksInv, IsBlock
      <4>2. p \in 1..n
        <5>1. p \in Nat \ {0}
          BY <1>0, <4>1, Fields
        <5> QED BY <1>2, <3>1, <4>1, <5>1
      <4> QED BY <1>2, <4>1, <4>2
    <3> QED BY <3>2, <3>3, <3>4
  <2> QED BY <2>1, <2>2 DEF BlocksInv, IsBlock
<1>13. LastInv'
  BY <1>0, <1>2 DEF LastInv, IsBlock
<1>14. WriterInv'
  BY <1>0 DEF WriterInv
<1> QED BY <1>10, <1>11, <1>12, <1>13, <1>14

\* The invariant holds at first.
LEMMA InitInv == Init => IInv
<1> SUFFICES ASSUME Init PROVE IInv
  OBVIOUS
<1>1. /\ file = <<EmptyBlock(0)>> /\ writer = "open" /\ curr_block_pos = 1 /\ curr_block = EmptyBlock(0)
      /\ written = <<>> /\ flushed = 0 /\ reader = None
  BY DEF Init
<1>2. EmptyBlock(0) \in Index
  BY DEF EmptyBlock, Index
<1>3. EmptyBlock(0) \in Record /\ IsIndex(EmptyBlock(0)) /\ ~ IsPointer(EmptyBlock(0))
  BY <1>2, IndexKind
<1>4. /\ EmptyBlock(0).index = <<>> /\ EmptyBlock(0).next_block = 0 /\ EmptyBlock(0).prev_block = 0
      /\ Len(EmptyBlock(0).index) = 0 /\ DOMAIN EmptyBlock(0).index = {}
  BY DEF EmptyBlock
<1>5. DOMAIN file = {1} /\ file[1] = EmptyBlock(0) /\ Len(file) = 1
  BY <1>1
<1>6. file \in Seq(Record)
  BY <1>1, <1>3
<1>7. written \in Seq([sample : Sample, pos : Pos]) /\ DOMAIN written = {} /\ Len(written) = 0
  BY <1>1
<1>8. BlockSize \in Nat \ {0} /\ 1 \in Pos
  BY ConstantsAssumption DEF Pos
<1>9. channel_map \in [Channel -> [seq_num : 0..MaxSamples, output_pos : Pos \cup {0}]]
  BY ConstantsAssumption DEF Init
<1>10. TypeOK
  BY <1>1, <1>2, <1>6, <1>7, <1>8, <1>9 DEF TypeOK
<1>11. PointersInv /\ WrittenInv /\ BlocksInv
  BY <1>1, <1>3, <1>4, <1>5, <1>7 DEF PointersInv, WrittenInv, BlocksInv, IsBlock
<1>12. LastInv
  BY <1>1 DEF LastInv
<1>13. \A c \in Channel : channel_map[c].output_pos = 0
  BY DEF Init
<1>14. WriterInv
  BY <1>1, <1>3, <1>4, <1>5, <1>8, <1>13 DEF WriterInv, IsBlock
<1>15. ReaderInv
  BY <1>1 DEF ReaderInv
<1> QED BY <1>10, <1>11, <1>12, <1>14, <1>15 DEF IInv


-----------------------------------------------------------------------------
(* The reader. *)

\* The entry a reader is at is the position of a sample in the file.
LEMMA AtEntry ==
  ASSUME TypeOK, PointersInv, WrittenInv, BlocksInv, NEW rd \in Reader, At(rd)
  PROVE  \E b \in DOMAIN file, k \in Nat \ {0}, i \in 1..flushed :
           /\ IsIndex(file[b]) /\ file[b] \in Index /\ rd.block = file[b]
           /\ k = rd.index_pos /\ k \in 1..Len(rd.block.index)
           /\ rd.block.index[k] = b + k
           /\ written[i].pos = b + k /\ b + k \in DOMAIN file
           /\ ~ IsIndex(file[b + k])
           /\ DataIn(file, b + k) = written[i].sample /\ written[i].sample \in Sample
<1>1. PICK b \in DOMAIN file :
        IsIndex(file[b]) /\ rd.block = file[b] /\ rd.index_pos \in DOMAIN rd.block.index
  BY DEF At
<1>2. file[b] \in Index
  BY <1>1, Fields
<1>3. PICK k \in Nat \ {0} : k = rd.index_pos /\ k \in 1..Len(rd.block.index) /\ k \in DOMAIN file[b].index
  BY <1>1, <1>2, IndexFields
<1>4. PICK i \in 1..flushed : file[b].index[k] = b + k /\ written[i].pos = b + k
  BY <1>1, <1>3 DEF BlocksInv
<1>5. i \in DOMAIN written
  BY Fields
<1>6. b + k \in DOMAIN file
  BY <1>4 DEF WrittenInv
<1>7. ~ IsIndex(file[b + k]) /\ DataIn(file, b + k) = written[i].sample
  BY <1>4, <1>5, <1>6 DEF WrittenInv
<1>8. written[i].sample \in Sample
  BY <1>5, Fields
<1> QED BY <1>1, <1>2, <1>3, <1>4, <1>6, <1>7, <1>8

\* The reader is at the same entry, in the same state.
SameEntry(r, rd) ==
    /\ r.block = rd.block /\ r.index_pos = rd.index_pos
    /\ r.begin = rd.begin /\ r.ok = rd.ok /\ r.stepped_back = rd.stepped_back

\* What read_sample() does: the sample that is there, unless there is none
\* (RecordReader.cpp:234).
LEMMA ReadSampleStep ==
  ASSUME TypeOK, PointersInv, NEW rd \in Reader
  PROVE  /\ ReadSample(rd) \in Reader /\ SameEntry(ReadSample(rd), rd)
         /\ rd.pos \in DOMAIN file /\ ~ IsIndex(file[rd.pos]) =>
              /\ ReadSample(rd).pos = rd.pos + 1 /\ ReadSample(rd).sample = DataIn(file, rd.pos)
              /\ ReadSample(rd).end = rd.end /\ ReadSample(rd).failed = rd.failed
<1> DEFINE r == ReadSample(rd)
<1>1. PICK p \in Pos : p = rd.pos
  BY DEF Reader
<1>2. DOMAIN file = 1..Len(file) /\ Len(file) \in Nat /\ p \in Nat \ {0} /\ p + 1 \in Pos
  BY Fields DEF Pos
<1>3. CASE p > Len(file)
  <2>1. r = [rd EXCEPT !.end = TRUE]
    BY <1>1, <1>3 DEF ReadSample
  <2>2. p \notin DOMAIN file
    BY <1>2, <1>3
  <2> QED BY <1>1, <2>1, <2>2 DEF Reader, SameEntry
<1>4. CASE p \in DOMAIN file /\ IsIndex(file[p])
  <2>1. r = [rd EXCEPT !.failed = TRUE]
    BY <1>1, <1>2, <1>4 DEF ReadSample
  <2> QED BY <1>1, <1>4, <2>1 DEF Reader, SameEntry
<1>5. CASE p \in DOMAIN file /\ ~ IsIndex(file[p])
  <2>1. DataIn(file, p) \in Sample
    <3>1. file[p] \in Record
      BY <1>5, Fields
    <3> QED BY <1>5, <3>1, Kinds DEF DataIn, PointersInv
  <2>2. PICK d \in Sample : d = DataIn(file, p)
    BY <2>1
  <2>3. r = [rd EXCEPT !.pos = p + 1, !.sample = d]
    BY <1>1, <1>2, <1>5, <2>2 DEF ReadSample, DataIn
  <2> HIDE DEF r
  <2>4. /\ r \in Reader /\ SameEntry(r, rd) /\ r.pos = p + 1 /\ r.sample = d
        /\ r.end = rd.end /\ r.failed = rd.failed
    BY <1>2, <2>2, <2>3 DEF Reader, SameEntry
  <2> QED BY <1>1, <2>2, <2>4 DEF r
<1> QED BY <1>2, <1>3, <1>4, <1>5

\* What seek_and_read_sample() does at an entry (RecordReader.cpp:228).
LEMMA SeekAndReadStep ==
  ASSUME TypeOK, PointersInv, WrittenInv, BlocksInv, NEW rd \in Reader, At(rd)
  PROVE  /\ SeekAndRead(rd) \in Reader /\ SameEntry(SeekAndRead(rd), rd)
         /\ SeekAndRead(rd).end = rd.end /\ SeekAndRead(rd).failed = rd.failed
         /\ At(SeekAndRead(rd)) /\ InPlace(SeekAndRead(rd))
<1> DEFINE s == [rd EXCEPT !.pos = rd.block.index[rd.index_pos]]
           r == SeekAndRead(rd)
<1>1. PICK p \in Pos : p = rd.block.index[rd.index_pos] /\ p \in DOMAIN file /\ ~ IsIndex(file[p])
  BY AtEntry, Fields, SMTT(60) DEF Pos
<1>2. /\ s \in Reader /\ SameEntry(s, rd) /\ s.pos = p /\ s.end = rd.end /\ s.failed = rd.failed
  BY <1>1 DEF Reader, SameEntry
<1>3. r = ReadSample(s)
  BY DEF SeekAndRead
<1> HIDE DEF s, r
<1>4. /\ r \in Reader /\ SameEntry(r, s) /\ r.pos = p + 1 /\ r.sample = DataIn(file, p)
      /\ r.end = s.end /\ r.failed = s.failed
  BY <1>1, <1>2, <1>3, ReadSampleStep
<1>5. SameEntry(r, rd)
  BY <1>2, <1>4 DEF SameEntry
<1>6. At(r) /\ InPlace(r)
  BY <1>1, <1>4, <1>5 DEF At, InPlace, SameEntry
<1> QED BY <1>2, <1>4, <1>5, <1>6 DEF r


\* All that was flushed is up to the last entry of a block that has no next one,
\* or an empty one, or one that the file does not have.
LEMMA LastEntries ==
  ASSUME TypeOK, WrittenInv, BlocksInv, LastInv, NEW b \in DOMAIN file, IsIndex(file[b]),
         NEW m \in Nat, m = Len(file[b].index), NEW next \in Nat, next = file[b].next_block,
         \/ next = 0 \/ next > Len(file)
         \/ next \in DOMAIN file /\ file[next].index = <<>>,
         flushed > 0
  PROVE  written[flushed].pos <= b + m
<1>1. /\ DOMAIN file = 1..Len(file) /\ Len(file) \in Nat /\ BlockSize \in Nat \ {0}
      /\ flushed \in DOMAIN written /\ flushed \in 1..flushed
  BY Fields DEF Pos
<1>2. PICK f \in 1..Len(file) : f = written[flushed].pos /\ ~ IsIndex(file[f])
  BY <1>1 DEF WrittenInv
<1>3. next # 0 => next = b + BlockSize + 1 /\ m = BlockSize /\ (next \in DOMAIN file => IsIndex(file[next]))
  BY DEF BlocksInv
<1>4. CASE next = 0
  <2>1. b = curr_block_pos
    BY <1>4 DEF BlocksInv
  <2> QED BY <2>1 DEF LastInv, IsBlock
<1>5. CASE next # 0 /\ next > Len(file)
  BY <1>1, <1>2, <1>3, <1>5, SMTT(60)
<1>6. CASE next # 0 /\ next \in DOMAIN file /\ file[next].index = <<>>
  <2>1. IsIndex(file[next]) /\ Len(file[next].index) = 0
    BY <1>3, <1>6
  <2>2. file[next].next_block = 0
    BY <1>1, <1>6, <2>1 DEF BlocksInv
  <2>3. next = curr_block_pos
    BY <1>6, <2>1, <2>2 DEF BlocksInv
  <2>4. f <= next + Len(file[next].index)
    BY <1>2, <1>6, <2>1, <2>3 DEF LastInv, IsBlock
  <2>5. f # next
    BY <1>2, <2>1
  <2>6. f < next
    BY <1>2, <2>1, <2>4, <2>5
  <2> QED BY <1>2, <1>3, <1>6, <2>6, SMTT(60)
<1> QED BY <1>1, <1>4, <1>5, <1>6

\* What seek_next() does: it goes to an entry, stays at one when it is the last,
\* or finds that the index of the next block is not there (RecordReader.cpp:164).
LEMMA SeekNextStep ==
  ASSUME TypeOK, PointersInv, WrittenInv, BlocksInv, LastInv,
         NEW rd \in Reader, At(rd), ~ rd.failed
  PROVE  /\ SeekNext(rd) \in Reader /\ SeekNext(rd).stepped_back = rd.stepped_back
         /\ \/ /\ SeekNext(rd).failed /\ ~ SeekNext(rd).ok /\ Stopped(SeekNext(rd))
            \/ /\ ~ SeekNext(rd).failed /\ SeekNext(rd).ok /\ At(SeekNext(rd)) /\ ~ SeekNext(rd).end
               /\ InPlace(rd) => SeekNext(rd).pos = SeekNext(rd).block.index[SeekNext(rd).index_pos]
            \/ /\ ~ SeekNext(rd).failed /\ ~ SeekNext(rd).ok /\ At(SeekNext(rd))
               /\ SeekNext(rd).end /\ Covers(SeekNext(rd), SeekNext(rd).index_pos)
               /\ InPlace(rd) => InPlace(SeekNext(rd))
<1> DEFINE r == SeekNext(rd)
           r0 == [rd EXCEPT !.begin = FALSE, !.end = FALSE, !.ok = TRUE, !.index_pos = @ + 1]
           stay == [rd EXCEPT !.begin = FALSE, !.end = TRUE, !.ok = FALSE]
           next == rd.block.next_block
<1>1. PICK b \in DOMAIN file, k \in Nat \ {0} :
        /\ IsIndex(file[b]) /\ file[b] \in Index /\ rd.block = file[b]
        /\ k = rd.index_pos /\ k \in 1..Len(rd.block.index)
        /\ rd.block.index[k] = b + k /\ b + k \in DOMAIN file
  BY AtEntry
<1>2. /\ DOMAIN file = 1..Len(file) /\ Len(file) \in Nat /\ BlockSize \in Nat \ {0}
      /\ b \in Nat \ {0} /\ next \in Nat /\ Len(rd.block.index) \in Nat
      /\ DOMAIN rd.block.index = 1..Len(rd.block.index)
  BY <1>1, Fields, IndexFields, SMTT(60) DEF Pos
<1>3. \A j \in 1..Len(rd.block.index) : rd.block.index[j] = b + j
  BY <1>1, <1>2 DEF BlocksInv
<1>4. next # 0 =>
        /\ next = b + BlockSize + 1 /\ Len(rd.block.index) = BlockSize
        /\ next \in DOMAIN file => IsIndex(file[next])
  BY <1>1 DEF BlocksInv
<1>5. /\ r0 \in Reader /\ r0.block = rd.block /\ r0.index_pos = k + 1 /\ r0.pos = rd.pos
      /\ r0.ok /\ ~ r0.end /\ ~ r0.failed /\ r0.stepped_back = rd.stepped_back
  <2>1. r0 = [rd EXCEPT !.begin = FALSE, !.end = FALSE, !.ok = TRUE, !.index_pos = k + 1]
    BY <1>1
  <2>2. k + 1 \in Nat
    OBVIOUS
  <2> HIDE DEF r0
  <2> QED BY <2>1, <2>2 DEF Reader
<1>6. /\ stay \in Reader /\ stay.block = rd.block /\ stay.index_pos = k /\ stay.pos = rd.pos
      /\ stay.sample = rd.sample
      /\ ~ stay.ok /\ stay.end /\ ~ stay.failed /\ stay.stepped_back = rd.stepped_back
  BY <1>1 DEF Reader
<1>7. At(stay)
  BY <1>1, <1>2, <1>6 DEF At
<1>8. r = IF k + 1 <= Len(rd.block.index) THEN r0
          ELSE IF next = 0 THEN stay
          ELSE IF next > Len(file) THEN [r0 EXCEPT !.failed = TRUE, !.ok = FALSE]
          ELSE IF file[next].index = <<>>
          THEN [SeekAndRead(stay) EXCEPT !.end = TRUE]
          ELSE [r0 EXCEPT !.block = file[next], !.index_pos = 1, !.pos = next + 1]
  BY <1>5 DEF SeekNext
<1> HIDE DEF r, r0, stay, next
<1> DEFINE Result ==
      /\ r \in Reader /\ r.stepped_back = rd.stepped_back
      /\ \/ /\ r.failed /\ ~ r.ok /\ Stopped(r)
         \/ /\ ~ r.failed /\ r.ok /\ At(r) /\ ~ r.end
            /\ InPlace(rd) => r.pos = r.block.index[r.index_pos]
         \/ /\ ~ r.failed /\ ~ r.ok /\ At(r) /\ r.end /\ Covers(r, r.index_pos)
            /\ InPlace(rd) => InPlace(r)
<1>9. CASE k + 1 <= Len(rd.block.index)
  <2>1. r = r0
    BY <1>8, <1>9
  <2>2. At(r)
    BY <1>1, <1>2, <1>5, <1>9, <2>1, SMTT(60) DEF At
  <2>3. InPlace(rd) => r.pos = r.block.index[r.index_pos]
    <3>1. r.block = rd.block /\ r.index_pos = k + 1 /\ r.pos = rd.pos
      BY <1>5, <2>1
    <3>2. k \in 1..Len(rd.block.index) /\ k + 1 \in 1..Len(rd.block.index)
      BY <1>1, <1>2, <1>9, SMTT(60)
    <3>3. rd.block.index[k] = b + k /\ rd.block.index[k + 1] = b + (k + 1)
      BY <1>3, <3>2
    <3>4. InPlace(rd) => rd.pos = b + k + 1
      BY <1>1, <3>3 DEF InPlace
    <3>5. b \in Nat /\ k \in Nat
      BY <1>2
    <3> QED BY <3>1, <3>3, <3>4, <3>5
  <2>4. Result
    BY <1>5, <2>1, <2>2, <2>3
  <2> QED BY <2>4 DEF r
<1>10. CASE k + 1 > Len(rd.block.index) /\ next = 0
  <2>1. r = stay
    BY <1>1, <1>2, <1>8, <1>10
  <2>2. k = Len(rd.block.index)
    BY <1>1, <1>2, <1>10, SMTT(60)
  <2>3. Covers(r, r.index_pos)
    <3>1. flushed > 0 => written[flushed].pos <= b + k
      BY <1>1, <1>2, <1>10, <2>2, LastEntries DEF next
    <3> QED BY <1>1, <1>6, <2>1, <3>1 DEF Covers
  <2>4. InPlace(rd) => InPlace(r)
    BY <1>1, <1>6, <2>1 DEF InPlace
  <2>5. Result
    BY <1>6, <1>7, <2>1, <2>3, <2>4
  <2> QED BY <2>5 DEF r
<1>11. CASE k + 1 > Len(rd.block.index) /\ next # 0 /\ next > Len(file)
  <2>1. r = [r0 EXCEPT !.failed = TRUE, !.ok = FALSE]
    BY <1>1, <1>2, <1>8, <1>11, SMTT(60)
  <2>2. /\ r \in Reader /\ r.failed /\ ~ r.ok /\ r.block = rd.block /\ r.index_pos = k + 1
        /\ ~ r.end /\ r.stepped_back = rd.stepped_back
    BY <1>5, <2>1 DEF Reader
  <2>3. flushed > 0 => written[flushed].pos <= b + Len(rd.block.index)
    BY <1>1, <1>2, <1>11, LastEntries DEF next
  <2>4. Covers(r, Len(r.block.index))
    <3>1. Len(rd.block.index) \in 1..Len(rd.block.index)
      BY <1>1, <1>2
    <3>2. r.block.index[Len(r.block.index)] = b + Len(rd.block.index)
      BY <1>3, <2>2, <3>1
    <3> QED BY <2>3, <3>2 DEF Covers
  <2>5. Stopped(r)
    BY <1>1, <1>2, <1>11, <2>2, <2>4 DEF Stopped
  <2>6. Result
    BY <2>2, <2>5
  <2> QED BY <2>6 DEF r
<1>12. CASE k + 1 > Len(rd.block.index) /\ next # 0 /\ next \in DOMAIN file /\ file[next].index = <<>>
  <2> DEFINE t == SeekAndRead(stay)
  <2>1. r = [t EXCEPT !.end = TRUE]
    BY <1>1, <1>2, <1>8, <1>12
  <2>2. t \in Reader /\ SameEntry(t, stay) /\ ~ t.failed /\ At(t) /\ InPlace(t)
    BY <1>6, <1>7, SeekAndReadStep
  <2> HIDE DEF t
  <2>3. /\ r \in Reader /\ r.block = rd.block /\ r.index_pos = k /\ r.pos = t.pos /\ r.sample = t.sample
        /\ t.block = rd.block /\ t.index_pos = k
        /\ ~ r.ok /\ r.end /\ ~ r.failed /\ r.stepped_back = rd.stepped_back
    BY <1>6, <2>1, <2>2 DEF Reader, SameEntry
  <2>4. k = Len(rd.block.index)
    BY <1>1, <1>2, <1>12, SMTT(60)
  <2>5. Covers(r, r.index_pos)
    <3>1. flushed > 0 => written[flushed].pos <= b + k
      BY <1>1, <1>2, <1>12, <2>4, LastEntries DEF next
    <3> QED BY <1>1, <2>3, <3>1 DEF Covers
  <2>6. At(r)
    BY <2>2, <2>3 DEF At
  <2>7. InPlace(r)
    BY <2>2, <2>3 DEF InPlace
  <2>8. Result
    BY <2>3, <2>5, <2>6, <2>7
  <2> QED BY <2>8 DEF r
<1>13. CASE k + 1 > Len(rd.block.index) /\ next # 0 /\ next \in DOMAIN file /\ file[next].index # <<>>
  <2>1. r = [r0 EXCEPT !.block = file[next], !.index_pos = 1, !.pos = next + 1]
    BY <1>1, <1>2, <1>8, <1>13, SMTT(60)
  <2>2. IsIndex(file[next]) /\ file[next] \in Index /\ next + 1 \in Pos
    BY <1>2, <1>4, <1>13, Fields, SMTT(60) DEF Pos
  <2>3. /\ r \in Reader /\ r.block = file[next] /\ r.index_pos = 1 /\ r.pos = next + 1
        /\ r.ok /\ ~ r.end /\ ~ r.failed /\ r.stepped_back = rd.stepped_back
    BY <1>5, <2>1, <2>2 DEF Reader
  <2>4. 1 \in DOMAIN file[next].index
    BY <1>13, <2>2, IndexFields
  <2>5. file[next].index[1] = next + 1
    BY <1>13, <2>2, <2>4 DEF BlocksInv
  <2>6. At(r)
    BY <1>13, <2>2, <2>3, <2>4 DEF At
  <2>7. Result
    BY <2>3, <2>5, <2>6
  <2> QED BY <2>7 DEF r
<1> QED BY <1>1, <1>2, <1>9, <1>10, <1>11, <1>12, <1>13, SMTT(60)

\* What seek_prev() does: it goes to an entry, or stays at one
\* (RecordReader.cpp:189).
LEMMA SeekPrevStep ==
  ASSUME TypeOK, PointersInv, WrittenInv, BlocksInv,
         NEW rd \in Reader, At(rd), ~ rd.failed
  PROVE  /\ SeekPrev(rd) \in Reader /\ SeekPrev(rd).stepped_back = rd.stepped_back
         /\ ~ SeekPrev(rd).failed /\ ~ SeekPrev(rd).end /\ At(SeekPrev(rd))
<1> DEFINE r == SeekPrev(rd)
           r0 == [rd EXCEPT !.begin = FALSE, !.end = FALSE, !.ok = TRUE, !.index_pos = @ - 1]
           prev == rd.block.prev_block
           stay == [rd EXCEPT !.begin = TRUE, !.end = FALSE, !.ok = FALSE]
           back == [r0 EXCEPT !.block = file[prev], !.index_pos = Len(file[prev].index)]
           Result == /\ r \in Reader /\ r.stepped_back = rd.stepped_back
                     /\ ~ r.failed /\ ~ r.end /\ At(r)
<1>1. PICK b \in DOMAIN file, k \in Nat \ {0} :
        /\ IsIndex(file[b]) /\ file[b] \in Index /\ rd.block = file[b]
        /\ k = rd.index_pos /\ k \in 1..Len(rd.block.index)
  BY AtEntry
<1>2. DOMAIN rd.block.index = 1..Len(rd.block.index) /\ Len(rd.block.index) \in Nat
  BY <1>1, IndexFields
<1>3. /\ r0 \in Reader /\ r0.block = rd.block /\ r0.index_pos = k - 1 /\ ~ r0.end /\ ~ r0.failed
      /\ r0.stepped_back = rd.stepped_back
  <2>1. r0 = [rd EXCEPT !.begin = FALSE, !.end = FALSE, !.ok = TRUE, !.index_pos = k - 1]
    BY <1>1
  <2>2. k - 1 \in Nat
    OBVIOUS
  <2> HIDE DEF r0
  <2> QED BY <2>1, <2>2 DEF Reader
<1>4. r = IF k - 1 >= 1 THEN r0 ELSE IF prev = 0 THEN stay ELSE SeekAndRead(back)
  BY <1>3 DEF SeekPrev
<1>5. ASSUME k - 1 >= 1
      PROVE  Result
  <2>1. r = r0
    BY <1>4, <1>5
  <2>2. At(r0)
    BY <1>1, <1>2, <1>3, <1>5 DEF At
  <2> HIDE DEF r, r0
  <2> QED BY <1>3, <2>1, <2>2
<1>6. ASSUME ~ (k - 1 >= 1), prev = 0
      PROVE  Result
  <2>1. r = stay
    BY <1>4, <1>6
  <2>2. /\ stay \in Reader /\ stay.block = rd.block /\ stay.index_pos = k /\ ~ stay.end /\ ~ stay.failed
        /\ stay.stepped_back = rd.stepped_back
    BY <1>1 DEF Reader
  <2>3. At(stay)
    BY <1>1, <1>2, <2>2 DEF At
  <2> HIDE DEF r, stay
  <2> QED BY <2>1, <2>2, <2>3
<1>7. ASSUME ~ (k - 1 >= 1), prev # 0
      PROVE  Result
  <2>1. r = SeekAndRead(back)
    BY <1>4, <1>7
  <2>2. PICK p \in DOMAIN file : p = prev /\ IsIndex(file[p]) /\ file[p].index # <<>>
    BY <1>1, <1>7 DEF BlocksInv, IsBlock
  <2>3. file[p] \in Index
    BY <2>2, Fields
  <2>4. /\ Len(file[p].index) \in Nat /\ Len(file[p].index) \in DOMAIN file[p].index
    BY <2>2, <2>3, IndexFields
  <2>5. /\ back \in Reader /\ back.block = file[p] /\ back.index_pos = Len(file[p].index)
        /\ ~ back.end /\ ~ back.failed /\ back.stepped_back = rd.stepped_back
    BY <1>3, <2>2, <2>3, <2>4 DEF Reader
  <2>6. At(back)
    BY <2>2, <2>4, <2>5 DEF At
  <2> HIDE DEF r, back
  <2>7. r \in Reader /\ SameEntry(r, back) /\ ~ r.end /\ ~ r.failed /\ At(r)
    BY <2>1, <2>5, <2>6, SeekAndReadStep
  <2> QED BY <2>5, <2>7 DEF SameEntry
<1> HIDE DEF r
<1>8. Result
  BY <1>5, <1>6, <1>7
<1> QED BY <1>8 DEF r


-----------------------------------------------------------------------------
(* Seeking by a number of samples. *)

\* One step of seek_by_count(k), unless the one before failed.
SeekStep(k, r) ==
    IF ~ r.ok \/ r.failed THEN r ELSE IF k > 0 THEN SeekNext(r) ELSE SeekPrev(r)

\* What a function on 0..n is that goes on from the reader by such steps.
IsPath(f, k, n) ==
    f = [i \in 0..n |-> IF i = 0 THEN [reader EXCEPT !.ok = TRUE] ELSE SeekStep(k, f[i - 1])]

\* The path of the model is one, if there is one.
LEMMA PathChosen ==
  ASSUME NEW k \in Int
  PROVE  SeekPath(k) = CHOOSE f : IsPath(f, k, Steps(k))
BY DEF SeekPath, IsPath, SeekStep


\* A set of numbers that holds 0, and with a number the next, holds every number.
LEMMA EveryNumber ==
  ASSUME NEW T \in SUBSET Nat, 0 \in T, \A n \in T : n + 1 \in T
  PROVE  T = Nat
<1> DEFINE R == OpToRel(<, Nat)
<1>1. \A x, y \in Nat : <<x, y>> \in R <=> x < y
  BY DEF OpToRel
<1>2. IsWellFoundedOn(R, Nat)
  BY NatLessThanWellFounded
<1> HIDE DEF R
<1>3. SUFFICES ASSUME Nat \ T # {} PROVE FALSE
  OBVIOUS
<1>4. PICK x \in Nat \ T : \A y \in Nat \ T : ~ (<<y, x>> \in R)
  <2>1. Nat \ T \subseteq Nat
    OBVIOUS
  <2> QED BY <1>2, <1>3, <2>1, WFMin
<1>5. x # 0 /\ x - 1 \in Nat /\ x - 1 < x
  OBVIOUS
<1>6. x - 1 \notin T
  <2>1. (x - 1) + 1 = x
    OBVIOUS
  <2> QED BY <2>1, <1>4, <1>5
<1> QED BY <1>1, <1>4, <1>5, <1>6

\* There is a path of every length.
LEMMA PathExists ==
  ASSUME NEW k \in Int, NEW n \in Nat
  PROVE  \E f : IsPath(f, k, n)
<1> DEFINE T == {m \in Nat : \E f : IsPath(f, k, m)}
<1>1. 0 \in T
  <2> DEFINE f == [i \in 0..0 |-> [reader EXCEPT !.ok = TRUE]]
  <2>1. IsPath(f, k, 0)
    <3>1. \A i \in 0..0 : i = 0
      OBVIOUS
    <3> QED BY <3>1 DEF IsPath
  <2> QED BY <2>1
<1>2. ASSUME NEW m \in T
      PROVE  m + 1 \in T
  <2>0. m \in Nat
    OBVIOUS
  <2>1. PICK g : IsPath(g, k, m)
    OBVIOUS
  <2> DEFINE f == [i \in 0..(m + 1) |-> IF i <= m THEN g[i] ELSE SeekStep(k, g[m])]
             h == [i \in 0..(m + 1) |-> IF i = 0 THEN [reader EXCEPT !.ok = TRUE] ELSE SeekStep(k, f[i - 1])]
  <2>2. \A i \in 0..m : g[i] = IF i = 0 THEN [reader EXCEPT !.ok = TRUE] ELSE SeekStep(k, g[i - 1])
    BY <2>1 DEF IsPath
  <2>3. ASSUME NEW i \in 0..(m + 1)
        PROVE  f[i] = h[i]
    <3>1. CASE i = 0
      <4>1. 0 \in 0..m /\ 0 <= m /\ 0 \in 0..(m + 1)
        BY <2>0
      <4>2. f[0] = g[0] /\ g[0] = [reader EXCEPT !.ok = TRUE]
        BY <2>2, <4>1
      <4>3. h[0] = [reader EXCEPT !.ok = TRUE]
        BY <4>1
      <4> QED BY <3>1, <4>2, <4>3
    <3>2. CASE i # 0
      <4>1. f[i - 1] = g[i - 1] /\ h[i] = SeekStep(k, f[i - 1])
        BY <3>2
      <4>2. f[i] = SeekStep(k, g[i - 1])
        <5>1. CASE i <= m
          BY <2>2, <3>2, <5>1
        <5>2. CASE i = m + 1
          BY <5>2
        <5> QED BY <5>1, <5>2
      <4> QED BY <4>1, <4>2
    <3> QED BY <3>1, <3>2
  <2>4. f = h
    BY <2>3
  <2>5. IsPath(f, k, m + 1)
    BY <2>4 DEF IsPath
  <2> QED BY <2>5
<1>3. T = Nat
  <2> HIDE DEF T
  <2>1. T \in SUBSET Nat
    BY DEF T
  <2> QED BY <1>1, <1>2, <2>1, EveryNumber
<1> QED BY <1>3

\* So the path of the model goes on from the reader by steps.
LEMMA PathSteps ==
  ASSUME NEW k \in Int
  PROVE  /\ SeekPath(k)[0] = [reader EXCEPT !.ok = TRUE]
         /\ \A i \in 1..Steps(k) : SeekPath(k)[i] = SeekStep(k, SeekPath(k)[i - 1])
<1>1. Steps(k) \in Nat
  BY DEF Steps
<1>2. IsPath(SeekPath(k), k, Steps(k))
  <2>1. \E f : IsPath(f, k, Steps(k))
    BY <1>1, PathExists
  <2>2. IsPath(CHOOSE f : IsPath(f, k, Steps(k)), k, Steps(k))
    BY <2>1, Zenon
  <2> QED BY <2>2, PathChosen, Zenon
<1>3. PICK f : f = SeekPath(k)
  OBVIOUS
<1>4. IsPath(f, k, Steps(k))
  BY <1>2, <1>3
<1>5. \A i \in 0..Steps(k) : f[i] = IF i = 0 THEN [reader EXCEPT !.ok = TRUE] ELSE SeekStep(k, f[i - 1])
  BY <1>4 DEF IsPath
<1>6. 0 \in 0..Steps(k) /\ \A i \in 1..Steps(k) : i \in 0..Steps(k) /\ i # 0
  BY <1>1
<1>7. f[0] = [reader EXCEPT !.ok = TRUE]
  BY <1>5, <1>6
<1>8. \A i \in 1..Steps(k) : f[i] = SeekStep(k, f[i - 1])
  BY <1>5, <1>6
<1> QED BY <1>3, <1>7, <1>8

\* The steps of seek_by_count() keep the reader at an entry (RecordReader.cpp:96).
LEMMA PathSettled ==
  ASSUME TypeOK, PointersInv, WrittenInv, BlocksInv, LastInv,
         reader \in Reader, At(reader), ~ reader.failed, NEW k \in Int, NEW n \in 0..Steps(k)
  PROVE  /\ SeekPath(k)[n] \in Reader /\ SeekPath(k)[n].stepped_back = reader.stepped_back
         /\ ~ SeekPath(k)[n].failed => At(SeekPath(k)[n])
         /\ SeekPath(k)[n].failed => Stopped(SeekPath(k)[n])
         /\ n > 0 /\ SeekPath(k)[n].end /\ ~ SeekPath(k)[n].failed =>
              Covers(SeekPath(k)[n], SeekPath(k)[n].index_pos)
         /\ n = 0 => SeekPath(k)[n] = [reader EXCEPT !.ok = TRUE]
<1> DEFINE Q(r, m) ==
      /\ r \in Reader /\ r.stepped_back = reader.stepped_back
      /\ ~ r.failed => At(r)
      /\ r.failed => Stopped(r)
      /\ m > 0 /\ r.end /\ ~ r.failed => Covers(r, r.index_pos)
      /\ m = 0 => r = [reader EXCEPT !.ok = TRUE]
      /\ m = 0 => r.ok /\ ~ r.failed
<1> DEFINE T == {m \in Nat : m <= Steps(k) => Q(SeekPath(k)[m], m)}
<1>0. Steps(k) \in Nat
  BY DEF Steps
<1>1. 0 \in T
  <2>1. PICK r : r = [reader EXCEPT !.ok = TRUE]
    OBVIOUS
  <2>2. /\ r \in Reader /\ r.stepped_back = reader.stepped_back /\ r.ok /\ ~ r.failed
        /\ r.block = reader.block /\ r.index_pos = reader.index_pos
    BY <2>1 DEF Reader
  <2>3. At(r)
    BY <2>2 DEF At
  <2>4. Q(r, 0)
    BY <2>1, <2>2, <2>3
  <2>5. SeekPath(k)[0] = r
    BY <2>1, PathSteps
  <2> QED BY <2>4, <2>5
<1>2. ASSUME NEW m \in T
      PROVE  m + 1 \in T
  <2>1. SUFFICES ASSUME m + 1 <= Steps(k)
                 PROVE  Q(SeekPath(k)[m + 1], m + 1)
    OBVIOUS
  <2>2. PICK r : r = SeekPath(k)[m] /\ Q(r, m)
    <3>1. m \in Nat /\ m <= Steps(k)
      BY <1>0, <2>1
    <3> HIDE DEF Q
    <3> QED BY <3>1
  <2>3. SeekPath(k)[m + 1] = SeekStep(k, r)
    <3>1. m + 1 \in 1..Steps(k) /\ (m + 1) - 1 = m
      BY <1>0, <2>1
    <3> QED BY <2>2, <3>1, PathSteps
  <2>4. CASE ~ r.ok \/ r.failed
    <3>1. SeekStep(k, r) = r
      BY <2>4 DEF SeekStep
    <3>2. m > 0
      BY <2>2, <2>4
    <3> QED BY <2>2, <2>3, <3>1, <3>2
  <2>5. CASE ~ (~ r.ok \/ r.failed) /\ k > 0
    <3>1. SeekStep(k, r) = SeekNext(r)
      BY <2>5 DEF SeekStep
    <3>2. PICK s : s = SeekNext(r)
      OBVIOUS
    <3>3. r \in Reader /\ At(r) /\ ~ r.failed
      BY <2>2, <2>5
    <3>4. /\ s \in Reader /\ s.stepped_back = r.stepped_back
          /\ \/ s.failed /\ Stopped(s)
             \/ ~ s.failed /\ At(s) /\ ~ s.end
             \/ ~ s.failed /\ At(s) /\ s.end /\ Covers(s, s.index_pos)
      BY <3>2, <3>3, SeekNextStep
    <3> QED BY <2>2, <2>3, <3>1, <3>2, <3>4
  <2>6. CASE ~ (~ r.ok \/ r.failed) /\ ~ (k > 0)
    <3>1. SeekStep(k, r) = SeekPrev(r)
      BY <2>6 DEF SeekStep
    <3>2. PICK s : s = SeekPrev(r)
      OBVIOUS
    <3>3. r \in Reader /\ At(r) /\ ~ r.failed
      BY <2>2, <2>6
    <3>4. s \in Reader /\ s.stepped_back = r.stepped_back /\ ~ s.failed /\ ~ s.end /\ At(s)
      BY <3>2, <3>3, SeekPrevStep
    <3> QED BY <2>2, <2>3, <3>1, <3>2, <3>4
  <2> QED BY <2>4, <2>5, <2>6
<1>3. T = Nat
  <2>1. T \in SUBSET Nat
    OBVIOUS
  <2> HIDE DEF T
  <2> QED BY <1>1, <1>2, <2>1, EveryNumber
<1>4. n \in T /\ n <= Steps(k)
  <2>1. n \in Nat /\ n <= Steps(k)
    BY <1>0
  <2> HIDE DEF T
  <2> QED BY <1>3, <2>1
<1>5. Q(SeekPath(k)[n], n)
  <2> HIDE DEF Q
  <2> QED BY <1>4
<1> QED BY <1>5


-----------------------------------------------------------------------------
(* The reader keeps the invariant. *)

\* A reader that settles keeps the invariant.
LEMMA ReaderMoves ==
  ASSUME IInv, UNCHANGED writerVars, writer = "closed",
         NEW s \in Reader, reader' = s, Settled(s)
  PROVE  IInv'
<1>1. TypeOK'
  BY DEF IInv, TypeOK, writerVars
<1>2. PointersInv' /\ WrittenInv' /\ BlocksInv' /\ LastInv' /\ WriterInv'
  BY DEF IInv, PointersInv, WrittenInv, BlocksInv, LastInv, WriterInv, IsBlock, writerVars
<1>3. Settled(reader)'
  <2>1. file' = file /\ written' = written /\ flushed' = flushed
    BY DEF writerVars
  <2>2. At(reader)' <=> At(s)
    BY <2>1 DEF At
  <2>3. InPlace(reader)' <=> InPlace(s)
    BY <2>1 DEF InPlace
  <2>4. \A k : Covers(s, k) <=> Covers(s, k)'
    BY <2>1 DEF Covers
  <2>5. Covers(reader, reader.index_pos)' <=> Covers(s, s.index_pos)
    BY <2>1 DEF Covers
  <2>6. Stopped(reader)' <=> Stopped(s)
    BY <2>1 DEF Stopped, Covers
  <2> QED BY <2>2, <2>3, <2>5, <2>6 DEF Settled
<1>4. ReaderInv'
  BY <1>3 DEF ReaderInv, writerVars
<1> QED BY <1>1, <1>2, <1>4 DEF IInv

\* A reader at the same entry is at an entry.
LEMMA SameAt ==
  ASSUME NEW r \in Reader, NEW s \in Reader, SameEntry(r, s), At(s)
  PROVE  At(r)
BY DEF At, SameEntry

\* reset() puts the reader at the first sample (RecordReader.cpp:43).
LEMMA OpenKeeps ==
  ASSUME IInv, Open
  PROVE  IInv'
<1>0. /\ TypeOK /\ PointersInv /\ WrittenInv /\ BlocksInv
  BY DEF IInv
<1>1. writer = "closed" /\ file[1].index # <<>> /\ UNCHANGED writerVars
  BY DEF Open
<1>2. 1 \in DOMAIN file /\ IsIndex(file[1]) /\ file[1] \in Index
  BY <1>0, Fields DEF BlocksInv, IsBlock
<1>3. 1 \in DOMAIN file[1].index
  BY <1>1, <1>2, IndexFields
<1>4. 1 \in DOMAIN written
  <2>1. PICK i \in 1..flushed : TRUE
    BY <1>0, <1>2, <1>3 DEF BlocksInv
  <2> QED BY <1>0, <2>1, Fields
<1>5. written[1].sample \in Sample
  BY <1>0, <1>4, Fields
<1> DEFINE rd == [block |-> file[1], index_pos |-> 1, pos |-> 2, sample |-> written[1].sample,
                  begin |-> FALSE, end |-> FALSE, ok |-> TRUE, failed |-> FALSE, stepped_back |-> FALSE]
<1>6. rd \in Reader
  BY <1>2, <1>5 DEF Reader, Pos
<1>7. /\ rd.block = file[1] /\ rd.index_pos = 1 /\ ~ rd.end /\ ~ rd.failed /\ ~ rd.stepped_back
  OBVIOUS
<1>8. reader' = SeekAndRead(rd)
  BY DEF Open
<1> HIDE DEF rd
<1>9. At(rd)
  BY <1>2, <1>3, <1>7 DEF At
<1>10. PICK s : s = SeekAndRead(rd)
  OBVIOUS
<1>11. s \in Reader /\ ~ s.end /\ ~ s.failed /\ At(s) /\ InPlace(s)
  BY <1>0, <1>6, <1>7, <1>9, <1>10, SeekAndReadStep
<1>12. Settled(s)
  BY <1>11 DEF Settled
<1> QED BY <1>1, <1>8, <1>10, <1>11, <1>12, ReaderMoves

\* What the invariant says of a reader that can be used.
LEMMA UsableReader ==
  ASSUME IInv, Usable
  PROVE  /\ reader \in Reader /\ At(reader) /\ ~ reader.failed /\ writer = "closed"
         /\ ~ reader.stepped_back => InPlace(reader) /\ (reader.end => Covers(reader, reader.index_pos))
BY DEF IInv, TypeOK, Usable, ReaderInv, Settled

\* read_next() keeps the invariant (RecordReader.cpp:80).
LEMMA ReadNextKeeps ==
  ASSUME IInv, ReadNext
  PROVE  IInv'
<1>0. /\ TypeOK /\ PointersInv /\ WrittenInv /\ BlocksInv /\ LastInv
  BY DEF IInv
<1>1. /\ reader \in Reader /\ At(reader) /\ ~ reader.failed /\ writer = "closed"
      /\ ~ reader.stepped_back => InPlace(reader)
  BY UsableReader DEF ReadNext
<1>2. PICK r : r = SeekNext(reader)
  OBVIOUS
<1>3. UNCHANGED writerVars /\ reader' = IF r.ok THEN ReadSample(r) ELSE r
  BY <1>2 DEF ReadNext
<1>4. /\ r \in Reader /\ r.stepped_back = reader.stepped_back
      /\ \/ /\ r.failed /\ ~ r.ok /\ Stopped(r)
         \/ /\ ~ r.failed /\ r.ok /\ At(r) /\ ~ r.end
            /\ InPlace(reader) => r.pos = r.block.index[r.index_pos]
         \/ /\ ~ r.failed /\ ~ r.ok /\ At(r) /\ r.end /\ Covers(r, r.index_pos)
            /\ InPlace(reader) => InPlace(r)
  BY <1>0, <1>1, <1>2, SeekNextStep
<1>5. CASE ~ r.ok
  <2>1. Settled(r)
    BY <1>1, <1>4, <1>5 DEF Settled
  <2> QED BY <1>1, <1>3, <1>4, <1>5, <2>1, ReaderMoves
<1>6. CASE r.ok
  <2>1. ~ r.failed /\ At(r) /\ ~ r.end /\ (InPlace(reader) => r.pos = r.block.index[r.index_pos])
    BY <1>4, <1>6
  <2>2. PICK s : s = ReadSample(r)
    OBVIOUS
  <2>3. /\ s \in Reader /\ SameEntry(s, r)
        /\ r.pos \in DOMAIN file /\ ~ IsIndex(file[r.pos]) =>
             s.pos = r.pos + 1 /\ s.sample = DataIn(file, r.pos) /\ s.end = r.end /\ s.failed = r.failed
    BY <1>0, <1>4, <2>2, ReadSampleStep
  <2>4. At(s)
    BY <1>4, <2>1, <2>3, SameAt
  <2>5. ASSUME ~ s.stepped_back
        PROVE  ~ s.failed /\ ~ s.end /\ InPlace(s)
    <3>1. PICK p \in DOMAIN file : p = r.block.index[r.index_pos] /\ ~ IsIndex(file[p])
      BY <1>0, <1>4, <2>1, AtEntry
    <3>2. r.pos = p
      BY <1>1, <1>4, <2>1, <2>3, <2>5, <3>1 DEF SameEntry
    <3>3. s.pos = p + 1 /\ s.sample = DataIn(file, p) /\ ~ s.end /\ ~ s.failed
      BY <2>1, <2>3, <3>1, <3>2
    <3>4. s.block.index[s.index_pos] = p
      BY <2>3, <3>1 DEF SameEntry
    <3> QED BY <3>3, <3>4 DEF InPlace
  <2>6. Settled(s)
    BY <2>4, <2>5 DEF Settled
  <2> QED BY <1>1, <1>3, <1>6, <2>2, <2>3, <2>6, ReaderMoves
<1> QED BY <1>5, <1>6

\* read_prev() keeps the invariant (RecordReader.cpp:88).
LEMMA ReadPrevKeeps ==
  ASSUME IInv, ReadPrev
  PROVE  IInv'
<1>0. /\ TypeOK /\ PointersInv /\ WrittenInv /\ BlocksInv
  BY DEF IInv
<1>1. reader \in Reader /\ At(reader) /\ ~ reader.failed /\ writer = "closed"
  BY UsableReader DEF ReadPrev
<1>2. PICK r : r = SeekPrev(reader)
  OBVIOUS
<1>3. r \in Reader /\ At(r)
  BY <1>0, <1>1, <1>2, SeekPrevStep
<1>4. PICK t : t = IF r.ok THEN ReadSample(r) ELSE r
  OBVIOUS
<1>5. UNCHANGED writerVars /\ reader' = [t EXCEPT !.stepped_back = TRUE]
  BY <1>2, <1>4 DEF ReadPrev
<1>6. t \in Reader /\ SameEntry(t, r)
  <2>1. CASE r.ok
    BY <1>0, <1>3, <1>4, <2>1, ReadSampleStep
  <2>2. CASE ~ r.ok
    BY <1>3, <1>4, <2>2 DEF SameEntry
  <2> QED BY <2>1, <2>2
<1>7. At(t)
  BY <1>3, <1>6, SameAt
<1>8. PICK s : s = [t EXCEPT !.stepped_back = TRUE]
  OBVIOUS
<1>9. s \in Reader /\ s.stepped_back /\ s.block = t.block /\ s.index_pos = t.index_pos
  BY <1>6, <1>8 DEF Reader
<1>10. At(s)
  BY <1>7, <1>9 DEF At
<1>11. Settled(s)
  BY <1>9, <1>10 DEF Settled
<1> QED BY <1>1, <1>5, <1>8, <1>9, <1>11, ReaderMoves

\* seek_by_count() keeps the invariant (RecordReader.cpp:96).
LEMMA SeekKeeps ==
  ASSUME IInv, NEW k \in Int, SeekByCount(k)
  PROVE  IInv'
<1>0. /\ TypeOK /\ PointersInv /\ WrittenInv /\ BlocksInv /\ LastInv
  BY DEF IInv
<1>1. /\ reader \in Reader /\ At(reader) /\ ~ reader.failed /\ writer = "closed"
      /\ ~ reader.stepped_back => (reader.end => Covers(reader, reader.index_pos))
  BY UsableReader DEF SeekByCount
<1>2. Steps(k) \in 0..Steps(k) /\ (Steps(k) = 0 => k = 0)
  BY DEF Steps
<1>3. PICK r : r = SeekPath(k)[Steps(k)]
  OBVIOUS
<1>4. /\ r \in Reader /\ r.stepped_back = reader.stepped_back
      /\ ~ r.failed => At(r)
      /\ r.failed => Stopped(r)
      /\ Steps(k) > 0 /\ r.end /\ ~ r.failed => Covers(r, r.index_pos)
      /\ Steps(k) = 0 => r = [reader EXCEPT !.ok = TRUE]
  BY <1>0, <1>1, <1>2, <1>3, PathSettled
<1>5. /\ UNCHANGED writerVars
      /\ reader' = IF r.failed THEN r ELSE [SeekAndRead(r) EXCEPT !.stepped_back = @ /\ k = 0]
  BY <1>3 DEF SeekByCount
<1>6. CASE r.failed
  <2>1. Settled(r)
    BY <1>4, <1>6 DEF Settled
  <2> QED BY <1>1, <1>4, <1>5, <1>6, <2>1, ReaderMoves
<1>7. CASE ~ r.failed
  <2>1. PICK t : t = SeekAndRead(r)
    OBVIOUS
  <2>2. /\ t \in Reader /\ SameEntry(t, r) /\ t.end = r.end /\ ~ t.failed /\ At(t) /\ InPlace(t)
    BY <1>0, <1>4, <1>7, <2>1, SeekAndReadStep
  <2>3. PICK s : s = [t EXCEPT !.stepped_back = @ /\ k = 0]
    OBVIOUS
  <2>4. /\ s \in Reader /\ s.block = t.block /\ s.index_pos = t.index_pos /\ s.pos = t.pos
        /\ s.sample = t.sample /\ s.end = t.end /\ ~ s.failed
        /\ s.stepped_back = (t.stepped_back /\ k = 0)
    <3>1. PICK z \in BOOLEAN : z = (t.stepped_back /\ k = 0)
      OBVIOUS
    <3>2. s = [t EXCEPT !.stepped_back = z]
      BY <2>3, <3>1
    <3>3. /\ s \in Reader /\ s.block = t.block /\ s.index_pos = t.index_pos /\ s.pos = t.pos
          /\ s.sample = t.sample /\ s.end = t.end /\ s.failed = t.failed /\ s.stepped_back = z
      BY <2>2, <3>2 DEF Reader
    <3> QED BY <2>2, <3>1, <3>3
  <2>5. At(s) /\ InPlace(s)
    BY <2>2, <2>4 DEF At, InPlace
  <2>6. ASSUME ~ s.stepped_back, s.end
        PROVE  Covers(s, s.index_pos)
    <3>1. CASE Steps(k) > 0
      <4>1. Covers(r, r.index_pos)
        BY <1>4, <1>7, <2>2, <2>4, <2>6, <3>1
      <4> QED BY <2>2, <2>4, <4>1 DEF Covers, SameEntry
    <3>2. CASE Steps(k) = 0
      <4>1. k = 0 /\ r = [reader EXCEPT !.ok = TRUE]
        BY <1>2, <1>4, <3>2
      <4>2. r.end = reader.end /\ r.block = reader.block /\ r.index_pos = reader.index_pos
        BY <1>1, <4>1 DEF Reader
      <4>3. ~ reader.stepped_back
        BY <1>4, <2>2, <2>4, <2>6, <4>1 DEF SameEntry
      <4>4. Covers(reader, reader.index_pos)
        BY <1>1, <2>2, <2>4, <2>6, <4>2, <4>3
      <4> QED BY <2>2, <2>4, <4>2, <4>4 DEF Covers, SameEntry
    <3>3. Steps(k) > 0 \/ Steps(k) = 0
      BY DEF Steps
    <3> QED BY <3>1, <3>2, <3>3
  <2>7. Settled(s)
    BY <2>4, <2>5, <2>6 DEF Settled
  <2> QED BY <1>1, <1>5, <1>7, <2>1, <2>3, <2>4, <2>7, ReaderMoves
<1> QED BY <1>6, <1>7

\* Every step keeps the invariant.
LEMMA NextInv == IInv /\ [Next]_vars => IInv'
<1> SUFFICES ASSUME IInv, [Next]_vars PROVE IInv'
  OBVIOUS
<1>1. ASSUME WriterStep
      PROVE  IInv'
  <2>1. PointersInv' /\ WrittenInv' /\ BlocksInv' /\ LastInv' /\ WriterInv'
    BY <1>1, WriteKeeps, LinkKeeps, IndexKeeps, FlushKeeps, CrashKeeps DEF WriterStep
  <2>2. TypeOK'
    BY <1>1, WriterTypes DEF IInv
  <2>3. writer # "closed" /\ reader' = reader
    BY <1>1 DEF WriterStep, Write, AddBlockLink, AddBlockIndex, Flush, Crash
  <2>4. reader = None
    BY <2>3 DEF IInv, ReaderInv
  <2>5. ReaderInv'
    BY <2>3, <2>4 DEF ReaderInv
  <2> QED BY <2>1, <2>2, <2>5 DEF IInv
<1>2. ASSUME ReaderStep
      PROVE  IInv'
  <2>1. \A k \in (-MaxSeek)..MaxSeek : k \in Int
    BY ConstantsAssumption
  <2> QED BY <1>2, <2>1, OpenKeeps, ReadNextKeeps, ReadPrevKeeps, SeekKeeps DEF ReaderStep
<1>3. ASSUME UNCHANGED vars
      PROVE  IInv'
  <2>1. CASE reader = None
    BY <1>3, <2>1, ZenonT(60) DEF vars, writerVars, IInv, TypeOK, PointersInv, WrittenInv, BlocksInv, LastInv,
         WriterInv, ReaderInv, IsBlock
  <2>2. CASE reader # None
    <3>1. PICK s \in Reader : s = reader
      BY <2>2 DEF IInv, TypeOK
    <3> QED BY <1>3, <2>2, <3>1, ReaderMoves DEF vars, IInv, ReaderInv
  <2> QED BY <2>1, <2>2
<1> QED BY <1>1, <1>2, <1>3 DEF Next

\* The invariant holds always.
THEOREM InvAlways == Spec => []IInv
BY InitInv, NextInv, PTL DEF Spec

\* Every variable has its type: in particular, what a reader returns is a sample
\* and what it steps in is an index, wherever read_prev() left the file
\* (RecordReader.cpp:189, 234, 260).
THEOREM TypeCorrect == Spec => []TypeOK
<1>1. IInv => TypeOK
  BY DEF IInv
<1> QED BY <1>1, InvAlways, PTL

\* Which sample an entry is of.
LEMMA RankOf ==
  ASSUME TypeOK, WrittenInv, NEW rd, NEW i \in DOMAIN written,
         written[i].pos = rd.block.index[rd.index_pos]
  PROVE  Rank(rd) = i
<1>1. ASSUME NEW j \in DOMAIN written, written[j].pos = rd.block.index[rd.index_pos]
      PROVE  j = i
  <2>1. i \in Nat /\ j \in Nat /\ written[i].pos \in Nat /\ written[j].pos = written[i].pos
    BY <1>1, Fields, SMTT(60) DEF Pos
  <2>2. ~ (i < j) /\ ~ (j < i)
    BY <2>1 DEF WrittenInv
  <2> QED BY <2>1, <2>2
<1>2. Rank(rd) \in DOMAIN written /\ written[Rank(rd)].pos = rd.block.index[rd.index_pos]
  BY DEF Rank
<1> QED BY <1>1, <1>2

\* The sample that a reader returns is the one that was written where its index
\* says, after any steps and seeks but read_prev() (RecordReader.cpp:170, 242;
\* RecordWriter.cpp:78).
THEOREM SampleCorrect == Spec => []SampleAtIndex
<1>1. ASSUME IInv
      PROVE  SampleAtIndex
  <2>1. SUFFICES ASSUME Usable, ~ reader.stepped_back
                 PROVE  reader.sample = written[Rank(reader)].sample
    BY DEF SampleAtIndex
  <2>2. reader \in Reader /\ At(reader) /\ InPlace(reader)
    BY <1>1, <2>1, UsableReader
  <2>3. TypeOK /\ PointersInv /\ WrittenInv /\ BlocksInv
    BY <1>1 DEF IInv
  <2>4. PICK p \in DOMAIN file, i \in 1..flushed :
          /\ p = reader.block.index[reader.index_pos] /\ written[i].pos = p
          /\ DataIn(file, p) = written[i].sample
    BY <2>2, <2>3, AtEntry
  <2>5. i \in DOMAIN written
    BY <2>3, Fields
  <2>6. Rank(reader) = i
    BY <2>3, <2>4, <2>5, RankOf
  <2> QED BY <2>2, <2>4, <2>6 DEF InPlace
<1> QED BY <1>1, InvAlways, PTL

\* A crash loses nothing that was flushed: a reader at the end, or one that
\* cannot go on, has got to it (RecordWriter.cpp:185).
THEOREM FlushedCorrect == Spec => []FlushedReadable
<1>1. ASSUME IInv
      PROVE  FlushedReadable
  <2>1. SUFFICES ASSUME reader # None, ~ reader.stepped_back
                 PROVE  /\ reader.end => Rank(reader) >= flushed
                        /\ reader.failed =>
                             /\ reader.index_pos > Len(reader.block.index)
                             /\ flushed = 0 \/ written[flushed].pos <= Seqs!Last(reader.block.index)
    BY DEF FlushedReadable
  <2>2. TypeOK /\ PointersInv /\ WrittenInv /\ BlocksInv /\ reader \in Reader
    BY <1>1, <2>1 DEF IInv, TypeOK
  <2>3. flushed \in 0..Len(written) /\ Len(written) \in Nat /\ DOMAIN written = 1..Len(written)
    BY <2>2, Fields
  <2>4. CASE reader.failed
    <3>1. Stopped(reader)
      BY <1>1, <2>1, <2>4 DEF IInv, ReaderInv, Settled
    <3> QED BY <2>3, <3>1 DEF Stopped, Covers, Seqs!Last
  <2>5. CASE ~ reader.failed
    <3>1. At(reader) /\ (reader.end => Covers(reader, reader.index_pos))
      BY <1>1, <2>1, <2>5, UsableReader DEF Usable
    <3>2. PICK p \in DOMAIN file, i \in 1..flushed :
            p = reader.block.index[reader.index_pos] /\ written[i].pos = p
      BY <2>2, <3>1, AtEntry
    <3>3. i \in DOMAIN written /\ flushed \in DOMAIN written
      BY <2>3
    <3>4. Rank(reader) = i
      BY <2>2, <3>2, <3>3, RankOf
    <3>5. ASSUME reader.end
          PROVE  i >= flushed
      <4>1. written[flushed].pos <= written[i].pos
        BY <2>3, <3>1, <3>2, <3>5 DEF Covers
      <4>2. written[flushed].pos \in Nat /\ written[i].pos \in Nat
        BY <2>2, <3>3, Fields DEF Pos
      <4>3. ~ (i < flushed)
        BY <2>2, <3>3, <4>1, <4>2 DEF WrittenInv
      <4> QED BY <2>3, <4>3
    <3> QED BY <2>5, <3>4, <3>5
  <2> QED BY <2>4, <2>5
<1> QED BY <1>1, InvAlways, PTL

-----------------------------------------------------------------------------
(* Seeking goes by samples. *)

\* The file is the blocks, one behind the other, each with the samples that were
\* written behind its index.
TilesInv ==
    /\ \A p \in DOMAIN file : ~ IsIndex(file[p]) => \E i \in DOMAIN written : written[i].pos = p
    /\ \A p \in DOMAIN file : \E b \in DOMAIN file : IsIndex(file[b]) /\ p \in b..(b + BlockSize)
    /\ \A b \in DOMAIN file : IsIndex(file[b]) =>
         /\ b <= curr_block_pos
         /\ \A c \in DOMAIN file : IsIndex(file[c]) /\ c < b => c + BlockSize < b
         /\ file[b].prev_block = IF b = 1 THEN 0 ELSE b - BlockSize - 1

\* The first file is one empty block.
LEMMA InitTiles == Init => TilesInv
<1> SUFFICES ASSUME Init PROVE TilesInv
  OBVIOUS
<1>1. EmptyBlock(0) \in Index
  BY DEF EmptyBlock, Index
<1>2. IsIndex(EmptyBlock(0)) /\ EmptyBlock(0).prev_block = 0
  BY <1>1, IndexKind DEF EmptyBlock
<1>3. DOMAIN file = {1} /\ file[1] = EmptyBlock(0) /\ curr_block_pos = 1
  BY DEF Init
<1>4. 1 \in 1..(1 + BlockSize)
  BY ConstantsAssumption
<1> QED BY <1>2, <1>3, <1>4 DEF TilesInv

\* The tiles of a part of the file where the same indices are.
LEMMA TilesKept ==
  ASSUME TypeOK, TilesInv, NEW n \in 1..Len(file), DOMAIN file' = 1..n,
         \A p \in 1..n : IsIndex(file'[p]) <=> IsIndex(file[p]),
         \A p \in 1..n : IsIndex(file[p]) => file'[p].prev_block = file[p].prev_block,
         UNCHANGED <<written, curr_block_pos>>
  PROVE  TilesInv'
<1>1. DOMAIN file = 1..Len(file) /\ Len(file) \in Nat /\ BlockSize \in Nat
  BY Fields DEF Pos
<1>2. \A p \in DOMAIN file' : p \in DOMAIN file /\ (IsIndex(file'[p]) <=> IsIndex(file[p]))
  BY <1>1
<1>3. ASSUME NEW p \in DOMAIN file', ~ IsIndex(file'[p])
      PROVE  \E i \in DOMAIN written' : written'[i].pos = p
  BY <1>2, <1>3 DEF TilesInv
<1>4. ASSUME NEW p \in DOMAIN file'
      PROVE  \E b \in DOMAIN file' : IsIndex(file'[b]) /\ p \in b..(b + BlockSize)
  <2>1. PICK b \in DOMAIN file : IsIndex(file[b]) /\ p \in b..(b + BlockSize)
    BY <1>2, <1>4 DEF TilesInv
  <2>2. b \in 1..n
    BY <1>1, <1>4, <2>1
  <2> QED BY <2>1, <2>2
<1>5. ASSUME NEW b \in DOMAIN file', IsIndex(file'[b])
      PROVE  /\ b <= curr_block_pos'
             /\ \A c \in DOMAIN file' : IsIndex(file'[c]) /\ c < b => c + BlockSize < b
             /\ file'[b].prev_block = IF b = 1 THEN 0 ELSE b - BlockSize - 1
  BY <1>2, <1>5 DEF TilesInv
<1> QED BY <1>3, <1>4, <1>5 DEF TilesInv

\* Each step of the writer keeps the tiles (RecordWriter.cpp:65, 120, 185).
LEMMA WriterTiles ==
  ASSUME IInv, TilesInv, WriterStep
  PROVE  TilesInv'
<1>0. TypeOK /\ WriterInv /\ BlocksInv
  BY DEF IInv
<1>1. /\ DOMAIN file = 1..Len(file) /\ Len(file) \in Nat /\ BlockSize \in Nat \ {0}
      /\ curr_block_pos \in Nat \ {0} /\ Len(curr_block.index) \in Nat
      /\ DOMAIN written = 1..Len(written) /\ Len(written) \in Nat
  BY <1>0, Fields DEF Pos
<1>2. writer # "closed" =>
        /\ curr_block_pos \in DOMAIN file /\ IsIndex(file[curr_block_pos])
        /\ Len(file) = curr_block_pos + Len(curr_block.index)
        /\ writer = "open" => Len(curr_block.index) < BlockSize
        /\ writer # "open" => Len(curr_block.index) = BlockSize
        /\ curr_block.prev_block = file[curr_block_pos].prev_block
  BY <1>0 DEF WriterInv, IsBlock
<1>3. ASSUME NEW c \in Channel, NEW n \in 1..MaxSamples, Write(c, n),
             n \in {channel_map[c].seq_num, channel_map[c].seq_num + 1}
      PROVE  TilesInv'
  <2> DEFINE L == Len(file) + 1
  <2>1. /\ DOMAIN file' = 1..L /\ \A p \in DOMAIN file : file'[p] = file[p]
        /\ ~ IsIndex(file'[L])
        /\ DOMAIN written' = 1..(Len(written) + 1) /\ \A i \in DOMAIN written : written'[i] = written[i]
        /\ written'[Len(written) + 1] = [sample |-> [chan |-> c, seq_num |-> n], pos |-> L]
    BY <1>3, WriteBefore
  <2>0. written'[Len(written) + 1].pos = L
    BY <2>1
  <2>2. writer = "open" /\ curr_block_pos' = curr_block_pos
    BY <1>3 DEF Write
  <2>3. DOMAIN file' = DOMAIN file \cup {L} /\ L \notin DOMAIN file
    BY <1>1, <2>1
  <2>4. \A b \in DOMAIN file' : IsIndex(file'[b]) => b \in DOMAIN file /\ file'[b] = file[b] /\ IsIndex(file[b])
    BY <2>1, <2>3
  <2>5. ASSUME NEW p \in DOMAIN file', ~ IsIndex(file'[p])
        PROVE  \E i \in DOMAIN written' : written'[i].pos = p
    <3>1. CASE p = L
      BY <1>1, <2>0, <2>1, <3>1, SMTT(60)
    <3>2. CASE p \in DOMAIN file
      <4>1. PICK i \in DOMAIN written : written[i].pos = p
        BY <2>1, <2>5, <3>2 DEF TilesInv
      <4> QED BY <1>1, <2>1, <4>1
    <3> QED BY <2>3, <3>1, <3>2
  <2>6. ASSUME NEW p \in DOMAIN file'
        PROVE  \E b \in DOMAIN file' : IsIndex(file'[b]) /\ p \in b..(b + BlockSize)
    <3>1. CASE p = L
      <4>0. Len(file) = curr_block_pos + Len(curr_block.index) /\ Len(curr_block.index) < BlockSize
        BY <1>2, <2>2
      <4>1. L \in curr_block_pos..(curr_block_pos + BlockSize)
        BY <1>1, <4>0
      <4> QED BY <1>2, <2>1, <2>2, <2>3, <3>1, <4>1
    <3>2. CASE p \in DOMAIN file
      <4>1. PICK b \in DOMAIN file : IsIndex(file[b]) /\ p \in b..(b + BlockSize)
        BY <3>2 DEF TilesInv
      <4> QED BY <2>1, <2>3, <4>1, ZenonT(60)
    <3> QED BY <2>3, <3>1, <3>2
  <2>7. ASSUME NEW b \in DOMAIN file', IsIndex(file'[b])
        PROVE  /\ b <= curr_block_pos'
               /\ \A d \in DOMAIN file' : IsIndex(file'[d]) /\ d < b => d + BlockSize < b
               /\ file'[b].prev_block = IF b = 1 THEN 0 ELSE b - BlockSize - 1
    BY <2>2, <2>4, <2>7 DEF TilesInv
  <2> QED BY <2>5, <2>6, <2>7 DEF TilesInv
<1>4. ASSUME NEW x, Rewrites(x), writer # "closed", x.prev_block = curr_block.prev_block,
             UNCHANGED <<written, curr_block_pos>>
      PROVE  TilesInv'
  <2>1. Same(Len(file)) /\ DOMAIN file' = 1..Len(file)
    BY <1>0, <1>1, <1>2, <1>4, StepsAreSame, ZenonT(60) DEF IsBlock, Rewrites
  <2>2. \A p \in 1..Len(file) : IsIndex(file'[p]) <=> IsIndex(file[p])
    BY <2>1 DEF Same
  <2>3. \A p \in 1..Len(file) : file'[p].prev_block = file[p].prev_block
    <3>1. \A p \in 1..Len(file) : p # curr_block_pos => file'[p] = file[p]
      BY <1>1, <1>4 DEF Rewrites
    <3>2. file'[curr_block_pos].prev_block = file[curr_block_pos].prev_block
      BY <1>2, <1>4 DEF Rewrites
    <3> QED BY <3>1, <3>2
  <2>4. Len(file) \in 1..Len(file)
    <3>1. curr_block_pos \in 1..Len(file)
      BY <1>1, <1>2, <1>4, ZenonT(60)
    <3> QED BY <1>1, <3>1
  <2> QED BY <1>0, <1>4, <2>1, <2>2, <2>3, <2>4, TilesKept
<1>5. CASE AddBlockLink
  <2> DEFINE x == [curr_block EXCEPT !.next_block = Len(file) + 1]
  <2>1. writer # "closed" /\ UNCHANGED <<written, curr_block_pos>>
    BY <1>5 DEF AddBlockLink
  <2>2. Rewrites(x)
    BY <1>0, <1>2, <1>5, <2>1, LinkStep
  <2>3. x.prev_block = curr_block.prev_block
    BY <1>0 DEF TypeOK, Index
  <2> HIDE DEF x
  <2> QED BY <1>4, <2>1, <2>2, <2>3
<1>6. ASSUME NEW next, Flush(next)
      PROVE  TilesInv'
  <2>1. writer # "closed" /\ UNCHANGED <<written, curr_block_pos>>
    BY <1>6 DEF Flush
  <2>2. Rewrites(curr_block)
    BY <1>0, <1>2, <1>6, <2>1, FlushStep
  <2> QED BY <1>4, <2>1, <2>2
<1>7. CASE AddBlockIndex
  <2> DEFINE x == EmptyBlock(curr_block_pos)
             L == Len(file) + 1
  <2>1. Appends(x) /\ x \in Index /\ curr_block_pos' = L
    BY <1>0, <1>7, IndexStep
  <2>2. writer = "index" /\ written' = written
    BY <1>7 DEF AddBlockIndex
  <2>3. IsIndex(x) /\ x.prev_block = curr_block_pos
    BY <2>1, IndexKind DEF EmptyBlock
  <2> HIDE DEF x
  <2>4. /\ DOMAIN file' = DOMAIN file \cup {L} /\ L \notin DOMAIN file
        /\ \A p \in DOMAIN file : file'[p] = file[p]
        /\ file'[L] = x
    BY <1>1, <2>1 DEF Appends
  <2>5. L = curr_block_pos + BlockSize + 1
    BY <1>1, <1>2, <2>2, ZenonT(60)
  <2>6. ASSUME NEW p \in DOMAIN file', ~ IsIndex(file'[p])
        PROVE  \E i \in DOMAIN written' : written'[i].pos = p
    BY <2>2, <2>3, <2>4, <2>6 DEF TilesInv
  <2>7. ASSUME NEW p \in DOMAIN file'
        PROVE  \E b \in DOMAIN file' : IsIndex(file'[b]) /\ p \in b..(b + BlockSize)
    <3>1. CASE p = L
      <4>1. L \in L..(L + BlockSize)
        BY <1>1
      <4> QED BY <2>3, <2>4, <3>1, <4>1
    <3>2. CASE p \in DOMAIN file
      <4>1. PICK b \in DOMAIN file : IsIndex(file[b]) /\ p \in b..(b + BlockSize)
        BY <3>2 DEF TilesInv
      <4> QED BY <2>4, <4>1
    <3> QED BY <2>4, <3>1, <3>2
  <2>8. ASSUME NEW b \in DOMAIN file', IsIndex(file'[b])
        PROVE  /\ b <= curr_block_pos'
               /\ \A d \in DOMAIN file' : IsIndex(file'[d]) /\ d < b => d + BlockSize < b
               /\ file'[b].prev_block = IF b = 1 THEN 0 ELSE b - BlockSize - 1
    <3>1. CASE b = L
      <4>1. b <= curr_block_pos'
        BY <1>1, <2>1, <3>1
      <4>2. ASSUME NEW d \in DOMAIN file', IsIndex(file'[d]), d < b
            PROVE  d + BlockSize < b
        <5>1. d \in DOMAIN file /\ IsIndex(file[d])
          BY <1>1, <2>4, <3>1, <4>2
        <5>2. d <= curr_block_pos /\ d \in Nat
          BY <1>1, <5>1 DEF TilesInv
        <5> QED BY <1>1, <2>5, <3>1, <5>2
      <4>3. file'[b].prev_block = IF b = 1 THEN 0 ELSE b - BlockSize - 1
        BY <1>1, <2>3, <2>4, <2>5, <3>1
      <4> QED BY <4>1, <4>2, <4>3
    <3>2. CASE b \in DOMAIN file
      <4>1. IsIndex(file[b]) /\ file'[b] = file[b]
        BY <2>4, <2>8, <3>2
      <4>2. b <= curr_block_pos'
        BY <1>1, <2>1, <3>2
      <4>3. ASSUME NEW d \in DOMAIN file', IsIndex(file'[d]), d < b
            PROVE  d + BlockSize < b
        <5>1. d \in DOMAIN file /\ IsIndex(file[d])
          BY <1>1, <2>4, <3>2, <4>3
        <5> QED BY <3>2, <4>1, <4>3, <5>1 DEF TilesInv
      <4> QED BY <3>2, <4>1, <4>2, <4>3 DEF TilesInv
    <3> QED BY <2>4, <3>1, <3>2
  <2> QED BY <2>6, <2>7, <2>8 DEF TilesInv
<1>8. CASE Crash
  <2>1. PICK n \in 1..Len(file) : Loses(n)
    BY <1>0, <1>8, CrashStep
  <2>2. UNCHANGED <<written, curr_block_pos>>
    BY <1>8 DEF Crash
  <2>3. DOMAIN file' = 1..n /\ \A p \in 1..n : file'[p] = file[p]
    BY <2>1 DEF Loses
  <2> QED BY <1>0, <2>2, <2>3, TilesKept
<1> QED BY <1>3, <1>5, <1>6, <1>7, <1>8 DEF WriterStep

\* The tiles are there always.
LEMMA TilesAlways == Spec => [](IInv /\ TilesInv)
<1>1. IInv /\ TilesInv /\ [Next]_vars => (IInv /\ TilesInv)'
  <2> SUFFICES ASSUME IInv, TilesInv, [Next]_vars PROVE IInv' /\ TilesInv'
    OBVIOUS
  <2>1. ASSUME UNCHANGED writerVars
        PROVE  TilesInv'
    BY <2>1 DEF TilesInv, writerVars
  <2>2. WriterStep \/ UNCHANGED writerVars
    BY DEF Next, ReaderStep, Open, ReadNext, ReadPrev, SeekByCount, vars
  <2> QED BY <2>1, <2>2, WriterTiles, NextInv
<1> QED BY <1>1, InitInv, InitTiles, PTL DEF Spec



\* Entry k of the index at b is that of position p.
EntryOf(b, k, p) == b \in DOMAIN file /\ IsIndex(file[b]) /\ k \in DOMAIN file[b].index /\ file[b].index[k] = p

\* The position is in an index of the file.
InIndex(p) == \E b, k : EntryOf(b, k, p)

\* A block that is not the last is full, and the next is behind it.
LEMMA FullBefore ==
  ASSUME IInv, TilesInv, NEW b \in DOMAIN file, IsIndex(file[b]), NEW c \in DOMAIN file, IsIndex(file[c]),
         c < b
  PROVE  /\ Len(file[c].index) = BlockSize /\ DOMAIN file[c].index = 1..BlockSize
         /\ \A k \in 1..BlockSize : file[c].index[k] = c + k
         /\ c + BlockSize < b
<1>0. TypeOK /\ BlocksInv
  BY DEF IInv
<1>1. b \in Nat /\ c \in Nat /\ b <= curr_block_pos /\ curr_block_pos \in Nat
  <2>1. b \in Nat /\ c \in Nat /\ curr_block_pos \in Nat
    BY <1>0, Fields DEF Pos
  <2>2. b <= curr_block_pos
    BY DEF TilesInv
  <2> QED BY <2>1, <2>2
<1>2. file[c].next_block # 0
  BY <1>0, <1>1 DEF BlocksInv
<1>3. Len(file[c].index) = BlockSize
  BY <1>0, <1>2 DEF BlocksInv
<1>4. DOMAIN file[c].index = 1..BlockSize
  BY <1>0, <1>3, Fields, IndexFields
<1>5. \A k \in DOMAIN file[c].index : file[c].index[k] = c + k
  BY <1>0 DEF BlocksInv
<1>6. c + BlockSize < b
  BY DEF TilesInv
<1> QED BY <1>3, <1>4, <1>5, <1>6

\* What an entry is: the position it has is behind its index, that of a sample
\* that was flushed.
LEMMA EntryIs ==
  ASSUME IInv, NEW b, NEW k, NEW p, EntryOf(b, k, p)
  PROVE  /\ b \in Nat \ {0} /\ k \in 1..Len(file[b].index) /\ Len(file[b].index) \in Nat /\ p = b + k
         /\ DOMAIN file[b].index = 1..Len(file[b].index)
         /\ \E i \in 1..flushed : written[i].pos = p
<1>0. TypeOK /\ BlocksInv
  BY DEF IInv
<1>1. b \in Nat \ {0} /\ file[b] \in Index
  BY <1>0, Fields DEF EntryOf
<1> QED BY <1>0, <1>1, IndexFields, ZenonT(60) DEF EntryOf, BlocksInv

\* What is flushed is in the file, and the samples are in the order of their
\* positions.
LEMMA InOrder ==
  ASSUME IInv
  PROVE  /\ flushed \in Nat /\ flushed <= Len(written) /\ DOMAIN written = 1..Len(written) /\ Len(written) \in Nat
         /\ \A i \in DOMAIN written : written[i].pos \in Nat \ {0}
         /\ \A i \in 1..flushed : i \in DOMAIN written
         /\ \A i \in 1..flushed : written[i].pos \in DOMAIN file
         /\ \A i \in 1..flushed : ~ IsIndex(file[written[i].pos])
         /\ \A i, j \in DOMAIN written : i < j <=> written[i].pos < written[j].pos
         /\ \A i, j \in DOMAIN written : i = j <=> written[i].pos = written[j].pos
<1>0. TypeOK /\ WrittenInv
  BY DEF IInv
<1>1. /\ flushed \in Nat /\ flushed <= Len(written) /\ DOMAIN written = 1..Len(written) /\ Len(written) \in Nat
      /\ \A i \in DOMAIN written : written[i].pos \in Nat \ {0}
  BY <1>0, Fields DEF Pos
<1>2. \A i \in 1..flushed : i \in DOMAIN written
  BY <1>1
<1>3. \A i \in 1..flushed : written[i].pos \in DOMAIN file /\ ~ IsIndex(file[written[i].pos])
  BY <1>0, <1>2 DEF WrittenInv
<1>4. ASSUME NEW i \in DOMAIN written, NEW j \in DOMAIN written
      PROVE  (i < j <=> written[i].pos < written[j].pos) /\ (i = j <=> written[i].pos = written[j].pos)
  <2>1. i \in Nat /\ j \in Nat /\ written[i].pos \in Nat /\ written[j].pos \in Nat
    BY <1>1
  <2>2. (i < j => written[i].pos < written[j].pos) /\ (j < i => written[j].pos < written[i].pos)
    BY <1>0 DEF WrittenInv
  <2> QED BY <2>1, <2>2
<1> QED BY <1>1, <1>2, <1>3, <1>4

\* A sample that is in the file before one that is in an index is in an index.
LEMMA BeforeEntry ==
  ASSUME IInv, TilesInv, NEW b, NEW k, NEW p, EntryOf(b, k, p),
         NEW q \in DOMAIN file, ~ IsIndex(file[q]), q < p
  PROVE  InIndex(q)
<1>0. TypeOK /\ BlocksInv
  BY DEF IInv
<1>1. /\ b \in Nat \ {0} /\ k \in 1..Len(file[b].index) /\ Len(file[b].index) \in Nat /\ p = b + k
      /\ DOMAIN file[b].index = 1..Len(file[b].index)
  BY EntryIs
<1>2. b \in DOMAIN file /\ IsIndex(file[b])
  BY DEF EntryOf
<1>3. PICK c \in DOMAIN file : IsIndex(file[c]) /\ q \in c..(c + BlockSize)
  BY DEF TilesInv
<1>4. c \in Nat /\ q \in Nat /\ BlockSize \in Nat /\ c # q /\ q - c \in 1..BlockSize /\ q = c + (q - c)
  <2>1. c \in Nat /\ q \in Nat /\ BlockSize \in Nat
    BY <1>0, Fields DEF Pos
  <2> QED BY <1>3, <2>1
<1>5. CASE c = b
  <2>1. q - c \in DOMAIN file[b].index
    BY <1>1, <1>4, <1>5
  <2>2. file[b].index[q - c] = q
    BY <1>0, <1>2, <1>4, <1>5, <2>1 DEF BlocksInv
  <2> QED BY <1>2, <2>1, <2>2 DEF InIndex, EntryOf
<1>6. CASE c < b
  <2>1. q - c \in DOMAIN file[c].index /\ file[c].index[q - c] = q
    BY <1>2, <1>3, <1>4, <1>6, FullBefore
  <2> QED BY <1>3, <2>1 DEF InIndex, EntryOf
<1>7. CASE b < c
  <2>1. Len(file[b].index) = BlockSize /\ b + BlockSize < c
    BY <1>2, <1>3, <1>7, FullBefore
  <2> QED BY <1>1, <1>3, <1>4, <2>1
<1> QED BY <1>1, <1>4, <1>5, <1>6, <1>7

\* A set of the numbers up to n that has with a number all before it.
LEMMA Initial ==
  ASSUME NEW n \in Nat, NEW I \in SUBSET (1..n), \A i \in I : \A j \in 1..i : j \in I
  PROVE  \E m \in 0..n : I = 1..m
<1> DEFINE T == {x \in Nat : (\E m \in 0..n : I = 1..m) \/ 1..x \subseteq I}
<1>1. 0 \in T
  OBVIOUS
<1>2. ASSUME NEW x \in T
      PROVE  x + 1 \in T
  <2>1. x \in Nat /\ ((\E m \in 0..n : I = 1..m) \/ 1..x \subseteq I)
    OBVIOUS
  <2>2. CASE x + 1 \in I
    <3>1. 1..(x + 1) \subseteq I
      BY <2>2
    <3> QED BY <2>1, <3>1
  <2>3. CASE x + 1 \notin I /\ 1..x \subseteq I
    <3>1. ASSUME NEW i \in I
          PROVE  i <= x
      <4>1. i \in Nat
        OBVIOUS
      <4>2. CASE i > x
        <5>1. x + 1 \in 1..i
          BY <2>1, <4>1, <4>2
        <5> QED BY <2>3, <5>1
      <4> QED BY <2>1, <4>1, <4>2
    <3>2. I = 1..x
      <4>1. \A i \in I : i \in 1..n
        OBVIOUS
      <4>2. \A i \in I : i \in 1..x
        BY <2>1, <3>1, <4>1
      <4> QED BY <2>3, <4>2
    <3>3. x \in 0..n
      <4>1. x = 0 \/ x \in 1..x
        BY <2>1
      <4> QED BY <2>1, <3>2, <4>1
    <3> QED BY <2>1, <3>2, <3>3
  <2> QED BY <2>1, <2>2, <2>3
<1>3. T = Nat
  <2>1. T \in SUBSET Nat
    OBVIOUS
  <2> HIDE DEF T
  <2> QED BY <1>1, <1>2, <2>1, EveryNumber
<1>4. n + 1 \in T
  <2> HIDE DEF T
  <2> QED BY <1>3
<1>5. ~ (1..(n + 1) \subseteq I)
  <2>1. n + 1 \in 1..(n + 1) /\ n + 1 \notin 1..n
    OBVIOUS
  <2> QED BY <2>1
<1> QED BY <1>4, <1>5

\* The samples that can be read are the first ones.
LEMMA ReadableIs ==
  ASSUME IInv, TilesInv
  PROVE  /\ Readable \in Nat /\ Readable <= Len(written)
         /\ \A i \in DOMAIN written : InIndex(written[i].pos) <=> i <= Readable
<1> DEFINE I == {i \in DOMAIN written : InIndex(written[i].pos)}
           blocks == {file[b] : b \in {i \in DOMAIN file : IsIndex(file[i])}}
           U == UNION {Seqs!ToSet(b.index) : b \in blocks}
<1>1. \A p : p \in U <=> InIndex(p)
  <2>1. ASSUME NEW p \in U
        PROVE  InIndex(p)
    <3>1. PICK x \in blocks : p \in Seqs!ToSet(x.index)
      OBVIOUS
    <3>2. PICK b \in DOMAIN file : IsIndex(file[b]) /\ x = file[b]
      OBVIOUS
    <3>3. PICK k \in DOMAIN x.index : p = x.index[k]
      BY <3>1 DEF Seqs!ToSet
    <3> QED BY <3>2, <3>3 DEF InIndex, EntryOf
  <2>2. ASSUME NEW p, InIndex(p)
        PROVE  p \in U
    <3>1. PICK b, k : b \in DOMAIN file /\ IsIndex(file[b]) /\ k \in DOMAIN file[b].index /\ file[b].index[k] = p
      BY <2>2 DEF InIndex, EntryOf
    <3>2. p \in Seqs!ToSet(file[b].index)
      BY <3>1 DEF Seqs!ToSet
    <3>3. file[b] \in blocks
      BY <3>1
    <3> QED BY <3>2, <3>3
  <2> QED BY <2>1, <2>2
<1> HIDE DEF U
<1>2. ASSUME NEW i \in I, NEW j \in 1..i
      PROVE  j \in I
  <2>1. /\ DOMAIN written = 1..Len(written) /\ Len(written) \in Nat /\ i \in DOMAIN written /\ j \in DOMAIN written
        /\ flushed \in Nat
    BY InOrder
  <2>2. PICK b, k : EntryOf(b, k, written[i].pos)
    BY DEF InIndex
  <2>3. PICK f \in 1..flushed : written[f].pos = written[i].pos
    BY <2>2, EntryIs
  <2>4. f \in DOMAIN written /\ f = i
    BY <2>1, <2>3, InOrder
  <2>5. j \in 1..flushed
    BY <2>1, <2>3, <2>4
  <2>6. written[j].pos \in DOMAIN file /\ ~ IsIndex(file[written[j].pos])
    BY <2>5, InOrder
  <2>7. CASE j = i
    BY <2>7
  <2>8. CASE j < i
    <3>1. written[j].pos < written[i].pos
      BY <2>1, <2>8, InOrder
    <3>2. InIndex(written[j].pos)
      BY <2>2, <2>6, <3>1, BeforeEntry
    <3> QED BY <2>1, <3>2
  <2> QED BY <2>1, <2>7, <2>8
<1>3. PICK m \in 0..Len(written) : I = 1..m
  <2>1. Len(written) \in Nat /\ I \in SUBSET (1..Len(written))
    BY InOrder
  <2> HIDE DEF I
  <2> QED BY <1>2, <2>1, Initial
<1>4. Cardinality(U) = m
  <2> DEFINE f == [i \in 1..m |-> written[i].pos]
  <2>1. m \in Nat /\ \A i \in 1..m : i \in I
    BY <1>3, InOrder, SMTT(60)
  <2>2. \A i \in 1..m : i \in DOMAIN written /\ InIndex(written[i].pos)
    BY <2>1
  <2>3. f \in [1..m -> U]
    BY <1>1, <2>2
  <2>4. \A i, j \in 1..m : f[i] = f[j] => i = j
    BY <2>2, InOrder
  <2>5. ASSUME NEW p \in U
        PROVE  \E i \in 1..m : f[i] = p
    <3>1. PICK b, k : EntryOf(b, k, p)
      BY <1>1 DEF InIndex
    <3>2. PICK i \in 1..flushed : written[i].pos = p
      BY <3>1, EntryIs
    <3>3. i \in I
      BY <1>1, <3>2, InOrder
    <3>4. i \in 1..m
      BY <1>3, <3>3
    <3> QED BY <3>2, <3>4
  <2>6. f \in Bijection(1..m, U)
    BY <2>3, <2>4, <2>5 DEF Bijection, Injection, Surjection, IsInjective
  <2>7. ExistsBijection(1..m, U)
    BY <2>6 DEF ExistsBijection
  <2> QED BY <2>1, <2>7, FS_CountingElements
<1>5. Readable = m
  BY <1>4 DEF Readable, U
<1>6. \A i \in DOMAIN written : i \in I <=> i <= m
  <2>1. \A i \in DOMAIN written : i \in 1..m <=> i <= m
    BY InOrder
  <2> HIDE DEF I
  <2> QED BY <1>3, <2>1
<1> QED BY <1>3, <1>5, <1>6, InOrder

\* The next sample is the one behind which there is only an index.
LEMMA NextWritten ==
  ASSUME IInv, NEW i \in 1..flushed, NEW j \in 1..flushed, written[i].pos < written[j].pos,
         \A p \in DOMAIN file : written[i].pos < p /\ p < written[j].pos => IsIndex(file[p])
  PROVE  j = i + 1
<1>1. /\ flushed \in Nat /\ i \in DOMAIN written /\ j \in DOMAIN written
      /\ DOMAIN written = 1..Len(written) /\ Len(written) \in Nat
  BY InOrder
<1>2. i < j
  BY <1>1, InOrder
<1>3. CASE i + 1 < j
  <2>1. i + 1 \in 1..flushed /\ i + 1 \in DOMAIN written /\ i < i + 1
    BY <1>1, <1>3
  <2>2. written[i].pos < written[i + 1].pos /\ written[i + 1].pos < written[j].pos
    BY <1>1, <1>3, <2>1, InOrder
  <2>3. written[i + 1].pos \in DOMAIN file /\ ~ IsIndex(file[written[i + 1].pos])
    BY <2>1, InOrder
  <2> QED BY <2>2, <2>3
<1> QED BY <1>1, <1>2, <1>3


\* The reader is at the entry of sample i.
AtSample(rd, i) ==
    i \in 1..flushed /\ i <= Readable /\ written[i].pos = rd.block.index[rd.index_pos]

\* A reader that is at an entry is at a sample.
LEMMA SampleOf ==
  ASSUME IInv, TilesInv, NEW rd \in Reader, At(rd)
  PROVE  \E i \in 1..flushed : AtSample(rd, i) /\ Rank(rd) = i
<1>0. TypeOK /\ PointersInv /\ WrittenInv /\ BlocksInv
  BY DEF IInv
<1>1. PICK b \in DOMAIN file :
        IsIndex(file[b]) /\ rd.block = file[b] /\ rd.index_pos \in DOMAIN rd.block.index
  BY DEF At
<1>2. PICK i \in 1..flushed : written[i].pos = rd.block.index[rd.index_pos]
  BY <1>0, AtEntry
<1>3. i \in DOMAIN written
  BY InOrder
<1>4. EntryOf(b, rd.index_pos, written[i].pos)
  BY <1>1, <1>2 DEF EntryOf
<1>5. i <= Readable
  BY <1>3, <1>4, ReadableIs DEF InIndex
<1>6. Rank(rd) = i
  BY <1>0, <1>2, <1>3, RankOf
<1> QED BY <1>2, <1>5, <1>6 DEF AtSample

\* A reader is at one sample.
LEMMA OneSample ==
  ASSUME IInv, NEW rd, NEW i, AtSample(rd, i)
  PROVE  Rank(rd) = i
<1>1. TypeOK /\ WrittenInv /\ i \in DOMAIN written
  BY InOrder DEF IInv, AtSample
<1> QED BY <1>1, RankOf DEF AtSample

\* The sample of an entry that follows that of another with only an index between
\* them is the next.
LEMMA NextEntry ==
  ASSUME IInv, TilesInv, NEW r \in Reader, At(r), NEW s \in Reader, At(s),
         NEW i, AtSample(r, i), NEW j, AtSample(s, j),
         NEW p \in Nat, p = r.block.index[r.index_pos],
         NEW q \in Nat, q = s.block.index[s.index_pos],
         q = p + 1 \/ (q = p + 2 /\ IsIndex(file[p + 1]))
  PROVE  j = i + 1
<1>1. /\ i \in 1..flushed /\ j \in 1..flushed /\ written[i].pos = p /\ written[j].pos = q
  BY DEF AtSample
<1>2. p < q
  OBVIOUS
<1>3. ASSUME NEW x \in DOMAIN file, p < x, x < q
      PROVE  IsIndex(file[x])
  <2>1. x \in Nat
    BY Fields DEF IInv
  <2>2. x = p + 1 /\ q = p + 2
    BY <1>3, <2>1
  <2> QED BY <2>2
<1> QED BY <1>1, <1>2, <1>3, NextWritten

\* seek_next() goes to the next sample, or stays at the last (RecordReader.cpp:164).
LEMMA NextSample ==
  ASSUME IInv, TilesInv, NEW rd \in Reader, At(rd), ~ rd.failed, NEW i, AtSample(rd, i),
         NEW r, r = SeekNext(rd)
  PROVE  \/ r.failed
         \/ r.ok /\ AtSample(r, i + 1)
         \/ ~ r.ok /\ AtSample(r, i) /\ i = Readable
<1>0. TypeOK /\ PointersInv /\ WrittenInv /\ BlocksInv /\ LastInv
  BY DEF IInv
<1>1. PICK b \in DOMAIN file, k \in Nat \ {0} :
        /\ IsIndex(file[b]) /\ file[b] \in Index /\ rd.block = file[b]
        /\ k = rd.index_pos /\ k \in 1..Len(rd.block.index)
        /\ rd.block.index[k] = b + k
  BY <1>0, AtEntry
<1>2. /\ DOMAIN file = 1..Len(file) /\ Len(file) \in Nat /\ BlockSize \in Nat \ {0} /\ b \in Nat \ {0}
      /\ rd.block.next_block \in Nat /\ Len(rd.block.index) \in Nat
      /\ DOMAIN rd.block.index = 1..Len(rd.block.index)
  BY <1>0, <1>1, Fields, IndexFields, SMTT(60) DEF Pos
<1>3. PICK next \in Nat : next = rd.block.next_block
  BY <1>2
<1>4. next # 0 =>
        /\ next = b + BlockSize + 1 /\ Len(rd.block.index) = BlockSize
        /\ next \in DOMAIN file => IsIndex(file[next])
  BY <1>0, <1>1, <1>3 DEF BlocksInv
<1>5. next = 0 => b = curr_block_pos
  BY <1>0, <1>1, <1>3 DEF BlocksInv
<1>6. \A j \in 1..Len(rd.block.index) : rd.block.index[j] = b + j
  BY <1>0, <1>1, <1>2 DEF BlocksInv
<1>7. /\ r \in Reader
      /\ r.failed \/ At(r)
  BY <1>0, SeekNextStep
<1> DEFINE r0 == [rd EXCEPT !.begin = FALSE, !.end = FALSE, !.ok = TRUE, !.index_pos = k + 1]
           stay == [rd EXCEPT !.begin = FALSE, !.end = TRUE, !.ok = FALSE]
<1>8. r = IF k + 1 <= Len(rd.block.index) THEN r0
          ELSE IF next = 0 THEN stay
          ELSE IF next > Len(file) THEN [r0 EXCEPT !.failed = TRUE, !.ok = FALSE]
          ELSE IF file[next].index = <<>>
          THEN [SeekAndRead(stay) EXCEPT !.end = TRUE]
          ELSE [r0 EXCEPT !.block = file[next], !.index_pos = 1, !.pos = next + 1]
  <2>1. r0 = [rd EXCEPT !.begin = FALSE, !.end = FALSE, !.ok = TRUE, !.index_pos = @ + 1]
    BY <1>1
  <2>2. r0.index_pos = k + 1
    BY DEF Reader
  <2> HIDE DEF r0
  <2> QED BY <1>3, <2>1, <2>2 DEF SeekNext
<1>9. r0 \in Reader /\ r0.block = rd.block /\ r0.index_pos = k + 1 /\ r0.ok
  <2>1. PICK n \in Nat : n = k + 1
    OBVIOUS
  <2>2. r0 = [rd EXCEPT !.begin = FALSE, !.end = FALSE, !.ok = TRUE, !.index_pos = n]
    BY <2>1
  <2> HIDE DEF r0
  <2> QED BY <2>1, <2>2 DEF Reader
<1>10. stay \in Reader /\ stay.block = rd.block /\ stay.index_pos = k /\ ~ stay.ok /\ At(stay)
  <2>1. stay \in Reader /\ stay.block = rd.block /\ stay.index_pos = k /\ ~ stay.ok
    BY <1>1 DEF Reader
  <2> HIDE DEF stay
  <2> QED BY <1>1, <1>2, <2>1 DEF At
<1> HIDE DEF r0, stay
<1>11. ASSUME r.ok, ~ r.failed, NEW q \in Nat, q = r.block.index[r.index_pos],
              q = b + k + 1 \/ (q = b + k + 2 /\ IsIndex(file[b + k + 1]))
       PROVE  AtSample(r, i + 1)
  <2>1. PICK j \in 1..flushed : AtSample(r, j)
    BY <1>7, <1>11, SampleOf
  <2>2. PICK p \in Nat : p = b + k
    BY <1>2
  <2>3. p = rd.block.index[rd.index_pos] /\ (q = p + 1 \/ (q = p + 2 /\ IsIndex(file[p + 1])))
    BY <1>1, <1>11, <2>2
  <2>4. j = i + 1
    BY <1>7, <1>11, <2>1, <2>2, <2>3, NextEntry
  <2> QED BY <2>1, <2>4
<1>12. ASSUME k = Len(rd.block.index), ~ r.ok, r.block = rd.block, r.index_pos = k,
              next = 0 \/ (next \in DOMAIN file /\ file[next].index = <<>>)
       PROVE  AtSample(r, i) /\ i = Readable
  <2>1. AtSample(r, i)
    BY <1>1, <1>12 DEF AtSample
  <2>2. i \in 1..flushed /\ i <= Readable /\ written[i].pos = b + k /\ i \in DOMAIN written
    BY <1>1, InOrder DEF AtSample
  <2>3. ASSUME i < Readable
        PROVE  FALSE
    <3>1. PICK c, m, p : EntryOf(c, m, p) /\ b + k < p
      <4>1. Readable \in Nat /\ flushed \in Nat
        BY ReadableIs, InOrder
      <4>2. i + 1 \in DOMAIN written /\ i + 1 <= Readable
        BY <2>2, <2>3, <4>1, ReadableIs, InOrder
      <4>3. InIndex(written[i + 1].pos)
        BY <4>2, ReadableIs
      <4>4. written[i].pos < written[i + 1].pos
        BY <2>2, <4>2, InOrder
      <4> QED BY <2>2, <4>3, <4>4 DEF InIndex
    <3>2. c \in Nat \ {0} /\ m \in 1..Len(file[c].index) /\ Len(file[c].index) \in Nat /\ p = c + m
      BY <3>1, EntryIs
    <3>3. c \in DOMAIN file /\ IsIndex(file[c]) /\ c <= curr_block_pos
      BY <3>1 DEF EntryOf, TilesInv
    <3>4. CASE c = b
      BY <1>1, <1>2, <1>12, <3>1, <3>2, <3>4
    <3>5. CASE c < b
      <4>1. Len(file[c].index) = BlockSize /\ c + BlockSize < b
        BY <1>1, <3>3, <3>5, FullBefore
      <4> QED BY <1>2, <3>1, <3>2, <4>1
    <3>6. CASE b < c
      <4>0. b + BlockSize < c
        BY <1>1, <3>3, <3>6, FullBefore
      <4>1. next # 0
        BY <1>2, <1>5, <3>2, <3>3, <3>6
      <4>2. next \in DOMAIN file /\ file[next].index = <<>> /\ IsIndex(file[next]) /\ next = b + BlockSize + 1
        BY <1>4, <1>12, <4>1
      <4>3. c # next
        BY <3>2, <4>2
      <4>4. next < c
        BY <1>2, <3>2, <4>0, <4>2, <4>3
      <4>5. Len(file[next].index) = BlockSize
        BY <3>3, <4>2, <4>4, FullBefore
      <4> QED BY <1>2, <4>2, <4>5
    <3> QED BY <1>2, <3>2, <3>4, <3>5, <3>6
  <2> QED BY <2>1, <2>2, <2>3, ReadableIs
<1>13. CASE k + 1 <= Len(rd.block.index)
  <2>1. r = r0
    BY <1>8, <1>13
  <2>2. k + 1 \in 1..Len(rd.block.index) /\ b + (k + 1) = b + k + 1 /\ b + k + 1 \in Nat
    BY <1>2, <1>13, SMTT(60)
  <2>3. rd.block.index[k + 1] = b + k + 1
    BY <1>6, <2>2
  <2>4. PICK q \in Nat : q = b + k + 1
    BY <2>2
  <2>5. q = r.block.index[r.index_pos] /\ r.ok
    BY <1>9, <2>1, <2>3, <2>4
  <2>6. r.failed \/ AtSample(r, i + 1)
    BY <1>11, <2>4, <2>5
  <2> QED BY <2>5, <2>6
<1>14. CASE k + 1 > Len(rd.block.index)
  <2>1. k = Len(rd.block.index)
    BY <1>1, <1>2, <1>14
  <2>2. CASE next = 0
    <3>1. r = stay
      BY <1>8, <1>14, <1>2, <2>2
    <3>2. ~ r.ok /\ r.block = rd.block /\ r.index_pos = k
      BY <1>10, <3>1
    <3>3. AtSample(r, i) /\ i = Readable
      BY <1>12, <2>1, <2>2, <3>2
    <3> QED BY <3>2, <3>3
  <2>3. CASE next # 0 /\ next > Len(file)
    <3>1. r = [r0 EXCEPT !.failed = TRUE, !.ok = FALSE]
      BY <1>8, <1>14, <1>2, <2>3
    <3> QED BY <1>9, <3>1 DEF Reader
  <2>4. CASE next \in DOMAIN file /\ file[next].index = <<>>
    <3>1. PICK t : t = SeekAndRead(stay)
      OBVIOUS
    <3>2. r = [t EXCEPT !.end = TRUE]
      BY <1>8, <1>14, <1>2, <2>4, <3>1
    <3>3. t \in Reader /\ SameEntry(t, stay)
      BY <1>0, <1>10, <3>1, SeekAndReadStep
    <3>4. r.block = rd.block /\ r.index_pos = k /\ ~ r.ok
      BY <1>10, <3>2, <3>3 DEF Reader, SameEntry
    <3> QED BY <1>12, <2>1, <2>4, <3>4
  <2>5. CASE next \in DOMAIN file /\ file[next].index # <<>>
    <3>1. r = [r0 EXCEPT !.block = file[next], !.index_pos = 1, !.pos = next + 1]
      BY <1>8, <1>14, <1>2, <2>5
    <3>2. IsIndex(file[next]) /\ file[next] \in Index /\ next = b + BlockSize + 1 /\ k = BlockSize
      BY <1>0, <1>2, <1>4, <2>1, <2>5, Fields, SMTT(60)
    <3>3. r.block = file[next] /\ r.index_pos = 1 /\ r.ok
      BY <1>9, <3>1 DEF Reader
    <3>4. 1 \in DOMAIN file[next].index
      BY <2>5, <3>2, IndexFields
    <3>5. r.block.index[r.index_pos] = next + 1
      BY <1>0, <2>5, <3>2, <3>3, <3>4 DEF BlocksInv
    <3>6. next = b + k + 1 /\ next + 1 = b + k + 2 /\ next + 1 \in Nat
      BY <1>2, <3>2
    <3> QED BY <1>11, <3>2, <3>3, <3>5, <3>6
  <2> QED BY <1>2, <2>2, <2>3, <2>4, <2>5
<1> QED BY <1>2, <1>13, <1>14


\* seek_prev() goes to the sample before, or stays at the first
\* (RecordReader.cpp:189).
LEMMA PrevSample ==
  ASSUME IInv, TilesInv, NEW rd \in Reader, At(rd), ~ rd.failed, NEW i, AtSample(rd, i),
         NEW r, r = SeekPrev(rd)
  PROVE  \/ r.ok /\ AtSample(r, i - 1)
         \/ ~ r.ok /\ AtSample(r, i) /\ i = 1
<1>0. TypeOK /\ PointersInv /\ WrittenInv /\ BlocksInv /\ LastInv
  BY DEF IInv
<1>1. PICK b \in DOMAIN file, k \in Nat \ {0} :
        /\ IsIndex(file[b]) /\ file[b] \in Index /\ rd.block = file[b]
        /\ k = rd.index_pos /\ k \in 1..Len(rd.block.index)
        /\ rd.block.index[k] = b + k
  BY <1>0, AtEntry
<1>2. /\ DOMAIN file = 1..Len(file) /\ Len(file) \in Nat /\ BlockSize \in Nat \ {0} /\ b \in Nat \ {0}
      /\ rd.block.prev_block \in Nat /\ Len(rd.block.index) \in Nat
      /\ DOMAIN rd.block.index = 1..Len(rd.block.index)
  BY <1>0, <1>1, Fields, IndexFields, SMTT(60) DEF Pos
<1>3. PICK prev \in Nat : prev = rd.block.prev_block
  BY <1>2
<1>4. prev = IF b = 1 THEN 0 ELSE b - BlockSize - 1
  BY <1>1, <1>3 DEF TilesInv
<1>5. prev # 0 => prev \in DOMAIN file /\ IsIndex(file[prev]) /\ prev < b /\ file[prev].index # <<>>
  BY <1>0, <1>1, <1>3 DEF BlocksInv, IsBlock
<1>6. \A j \in 1..Len(rd.block.index) : rd.block.index[j] = b + j
  BY <1>0, <1>1, <1>2 DEF BlocksInv
<1>7. r \in Reader /\ ~ r.failed /\ At(r)
  BY <1>0, SeekPrevStep
<1> DEFINE r0 == [rd EXCEPT !.begin = FALSE, !.end = FALSE, !.ok = TRUE, !.index_pos = @ - 1]
           stay == [rd EXCEPT !.begin = TRUE, !.end = FALSE, !.ok = FALSE]
           back == [r0 EXCEPT !.block = file[prev], !.index_pos = Len(file[prev].index)]
<1>8. r0.block = rd.block /\ r0.index_pos = k - 1 /\ r0.ok
  BY <1>1 DEF Reader
<1>9. r = IF k - 1 >= 1 THEN r0 ELSE IF prev = 0 THEN stay ELSE SeekAndRead(back)
  BY <1>3, <1>8 DEF SeekPrev
<1>10. PICK j \in 1..flushed : AtSample(r, j)
  BY <1>7, SampleOf
<1>11. ASSUME NEW q \in Nat, q = r.block.index[r.index_pos],
              b + k = q + 1 \/ (b + k = q + 2 /\ IsIndex(file[q + 1]))
       PROVE  AtSample(r, i - 1)
  <2>1. PICK p \in Nat : p = b + k
    BY <1>2
  <2>2. p = rd.block.index[rd.index_pos] /\ (p = q + 1 \/ (p = q + 2 /\ IsIndex(file[q + 1])))
    BY <1>1, <1>11, <2>1
  <2>3. i = j + 1
    BY <1>7, <1>10, <1>11, <2>2, NextEntry
  <2>4. j = i - 1
    BY <2>3
  <2> QED BY <1>10, <2>4
<1>12. CASE k - 1 >= 1
  <2>1. r.block = rd.block /\ r.index_pos = k - 1 /\ r.ok
    BY <1>8, <1>9, <1>12
  <2>2. k - 1 \in 1..Len(rd.block.index)
    BY <1>1, <1>2, <1>12, SMTT(60)
  <2>3. PICK q \in Nat : q = b + (k - 1)
    BY <1>2, <2>2
  <2>4. q = r.block.index[r.index_pos] /\ b + k = q + 1
    BY <1>2, <1>6, <2>1, <2>2, <2>3, SMTT(60)
  <2> QED BY <1>11, <2>1, <2>4
<1>13. CASE ~ (k - 1 >= 1) /\ prev = 0
  <2>1. r = stay
    BY <1>9, <1>13
  <2>2. ~ r.ok /\ r.block = rd.block /\ r.index_pos = rd.index_pos
    BY <2>1 DEF Reader
  <2>3. AtSample(r, i)
    BY <2>2 DEF AtSample
  <2>4. k = 1
    BY <1>13
  <2>5. b = 1
    <3>1. CASE b # 1
      <4>1. 1 \in DOMAIN file /\ IsIndex(file[1]) /\ 1 < b
        BY <1>0, <1>2, <3>1 DEF BlocksInv, IsBlock
      <4>2. 1 + BlockSize < b
        BY <1>1, <4>1 DEF TilesInv
      <4> QED BY <1>2, <1>4, <1>13, <3>1, <4>2
    <3> QED BY <3>1
  <2>6. i \in 1..flushed /\ written[i].pos = 2
    BY <1>1, <2>4, <2>5 DEF AtSample
  <2>7. ASSUME i # 1
        PROVE  FALSE
    <3>1. i \in DOMAIN written /\ 1 \in 1..flushed /\ 1 \in DOMAIN written /\ 1 < i
      BY <2>6, <2>7, InOrder
    <3>2. written[1].pos < written[i].pos /\ written[1].pos \in Nat \ {0}
      BY <3>1, InOrder
    <3>3. written[1].pos = 1
      BY <2>6, <3>2
    <3>4. ~ IsIndex(file[1])
      BY <3>1, <3>3, InOrder
    <3> QED BY <1>1, <2>5, <3>4
  <2> QED BY <2>2, <2>3, <2>7
<1>14. CASE ~ (k - 1 >= 1) /\ prev # 0
  <2>1. r = SeekAndRead(back)
    BY <1>9, <1>14
  <2>2. /\ prev \in DOMAIN file /\ IsIndex(file[prev]) /\ prev < b /\ file[prev] \in Index
        /\ Len(file[prev].index) = BlockSize /\ file[prev].index[BlockSize] = prev + BlockSize
        /\ BlockSize \in DOMAIN file[prev].index
    <3>1. prev \in DOMAIN file /\ IsIndex(file[prev]) /\ prev < b
      BY <1>5, <1>14
    <3>2. file[prev] \in Index
      BY <1>0, <3>1, Fields
    <3>3. BlockSize \in 1..BlockSize
      BY <1>2
    <3> QED BY <1>1, <3>1, <3>2, <3>3, FullBefore
  <2>3. /\ back \in Reader /\ back.block = file[prev] /\ back.index_pos = BlockSize /\ back.ok
    <3>1. BlockSize \in Nat
      BY <1>2
    <3>2. back = [rd EXCEPT !.begin = FALSE, !.end = FALSE, !.ok = TRUE, !.block = file[prev], !.index_pos = BlockSize]
      BY <2>2 DEF Reader
    <3> HIDE DEF back
    <3> QED BY <2>2, <3>1, <3>2 DEF Reader
  <2>4. At(back)
    <3> HIDE DEF back
    <3> QED BY <2>2, <2>3 DEF At
  <2>5. r.block = file[prev] /\ r.index_pos = BlockSize /\ r.ok
    <3> HIDE DEF back
    <3>1. SameEntry(r, back)
      BY <1>0, <2>1, <2>3, <2>4, SeekAndReadStep
    <3> QED BY <2>3, <3>1 DEF SameEntry
  <2>6. PICK q \in Nat : q = prev + BlockSize
    BY <1>2
  <2>7. k = 1 /\ prev = b - BlockSize - 1
    BY <1>4, <1>14
  <2>8. q = r.block.index[r.index_pos] /\ b + k = q + 2 /\ q + 1 = b
    BY <1>2, <2>2, <2>5, <2>6, <2>7, SMTT(60)
  <2> QED BY <1>1, <1>11, <2>5, <2>8
<1> QED BY <1>12, <1>13, <1>14

\* Where k steps from sample i of n lead.
Target(i, k, n) == IF i + k < 1 THEN 1 ELSE IF i + k > n THEN n ELSE i + k

\* The steps of seek_by_count() go by samples (RecordReader.cpp:96).
LEMMA PathSample ==
  ASSUME IInv, TilesInv, reader \in Reader, At(reader), ~ reader.failed, NEW i, AtSample(reader, i),
         NEW k \in Int, NEW r, r = SeekPath(k)[Steps(k)], ~ r.failed
  PROVE  AtSample(r, Target(i, k, Readable))
<1>0. TypeOK /\ PointersInv /\ WrittenInv /\ BlocksInv /\ LastInv
  BY DEF IInv
<1>1. PICK n \in Nat : n = Readable
  BY ReadableIs
<1>2. i \in Nat /\ 1 <= i /\ i <= n
  BY <1>1, InOrder DEF AtSample
<1>3. Steps(k) \in Nat /\ (k > 0 => Steps(k) = k) /\ (~ (k > 0) => Steps(k) = -k)
  BY DEF Steps
<1> DEFINE Next1(s, m) == (s.ok /\ AtSample(s, i + m)) \/ (~ s.ok /\ AtSample(s, n) /\ i + m >= n)
           Prev1(s, m) == (s.ok /\ AtSample(s, i - m)) \/ (~ s.ok /\ AtSample(s, 1) /\ i - m <= 1)
           Q(s, m) == s.failed \/ (IF k > 0 THEN Next1(s, m) ELSE Prev1(s, m))
           T == {m \in Nat : m <= Steps(k) => Q(SeekPath(k)[m], m)}
<1>4. 0 \in T
  <2>1. PICK s : s = SeekPath(k)[0]
    OBVIOUS
  <2>2. s = [reader EXCEPT !.ok = TRUE]
    BY <2>1, PathSteps
  <2>3. s.ok /\ s.block = reader.block /\ s.index_pos = reader.index_pos
    BY <2>2 DEF Reader
  <2>4. AtSample(s, i) /\ i + 0 = i /\ i - 0 = i
    BY <1>2, <2>3 DEF AtSample
  <2>5. Next1(s, 0) /\ Prev1(s, 0)
    BY <2>3, <2>4
  <2>6. Q(s, 0)
    BY <2>5
  <2> HIDE DEF Q
  <2> QED BY <2>1, <2>6
<1>5. ASSUME NEW m \in T
      PROVE  m + 1 \in T
  <2>1. SUFFICES ASSUME m + 1 <= Steps(k)
                 PROVE  Q(SeekPath(k)[m + 1], m + 1)
    OBVIOUS
  <2>2. m \in Nat /\ m \in 0..Steps(k) /\ m + 1 \in 1..Steps(k) /\ (m + 1) - 1 = m
    BY <1>3, <2>1
  <2>3. PICK s : s = SeekPath(k)[m] /\ Q(s, m)
    <3> HIDE DEF Q
    <3> QED BY <1>3, <2>2
  <2>4. PICK t : t = SeekPath(k)[m + 1]
    OBVIOUS
  <2>5. t = SeekStep(k, s)
    BY <2>2, <2>3, <2>4, PathSteps
  <2>6. s \in Reader /\ (~ s.failed => At(s))
    BY <1>0, <2>2, <2>3, PathSettled
  <2>7. CASE ~ s.ok \/ s.failed
    <3>1. t = s
      BY <2>5, <2>7 DEF SeekStep
    <3> QED BY <1>2, <2>2, <2>3, <2>4, <2>7, <3>1
  <2>8. CASE ~ (~ s.ok \/ s.failed) /\ k > 0
    <3>1. t = SeekNext(s)
      BY <2>5, <2>8 DEF SeekStep
    <3>2. AtSample(s, i + m)
      BY <2>3, <2>8
    <3>3. \/ t.failed
          \/ t.ok /\ AtSample(t, (i + m) + 1)
          \/ ~ t.ok /\ AtSample(t, i + m) /\ i + m = Readable
      BY <2>6, <2>8, <3>1, <3>2, NextSample
    <3>4. (i + m) + 1 = i + (m + 1)
      BY <1>2, <2>2
    <3>5. t.failed \/ Next1(t, m + 1)
      BY <1>1, <1>2, <2>2, <3>3, <3>4
    <3> QED BY <2>4, <2>8, <3>5
  <2>9. CASE ~ (~ s.ok \/ s.failed) /\ ~ (k > 0)
    <3>1. t = SeekPrev(s)
      BY <2>5, <2>9 DEF SeekStep
    <3>2. AtSample(s, i - m)
      BY <2>3, <2>9
    <3>3. \/ t.ok /\ AtSample(t, (i - m) - 1)
          \/ ~ t.ok /\ AtSample(t, i - m) /\ i - m = 1
      BY <2>6, <2>9, <3>1, <3>2, PrevSample
    <3>4. (i - m) - 1 = i - (m + 1)
      BY <1>2, <2>2
    <3>5. Prev1(t, m + 1)
      BY <1>2, <2>2, <3>3, <3>4
    <3> QED BY <2>4, <2>9, <3>5
  <2> QED BY <2>7, <2>8, <2>9
<1>6. Q(r, Steps(k))
  <2>1. T = Nat
    <3>1. T \in SUBSET Nat
      OBVIOUS
    <3> HIDE DEF T
    <3> QED BY <1>4, <1>5, <3>1, EveryNumber
  <2>2. Steps(k) \in T
    <3> HIDE DEF T
    <3> QED BY <1>3, <2>1
  <2>3. Steps(k) <= Steps(k)
    BY <1>3
  <2> HIDE DEF Q
  <2> QED BY <2>2, <2>3
<1>7. CASE k > 0
  <2>1. Next1(r, k)
    BY <1>3, <1>6, <1>7
  <2>2. CASE AtSample(r, i + k)
    <3>1. i + k <= n /\ i + k >= 1
      BY <1>1, <1>2, <1>7, <2>2 DEF AtSample
    <3> QED BY <1>1, <1>2, <2>2, <3>1 DEF Target
  <2>3. CASE AtSample(r, n) /\ i + k >= n
    <3>1. Target(i, k, n) = n
      BY <1>2, <1>7, <2>3 DEF Target
    <3> QED BY <1>1, <2>3, <3>1
  <2> QED BY <2>1, <2>2, <2>3
<1>8. CASE ~ (k > 0)
  <2>1. Prev1(r, -k)
    BY <1>3, <1>6, <1>8
  <2>2. i - (-k) = i + k
    BY <1>2
  <2>3. CASE AtSample(r, i + k)
    <3>1. i + k <= n /\ i + k >= 1
      BY <1>1, <1>2, <1>8, <2>3, InOrder DEF AtSample
    <3> QED BY <1>1, <1>2, <2>3, <3>1 DEF Target
  <2>4. CASE AtSample(r, 1) /\ i + k <= 1
    <3>1. Target(i, k, n) = 1
      BY <1>2, <1>8, <2>4 DEF Target
    <3> QED BY <1>1, <2>4, <3>1
  <2> QED BY <2>1, <2>2, <2>3, <2>4
<1> QED BY <1>7, <1>8


\* A reader that ends at the sample k steps lead to moved by k.
LEMMA MovedTo ==
  ASSUME IInv, UNCHANGED writerVars, NEW k \in Int, NEW i, AtSample(reader, i),
         NEW s, reader' = s, AtSample(s, Target(i, k, Readable))
  PROVE  MovesBy(k)
<1>1. Rank(reader) = i /\ Rank(s) = Target(i, k, Readable)
  BY OneSample
<1>2. Rank(reader)' = Rank(s)
  BY DEF Rank, writerVars
<1> QED BY <1>1, <1>2 DEF MovesBy, Target

\* read_next() goes by one sample (RecordReader.cpp:80).
LEMMA ReadNextMoves ==
  ASSUME IInv, TilesInv, ReadNext
  PROVE  MovesBy(1)
<1>0. /\ TypeOK /\ PointersInv /\ WrittenInv /\ BlocksInv /\ LastInv
  BY DEF IInv
<1>1. reader \in Reader /\ At(reader) /\ ~ reader.failed
  BY UsableReader DEF ReadNext
<1>2. PICK i \in 1..flushed : AtSample(reader, i)
  BY <1>1, SampleOf
<1>3. PICK r : r = SeekNext(reader)
  OBVIOUS
<1>4. PICK s : s = IF r.ok THEN ReadSample(r) ELSE r
  OBVIOUS
<1>5. UNCHANGED writerVars /\ reader' = s
  BY <1>3, <1>4 DEF ReadNext
<1>6. PICK n \in Nat : n = Readable /\ i <= n /\ i \in Nat /\ 1 <= i
  BY <1>2, ReadableIs, InOrder DEF AtSample
<1>7. r \in Reader
  BY <1>0, <1>1, <1>3, SeekNextStep
<1>8. \/ r.failed
      \/ r.ok /\ AtSample(r, i + 1)
      \/ ~ r.ok /\ AtSample(r, i) /\ i = Readable
  BY <1>1, <1>2, <1>3, NextSample
<1>9. CASE r.failed
  <2>1. ~ r.ok
    BY <1>0, <1>1, <1>3, <1>9, SeekNextStep
  <2>2. ~ Usable'
    BY <1>4, <1>5, <1>9, <2>1 DEF Usable
  <2> QED BY <2>2 DEF MovesBy
<1>10. CASE r.ok /\ AtSample(r, i + 1)
  <2>1. s.block = r.block /\ s.index_pos = r.index_pos
    BY <1>0, <1>4, <1>7, <1>10, ReadSampleStep DEF SameEntry
  <2>2. AtSample(s, i + 1)
    BY <1>10, <2>1 DEF AtSample
  <2>3. i + 1 <= n
    BY <1>6, <1>10 DEF AtSample
  <2>4. Target(i, 1, n) = i + 1
    BY <1>6, <2>3 DEF Target
  <2> QED BY <1>2, <1>5, <1>6, <2>2, <2>4, MovedTo
<1>11. CASE ~ r.ok /\ AtSample(r, i) /\ i = Readable
  <2>1. Target(i, 1, n) = i
    BY <1>6, <1>11 DEF Target
  <2> QED BY <1>2, <1>4, <1>5, <1>6, <1>11, <2>1, MovedTo
<1> QED BY <1>8, <1>9, <1>10, <1>11

\* seek_by_count(k) goes by k samples (RecordReader.cpp:96).
LEMMA SeekMoves ==
  ASSUME IInv, TilesInv, NEW k \in Int, SeekByCount(k)
  PROVE  MovesBy(k)
<1>0. /\ TypeOK /\ PointersInv /\ WrittenInv /\ BlocksInv /\ LastInv
  BY DEF IInv
<1>1. reader \in Reader /\ At(reader) /\ ~ reader.failed
  BY UsableReader DEF SeekByCount
<1>2. PICK i \in 1..flushed : AtSample(reader, i)
  BY <1>1, SampleOf
<1>3. PICK r : r = SeekPath(k)[Steps(k)]
  OBVIOUS
<1>4. PICK s : s = IF r.failed THEN r ELSE [SeekAndRead(r) EXCEPT !.stepped_back = @ /\ k = 0]
  OBVIOUS
<1>5. UNCHANGED writerVars /\ reader' = s
  BY <1>3, <1>4 DEF SeekByCount
<1>6. CASE r.failed
  <2>1. ~ Usable'
    BY <1>4, <1>5, <1>6 DEF Usable
  <2> QED BY <2>1 DEF MovesBy
<1>7. CASE ~ r.failed
  <2>1. Steps(k) \in 0..Steps(k)
    BY DEF Steps
  <2>2. r \in Reader /\ At(r)
    BY <1>0, <1>1, <1>3, <1>7, <2>1, PathSettled
  <2>3. AtSample(r, Target(i, k, Readable))
    BY <1>1, <1>2, <1>3, <1>7, PathSample
  <2>4. PICK t : t = SeekAndRead(r)
    OBVIOUS
  <2>5. t \in Reader /\ t.block = r.block /\ t.index_pos = r.index_pos
    BY <1>0, <2>2, <2>4, SeekAndReadStep DEF SameEntry
  <2>6. s.block = t.block /\ s.index_pos = t.index_pos
    BY <1>4, <1>7, <2>4, <2>5 DEF Reader
  <2>7. AtSample(s, Target(i, k, Readable))
    BY <2>3, <2>5, <2>6 DEF AtSample
  <2> QED BY <1>2, <1>5, <2>7, MovedTo
<1> QED BY <1>6, <1>7

\* Steps and seeks go by the samples that were written, over blocks and over an
\* empty last block, and stop at the first and the last that can be read
\* (RecordReader.cpp:164, 189, 209).
THEOREM SeeksBySamples == Spec => MovesBySamples
<1> DEFINE A == /\ ReadNext => MovesBy(1)
                /\ \A k \in (-MaxSeek)..MaxSeek : SeekByCount(k) => MovesBy(k)
<1>1. IInv /\ TilesInv => A
  <2>1. \A k \in (-MaxSeek)..MaxSeek : k \in Int
    BY ConstantsAssumption
  <2> QED BY <2>1, ReadNextMoves, SeekMoves
<1> HIDE DEF A
<1>2. Spec => [][A]_vars
  BY <1>1, TilesAlways, PTL
<1> QED BY <1>2 DEF A, MovesBySamples

=============================================================================

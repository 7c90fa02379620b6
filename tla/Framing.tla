------------------------------ MODULE Framing ------------------------------
(***************************************************************************)
(* The table before the segments of a message (recapn/src/io/stream.rs)    *)
(* and the sets of segments made from it (io.rs).  A number of the table   *)
(* has half a word, 32 bits in the code, its lowest byte first.            *)
(***************************************************************************)
EXTENDS Packing

CONSTANTS
    InlineTable,    \* Table::INLINE_TABLE_SIZE
    MaxSegmentLen,  \* SegmentLen::MAX
    SegmentLimit,   \* StreamOptions::segment_limit
    ReadLimit       \* StreamOptions::read_limit, in words

HalfBytes == WordBytes \div 2
ByteBase == FullTag + 1
MaxNumber == 2^(WordBytes * HalfBytes) - 1

ASSUME FramingAssumption ==
    /\ WordBytes % 2 = 0
    /\ InlineTable \in Nat \ {0} /\ MaxSegmentLen \in 0..MaxNumber
    /\ SegmentLimit \in Nat /\ ReadLimit \in Nat

\* What the first k numbers are together; and all of them.
Total(lens, k) ==
    LET sum[n \in 0..Len(lens)] == IF n = 0 THEN 0 ELSE sum[n - 1] + lens[n]
    IN  sum[k]
SumOf(lens) == Total(lens, Len(lens))

\* A number from its bytes, and its bytes.
Number(b) ==
    LET number[n \in 0..Len(b)] ==
          IF n = 0 THEN 0 ELSE b[Len(b) - n + 1] + ByteBase * number[n - 1]
    IN  number[Len(b)]
NumberBytes(n) ==
    LET shifted[i \in 0..HalfBytes] == IF i = 0 THEN n ELSE shifted[i - 1] \div ByteBase
    IN  [i \in 1..HalfBytes |-> shifted[i - 1] % ByteBase]
NumbersOf(words) ==
    [i \in 1..2 * Len(words) |->
        Number(First(From(Bytes(words), HalfBytes * (i - 1)), HalfBytes))]

SegmentLens(segs) == [i \in DOMAIN segs |-> Len(segs[i])]

\* Mutant: the number of segments is not counted among the numbers.
TableSizeRounded(count) == ((count + 1) \div 2) + 1

\* table_size_from_count
TableSize(count) == (count \div 2) + 1

(* StreamTable: a table that is written to, inline or on the heap *)
NewTable == [heap |-> FALSE, words |-> <<NullWord>>]

\* Table::resize_to never shrinks, and what goes to the heap is lost.
ResizeTo(t, len) ==
    CASE Len(t.words) >= len -> t
      [] Len(t.words) < len /\ ~t.heap /\ len > InlineTable ->
           [heap |-> TRUE, words |-> Nulls(len)]
      [] OTHER -> [t EXCEPT !.words = @ \o Nulls(len - Len(@))]

\* write_table: an assertion, the padding cleared, the count less one, the lengths.
WriteTable(t, segs) ==
    LET numbers == <<Len(segs) - 1>> \o SegmentLens(segs)
        padded == IF Len(segs) % 2 = 0 THEN Append(numbers, 0) ELSE numbers
    IN  IF Len(t.words) # TableSize(Len(segs)) THEN "Panic"
        ELSE [t EXCEPT !.words = Words(FlattenSeq([i \in DOMAIN padded |-> NumberBytes(padded[i])]))]

\* StreamTable::from_segments
TableOf(segs) == WriteTable(ResizeTo(NewTable, TableSize(Len(segs))), segs).words

(* StreamTableRef::try_read: the lengths in the table at the front of the words *)
TableError(e, more) == [err |-> e, more |-> more]
TryRead(words) ==
    IF words = <<>> THEN TableError("Empty", 0)
    ELSE LET numbers == NumbersOf(words)
             count == numbers[1] + 1
             size == TableSize(count)
         IN  CASE count > MaxNumber -> TableError("TooManySegments", 0)
               [] count <= MaxNumber /\ size > Len(words) ->
                    [err |-> "Incomplete", count |-> count, more |-> size - Len(words)]
               [] OTHER -> [err |-> "", lens |-> SubSeq(numbers, 2, count + 1),
                            rest |-> From(words, size)]

\* Segments whose number is 0-based in the source: the first length that is too large.
TooLarge(lens) == SelectInSeq(lens, LAMBDA n : n > MaxSegmentLen)

-----------------------------------------------------------------------------
(***************************************************************************)
(* SegmentSetTable::from_stream: where the segments but the first start,   *)
(* and the length of the message, which the limit bounds.  The lengths are *)
(* gone through in order, so the first error wins.                         *)
(***************************************************************************)
FromStream(lens, limit) ==
    LET beyond == SelectInSeq([k \in DOMAIN lens |-> Total(lens, k)], LAMBDA n : n > limit)
    IN  CASE TooLarge(lens) # 0 /\ (beyond = 0 \/ TooLarge(lens) <= beyond) ->
               [err |-> "SegmentTooLarge"]
          [] TooLarge(lens) = 0 /\ beyond = 0 ->
               [err |-> "", len |-> SumOf(lens),
                starts |-> [k \in 1..Len(lens) - 1 |-> Total(lens, k)]]
          [] OTHER -> [err |-> "MessageTooLarge"]

(* SegmentSet: the segments are slices between the starts; id counts from 0. *)
SegmentSet(starts, data) == [starts |-> starts, data |-> data]
NoSegment == "None"
Segment(set, id) ==
    LET n == Len(set.starts)
        start == IF id = 0 THEN 0 ELSE set.starts[id]
        end == IF id < n THEN set.starts[id + 1] ELSE Len(set.data)
    IN  IF id > n THEN NoSegment ELSE SubSeq(set.data, start + 1, end)

SegmentsOf(set) == [i \in 1..Len(set.starts) + 1 |-> Segment(set, i - 1)]

\* read_from_slice: a message at the front of the words, and what is behind it. The
\* limit is what there is, so a message that is cut off is one too large.
ReadFromSlice(words) ==
    LET t == TryRead(words)
        f == FromStream(t.lens, Len(t.rest))
    IN  CASE t.err # "" -> TableError(t.err, 0)
          [] t.err = "" /\ f.err # "" -> TableError(f.err, 0)
          [] OTHER -> [err |-> "", set |-> SegmentSet(f.starts, First(t.rest, f.len)),
                       rest |-> From(t.rest, f.len)]

(* TableSegmentSet: the same from the table itself, without a table of starts *)
TableSegmentSet(words) ==
    LET t == TryRead(words) IN
    CASE t.err # "" -> TableError(t.err, 0)
      [] t.err = "" /\ TooLarge(t.lens) # 0 -> TableError("SegmentTooLarge", 0)
      [] t.err = "" /\ TooLarge(t.lens) = 0 /\ SumOf(t.lens) > Len(t.rest) ->
           TableError("Incomplete", 0)
      [] OTHER -> [err |-> "", lens |-> t.lens, data |-> First(t.rest, SumOf(t.lens)),
                   rest |-> From(t.rest, SumOf(t.lens))]

\* The first word of the segment is asked for, also of a segment that has none.
TableSegment(set, id) ==
    LET start == Total(set.lens, id) IN
    CASE id >= Len(set.lens) -> NoSegment
      [] id < Len(set.lens) /\ start >= Len(set.data) -> "Panic"
      [] OTHER -> SubSeq(set.data, start + 1, start + set.lens[id + 1])
=============================================================================

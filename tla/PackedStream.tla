---------------------------- MODULE PackedStream ----------------------------
(***************************************************************************)
(* Messages written to a stream and read from it while they are written    *)
(* (recapn/src/io.rs): write_message with read_from_stream, and            *)
(* write_message_packed with read_with_packed_stream or                    *)
(* read_from_packed_stream.  The writer may fail at any byte.  A           *)
(* message is the sequence of its segments.                                *)
(***************************************************************************)
EXTENDS Framing

CONSTANTS
    Sendings,   \* the sequences of messages that may be sent
    BufSizes,   \* the sizes of the writer's buffer, 256 in the code
    ReadSizes   \* how many bytes a read or a fill_buf gets at most

ASSUME StreamAssumption ==
    /\ \A s \in Sendings :
         /\ s \in Seq(Seq(Seq(Word))) /\ s # <<>>
         /\ \A i \in DOMAIN s :
              /\ Len(s[i]) \in 1..MaxNumber
              /\ \A k \in DOMAIN s[i] : Len(s[i][k]) <= MaxSegmentLen
    /\ BufSizes \subseteq Nat /\ ReadSizes \subseteq Nat \ {0}
    /\ \E n \in BufSizes : n >= MinBuf

VARIABLES
    sent,      \* the messages
    packed,    \* in packed encoding
    todo,      \* the slices of words the writer has still to write, all messages in a row
    packer,    \* the Packer of the first of them
    wire,      \* the bytes that are written and not read
    closed,    \* the writer has ended, or failed
    unpacker,  \* PackedStream::unpacker
    stage,     \* what the reader is at
    table,     \* the words of the table read so far
    out,       \* the bytes in the buffer that is being filled
    want,      \* the words that buffer is to have
    got        \* the messages read: a SegmentSet each

writer == <<todo, packer>>
reader == <<unpacker, stage, table, out, want, got>>
vars == <<sent, packed, todo, packer, wire, closed, reader>>

\* The slices of a message: its table, and its segments.
Slices(segs) == <<TableOf(segs)>> \o segs
AllSlices(msgs) == FlattenSeq([i \in DOMAIN msgs |-> Slices(msgs[i])])
PackerAt(slices) == Packer(IF slices = <<>> THEN <<>> ELSE Head(slices))

Init ==
    /\ sent \in Sendings /\ packed \in BOOLEAN
    /\ todo = AllSlices(sent) /\ packer = PackerAt(todo)
    /\ wire = <<>> /\ closed = FALSE
    /\ unpacker = Idle /\ stage = "first" /\ table = <<>> /\ out = <<>> /\ want = 1
    /\ got = <<>>

-----------------------------------------------------------------------------
(***************************************************************************)
(* The writer.  One turn of write_message_packed packs once and writes     *)
(* what it has got; if the packer is through, the next slice gets its own. *)
(***************************************************************************)
Writing == todo # <<>> /\ ~closed
PackWith(r) ==
    /\ todo' = (IF r.completed THEN Tail(todo) ELSE todo)
    /\ packer' = (IF r.completed THEN PackerAt(Tail(todo)) ELSE r.packer)

WritePacked(n) ==
    /\ Writing /\ packed
    /\ LET r == Pack(packer, n) IN PackWith(r) /\ wire' = wire \o r.bytes
    /\ UNCHANGED <<sent, packed, closed, reader>>

\* write_message: one write_vectored takes any part of the slices, from the front.
Unwritten == packer.copy \o Bytes(packer.input) \o Bytes(FlattenSeq(Tail(todo)))
WriteRaw(n) ==
    /\ Writing /\ ~packed
    /\ LET k == Least(n, Len(Unwritten)) IN
       /\ wire' = wire \o First(Unwritten, k)
       /\ todo' = (IF k = Len(Unwritten) THEN <<>> ELSE <<<<>>>>)
       /\ packer' = [input |-> <<>>, copy |-> From(Unwritten, k)]
    /\ UNCHANGED <<sent, packed, closed, reader>>

\* The stream fails under the writer: a part of what was to be written is out.
NextBytes(n) == IF packed THEN Pack(packer, n).bytes ELSE Unwritten
WriterFails(n, k) ==
    /\ Writing /\ k < Len(NextBytes(n))
    /\ wire' = wire \o First(NextBytes(n), k)
    /\ closed' = TRUE
    /\ UNCHANGED <<sent, packed, writer, reader>>

Close ==
    /\ todo = <<>> /\ ~closed
    /\ closed' = TRUE
    /\ UNCHANGED <<sent, packed, writer, wire, reader>>

-----------------------------------------------------------------------------
(***************************************************************************)
(* The reader: a buffer for the first word, one for the rest of the table, *)
(* one for the data.  Whenever a buffer is full the code goes on to the    *)
(* next one that is not empty.                                             *)
(***************************************************************************)
Stops(why) == stage' = why /\ out' = <<>> /\ UNCHANGED <<table, want, got>>
Fills(next, words) == stage' = next /\ want' = words /\ out' = <<>> /\ UNCHANGED got

\* The message is complete; from a packed stream it may be the end of a call that finishes.
Complete(starts, data) ==
    /\ got' = Append(got, SegmentSet(starts, data))
    /\ stage' = "between" /\ out' = <<>> /\ table' = <<>> /\ want' = 1

TableRead(words) ==
    LET t == TryRead(words)
        f == FromStream(t.lens, ReadLimit)
    IN  CASE t.err = "Incomplete" /\ t.count >= SegmentLimit -> Stops("TooManySegments")
          [] t.err = "Incomplete" /\ t.count < SegmentLimit ->
               Fills("rest", t.more) /\ table' = words
          [] t.err = "" /\ f.err # "" -> Stops(f.err)
          [] t.err = "" /\ f.err = "" /\ f.len = 0 -> Complete(f.starts, <<>>)
          [] t.err = "" /\ f.err = "" /\ f.len > 0 -> Fills("data", f.len) /\ table' = words
          [] OTHER -> Stops(t.err)

Filled(bytes) ==
    IF Len(bytes) < WordBytes * want THEN out' = bytes /\ UNCHANGED <<stage, table, want, got>>
    ELSE IF stage = "data"
    THEN Complete(FromStream(TryRead(table).lens, ReadLimit).starts, Words(bytes))
    ELSE TableRead(table \o Words(bytes))

\* read_exact of a stream that is not packed
Reading == stage \in {"first", "rest", "data"}
ReadRaw(n) ==
    /\ Reading /\ ~packed /\ wire # <<>>
    /\ LET k == Least(Least(n, Len(wire)), WordBytes * want - Len(out)) IN
       /\ Filled(out \o First(wire, k))
       /\ wire' = From(wire, k)
    /\ UNCHANGED <<sent, packed, closed, writer, unpacker>>

\* PackedStream::read: unpack what fill_buf has got, and once more while nothing comes out.
ReadPacked(n) ==
    /\ Reading /\ packed /\ wire # <<>>
    /\ LET src == First(wire, Least(n, Len(wire)))
           c == Unpack(unpacker, src, want - (Len(out) \div WordBytes))
       IN  /\ IF c.stop = "Panic" THEN Stops("Panic") ELSE Filled(out \o Bytes(c.out))
           /\ unpacker' = c.u
           /\ wire' = From(wire, Len(src) - Len(c.src))
    /\ UNCHANGED <<sent, packed, closed, writer>>

\* Nothing more will come: whether the unpacker has finished or not, it is UnexpectedEof.
ReadEnds ==
    /\ Reading /\ wire = <<>> /\ closed
    /\ Stops("UnexpectedEof")
    /\ UNCHANGED <<sent, packed, closed, writer, wire, unpacker>>

\* read_with_packed_stream again, on the same PackedStream; or read_from_stream.
ReadNext ==
    /\ stage = "between" /\ Len(got) < Len(sent)
    /\ stage' = "first"
    /\ UNCHANGED <<sent, packed, closed, writer, wire, unpacker, table, out, want, got>>

\* read_from_packed_stream: PackedStream::finish, and a new PackedStream for the next
\* message. It waits for bytes behind the message, or for the end.
Finished(u, otherwise) ==
    IF Finishes(u)
    THEN stage' = (IF Len(got) = Len(sent) THEN "done" ELSE "first") /\ unpacker' = Idle
    ELSE stage' = otherwise /\ unpacker' = u

Finish(n) ==
    /\ stage \in {"between", "finishing"} /\ packed
    /\ \/ /\ wire = <<>> /\ closed
          /\ Finished(unpacker, "UnexpectedEof")
          /\ UNCHANGED wire
       \/ /\ wire # <<>>
          /\ LET src == First(wire, Least(n, Len(wire)))
                 c == Unpack(unpacker, src, 0)
             IN  /\ wire' = From(wire, Len(src) - Len(c.src))
                 /\ CASE c.stop = "NeedInput" -> unpacker' = c.u /\ stage' = "finishing"
                      [] c.stop = "NeedOutput" -> Finished(c.u, "WriteZero")
                      [] OTHER -> unpacker' = c.u /\ stage' = "Panic"
    /\ UNCHANGED <<sent, packed, closed, writer, table, out, want, got>>

Next ==
    \/ \E n \in BufSizes :
         \/ WritePacked(n) \/ WriteRaw(n)
         \/ \E k \in 0..n - 1 : WriterFails(n, k)
    \/ Close
    \/ \E n \in ReadSizes : ReadRaw(n) \/ ReadPacked(n) \/ Finish(n)
    \/ ReadEnds \/ ReadNext

(***************************************************************************)
(* Fairness: read_exact does not give up before its buffer is full, nor    *)
(* the program before it has read what it expects.  The writer may do      *)
(* nothing at any time.  (Weak fairness, with the enabling condition       *)
(* spelled out: TLC would unpack once more for each ENABLED.)              *)
(***************************************************************************)
CanRead == Reading /\ wire # <<>>
ReadSome == CanRead /\ \E n \in ReadSizes : ReadRaw(n) \/ ReadPacked(n)

GoOn == ReadNext \/ \E n \in ReadSizes : Finish(n)
CanGoOn ==
    \/ stage = "between" /\ Len(got) < Len(sent)
    \/ stage \in {"between", "finishing"} /\ packed /\ (wire # <<>> \/ closed)

Spec ==
    /\ Init /\ [][Next]_vars
    /\ ([]<>(~CanRead) \/ []<><<ReadSome>>_vars)
    /\ ([]<>(~CanGoOn) \/ []<><<GoOn>>_vars)
    /\ WF_vars(ReadEnds)

-----------------------------------------------------------------------------
Received == table \o Words(out)
Frame(segs) == FlattenSeq(Slices(segs))

\* read_from_slice and TableSegmentSet::new find message i at the front of a slice, and
\* leave what is behind it. (A segment of no words at the end of the data is left out:
\* TableSegmentSet::segment panics on it.)
SlicesAgree(i) ==
    LET slice == Frame(sent[i]) \o Received
        read == ReadFromSlice(slice)
        direct == TableSegmentSet(slice)
    IN  /\ read.err = "" /\ read.set = got[i] /\ read.rest = Received
        /\ direct.err = "" /\ direct.rest = Received
        /\ \A k \in DOMAIN sent[i] :
             sent[i][k] # <<>> => TableSegment(direct, k - 1) = sent[i][k]

\* The messages read are those that were sent, segment by segment, however the bytes are
\* cut into writes and reads, and with whatever state one message leaves to the next; a
\* slice gives the same as a stream, and nothing while a message is not whole.
ReadIsWritten ==
    /\ Len(got) <= Len(sent)
    /\ \A i \in DOMAIN got : SegmentsOf(got[i]) = sent[i] /\ SlicesAgree(i)
    /\ Reading => ReadFromSlice(Received).err # "" /\ TableSegmentSet(Received).err # ""

\* A message is refused only if the writer has failed before its last byte, or if it is
\* over a limit; nothing panics; and a stream that is finished was read to its end.
Coming == sent[Len(got) + 1]
RefusedOnlyIfCut ==
    /\ stage = "UnexpectedEof" => closed /\ todo # <<>>
    /\ stage = "TooManySegments" => Len(Coming) >= SegmentLimit
    /\ stage = "MessageTooLarge" => SumOf(SegmentLens(Coming)) > ReadLimit
    /\ stage \notin {"SegmentTooLarge", "Empty", "WriteZero", "Panic"}
    /\ stage = "done" => Len(got) = Len(sent) /\ todo = <<>> /\ wire = <<>>

\* What is written whole is read, or refused for its size, without the writer doing more:
\* no byte of a message waits for the message behind it. Once the stream is closed, the
\* reader comes to an end as well.
TooMuch == stage \in {"TooManySegments", "MessageTooLarge"}
EventuallyRead ==
    /\ (todo = <<>>) ~> (Len(got) = Len(sent) \/ TooMuch)
    /\ closed ~> (Len(got) = Len(sent) \/ TooMuch \/ stage = "UnexpectedEof")
=============================================================================

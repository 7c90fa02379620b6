------------------------------- MODULE Packing -------------------------------
(***************************************************************************)
(* Packer and Unpacker of recapn/src/io/packing.rs.  A call of pack or of  *)
(* unpack is one operator, from the state it finds to the state it leaves, *)
(* with the room its buffer has.  A word has WordBytes bytes, 8 in the     *)
(* code, and a count says at most MaxRun, 255 in the code.                 *)
(***************************************************************************)
EXTENDS Integers, SequencesExt

CONSTANTS WordBytes, MaxRun

FullTag == 2^WordBytes - 1

ASSUME PackingAssumption == WordBytes \in Nat \ {0} /\ MaxRun \in 0..FullTag

Byte == 0..FullTag
Word == [1..WordBytes -> Byte]
NullWord == [i \in 1..WordBytes |-> 0]
Nulls(n) == [i \in 1..n |-> NullWord]

First(s, n) == SubSeq(s, 1, n)
From(s, n) == SubSeq(s, n + 1, Len(s))
Least(a, b) == IF a <= b THEN a ELSE b

Bytes(words) == FlattenSeq(words)
Words(bytes) ==
    [i \in 1..Len(bytes) \div WordBytes |-> First(From(bytes, WordBytes * (i - 1)), WordBytes)]

-----------------------------------------------------------------------------
(* Packer: the words that are left, and the part of an uncompressed run that *)
(* did not fit, <<>> for None.                                             *)
Packer(words) == [input |-> words, copy |-> <<>>]

IsNotNull(w) == w # NullWord
Compresses(w) == Cardinality({i \in 1..WordBytes : w[i] = 0}) >= 2

\* handle_byte for the last n bytes of a word: the bits of their tag, and those that are written.
Coded(w) ==
    LET coded[n \in 0..WordBytes] ==
          IF n = 0 THEN [tag |-> 0, bytes |-> <<>>]
          ELSE LET b == w[WordBytes - n + 1]
                   rest == coded[n - 1]
               IN  IF b = 0 THEN [rest EXCEPT !.tag = 2 * @]
                   ELSE [tag |-> 2 * rest.tag + 1, bytes |-> <<b>> \o rest.bytes]
    IN  coded
TagOf(w) == Coded(w)[WordBytes].tag
NonZero(w) == Coded(w)[WordBytes].bytes

\* The words before the first one that is to stop the run, as far as a count reaches.
RunLen(words, first) == IF first = 0 THEN Len(words) ELSE first - 1
NullRun(words) == LET t == First(words, Least(Len(words), MaxRun)) IN
    RunLen(t, SelectInSeq(t, IsNotNull))
FullRun(words) == LET t == First(words, Least(Len(words), MaxRun)) IN
    RunLen(t, SelectInSeq(t, Compresses))

\* One turn of the loop: what is written whole, the run behind it, the words left.
PackWord(w, rest) ==
    LET nulls == NullRun(rest)
        full == FullRun(rest)
    IN  CASE w = NullWord ->
               [bytes |-> <<0, nulls>>, run |-> <<>>, rest |-> From(rest, nulls)]
          [] w # NullWord /\ TagOf(w) = FullTag ->
               [bytes |-> <<FullTag>> \o w \o <<full>>,
                run |-> Bytes(First(rest, full)), rest |-> From(rest, full)]
          [] OTHER ->
               [bytes |-> <<TagOf(w)>> \o NonZero(w), run |-> <<>>, rest |-> rest]

MinBuf == WordBytes + 2

\* The loop of pack: s has the state of the packer, the room left and the bytes written.
PackTurn(s) ==
    IF s.copy # <<>> \/ s.input = <<>> \/ s.room < MinBuf THEN s
    ELSE LET t == PackWord(Head(s.input), Tail(s.input))
             left == s.room - Len(t.bytes)
             k == Least(Len(t.run), left)
         IN  [input |-> t.rest, copy |-> From(t.run, k), room |-> left - k,
              bytes |-> s.bytes \o t.bytes \o First(t.run, k)]
PackLoop(s) ==
    LET turn[n \in 0..Len(s.input)] == IF n = 0 THEN s ELSE PackTurn(turn[n - 1])
    IN  turn[Len(s.input)]

\* A copy is resumed first; while there is more of it than room, nothing else is written.
Pack(p, room) ==
    LET k == Least(Len(p.copy), room)
        s == PackLoop([input |-> p.input, copy |-> From(p.copy, k), room |-> room - k,
                       bytes |-> First(p.copy, k)])
    IN  [packer |-> [input |-> s.input, copy |-> s.copy], bytes |-> s.bytes,
         completed |-> s.copy = <<>> /\ s.input = <<>>]

-----------------------------------------------------------------------------
(***************************************************************************)
(* Unpacker.  The state it keeps between two calls:                        *)
(*   word   a word with a tag: the bytes so far, the bits of the tag left  *)
(*   full   a word without nulls, before its count: the bytes so far       *)
(*   nullCount, fullCount   the count is the next byte                     *)
(*   nulls  null words to write                                            *)
(*   run    uncompressed words to write, behind the word begun (if any)    *)
(***************************************************************************)
Idle == [k |-> "none"]
InWord(buf, tag) == [k |-> "word", buf |-> buf, tag |-> tag]
InFull(buf) == [k |-> "full", buf |-> buf]
NeedNullCount == [k |-> "nullCount"]
NeedFullCount == [k |-> "fullCount"]
InNulls(n) == [k |-> "nulls", n |-> n]
InRun(n, buf) == [k |-> "run", n |-> n, buf |-> buf]

\* A call under way: input left, room in the output, words written, and why it stops.
Going == "no"
Skip(c, n) == [c EXCEPT !.src = From(@, n)]
Write(c, words) == [c EXCEPT !.out = @ \o words, !.room = @ - Len(words)]
Stop(c, u, why) == [c EXCEPT !.u = u, !.stop = why]
\* take_first_mut on the output: an assertion.
WriteOne(c, w) == IF c.room = 0 THEN Stop(c, Idle, "Panic") ELSE Write(c, <<w>>)
CopyWords(c, n) == Skip(Write(c, Words(First(c.src, WordBytes * n))), WordBytes * n)

WriteNulls(c, n) ==
    IF c.room >= n THEN Write(c, Nulls(n))
    ELSE Stop(Write(c, Nulls(c.room)), InNulls(n - c.room), "NeedOutput")

\* Mutant: a word begun still counts as remaining.
RemainingWords(n, whole, begun) == n - whole

Remaining(n, whole, begun) == n - whole - (IF begun THEN 1 ELSE 0)

WriteRun(c, n) ==
    LET whole == Len(c.src) \div WordBytes
        part == From(c.src, WordBytes * whole)
        words == Least(n, whole)
    IN  IF words > c.room
        THEN Stop(CopyWords(c, c.room), InRun(n - c.room, <<>>), "NeedOutput")
        ELSE IF whole < n
        THEN Stop(Skip(CopyWords(c, words), Len(part)),
                  InRun(Remaining(n, whole, part # <<>>), part), "NeedInput")
        ELSE CopyWords(c, n)

\* The next bytes of a word, as its tag says, from its lowest bit on.
FillByte(f) ==
    IF f.tag = 0 \/ (f.tag % 2 = 1 /\ f.src = <<>>) THEN f
    ELSE IF f.tag % 2 = 0 THEN [f EXCEPT !.buf = Append(@, 0), !.tag = @ \div 2]
    ELSE [buf |-> Append(f.buf, Head(f.src)), tag |-> f.tag \div 2, src |-> Tail(f.src)]
Fill(buf, tag, src) ==
    LET fill[n \in 0..WordBytes] ==
          IF n = 0 THEN [buf |-> buf, tag |-> tag, src |-> src] ELSE FillByte(fill[n - 1])
    IN  fill[WordBytes]

TaggedWord(c, buf, tag) ==
    LET f == Fill(buf, tag, c.src)
        d == [c EXCEPT !.src = f.src]
    IN  IF f.tag # 0 THEN Stop(d, InWord(f.buf, f.tag), "NeedInput")
        ELSE WriteOne(d, f.buf \o [i \in 1..WordBytes - Len(f.buf) |-> 0])

\* PartialWord::finish; u(buf) is the state to keep if the word is not whole yet.
WholeWord(c, buf, u) ==
    LET need == WordBytes - Len(buf) IN
    IF Len(c.src) < need THEN Stop(Skip(c, Len(c.src)), [u EXCEPT !.buf = buf \o c.src], "NeedInput")
    ELSE WriteOne(Skip(c, need), buf \o First(c.src, need))

NullCount(c) ==
    IF c.src = <<>> THEN Stop(c, NeedNullCount, "NeedInput")
    ELSE WriteNulls(Skip(c, 1), Head(c.src))

FullCount(c) ==
    IF c.stop # Going THEN c
    ELSE IF c.src = <<>> THEN Stop(c, NeedFullCount, "NeedInput")
    ELSE WriteRun(Skip(c, 1), Head(c.src))

RestOfRun(c, n) == IF c.stop # Going THEN c ELSE WriteRun(c, n)

\* Finishing what the last call has begun.
Resume(c, u) ==
    CASE u.k = "none" -> c
      [] u.k = "word" -> TaggedWord(c, u.buf, u.tag)
      [] u.k = "full" -> FullCount(WholeWord(c, u.buf, u))
      [] u.k = "nullCount" -> NullCount(c)
      [] u.k = "fullCount" -> FullCount(c)
      [] u.k = "nulls" -> WriteNulls(c, u.n)
      [] u.k = "run" -> RestOfRun(IF u.buf = <<>> THEN c ELSE WholeWord(c, u.buf, u), u.n)

Tagged(c, tag) ==
    CASE tag = 0 -> NullCount(Write(c, <<NullWord>>))
      [] tag = FullTag -> FullCount(WholeWord(c, <<>>, InFull(<<>>)))
      [] OTHER -> TaggedWord(c, <<>>, tag)

UnpackTurn(c) ==
    IF c.stop # Going THEN c
    ELSE IF c.src = <<>> THEN Stop(c, Idle, "NeedInput")
    ELSE IF c.room = 0 THEN Stop(c, Idle, "NeedOutput")
    ELSE Tagged(Skip(c, 1), Head(c.src))
UnpackLoop(c) ==
    LET turn[n \in 0..Len(c.src) + 1] == IF n = 0 THEN c ELSE UnpackTurn(turn[n - 1])
    IN  turn[Len(c.src) + 1]

Call(src, room) == [src |-> src, room |-> room, out |-> <<>>, u |-> Idle, stop |-> Going]

Unpack(u, src, room) ==
    IF src = <<>> THEN Stop(Call(src, room), u, "NeedInput")
    ELSE UnpackLoop(Resume(Call(src, room), u))

\* Mutant: a count that is missing is taken for 0.
FinishesEarly(u) == u \in {Idle, NeedNullCount, NeedFullCount}

Finishes(u) == u = Idle
=============================================================================

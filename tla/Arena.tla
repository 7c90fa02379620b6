------------------------------- MODULE Arena -------------------------------
(***************************************************************************)
(* The segments of a message under construction, growing::Arena of         *)
(* recapn/src/arena.rs, over the usual stack of allocators of alloc.rs: a  *)
(* Scratch layer over a space that several messages use one after the      *)
(* other, over Growing, over Global.  A segment is its length, what is     *)
(* used of it, the block of memory behind it and whether that block was    *)
(* zero when the segment was made.  Global may fail at any time.           *)
(*                                                                         *)
(* Segments are numbered from 0 in the source and from 1 here (segment 0   *)
(* is `first`, the others are `tail`).  The external segments of the arena *)
(* have no caller in the repository and are left out.                      *)
(***************************************************************************)
EXTENDS Integers, Sequences, FiniteSets

CONSTANTS
    MaxAlloc,      \* AllocLen::MAX, in words
    FirstSegment,  \* the first length of Growing
    ScratchLen,    \* the length of the scratch space
    MaxSegments,   \* MAX_SEGMENTS, counting the first segment
    Heap,          \* the blocks the global allocator can hand out
    Scratch        \* the block that is the scratch space

ASSUME ArenaAssumption ==
    /\ MaxAlloc \in Nat \ {0}
    /\ FirstSegment \in 1..MaxAlloc
    /\ ScratchLen \in 1..MaxAlloc
    /\ MaxSegments \in Nat \ {0}
    /\ Scratch \notin Heap

VARIABLES
    segs,         \* the segments, in the order of their numbers
    lastOwned,    \* Arena::last_owned
    next,         \* Growing::next_segment
    scratchUsed,  \* Scratch::used
    scratchZero,  \* the words of the space are null
    live,         \* blocks obtained from Global and not given back
    objects       \* history: the allocations of this message, [seg, at, len]

vars == <<segs, lastOwned, next, scratchUsed, scratchZero, live, objects>>

Block == Heap \cup {Scratch}
AllocLen == 1..MaxAlloc
Larger(a, b) == IF a >= b THEN a ELSE b
Smaller(a, b) == IF a <= b THEN a ELSE b

(***************************************************************************)
(* Growing: at least the next length, which then grows by what was taken   *)
(* up to the longest segment.                                              *)
(***************************************************************************)
GrowingLen(n) == Larger(n, next)
\* Mutant: the next length grows beyond the longest segment.
NextSegmentFree(n) == next + GrowingLen(n)

NextSegment(n) == Smaller(next + GrowingLen(n), MaxAlloc)

(***************************************************************************)
(* One call of Alloc::alloc(n).  Scratch hands out its space once, if it   *)
(* is long enough, and asks the next layer otherwise.                      *)
(***************************************************************************)
FromScratch(n) ==
    /\ ~scratchUsed /\ ScratchLen >= n
    /\ scratchUsed' = TRUE
    /\ UNCHANGED <<next, live>>

FromHeap(n, b) ==
    /\ scratchUsed \/ ScratchLen < n
    /\ b \in Heap \ live
    /\ live' = live \cup {b}
    /\ next' = NextSegment(n)
    /\ UNCHANGED scratchUsed

\* Arena::alloc makes a segment whose first n words are used.
ScratchSegment(n) ==
    [len |-> ScratchLen, used |-> n, block |-> Scratch, zeroed |-> scratchZero]
HeapSegment(n, b) ==
    [len |-> GrowingLen(n), used |-> n, block |-> b, zeroed |-> TRUE]

AddSegment(n) ==
    \/ FromScratch(n) /\ segs' = Append(segs, ScratchSegment(n))
    \/ \E b \in Heap : FromHeap(n, b) /\ segs' = Append(segs, HeapSegment(n, b))

-----------------------------------------------------------------------------
\* A new Message over the same space: Space::segment nulls the words of a space
\* that was used before, and the layers start over.
Init ==
    /\ segs = <<>> /\ lastOwned = 0 /\ next = FirstSegment
    /\ scratchUsed = FALSE /\ scratchZero = TRUE
    /\ live = {} /\ objects = {}

\* alloc_root: one word for the root pointer, in a segment of its own.
RootAndBuild ==
    /\ segs = <<>>
    /\ AddSegment(1)
    /\ objects' = {[seg |-> 1, at |-> 0, len |-> 1]}
    /\ UNCHANGED <<lastOwned, scratchZero>>

Fits(s, n) == segs[s].used + n <= segs[s].len

\* Mutants: the length in use misses the last word, or forgets what was in use before.
TryUseLenShort(s, n) ==
    /\ Fits(s, n)
    /\ objects' = objects \cup {[seg |-> s, at |-> segs[s].used, len |-> n]}
    /\ segs' = [segs EXCEPT ![s].used = @ + n - 1]

TryUseLenReset(s, n) ==
    /\ Fits(s, n)
    /\ objects' = objects \cup {[seg |-> s, at |-> segs[s].used, len |-> n]}
    /\ segs' = [segs EXCEPT ![s].used = n]

\* ArenaSegment::try_use_len, when there is room.
TryUseLen(s, n) ==
    /\ Fits(s, n)
    /\ objects' = objects \cup {[seg |-> s, at |-> segs[s].used, len |-> n]}
    /\ segs' = [segs EXCEPT ![s].used = @ + n]

\* ObjectBuilder::alloc_in_segment asks for words next to an object that is there.
AllocInSegment(s, n) ==
    /\ s \in 1..Len(segs)
    /\ TryUseLen(s, n)
    /\ UNCHANGED <<lastOwned, next, scratchUsed, scratchZero, live>>

\* BuildArena::alloc: the last owned segment, or a new one that becomes the last.
AllocInLast(n) ==
    /\ segs # <<>>
    /\ TryUseLen(lastOwned + 1, n)
    /\ UNCHANGED <<lastOwned, next, scratchUsed, scratchZero, live>>

AllocSegment(n) ==
    /\ segs # <<>>
    /\ ~Fits(lastOwned + 1, n)
    /\ Len(segs) < MaxSegments
    /\ AddSegment(n)
    /\ objects' = objects \cup {[seg |-> Len(segs) + 1, at |-> 0, len |-> n]}
    /\ lastOwned' = Len(segs)
    /\ UNCHANGED scratchZero

\* A builder writes to the words it got: a used scratch space is no longer null.
Build ==
    /\ \E s \in 1..Len(segs) : segs[s].block = Scratch
    /\ scratchZero' = FALSE
    /\ UNCHANGED <<segs, lastOwned, next, scratchUsed, live, objects>>

\* Mutant: only the last segment is given back.
DeallocLast == live' = live \ {segs[Len(segs)].block : s \in 1..Len(segs)}

\* clear_inner gives every segment back; Scratch keeps its own and stays used.
Dealloc == live' = live \ {segs[s].block : s \in 1..Len(segs)}

ClearMessage ==
    /\ segs # <<>>
    /\ segs' = <<>> /\ lastOwned' = 0 /\ objects' = {}
    /\ Dealloc
    /\ UNCHANGED <<next, scratchUsed, scratchZero>>

\* Mutant: the space is used again as it was left.
ReuseDirtySpace ==
    /\ segs' = <<>> /\ lastOwned' = 0 /\ objects' = {}
    /\ Dealloc
    /\ next' = FirstSegment
    /\ scratchUsed' = FALSE
    /\ UNCHANGED scratchZero

\* The message is dropped and another one is made with the same space.
ReuseSpace ==
    /\ segs' = <<>> /\ lastOwned' = 0 /\ objects' = {}
    /\ Dealloc
    /\ next' = FirstSegment
    /\ scratchUsed' = FALSE
    /\ scratchZero' = TRUE

Next ==
    \/ RootAndBuild
    \/ \E n \in AllocLen :
        \/ \E s \in 1..Len(segs) : AllocInSegment(s, n)
        \/ AllocInLast(n)
        \/ AllocSegment(n)
    \/ Build
    \/ ClearMessage
    \/ ReuseSpace

Spec == Init /\ [][Next]_vars

-----------------------------------------------------------------------------
Segment == [len : AllocLen, used : Nat, block : Block, zeroed : BOOLEAN]
Object == [seg : Nat \ {0}, at : Nat, len : Nat \ {0}]

TypeOK ==
    /\ segs \in Seq(Segment)
    /\ lastOwned \in Nat
    /\ next \in AllocLen
    /\ scratchUsed \in BOOLEAN /\ scratchZero \in BOOLEAN
    /\ live \subseteq Heap
    /\ objects \subseteq Object

Apart(a, b) == a.seg # b.seg \/ a.at + a.len <= b.at \/ b.at + b.len <= a.at

ObjectsDisjoint == \A a, b \in objects : a = b \/ Apart(a, b)

\* Every object is inside the used part of a segment, and that inside its memory.
ObjectsInBounds ==
    /\ \A o \in objects : o.seg \in 1..Len(segs) /\ o.at + o.len <= segs[o.seg].used
    /\ \A s \in 1..Len(segs) : segs[s].used <= segs[s].len

\* The words of one object are words of no other one, and all of them are there: the
\* builders write through raw pointers without further checks (arena.rs, try_use_len).
ObjectsSafe == ObjectsDisjoint /\ ObjectsInBounds

\* A segment starts out zero, whatever an earlier message left in the space, and
\* however a message is cleared and used again.
SegmentsStartNull == \A s \in 1..Len(segs) : segs[s].zeroed

\* The blocks of the segments are distinct, and Global's are those it counts as
\* live: none is leaked, none is given back twice.
BlocksAccounted ==
    /\ \A s, t \in 1..Len(segs) : s # t => segs[s].block # segs[t].block
    /\ {segs[s].block : s \in 1..Len(segs)} \ {Scratch} = live
    /\ (\E s \in 1..Len(segs) : segs[s].block = Scratch) => scratchUsed

\* last_owned names a segment, so the unwrap in BuildArena::alloc cannot panic.
LastOwnedExists == segs # <<>> => lastOwned < Len(segs)

SegmentsStay ==
    segs' # <<>> =>
        /\ Len(segs) <= Len(segs')
        /\ \A s \in 1..Len(segs) :
            /\ segs'[s].block = segs[s].block
            /\ segs'[s].used >= segs[s].used

\* A segment keeps its number and its memory until the message is cleared, and its
\* used part only grows: far pointers name segments by number.
SegmentsKept == [][SegmentsStay]_vars
=============================================================================

---------------------------- MODULE Arena_proofs ----------------------------
(***************************************************************************)
(* The allocations of a message never overlap and never leave their        *)
(* segment, for every length of the space, of the first segment and of the *)
(* longest segment, and for every heap.                                    *)
(***************************************************************************)
EXTENDS Arena, TLAPS, SequenceTheorems

\* The invariant of the proof: the objects end before the used part of their
\* segment does, so that the next one, which starts there, is apart from them.
FirstIsOwned == segs = <<>> => lastOwned = 0
IInv == TypeOK /\ LastOwnedExists /\ FirstIsOwned /\ ObjectsInBounds /\ ObjectsDisjoint

LEMMA GrowthIsLength ==
    ASSUME next \in AllocLen, NEW n \in AllocLen
    PROVE  GrowingLen(n) \in AllocLen /\ GrowingLen(n) >= n /\ NextSegment(n) \in AllocLen
BY ArenaAssumption DEF GrowingLen, NextSegment, Larger, Smaller, AllocLen

\* What a step that hands out words of an existing segment preserves.
LEMMA UseKeeps ==
    ASSUME IInv, NEW s \in 1..Len(segs), NEW n \in AllocLen, TryUseLen(s, n),
           lastOwned' = lastOwned
    PROVE  /\ segs' \in Seq(Segment) /\ objects' \subseteq Object
           /\ LastOwnedExists' /\ FirstIsOwned' /\ ObjectsInBounds' /\ ObjectsDisjoint'
<1> DEFINE o == [seg |-> s, at |-> segs[s].used, len |-> n]
<1>1. /\ segs \in Seq(Segment) /\ objects \subseteq Object /\ lastOwned \in Nat
      /\ segs[s] \in Segment /\ n \in Nat /\ n > 0
  BY DEF IInv, TypeOK, AllocLen
<1>2. /\ objects' = objects \cup {o} /\ segs' = [segs EXCEPT ![s].used = @ + n]
      /\ segs[s].used + n <= segs[s].len
  BY DEF TryUseLen, Fits
<1>3. o \in Object /\ o.seg = s /\ o.at = segs[s].used /\ o.len = n
  BY <1>1 DEF Object, Segment
<1>4. /\ segs' \in Seq(Segment) /\ Len(segs') = Len(segs)
      /\ \A t \in 1..Len(segs) :
            /\ segs'[t].len = segs[t].len
            /\ segs'[t].used = IF t = s THEN segs[s].used + n ELSE segs[t].used
  <2>1. [segs[s] EXCEPT !.used = @ + n] \in Segment
    BY <1>1 DEF Segment
  <2>2. segs' = [segs EXCEPT ![s] = [segs[s] EXCEPT !.used = @ + n]]
    BY <1>2
  <2>3. segs' \in Seq(Segment) /\ Len(segs') = Len(segs)
    BY <1>1, <2>1, <2>2
  <2>4. \A t \in 1..Len(segs) :
            segs'[t] = IF t = s THEN [segs[s] EXCEPT !.used = @ + n] ELSE segs[t]
    BY <1>1, <2>2
  <2>5. /\ [segs[s] EXCEPT !.used = @ + n].used = segs[s].used + n
        /\ [segs[s] EXCEPT !.used = @ + n].len = segs[s].len
    BY <1>1 DEF Segment
  <2> QED BY <2>3, <2>4, <2>5
<1>5. \A t \in 1..Len(segs) : segs[t] \in Segment /\ segs[t].used \in Nat /\ segs[t].len \in Nat
  <2>1. \A t \in 1..Len(segs) : segs[t] \in Segment
    BY <1>1
  <2>2. \A g \in Segment : g.used \in Nat /\ g.len \in Nat
    BY ArenaAssumption DEF Segment, AllocLen
  <2> QED BY <2>1, <2>2
<1>6. ObjectsInBounds'
  <2>1. \A t \in 1..Len(segs') : segs'[t].used <= segs'[t].len
    BY <1>1, <1>2, <1>4, <1>5 DEF IInv, ObjectsInBounds
  <2>2. ASSUME NEW p \in objects'
        PROVE p.seg \in 1..Len(segs') /\ p.at + p.len <= segs'[p.seg].used
    <3>1. CASE p = o
      <4>1. p.seg = s /\ p.at + p.len = segs[s].used + n
        BY <3>1, <1>3
      <4>2. segs'[s].used = segs[s].used + n
        BY <1>4
      <4> QED BY <4>1, <4>2, <1>1, <1>4, <1>5
    <3>2. CASE p \in objects
      <4>1. p.seg \in 1..Len(segs) /\ p.at + p.len <= segs[p.seg].used /\ p.at \in Nat /\ p.len \in Nat
        BY <3>2, <1>1 DEF IInv, ObjectsInBounds, Object
      <4>2. /\ segs'[p.seg].used \in {segs[p.seg].used, segs[p.seg].used + n}
            /\ segs[p.seg].used \in Nat
        BY <4>1, <1>4, <1>5
      <4> QED BY <4>1, <4>2, <1>1, <1>4
    <3> QED BY <3>1, <3>2, <1>2
  <2> QED BY <2>1, <2>2 DEF ObjectsInBounds
<1>7. ObjectsDisjoint'
  <2>1. ASSUME NEW p \in objects PROVE Apart(p, o) /\ Apart(o, p)
    BY <2>1, <1>1, <1>3 DEF IInv, ObjectsInBounds, Apart, Object
  <2> QED BY <2>1, <1>2 DEF IInv, ObjectsDisjoint
<1>8. LastOwnedExists' /\ FirstIsOwned'
  BY <1>1, <1>4, EmptySeq DEF IInv, LastOwnedExists, FirstIsOwned
<1> QED BY <1>1, <1>2, <1>3, <1>4, <1>6, <1>7, <1>8

\* What a step that makes a segment for its first object preserves.
LEMMA AddKeeps ==
    ASSUME IInv, NEW n \in AllocLen, AddSegment(n),
           objects' = objects \cup {[seg |-> Len(segs) + 1, at |-> 0, len |-> n]},
           lastOwned' \in 0..Len(segs)
    PROVE  /\ segs' \in Seq(Segment) /\ objects' \subseteq Object
           /\ LastOwnedExists' /\ FirstIsOwned' /\ ObjectsInBounds' /\ ObjectsDisjoint'
           /\ next' \in AllocLen /\ scratchUsed' \in BOOLEAN /\ live' \subseteq Heap
<1> DEFINE o == [seg |-> Len(segs) + 1, at |-> 0, len |-> n]
<1>1. /\ segs \in Seq(Segment) /\ objects \subseteq Object /\ next \in AllocLen
      /\ n \in Nat /\ n > 0 /\ Len(segs) \in Nat /\ live \subseteq Heap
      /\ scratchUsed \in BOOLEAN /\ scratchZero \in BOOLEAN
  BY DEF IInv, TypeOK, AllocLen
<1>2. PICK g \in Segment : segs' = Append(segs, g) /\ g.used = n /\ n <= g.len
  <2>1. CASE FromScratch(n) /\ segs' = Append(segs, ScratchSegment(n))
    <3>1. ScratchSegment(n) \in Segment
      BY <1>1, ArenaAssumption DEF ScratchSegment, Segment, Block, AllocLen
    <3>2. ScratchSegment(n).used = n /\ n <= ScratchSegment(n).len
      BY <2>1 , ArenaAssumption DEF ScratchSegment, FromScratch, AllocLen
    <3> QED BY <2>1, <3>1, <3>2
  <2>2. CASE \E b \in Heap : FromHeap(n, b) /\ segs' = Append(segs, HeapSegment(n, b))
    <3>1. PICK b \in Heap : segs' = Append(segs, HeapSegment(n, b))
      BY <2>2
    <3>2. HeapSegment(n, b) \in Segment
      BY <1>1, GrowthIsLength DEF HeapSegment, Segment, Block
    <3>3. HeapSegment(n, b).used = n /\ n <= HeapSegment(n, b).len
      BY <1>1, GrowthIsLength DEF HeapSegment, AllocLen
    <3> QED BY <3>1, <3>2, <3>3
  <2> QED BY <2>1, <2>2 DEF AddSegment
<1>3. next' \in AllocLen /\ scratchUsed' \in BOOLEAN /\ live' \subseteq Heap
  BY <1>1, GrowthIsLength DEF AddSegment, FromScratch, FromHeap
<1>4. /\ segs' \in Seq(Segment) /\ Len(segs') = Len(segs) + 1
      /\ \A t \in 1..Len(segs) : segs'[t] = segs[t]
      /\ segs'[Len(segs) + 1] = g
  BY <1>1, <1>2, AppendProperties
<1>5. o \in Object /\ o.seg = Len(segs) + 1 /\ o.at = 0 /\ o.len = n
  BY <1>1 DEF Object
<1>6. ObjectsInBounds'
  <2>1. \A t \in 1..Len(segs') : segs'[t].used <= segs'[t].len
    BY <1>1, <1>2, <1>4 DEF IInv, ObjectsInBounds
  <2>2. ASSUME NEW p \in objects'
        PROVE p.seg \in 1..Len(segs') /\ p.at + p.len <= segs'[p.seg].used
    <3>1. CASE p = o BY <3>1, <1>1, <1>2, <1>4, <1>5
    <3>2. CASE p \in objects
      <4>1. p.seg \in 1..Len(segs) /\ p.at + p.len <= segs[p.seg].used
        BY <3>2 DEF IInv, ObjectsInBounds
      <4> QED BY <4>1, <1>1, <1>4
    <3> QED BY <3>1, <3>2
  <2> QED BY <2>1, <2>2 DEF ObjectsInBounds
<1>7. ObjectsDisjoint'
  <2>1. ASSUME NEW p \in objects PROVE Apart(p, o) /\ Apart(o, p)
    <3>1. p.seg \in 1..Len(segs)
      BY <2>1 DEF IInv, ObjectsInBounds
    <3> QED BY <3>1, <1>1, <1>5 DEF Apart
  <2> QED BY <2>1 DEF IInv, ObjectsDisjoint
<1>8. LastOwnedExists' /\ FirstIsOwned'
  BY <1>1, <1>4, EmptySeq DEF LastOwnedExists, FirstIsOwned
<1> QED BY <1>1, <1>3, <1>4, <1>5, <1>6, <1>7, <1>8

LEMMA InitHolds == Init => IInv
<1> SUFFICES ASSUME Init PROVE IInv
  OBVIOUS
<1>1. TypeOK
  <2>1. segs \in Seq(Segment)
    BY EmptySeq DEF Init
  <2>2. next \in AllocLen
    BY ArenaAssumption DEF Init, AllocLen
  <2> QED BY <2>1, <2>2 DEF Init, TypeOK
<1>2. Len(segs) = 0 /\ objects = {}
  BY DEF Init
<1> QED BY <1>1, <1>2 DEF Init, IInv, LastOwnedExists, FirstIsOwned, ObjectsInBounds, ObjectsDisjoint

LEMMA StepKeeps == IInv /\ [Next]_vars => IInv'
<1> SUFFICES ASSUME IInv, [Next]_vars PROVE IInv'
  OBVIOUS
<1> USE ArenaAssumption
<1>0. TypeOK /\ LastOwnedExists
  BY DEF IInv
<1>1. CASE RootAndBuild
  <2>1. 1 \in AllocLen /\ Len(segs) = 0 /\ lastOwned \in Nat
    BY <1>0, <1>1, EmptySeq DEF RootAndBuild, AllocLen, TypeOK
  <2>2. objects = {}
    BY <2>1 DEF IInv, ObjectsInBounds
  <2>3. lastOwned' = 0 /\ lastOwned' \in 0..Len(segs)
    BY <1>1, <2>1 DEF RootAndBuild, IInv, FirstIsOwned
  <2>4. objects' = objects \cup {[seg |-> Len(segs) + 1, at |-> 0, len |-> 1]}
    BY <1>1, <2>1, <2>2 DEF RootAndBuild
  <2> QED BY <1>0, <1>1, <2>1, <2>3, <2>4, AddKeeps DEF RootAndBuild, IInv, TypeOK
<1>2. ASSUME NEW n \in AllocLen, NEW s \in 1..Len(segs), AllocInSegment(s, n)
      PROVE IInv'
  BY <1>0, <1>2, UseKeeps DEF AllocInSegment, IInv, TypeOK
<1>3. ASSUME NEW n \in AllocLen, AllocInLast(n)
      PROVE IInv'
  <2>1. lastOwned + 1 \in 1..Len(segs)
    BY <1>0, <1>3 DEF AllocInLast, LastOwnedExists, TypeOK
  <2> QED BY <1>0, <1>3, <2>1, UseKeeps DEF AllocInLast, IInv, TypeOK
<1>4. ASSUME NEW n \in AllocLen, AllocSegment(n)
      PROVE IInv'
  <2>1. lastOwned' \in 0..Len(segs) /\ Len(segs) \in Nat
    BY <1>0, <1>4 DEF AllocSegment, TypeOK
  <2> QED BY <1>0, <1>4, <2>1, AddKeeps DEF AllocSegment, IInv, TypeOK
<1>5. CASE Build
  BY <1>5 DEF Build, IInv, TypeOK, LastOwnedExists, FirstIsOwned, ObjectsInBounds, ObjectsDisjoint, Apart
<1>6. CASE ClearMessage \/ ReuseSpace
  <2>1. segs' = <<>> /\ objects' = {} /\ lastOwned' = 0 /\ Len(segs') = 0
    BY <1>6 DEF ClearMessage, ReuseSpace
  <2>2. TypeOK'
    BY <1>0, <1>6, <2>1, EmptySeq DEF ClearMessage, ReuseSpace, Dealloc, TypeOK, AllocLen
  <2> QED BY <2>1, <2>2 DEF IInv, LastOwnedExists, FirstIsOwned, ObjectsInBounds, ObjectsDisjoint
<1>7. CASE UNCHANGED vars
  BY <1>7 DEF vars, IInv, TypeOK, LastOwnedExists, FirstIsOwned, ObjectsInBounds, ObjectsDisjoint, Apart
<1> QED BY <1>1, <1>2, <1>3, <1>4, <1>5, <1>6, <1>7 DEF Next

\* Two allocations of a message never share a word and stay inside the memory of
\* their segment (ArenaSegment::try_use_len, BuildArena::alloc).
THEOREM AllocationsAreSafe == Spec => []ObjectsSafe
<1>1. IInv => ObjectsSafe
  BY DEF IInv, ObjectsSafe
<1> QED BY <1>1, InitHolds, StepKeeps, PTL DEF Spec

\* The variables keep their types; in particular a segment is never longer than
\* AllocLen::MAX, whatever Growing has grown to.
THEOREM ArenaTypes == Spec => []TypeOK
<1>1. IInv => TypeOK
  BY DEF IInv
<1> QED BY <1>1, InitHolds, StepKeeps, PTL DEF Spec

\* The segment named by last_owned exists whenever there is a segment, so that
\* BuildArena::alloc does not unwrap a None.
THEOREM AllocFindsSegment == Spec => []LastOwnedExists
<1>1. IInv => LastOwnedExists
  BY DEF IInv
<1> QED BY <1>1, InitHolds, StepKeeps, PTL DEF Spec

-----------------------------------------------------------------------------
(* Blocks.  A space nobody has used is null, and only the layers hand out  *)
(* memory: that is all which ties the segments to the blocks behind them.  *)
FreshIsZero == scratchUsed \/ scratchZero
BInv == IInv /\ BlocksAccounted /\ SegmentsStartNull /\ FreshIsZero

\* What a step does to the blocks that keeps the segments it finds.
SameBlocks ==
    /\ Len(segs') = Len(segs)
    /\ \A s \in 1..Len(segs) :
          segs'[s].block = segs[s].block /\ segs'[s].zeroed = segs[s].zeroed
OneMore(g) ==
    /\ Len(segs') = Len(segs) + 1
    /\ \A s \in 1..Len(segs) : segs'[s] = segs[s]
    /\ segs'[Len(segs) + 1] = g

LEMMA UseKeepsBlocks ==
    ASSUME IInv, NEW s \in 1..Len(segs), NEW n \in AllocLen, TryUseLen(s, n)
    PROVE  /\ SameBlocks
           /\ \A t \in 1..Len(segs) : segs'[t].used >= segs[t].used
<1>1. segs \in Seq(Segment) /\ segs[s] \in Segment /\ n \in Nat
  BY DEF IInv, TypeOK, AllocLen
<1>2. segs' = [segs EXCEPT ![s] = [segs[s] EXCEPT !.used = @ + n]]
  BY DEF TryUseLen
<1>3. /\ Len(segs') = Len(segs)
      /\ \A t \in 1..Len(segs) :
            segs'[t] = IF t = s THEN [segs[s] EXCEPT !.used = @ + n] ELSE segs[t]
  BY <1>1, <1>2
<1>4. /\ [segs[s] EXCEPT !.used = @ + n].block = segs[s].block
      /\ [segs[s] EXCEPT !.used = @ + n].zeroed = segs[s].zeroed
      /\ [segs[s] EXCEPT !.used = @ + n].used = segs[s].used + n
      /\ segs[s].used \in Nat
  BY <1>1 DEF Segment
<1>5. \A t \in 1..Len(segs) : segs[t].used \in Nat
  <2>1. \A t \in 1..Len(segs) : segs[t] \in Segment
    BY <1>1
  <2> QED BY <2>1 DEF Segment
<1>6. SameBlocks
  BY <1>1, <1>3, <1>4 DEF SameBlocks
<1>7. ASSUME NEW t \in 1..Len(segs) PROVE segs'[t].used >= segs[t].used
  <2>1. CASE t = s
    <3>1. segs'[t].used = segs[t].used + n
      BY <1>3, <1>4, <2>1
    <3> QED BY <1>1, <1>5, <3>1
  <2>2. CASE t # s
    BY <1>3, <1>5, <2>2
  <2> QED BY <2>1, <2>2
<1> QED BY <1>6, <1>7

LEMMA AddTakesBlock ==
    ASSUME IInv, NEW n \in AllocLen, AddSegment(n)
    PROVE  \/ /\ OneMore(ScratchSegment(n))
              /\ ~scratchUsed /\ scratchUsed' = TRUE /\ live' = live
           \/ \E b \in Heap \ live :
                 /\ OneMore(HeapSegment(n, b))
                 /\ live' = live \cup {b} /\ scratchUsed' = scratchUsed
<1>1. segs \in Seq(Segment) /\ next \in AllocLen
  BY DEF IInv, TypeOK
<1>2. CASE FromScratch(n) /\ segs' = Append(segs, ScratchSegment(n))
  <2>1. ScratchSegment(n) \in Segment
    BY ArenaAssumption DEF ScratchSegment, Segment, Block, AllocLen, IInv, TypeOK
  <2>2. OneMore(ScratchSegment(n))
    BY <1>1, <1>2, <2>1, AppendProperties DEF OneMore
  <2> QED BY <1>2, <2>2 DEF FromScratch
<1>3. CASE \E b \in Heap : FromHeap(n, b) /\ segs' = Append(segs, HeapSegment(n, b))
  <2>1. PICK b \in Heap : FromHeap(n, b) /\ segs' = Append(segs, HeapSegment(n, b))
    BY <1>3
  <2>2. HeapSegment(n, b) \in Segment
    BY <1>1, GrowthIsLength DEF HeapSegment, Segment, Block, AllocLen
  <2>3. OneMore(HeapSegment(n, b))
    BY <1>1, <2>1, <2>2, AppendProperties DEF OneMore
  <2> QED BY <2>1, <2>3 DEF FromHeap
<1> QED BY <1>2, <1>3 DEF AddSegment

LEMMA SameKeepsBlocks ==
    ASSUME BInv, SameBlocks, UNCHANGED <<live, scratchUsed>>, FreshIsZero'
    PROVE  BlocksAccounted' /\ SegmentsStartNull' /\ FreshIsZero'
<1>1. BlocksAccounted'
  BY DEF BInv, SameBlocks, BlocksAccounted
<1>2. SegmentsStartNull'
  BY DEF BInv, SameBlocks, SegmentsStartNull
<1> QED BY <1>1, <1>2

LEMMA AddKeepsBlocks ==
    ASSUME BInv, NEW n \in AllocLen, AddSegment(n), scratchZero' = scratchZero
    PROVE  BlocksAccounted' /\ SegmentsStartNull' /\ FreshIsZero'
<1> DEFINE new == Len(segs) + 1
<1>1. /\ Len(segs) \in Nat /\ live \subseteq Heap /\ Scratch \notin Heap
      /\ scratchUsed \in BOOLEAN
  BY ArenaAssumption DEF BInv, IInv, TypeOK
<1>2. \A s \in 1..Len(segs) : segs[s].block \in live \cup {Scratch}
  BY DEF BInv, BlocksAccounted
<1>3. CASE OneMore(ScratchSegment(n)) /\ ~scratchUsed /\ scratchUsed' = TRUE /\ live' = live
  <2>1. /\ segs'[new].block = Scratch /\ segs'[new].zeroed
    BY <1>3 DEF OneMore, ScratchSegment, BInv, FreshIsZero
  <2>2. \A s \in 1..Len(segs) : segs[s].block # Scratch
    BY <1>3 DEF BInv, BlocksAccounted
  <2>3. {segs'[s].block : s \in 1..Len(segs')} = {segs[s].block : s \in 1..Len(segs)} \cup {Scratch}
    BY <1>1, <1>3, <2>1 DEF OneMore
  <2>4. BlocksAccounted'
    BY <1>1, <1>3, <2>1, <2>2, <2>3 DEF BInv, BlocksAccounted, OneMore
  <2>5. SegmentsStartNull'
    BY <1>1, <1>3, <2>1 DEF BInv, SegmentsStartNull, OneMore
  <2> QED BY <1>3, <2>4, <2>5 DEF FreshIsZero
<1>4. CASE \E b \in Heap \ live :
              /\ OneMore(HeapSegment(n, b))
              /\ live' = live \cup {b} /\ scratchUsed' = scratchUsed
  <2>1. PICK b \in Heap \ live :
              /\ OneMore(HeapSegment(n, b))
              /\ live' = live \cup {b} /\ scratchUsed' = scratchUsed
    BY <1>4
  <2>2. segs'[new].block = b /\ segs'[new].zeroed = TRUE
    BY <2>1 DEF OneMore, HeapSegment
  <2>3. \A s \in 1..Len(segs) : segs[s].block # b
    BY <1>1, <1>2
  <2>4. {segs'[s].block : s \in 1..Len(segs')} = {segs[s].block : s \in 1..Len(segs)} \cup {b}
    BY <1>1, <2>1, <2>2 DEF OneMore
  <2>5. \A s, t \in 1..Len(segs') : s # t => segs'[s].block # segs'[t].block
    BY <1>1, <2>1, <2>2, <2>3 DEF BInv, BlocksAccounted, OneMore
  <2>6. {segs'[s].block : s \in 1..Len(segs')} \ {Scratch} = live'
    BY <1>1, <2>1, <2>4 DEF BInv, BlocksAccounted
  <2>7. (\E s \in 1..Len(segs') : segs'[s].block = Scratch) => scratchUsed'
    BY <1>1, <2>1, <2>2 DEF BInv, BlocksAccounted, OneMore
  <2>8. SegmentsStartNull'
    BY <1>1, <2>1, <2>2 DEF BInv, SegmentsStartNull, OneMore
  <2>9. FreshIsZero'
    BY <2>1 DEF BInv, FreshIsZero
  <2> QED BY <2>5, <2>6, <2>7, <2>8, <2>9 DEF BlocksAccounted
<1> QED BY <1>3, <1>4, AddTakesBlock DEF BInv

LEMMA BInitHolds == Init => BInv
<1> SUFFICES ASSUME Init PROVE BInv
  OBVIOUS
<1>1. Len(segs) = 0 /\ live = {}
  BY DEF Init
<1> QED BY <1>1, InitHolds DEF Init, BInv, BlocksAccounted, SegmentsStartNull, FreshIsZero

LEMMA BStepKeeps == BInv /\ [Next]_vars => BInv'
<1> SUFFICES ASSUME BInv, [Next]_vars PROVE BlocksAccounted' /\ SegmentsStartNull' /\ FreshIsZero'
  BY StepKeeps DEF BInv
<1>0. IInv /\ FreshIsZero /\ lastOwned \in Nat
  BY DEF BInv, IInv, TypeOK
<1>1. CASE RootAndBuild
  <2>1. 1 \in AllocLen
    BY ArenaAssumption DEF AllocLen
  <2> QED BY <1>1, <2>1, AddKeepsBlocks DEF RootAndBuild
<1>2. ASSUME NEW n \in AllocLen, NEW s \in 1..Len(segs), AllocInSegment(s, n)
      PROVE BlocksAccounted' /\ SegmentsStartNull' /\ FreshIsZero'
  BY <1>0, <1>2, UseKeepsBlocks, SameKeepsBlocks DEF AllocInSegment, FreshIsZero
<1>3. ASSUME NEW n \in AllocLen, AllocInLast(n)
      PROVE BlocksAccounted' /\ SegmentsStartNull' /\ FreshIsZero'
  <2>1. lastOwned + 1 \in 1..Len(segs)
    BY <1>0, <1>3 DEF AllocInLast, IInv, LastOwnedExists, TypeOK
  <2> QED BY <1>0, <1>3, <2>1, UseKeepsBlocks, SameKeepsBlocks DEF AllocInLast, FreshIsZero
<1>4. ASSUME NEW n \in AllocLen, AllocSegment(n)
      PROVE BlocksAccounted' /\ SegmentsStartNull' /\ FreshIsZero'
  BY <1>4, AddKeepsBlocks DEF AllocSegment
<1>5. CASE Build
  \* A segment lies in the space, so the space is used and need not be null.
  <2>1. scratchUsed' /\ FreshIsZero' /\ SameBlocks
    BY <1>5 DEF Build, BInv, BlocksAccounted, FreshIsZero, SameBlocks
  <2> QED BY <1>5, <2>1, SameKeepsBlocks DEF Build
<1>6. CASE ClearMessage \/ ReuseSpace
  <2>1. Len(segs') = 0 /\ live' = live \ {segs[s].block : s \in 1..Len(segs)}
    BY <1>6 DEF ClearMessage, ReuseSpace, Dealloc
  <2>2. live' = {}
    BY <2>1 DEF BInv, BlocksAccounted
  <2>3. FreshIsZero'
    BY <1>0, <1>6 DEF ClearMessage, ReuseSpace, FreshIsZero
  <2> QED BY <2>1, <2>2, <2>3 DEF BlocksAccounted, SegmentsStartNull
<1>7. CASE UNCHANGED vars
  BY <1>0, <1>7, SameKeepsBlocks DEF vars, SameBlocks, FreshIsZero
<1> QED BY <1>1, <1>2, <1>3, <1>4, <1>5, <1>6, <1>7 DEF Next

\* Clearing a message, and making the next one on the same space, gives back each
\* block once and leaks none (clear_inner, alloc.rs Scratch::dealloc).
THEOREM BlocksAreAccounted == Spec => []BlocksAccounted
<1>1. BInv => BlocksAccounted
  BY DEF BInv
<1> QED BY <1>1, BInitHolds, BStepKeeps, PTL DEF Spec

\* A segment is zero when it is handed out, though the space was written to by the
\* messages before (Space::segment, Scratch::alloc).
THEOREM NewSegmentsAreNull == Spec => []SegmentsStartNull
<1>1. BInv => SegmentsStartNull
  BY DEF BInv
<1> QED BY <1>1, BInitHolds, BStepKeeps, PTL DEF Spec

\* Until the message is cleared, a segment keeps its number and its block, and what
\* is used of it stays used: far pointers and raw pointers into it remain good.
THEOREM SegmentsAreKept == Spec => SegmentsKept
<1>1. ASSUME IInv, [Next]_vars PROVE SegmentsStay
  <2> USE DEF SegmentsStay
  <2>0. /\ Len(segs) \in Nat /\ lastOwned \in Nat
        /\ \A s \in 1..Len(segs) : segs[s].used \in Nat
    <3>1. segs \in Seq(Segment)
      BY <1>1 DEF IInv, TypeOK
    <3>2. \A s \in 1..Len(segs) : segs[s] \in Segment
      BY <3>1
    <3> QED BY <1>1, <3>1, <3>2 DEF IInv, TypeOK, Segment
  <2>1. CASE RootAndBuild
    BY <2>1, <2>0, <1>1, AddTakesBlock DEF RootAndBuild, IInv, TypeOK
  <2>2. ASSUME NEW n \in AllocLen, NEW s \in 1..Len(segs), AllocInSegment(s, n) PROVE SegmentsStay
    BY <1>1, <2>0, <2>2, UseKeepsBlocks DEF AllocInSegment, SameBlocks
  <2>3. ASSUME NEW n \in AllocLen, AllocInLast(n) PROVE SegmentsStay
    <3>1. lastOwned + 1 \in 1..Len(segs)
      BY <1>1, <2>0, <2>3 DEF AllocInLast, IInv, LastOwnedExists
    <3> QED BY <1>1, <2>0, <2>3, <3>1, UseKeepsBlocks DEF AllocInLast, SameBlocks
  <2>4. ASSUME NEW n \in AllocLen, AllocSegment(n) PROVE SegmentsStay
    <3>1. \E g \in {ScratchSegment(n)} \cup {HeapSegment(n, b) : b \in Heap} : OneMore(g)
      BY <1>1, <2>4, AddTakesBlock DEF AllocSegment
    <3> QED BY <2>0, <3>1 DEF OneMore
  <2>5. CASE Build \/ UNCHANGED vars
    BY <2>0, <2>5 DEF Build, vars
  <2>6. CASE ClearMessage \/ ReuseSpace
    BY <2>6 DEF ClearMessage, ReuseSpace
  <2> QED BY <1>1, <2>1, <2>2, <2>3, <2>4, <2>5, <2>6 DEF Next
<1>2. IInv /\ [Next]_vars => SegmentsStay
  BY <1>1
<1> QED BY <1>2, InitHolds, StepKeeps, PTL DEF Spec, SegmentsKept
=============================================================================

---------------------------- MODULE Request_proofs ----------------------------
(***************************************************************************)
(* Proofs about Request, for any number of builders, keys, receivers and   *)
(* pipelined channels: what the flags publish, what receivers_count        *)
(* counts, that no channel is left in the map once the pipeline is set, and*)
(* the order in which channels are resolved.                               *)
(***************************************************************************)
EXTENDS Request, FiniteSetTheorems, TLAPS

-----------------------------------------------------------------------------
(* The inductive invariant.                                                *)

\* What the stages of an answer have behind them.
StageInv ==
    /\ "SET_PIPELINE" \in flags =>
           stage \in {"ResultsSender", "resultsSet", "done"} /\ dest # "unwritten"
    /\ (taken # {} \/ upgraded # {}) => Mapping
    /\ Mapping => dest # "unwritten"
    /\ "SET" \in flags => written
    /\ stage \in {"set", "wake", "mapping", "resultsSet"} => written
    /\ stage \in {"wake", "mapping"} => "SET" \in flags
    /\ dest = "response" => "SET" \in flags

\* A channel in use that is not resolved is where the owner will find it, and the
\* map gets no more channels once the flag is up.
MapInv ==
    /\ "SET_PIPELINE" \in flags => \A k \in Keys : map[k] = NoChannel
    /\ \A x \in 1..chans :
           Alive(x) => resolved[x] \/ x \in taken \/ upgraded = {x} \/ \E k \in Keys : map[k] = x

\* Only living builders build, and channels not yet made are not tracked.
UserInv ==
    /\ \A b \in Builders : bpc[b] # "idle" => b \in builders
    /\ \A x \in Chans : x > chans => ~tracked[x]

\* The three parts of FinishedIffNoReceivers.
CountInv ==
    /\ IsFiniteSet(builders)
    /\ count = receivers + Cardinality(builders) + Cardinality(Tracked)
WaitInv == \A x \in Chans : (Alive(x) /\ ~resolved[x]) => (tracked[x] \/ upgraded = {x})
ClosedInv == (closing \/ "RECV_CLOSED" \in flags) <=> count = 0

ReqInv ==
    TypeOK /\ StageInv /\ MapInv /\ UserInv /\ CountInv /\ WaitInv /\ ClosedInv

-----------------------------------------------------------------------------
(* Counting.                                                               *)

\* The tracked channels are finitely many.
LEMMA TrackedIsFinite == IsFiniteSet(Tracked) /\ Cardinality(Tracked) \in Nat
<1>1. IsFiniteSet(Chans)
  BY FS_Interval, RequestAssumption DEF Chans
<1>2. Tracked \subseteq Chans
  BY DEF Tracked
<1>3. QED
  BY <1>1, <1>2, FS_Subset, FS_CardinalityType

\* Tracking one more channel, or one less, counts one more or less.
LEMMA TrackOne ==
    ASSUME TypeOK, NEW x \in Chans
    PROVE  /\ (~tracked[x] /\ tracked' = [tracked EXCEPT ![x] = TRUE]) =>
                  Cardinality(Tracked') = Cardinality(Tracked) + 1
           /\ (tracked[x] /\ tracked' = [tracked EXCEPT ![x] = FALSE]) =>
                  Cardinality(Tracked') = Cardinality(Tracked) - 1
<1>1. ASSUME ~tracked[x], tracked' = [tracked EXCEPT ![x] = TRUE]
      PROVE  Cardinality(Tracked') = Cardinality(Tracked) + 1
  <2>1. Tracked' = Tracked \union {x} /\ x \notin Tracked
    BY <1>1 DEF TypeOK, Tracked
  <2>2. QED
    BY <2>1, TrackedIsFinite, FS_AddElement
<1>2. ASSUME tracked[x], tracked' = [tracked EXCEPT ![x] = FALSE]
      PROVE  Cardinality(Tracked') = Cardinality(Tracked) - 1
  <2>1. Tracked' = Tracked \ {x} /\ x \in Tracked
    BY <1>2 DEF TypeOK, Tracked
  <2>2. QED
    BY <2>1, TrackedIsFinite, FS_RemoveElement
<1>3. QED
  BY <1>1, <1>2

\* Everything that is counted is counted by a natural number.
LEMMA CountIsNat ==
    ASSUME TypeOK, CountInv
    PROVE  /\ Cardinality(builders) \in Nat /\ Cardinality(Tracked) \in Nat
           /\ builders # {} => Cardinality(builders) > 0 /\ count > 0
           /\ Tracked # {} => count > 0
           /\ receivers > 0 => count > 0
<1>1. Cardinality(builders) \in Nat /\ Cardinality(Tracked) \in Nat
  BY TrackedIsFinite, FS_CardinalityType DEF CountInv
<1>2. builders # {} => Cardinality(builders) # 0
  BY FS_EmptySet DEF CountInv
<1>3. Tracked # {} => Cardinality(Tracked) # 0
  BY TrackedIsFinite, FS_EmptySet
<1>4. QED
  BY <1>1, <1>2, <1>3 DEF CountInv, TypeOK

\* Whoever is counted already may count one more.
LEMMA CountedUp ==
    ASSUME TypeOK, ClosedInv, count > 0, AddReceiver, UNCHANGED flags
    PROVE  count' \in Nat /\ closing' \in BOOLEAN /\ ClosedInv'
BY DEF TypeOK, ClosedInv, AddReceiver

\* Whoever is counted may count itself out, and closes the request if it is the last.
LEMMA CountedDown ==
    ASSUME TypeOK, ClosedInv, count > 0, RemoveReceiver, UNCHANGED flags
    PROVE  count' \in Nat /\ closing' \in BOOLEAN /\ ClosedInv'
<1>1. ~closing /\ "RECV_CLOSED" \notin flags /\ count' = count - 1 /\ closing' = (closing \/ count = 1)
  BY DEF TypeOK, ClosedInv, RemoveReceiver
<1>2. closing' = (count = 1)
  BY <1>1, Zenon
<1>3. count' \in Nat /\ (count' = 0 <=> count = 1)
  BY <1>1 DEF TypeOK
<1>4. QED
  BY <1>1, <1>2, <1>3 DEF ClosedInv

\* The channels made are channels.
LEMMA MadeAreChans == TypeOK => 1..chans \subseteq Chans
BY RequestAssumption DEF TypeOK, Chans

-----------------------------------------------------------------------------
(* The steps that leave the counts alone.                                  *)

\* Initially there is a receiver, a builder, or one of each.
LEMMA ReqInvInit == Init => ReqInv
<1> SUFFICES ASSUME Init PROVE ReqInv
  OBVIOUS
<1> USE RequestAssumption
<1>1. /\ bpc = [b \in Builders |-> "idle"] /\ map = [k \in Keys |-> NoChannel]
      /\ chans = 0 /\ taken = {} /\ upgraded = {} /\ flags = {} /\ closing = FALSE
      /\ tracked = [x \in Chans |-> FALSE] /\ handles = [x \in Chans |-> 0]
      /\ queued = [x \in Chans |-> FALSE] /\ stage = "Request" /\ dest = "unwritten"
      /\ senderCount = [x \in Chans |-> 0] /\ resolved = [x \in Chans |-> FALSE]
      /\ written = FALSE /\ uninitRead = FALSE
  BY DEF Init
<1>2. PICK b \in Builders :
          \/ receivers = 1 /\ builders = {b} /\ count = 2
          \/ receivers = 1 /\ builders = {}  /\ count = 1
          \/ receivers = 0 /\ builders = {b} /\ count = 1
  BY DEF Init
<1>3. (CHOOSE k \in Keys : TRUE) \in Keys
  BY RequestAssumption
<1>4. TypeOK
  <2>1. count \in Nat /\ receivers \in Nat /\ builders \subseteq Builders
    BY <1>2
  <2>2. chans \in 0..MaxChannels
    BY <1>1
  <2>3. bkey \in [Builders -> Keys] /\ keyOf \in [Chans -> Keys]
    <3>1. PICK j \in Keys : j = CHOOSE k \in Keys : TRUE
      BY <1>3
    <3>2. bkey = [b0 \in Builders |-> j] /\ keyOf = [x \in Chans |-> j]
      BY <3>1 DEF Init
    <3>3. QED
      BY <3>2
  <2>4. QED
    BY <1>1, <2>1, <2>2, <2>3 DEF TypeOK, Stages
<1>5. StageInv /\ MapInv
  BY <1>1 DEF StageInv, MapInv, Mapping
<1>6. UserInv
  BY <1>1 DEF UserInv
<1>7. CountInv
  <2>1. Tracked = {}
    BY <1>1 DEF Tracked
  <2>2. Cardinality(Tracked) = 0 /\ IsFiniteSet({}) /\ Cardinality({}) = 0
    BY <2>1, FS_EmptySet
  <2>3. IsFiniteSet({b}) /\ Cardinality({b}) = 1
    BY FS_Singleton
  <2>4. QED
    BY <1>2, <2>2, <2>3 DEF CountInv
<1>8. WaitInv
  BY <1>1 DEF WaitInv, Alive
<1>9. ClosedInv
  BY <1>1, <1>2 DEF ClosedInv
<1>10. QED
  BY <1>4, <1>5, <1>6, <1>7, <1>8, <1>9 DEF ReqInv

\* The owner's steps up to the map: flags go up after what they publish.
LEMMA AnswerStep ==
    ASSUME ReqInv, TakeRequest \/ TailCall \/ DropOwner \/ WriteResponse \/ SetValue
                   \/ WriteDest \/ SetPipeline \/ FinishMap
    PROVE  ReqInv'
<1> USE DEF ReqInv, TakeRequest, TailCall, DropOwner, WriteResponse, SetValue, WriteDest,
        SetPipeline, FinishMap, Become, countVars, userVars, chanVars
<1>1. TypeOK'
  BY DEF TypeOK, Stages, SetFlag, StateFlags
<1>2. StageInv'
  BY DEF StageInv, Mapping, SetFlag
<1>3. MapInv'
  <2>1. UNCHANGED <<map, chans, handles, queued, upgraded, resolved, taken>>
    OBVIOUS
  <2>2. "SET_PIPELINE" \in flags' => \A k \in Keys : map[k] = NoChannel
    BY DEF MapInv, SetFlag
  <2>3. QED
    BY <2>1, <2>2 DEF MapInv, Alive
<1>4. UserInv' /\ CountInv'
  BY DEF UserInv, CountInv, Tracked
<1>5. WaitInv'
  BY DEF WaitInv, Alive
<1>6. ClosedInv'
  BY DEF ClosedInv, SetFlag
<1>7. QED
  BY <1>1, <1>2, <1>3, <1>4, <1>5, <1>6

\* Taking the map moves its channels into the owner's hands.
LEMMA TakeMapStep == ASSUME ReqInv, TakeMap PROVE ReqInv'
<1> USE DEF ReqInv, TakeMap, countVars, userVars, chanVars
<1>1. TypeOK'
  BY DEF TypeOK
<1>2. StageInv'
  BY DEF StageInv, Mapping
<1>3. MapInv'
  <2>1. "SET_PIPELINE" \in flags' => \A k \in Keys : map'[k] = NoChannel
    OBVIOUS
  <2>2. ASSUME NEW x \in 1..chans, \E k \in Keys : map[k] = x PROVE x \in taken'
    BY <2>2, RequestAssumption DEF TypeOK
  <2>3. QED
    BY <2>1, <2>2 DEF MapInv, Alive
<1>4. UserInv' /\ CountInv' /\ ClosedInv'
  BY DEF UserInv, CountInv, Tracked, ClosedInv
<1>5. WaitInv'
  BY DEF WaitInv, Alive
<1>6. QED
  BY <1>1, <1>2, <1>3, <1>4, <1>5

\* Sends, and builds that make no channel, change no count of receivers.
LEMMA QuietStep ==
    ASSUME ReqInv,
           \/ \E x \in Chans : SendOn(x) \/ BeginDropSender(x) \/ ResolveChannel(x)
           \/ \E b \in Builders : DirectBuild(b) \/ \E k \in Keys : BeginBuild(b, k)
           \/ UNCHANGED vars
    PROVE  ReqInv'
<1> USE DEF ReqInv, ownerVars, countVars, userVars, chanVars, vars
<1>1. ASSUME NEW x \in Chans, SendOn(x) PROVE ReqInv'
  <2> USE <1>1 DEF SendOn
  <2>1. TypeOK'
    BY DEF TypeOK
  <2>2. \A y \in Chans : Alive(y)' => Alive(y)
    BY DEF Alive, TypeOK
  <2>3. MapInv' /\ WaitInv'
    BY <2>2, MadeAreChans DEF MapInv, WaitInv
  <2>4. StageInv' /\ UserInv' /\ CountInv' /\ ClosedInv'
    BY DEF StageInv, Mapping, UserInv, CountInv, Tracked, ClosedInv
  <2>5. QED
    BY <2>1, <2>3, <2>4
<1>2. ASSUME NEW x \in Chans, BeginDropSender(x) PROVE ReqInv'
  <2> USE <1>2 DEF BeginDropSender
  <2>1. TypeOK'
    BY DEF TypeOK
  <2>2. MapInv' /\ WaitInv'
    BY DEF MapInv, WaitInv, Alive
  <2>3. StageInv' /\ UserInv' /\ CountInv' /\ ClosedInv'
    BY DEF StageInv, Mapping, UserInv, CountInv, Tracked, ClosedInv
  <2>4. QED
    BY <2>1, <2>2, <2>3
<1>3. ASSUME NEW x \in Chans, ResolveChannel(x) PROVE ReqInv'
  <2> USE <1>3 DEF ResolveChannel
  <2>1. TypeOK'
    <3>1. uninitRead' \in BOOLEAN
      OBVIOUS
    <3>2. QED
      BY <3>1 DEF TypeOK
  <2>2. \A y \in Chans : /\ Alive(y)' => Alive(y)
                         /\ resolved'[y] <=> resolved[y] \/ y = x
    BY DEF Alive, TypeOK
  <2>3. MapInv' /\ WaitInv'
    BY <2>2, MadeAreChans DEF MapInv, WaitInv
  <2>4. StageInv' /\ UserInv' /\ CountInv' /\ ClosedInv'
    BY DEF StageInv, Mapping, UserInv, CountInv, Tracked, ClosedInv
  <2>5. QED
    BY <2>1, <2>3, <2>4
<1>4. ASSUME NEW b \in Builders, DirectBuild(b) PROVE ReqInv'
  <2> USE <1>4 DEF DirectBuild
  <2>1. TypeOK'
    <3>1. uninitRead' \in BOOLEAN
      OBVIOUS
    <3>2. QED
      BY <3>1 DEF TypeOK
  <2>2. MapInv' /\ WaitInv'
    BY DEF MapInv, WaitInv, Alive
  <2>3. StageInv' /\ CountInv' /\ ClosedInv'
    BY DEF StageInv, Mapping, CountInv, Tracked, ClosedInv
  <2>4. UserInv'
    BY DEF UserInv, TypeOK
  <2>5. QED
    BY <2>1, <2>2, <2>3, <2>4
<1>5. ASSUME NEW b \in Builders, NEW k \in Keys, BeginBuild(b, k) PROVE ReqInv'
  <2> USE <1>5 DEF BeginBuild
  <2>1. TypeOK'
    BY DEF TypeOK
  <2>2. MapInv' /\ WaitInv'
    BY DEF MapInv, WaitInv, Alive
  <2>3. StageInv' /\ CountInv' /\ ClosedInv'
    BY DEF StageInv, Mapping, CountInv, Tracked, ClosedInv
  <2>4. UserInv'
    BY DEF UserInv, TypeOK
  <2>5. QED
    BY <2>1, <2>2, <2>3, <2>4
<1>6. CASE UNCHANGED vars
  BY <1>6 DEF TypeOK, StageInv, Mapping, MapInv, WaitInv, Alive, UserInv, CountInv, Tracked, ClosedInv
<1>7. QED
  BY <1>1, <1>2, <1>3, <1>4, <1>5, <1>6

-----------------------------------------------------------------------------
(* The steps that count.                                                   *)

\* Response receivers and builders come and go, and the last one's flag goes up.
LEMMA ReceiverCountStep ==
    ASSUME ReqInv,
           \/ SetRecvClosed \/ CloneReceiver \/ DropReceiver
           \/ \E b \in Builders : CloneBuilder(b) \/ DropBuilder(b)
    PROVE  ReqInv'
<1> USE DEF ReqInv, ownerVars, countVars, userVars, chanVars
<1>1. UNCHANGED <<ownerVars, map, chanVars, bpc>> /\ (flags' = flags \/ flags' = SetFlag(flags, "RECV_CLOSED"))
  BY DEF SetRecvClosed, CloneReceiver, DropReceiver, CloneBuilder, DropBuilder
<1>2. StageInv' /\ MapInv' /\ WaitInv'
  BY <1>1 DEF StageInv, Mapping, MapInv, WaitInv, Alive, SetFlag
<1>3. Tracked' = Tracked
  BY <1>1 DEF Tracked
<1>4. CASE SetRecvClosed
  <2>1. TypeOK'
    BY <1>4 DEF SetRecvClosed, TypeOK, SetFlag, StateFlags
  <2>2. UserInv' /\ CountInv' /\ ClosedInv'
    BY <1>4, <1>3 DEF SetRecvClosed, UserInv, CountInv, ClosedInv, SetFlag
  <2>3. QED
    BY <1>2, <2>1, <2>2
<1>5. CASE CloneReceiver
  <2>1. count > 0
    BY <1>5, CountIsNat DEF CloneReceiver
  <2>2. count' \in Nat /\ closing' \in BOOLEAN /\ ClosedInv'
    BY <1>5, <2>1, CountedUp DEF CloneReceiver
  <2>3. TypeOK'
    BY <1>5, <2>2 DEF CloneReceiver, TypeOK
  <2>4. UserInv' /\ CountInv'
    BY <1>5, <1>3, CountIsNat DEF CloneReceiver, AddReceiver, UserInv, CountInv, TypeOK
  <2>5. QED
    BY <1>2, <2>2, <2>3, <2>4
<1>6. CASE DropReceiver
  <2>1. count > 0
    BY <1>6, CountIsNat DEF DropReceiver
  <2>2. count' \in Nat /\ closing' \in BOOLEAN /\ ClosedInv'
    BY <1>6, <2>1, CountedDown DEF DropReceiver
  <2>3. TypeOK'
    BY <1>6, <2>2 DEF DropReceiver, TypeOK
  <2>4. UserInv' /\ CountInv'
    BY <1>6, <1>3, CountIsNat DEF DropReceiver, RemoveReceiver, UserInv, CountInv, TypeOK
  <2>5. QED
    BY <1>2, <2>2, <2>3, <2>4
<1>7. ASSUME NEW b \in Builders, CloneBuilder(b) PROVE ReqInv'
  <2>1. count > 0
    BY <1>7, CountIsNat DEF CloneBuilder
  <2>2. count' \in Nat /\ closing' \in BOOLEAN /\ ClosedInv'
    BY <1>7, <2>1, CountedUp DEF CloneBuilder
  <2>3. TypeOK' /\ UserInv'
    BY <1>7, <2>2 DEF CloneBuilder, TypeOK, UserInv
  <2>4. IsFiniteSet(builders') /\ Cardinality(builders') = Cardinality(builders) + 1
    BY <1>7, FS_AddElement DEF CloneBuilder, CountInv
  <2>5. CountInv'
    BY <1>7, <1>3, <2>4, CountIsNat DEF CloneBuilder, AddReceiver, CountInv, TypeOK
  <2>6. QED
    BY <1>2, <2>2, <2>3, <2>5
<1>8. ASSUME NEW b \in Builders, DropBuilder(b) PROVE ReqInv'
  <2>1. count > 0
    BY <1>8, CountIsNat DEF DropBuilder
  <2>2. count' \in Nat /\ closing' \in BOOLEAN /\ ClosedInv'
    BY <1>8, <2>1, CountedDown DEF DropBuilder
  <2>3. TypeOK' /\ UserInv'
    BY <1>8, <2>2 DEF DropBuilder, TypeOK, UserInv
  <2>4. IsFiniteSet(builders') /\ Cardinality(builders') = Cardinality(builders) - 1
    BY <1>8, FS_RemoveElement DEF DropBuilder, CountInv
  <2>5. CountInv'
    BY <1>8, <1>3, <2>4, CountIsNat DEF DropBuilder, RemoveReceiver, CountInv, TypeOK
  <2>6. QED
    BY <1>2, <2>2, <2>3, <2>5
<1>9. QED
  BY <1>4, <1>5, <1>6, <1>7, <1>8

\* A build goes to the pipeline, hands out a channel of the map, or makes one: then
\* the builder is a receiver, so that the request is not finished yet.
LEMMA LockedBuildStep == ASSUME ReqInv, NEW b \in Builders, LockedBuild(b) PROVE ReqInv'
<1> USE DEF ReqInv, ownerVars, countVars, userVars, chanVars
<1>1. UNCHANGED <<flags, ownerVars, receivers, builders, bkey, uninitRead>> /\ b \in builders
  BY DEF LockedBuild, UserInv
<1>2. bpc' \in [Builders -> {"idle", "lock", "direct"}] /\ \A c \in Builders : bpc'[c] # "idle" => c \in builders'
  BY <1>1 DEF LockedBuild, TypeOK, UserInv
<1>3. StageInv'
  BY <1>1 DEF StageInv, Mapping
<1>4. CASE UNCHANGED <<chanVars, map, countVars>>
  BY <1>1, <1>2, <1>3, <1>4 DEF TypeOK, MapInv, Alive, WaitInv, UserInv, CountInv, Tracked, ClosedInv
<1>5. CASE LET x == map[bkey[b]] IN Reusable(x) /\ AnotherSender(x)
  <2> DEFINE x == map[bkey[b]]
  <2>1. Alive(x) /\ x \in Chans /\ AnotherSender(x)
    BY <1>5, RequestAssumption DEF Reusable, TypeOK, Chans
  <2>2. TypeOK'
    <3>1. handles' \in [Chans -> Nat] /\ senderCount' \in [Chans -> Nat]
      BY <2>1 DEF AnotherSender, TypeOK
    <3>2. QED
      BY <1>1, <1>2, <2>1, <3>1 DEF AnotherSender, TypeOK
  <2>3. \A y \in Chans : Alive(y)' => Alive(y)
    BY <1>1, <2>1 DEF AnotherSender, Alive, TypeOK
  <2>4. MapInv' /\ WaitInv'
    BY <1>1, <2>1, <2>3, MadeAreChans DEF AnotherSender, MapInv, WaitInv
  <2>5. UserInv' /\ CountInv' /\ ClosedInv'
    BY <1>1, <1>2, <2>1 DEF AnotherSender, UserInv, CountInv, Tracked, ClosedInv
  <2>6. QED
    BY <1>3, <2>2, <2>4, <2>5
<1>6. CASE /\ ~Reusable(map[bkey[b]]) /\ "SET_PIPELINE" \notin flags
           /\ NewChannel(bkey[b])
  <2> DEFINE x == chans + 1
             k == bkey[b]
  <2>1. x \in Chans /\ k \in Keys /\ ~tracked[x] /\ chans \in Nat
    BY <1>6, RequestAssumption DEF NewChannel, TypeOK, Chans, UserInv
  <2>2. count > 0
    BY <1>1, CountIsNat
  <2>3. AddReceiver /\ tracked' = [tracked EXCEPT ![x] = TRUE] /\ chans' = x
        /\ map' = [map EXCEPT ![k] = x] /\ handles' = [handles EXCEPT ![x] = 1]
        /\ senderCount' = [senderCount EXCEPT ![x] = 1] /\ keyOf' = [keyOf EXCEPT ![x] = k]
        /\ UNCHANGED <<queued, resolved>>
    BY <1>6 DEF NewChannel
  <2>4. count' \in Nat /\ closing' \in BOOLEAN /\ ClosedInv'
    BY <1>1, <2>2, <2>3, CountedUp
  <2>5. TypeOK'
    <3>1. chans' \in 0..MaxChannels
      BY <2>1, <2>3, RequestAssumption DEF Chans
    <3>2. /\ map' \in [Keys -> Chans \union {NoChannel}] /\ keyOf' \in [Chans -> Keys]
          /\ handles' \in [Chans -> Nat] /\ senderCount' \in [Chans -> Nat]
          /\ tracked' \in [Chans -> BOOLEAN]
      BY <2>1, <2>3 DEF TypeOK
    <3>3. QED
      BY <1>1, <1>2, <2>3, <2>4, <3>1, <3>2 DEF TypeOK
  <2>6. \A y \in Chans \ {x} : (Alive(y)' <=> Alive(y)) /\ tracked'[y] = tracked[y]
    BY <1>1, <2>1, <2>3 DEF Alive, TypeOK
  <2>7. MapInv'
    <3>1. "SET_PIPELINE" \notin flags'
      BY <1>1, <1>6
    <3>2. map'[k] = x /\ \A j \in Keys \ {k} : map'[j] = map[j]
      BY <2>1, <2>3 DEF TypeOK
    <3>3. ASSUME NEW y \in 1..chans', y # x, Alive(y)'
          PROVE  resolved'[y] \/ y \in taken' \/ upgraded' = {y} \/ \E j \in Keys : map'[j] = y
      <4>1. y \in 1..chans /\ y \in Chans
        BY <2>1, <2>3, <3>3, MadeAreChans
      <4>2. Alive(y)
        BY <2>6, <3>3, <4>1
      <4>3. map[k] # y
        BY <1>6, <4>2, <4>1, RequestAssumption DEF Reusable, Chans
      <4>4. QED
        BY <1>1, <2>3, <3>2, <4>1, <4>2, <4>3 DEF MapInv
    <3>4. ASSUME NEW y \in 1..chans', y = x PROVE \E j \in Keys : map'[j] = y
      BY <2>1, <3>2, <3>4
    <3> HIDE DEF x, k
    <3>5. QED
      BY <3>1, <3>3, <3>4 DEF MapInv
  <2>8. WaitInv'
    <3>1. tracked'[x]
      BY <2>1, <2>3 DEF TypeOK
    <3>2. QED
      BY <1>1, <2>3, <2>6, <3>1 DEF WaitInv
  <2>9. UserInv'
    BY <1>2, <2>1, <2>3, <2>6 DEF UserInv, Chans
  <2>10. CountInv'
    <3>1. Cardinality(Tracked') = Cardinality(Tracked) + 1
      BY <2>1, <2>3, TrackOne
    <3>2. QED
      BY <1>1, <2>3, <3>1, CountIsNat DEF AddReceiver, CountInv, TypeOK
  <2>11. QED
    BY <1>3, <2>4, <2>5, <2>7, <2>8, <2>9, <2>10
<1>7. QED
  BY <1>4, <1>5, <1>6 DEF LockedBuild

\* A pipelined channel that is freed, or upgraded, stops counting as a receiver.
LEMMA UntrackStep ==
    ASSUME ReqInv, NEW x \in Chans, EndDropSender(x) \/ Upgrade(x)
    PROVE  ReqInv'
<1> USE DEF ReqInv, ownerVars, countVars, userVars, chanVars
<1>1. UNCHANGED <<flags, stage, written, dest, userVars, map, chans, keyOf, senderCount, queued, resolved, uninitRead>>
  BY DEF EndDropSender, Upgrade
<1>2. \/ tracked[x] /\ tracked' = [tracked EXCEPT ![x] = FALSE] /\ RemoveReceiver
      \/ UNCHANGED <<tracked, countVars>>
  BY DEF EndDropSender, Upgrade
<1>3. count' \in Nat /\ closing' \in BOOLEAN /\ ClosedInv' /\ CountInv' /\ tracked' \in [Chans -> BOOLEAN]
  <2>1. CASE UNCHANGED <<tracked, countVars>>
    BY <1>1, <2>1 DEF TypeOK, ClosedInv, CountInv, Tracked
  <2>2. CASE tracked[x] /\ tracked' = [tracked EXCEPT ![x] = FALSE] /\ RemoveReceiver
    <3>1. count > 0
      BY <2>2, CountIsNat DEF Tracked
    <3>2. count' \in Nat /\ closing' \in BOOLEAN /\ ClosedInv'
      BY <1>1, <2>2, <3>1, CountedDown
    <3>3. Cardinality(Tracked') = Cardinality(Tracked) - 1
      BY <2>2, TrackOne
    <3>4. CountInv'
      BY <1>1, <2>2, <3>3, CountIsNat DEF RemoveReceiver, CountInv, TypeOK
    <3>5. QED
      BY <2>2, <3>2, <3>4 DEF TypeOK
  <2>3. QED
    BY <1>2, <2>1, <2>2
<1>4. UserInv' /\ \A y \in Chans \ {x} : tracked'[y] = tracked[y]
  BY <1>1, <1>2 DEF UserInv, TypeOK
<1>5. CASE EndDropSender(x)
  <2>1. handles' \in [Chans -> Nat]
    BY <1>5 DEF EndDropSender, TypeOK
  <2>2. TypeOK' /\ StageInv'
    BY <1>1, <1>3, <1>5, <2>1 DEF EndDropSender, TypeOK, StageInv, Mapping
  <2>3. \A y \in Chans : Alive(y)' => Alive(y)
    BY <1>1, <1>5 DEF EndDropSender, Alive, TypeOK
  <2>4. Alive(x)' => tracked'[x] = tracked[x]
    BY <1>1, <1>5 DEF EndDropSender, Alive, TypeOK
  <2>5. MapInv' /\ WaitInv'
    BY <1>1, <1>4, <1>5, <2>3, <2>4, MadeAreChans DEF EndDropSender, MapInv, WaitInv
  <2>6. QED
    BY <1>3, <1>4, <2>2, <2>5
<1>6. CASE Upgrade(x)
  <2>1. TypeOK' /\ StageInv'
    BY <1>1, <1>3, <1>6 DEF Upgrade, TypeOK, StageInv, Mapping
  <2>2. \A y \in Chans : Alive(y)' => Alive(y)
    BY <1>1, <1>6 DEF Upgrade, Alive, TypeOK
  <2>3. taken' = taken \ {x} /\ (Alive(x) => upgraded' = {x}) /\ (~Alive(x) => upgraded' = upgraded)
    BY <1>6 DEF Upgrade
  <2>4. upgraded = {}
    BY <1>6 DEF Upgrade
  <2>5. MapInv' /\ WaitInv'
    BY <1>1, <1>4, <2>2, <2>3, <2>4, MadeAreChans DEF MapInv, WaitInv
  <2>6. QED
    BY <1>3, <1>4, <2>1, <2>5
<1>7. QED
  BY <1>5, <1>6

-----------------------------------------------------------------------------
(* The theorems.                                                           *)

\* Every operation preserves the invariant.
LEMMA ReqInvStep == ReqInv /\ [Next]_vars => ReqInv'
<1>1. ASSUME ReqInv, OwnerStep PROVE ReqInv'
  BY <1>1, AnswerStep, TakeMapStep, UntrackStep, QuietStep DEF OwnerStep, Answer
<1>2. ASSUME ReqInv, ReceiverStep PROVE ReqInv'
  BY <1>2, ReceiverCountStep DEF ReceiverStep
<1>3. ASSUME ReqInv, NEW b \in Builders, BuilderStep(b) PROVE ReqInv'
  BY <1>3, ReceiverCountStep, LockedBuildStep, QuietStep DEF BuilderStep, BuildStep
<1>4. ASSUME ReqInv, NEW x \in Chans, ChannelStep(x) PROVE ReqInv'
  BY <1>4, QuietStep, UntrackStep DEF ChannelStep
<1>5. ASSUME ReqInv, UNCHANGED vars PROVE ReqInv'
  BY <1>5, QuietStep
<1>6. QED
  BY <1>1, <1>2, <1>3, <1>4, <1>5 DEF Next

\* The types; and a receiver is never counted out twice: receivers_count does not
\* wrap below zero.
THEOREM RequestIsTyped == Spec => []TypeOK
<1>1. ReqInv => TypeOK
  BY DEF ReqInv
<1>2. QED
  BY ReqInvInit, ReqInvStep, <1>1, PTL DEF Spec

\* Whoever sees SET or SET_PIPELINE may read what the flag publishes.
THEOREM FlagsDoPublish == Spec => []FlagsPublish
<1>1. ReqInv => FlagsPublish
  BY DEF ReqInv, StageInv, FlagsPublish
<1>2. QED
  BY ReqInvInit, ReqInvStep, <1>1, PTL DEF Spec

\* A request is finished exactly when its last receiver, builder or unresolved
\* pipelined channel has gone, and is never finished while one of them is left.
THEOREM FinishedWhenUnused == Spec => []FinishedIffNoReceivers
<1>1. ReqInv => FinishedIffNoReceivers
  BY DEF ReqInv, CountInv, WaitInv, ClosedInv, FinishedIffNoReceivers
<1>2. QED
  BY ReqInvInit, ReqInvStep, <1>1, PTL DEF Spec

\* However builds interleave with the resolution of the map, no channel is in use
\* and unresolved once the pipeline is set.
THEOREM NoChannelIsStranded == Spec => []NoChannelStranded
<1>1. ASSUME ReqInv, "SET_PIPELINE" \in flags, NEW x \in 1..chans, Alive(x) PROVE resolved[x]
  <2>1. taken = {} /\ upgraded = {}
    BY <1>1 DEF ReqInv, StageInv, Mapping
  <2>2. \A k \in Keys : map[k] # x
    BY <1>1, MadeAreChans, RequestAssumption DEF ReqInv, MapInv, Chans
  <2>3. QED
    BY <1>1, <2>1, <2>2 DEF ReqInv, MapInv
<1>2. ReqInv => NoChannelStranded
  BY <1>1 DEF NoChannelStranded
<1>3. QED
  BY ReqInvInit, ReqInvStep, <1>2, PTL DEF Spec
-----------------------------------------------------------------------------
(* The order in which the channels of one key are resolved.                *)

\* The owner has found channel y in the map.
Found(y) == y \in taken \union upgraded \/ resolved[y]

\* What the map, the owner and the answers refer to are channels made, each under
\* its own key.
MadeInv ==
    /\ taken \union upgraded \subseteq 1..chans
    /\ \A x \in Chans : resolved[x] => x \in 1..chans
    /\ \A k \in Keys : map[k] # NoChannel => map[k] \in 1..chans /\ keyOf[map[k]] = k

\* By the time the owner has found a channel, those made before it for the same key
\* have been resolved or are gone: it takes the map only when it is done with what
\* it took before.
FoundInv ==
    \A x, y \in 1..chans :
        (x < y /\ keyOf[x] = keyOf[y] /\ Found(y)) => (resolved[x] \/ ~Alive(x))

OrderInv == MadeInv /\ FoundInv

\* A step that finds no channel keeps the order: no channel is brought back to life
\* and no answer is taken back.
LEMMA NothingFound ==
    ASSUME OrderInv, MadeInv', UNCHANGED <<chans, keyOf>>,
           \A x \in 1..chans : /\ Alive(x)' => Alive(x)
                               /\ resolved[x] => resolved'[x]
                               /\ Found(x)' => Found(x)
    PROVE  OrderInv'
BY DEF OrderInv, FoundInv

\* Initially there are no channels.
LEMMA OrderInvInit == Init => OrderInv
<1> SUFFICES ASSUME Init PROVE OrderInv
  OBVIOUS
<1>1. MadeInv
  BY DEF Init, MadeInv
<1>2. FoundInv
  BY DEF Init, FoundInv
<1>3. QED
  BY <1>1, <1>2 DEF OrderInv

\* Every operation keeps the order.
LEMMA OrderInvStep == ASSUME ReqInv, OrderInv, [Next]_vars PROVE OrderInv'
<1> USE DEF ReqInv, ownerVars, countVars, userVars, chanVars
<1>1. CASE UNCHANGED <<taken, upgraded, map, chans, keyOf, handles, queued, resolved>>
  <2>1. MadeInv'
    BY <1>1 DEF OrderInv, MadeInv
  <2>2. QED
    BY <1>1, <2>1, NothingFound DEF Alive, Found
<1>2. CASE TakeMap
  <2>1. /\ taken = {} /\ upgraded = {} /\ taken' = {map[k] : k \in Keys} \ {NoChannel}
        /\ map' = [k \in Keys |-> NoChannel]
        /\ UNCHANGED <<upgraded, chans, keyOf, handles, queued, resolved>>
    BY <1>2 DEF TakeMap
  <2>2. MadeInv'
    BY <2>1 DEF OrderInv, MadeInv
  <2>3. ASSUME NEW x \in 1..chans, NEW y \in 1..chans, x < y, keyOf[x] = keyOf[y], Found(y)'
        PROVE  resolved[x] \/ ~Alive(x)
    <3>1. CASE resolved[y]
      BY <2>3, <3>1 DEF OrderInv, FoundInv, Found
    <3>2. CASE y \in taken'
      <4>1. PICK k \in Keys : map[k] = y
        BY <2>1, <3>2
      <4>2. keyOf[x] = k
        BY <2>3, <4>1, RequestAssumption, MadeAreChans DEF OrderInv, MadeInv, Chans
      <4>3. \A j \in Keys : map[j] # x
        BY <2>3, <4>1, <4>2, RequestAssumption, MadeAreChans DEF OrderInv, MadeInv, Chans
      <4>4. QED
        BY <2>1, <4>3 DEF MapInv
    <3>3. QED
      BY <2>1, <2>3, <3>1, <3>2 DEF Found
  <2>4. \A x \in 1..chans : Alive(x)' <=> Alive(x)
    BY <2>1 DEF Alive
  <2>5. FoundInv'
    BY <2>1, <2>3, <2>4 DEF FoundInv
  <2>6. QED
    BY <2>2, <2>5 DEF OrderInv
<1>3. ASSUME NEW x \in Chans, Upgrade(x) PROVE OrderInv'
  <2>1. /\ x \in taken /\ upgraded = {} /\ taken' = taken \ {x}
        /\ \/ Alive(x) /\ upgraded' = {x}
           \/ upgraded' = upgraded
        /\ UNCHANGED <<map, chans, keyOf, handles, queued, resolved>>
    BY <1>3 DEF Upgrade
  <2>2. MadeInv'
    BY <2>1 DEF OrderInv, MadeInv
  <2>3. \A y \in 1..chans : (Alive(y)' => Alive(y)) /\ (Found(y)' => Found(y))
    BY <2>1 DEF Alive, Found
  <2>4. QED
    BY <2>1, <2>2, <2>3, NothingFound
<1>4. ASSUME NEW x \in Chans, ResolveChannel(x) PROVE OrderInv'
  <2>1. /\ upgraded = {x} /\ upgraded' = {} /\ resolved' = [resolved EXCEPT ![x] = TRUE]
        /\ queued' = [queued EXCEPT ![x] = FALSE]
        /\ UNCHANGED <<taken, map, chans, keyOf, handles>>
    BY <1>4 DEF ResolveChannel
  <2>2. \A y \in Chans : (resolved'[y] <=> resolved[y] \/ y = x) /\ (queued'[y] => queued[y])
    BY <2>1 DEF TypeOK
  <2>3. MadeInv'
    BY <2>1, <2>2 DEF OrderInv, MadeInv
  <2>4. \A y \in 1..chans : /\ Alive(y)' => Alive(y)
                            /\ resolved[y] => resolved'[y]
                            /\ Found(y)' => Found(y)
    BY <2>1, <2>2, MadeAreChans DEF Alive, Found
  <2>5. QED
    BY <2>1, <2>3, <2>4, NothingFound
<1>5. ASSUME NEW x \in Chans, ChannelStep(x) PROVE OrderInv'
  <2>1. UNCHANGED <<taken, upgraded, map, chans, keyOf, resolved>>
    BY <1>5 DEF ChannelStep, SendOn, BeginDropSender, EndDropSender
  <2>2. MadeInv'
    BY <2>1 DEF OrderInv, MadeInv
  <2>3. \A y \in Chans : Alive(y)' => Alive(y)
    BY <1>5 DEF ChannelStep, SendOn, BeginDropSender, EndDropSender, Alive, TypeOK
  <2>4. QED
    BY <2>1, <2>2, <2>3, MadeAreChans, NothingFound DEF Found
<1>6. ASSUME NEW b \in Builders, LockedBuild(b) PROVE OrderInv'
  <2>1. UNCHANGED <<taken, upgraded, resolved>>
    BY <1>6 DEF LockedBuild, NewChannel, AnotherSender
  <2>2. CASE UNCHANGED <<chanVars, map, countVars>>
    BY <1>1, <2>1, <2>2
  <2>3. CASE LET x == map[bkey[b]] IN Reusable(x) /\ AnotherSender(x)
    <3> DEFINE x == map[bkey[b]]
    <3>1. Alive(x) /\ x \in Chans /\ AnotherSender(x)
      BY <2>3, RequestAssumption DEF Reusable, TypeOK, Chans
    <3>2. MadeInv'
      BY <2>1, <3>1 DEF AnotherSender, OrderInv, MadeInv
    <3>3. \A y \in Chans : Alive(y)' => Alive(y)
      BY <2>1, <3>1 DEF AnotherSender, Alive, TypeOK
    <3>4. QED
      BY <2>1, <3>1, <3>2, <3>3, MadeAreChans, NothingFound DEF AnotherSender, Found
  <2>4. CASE NewChannel(bkey[b])
    <3> DEFINE x == chans + 1
               k == bkey[b]
    <3>1. x \in Chans /\ k \in Keys /\ chans \in Nat /\ 1..chans \subseteq Chans
      BY <2>4, RequestAssumption DEF NewChannel, TypeOK, Chans
    <3>2. /\ chans' = x /\ map' = [map EXCEPT ![k] = x] /\ handles' = [handles EXCEPT ![x] = 1]
          /\ keyOf' = [keyOf EXCEPT ![x] = k] /\ UNCHANGED <<queued, resolved>>
      BY <2>4 DEF NewChannel
    <3>3. \A y \in 1..chans : keyOf'[y] = keyOf[y] /\ (Alive(y)' <=> Alive(y)) /\ (Found(y)' <=> Found(y))
      BY <2>1, <3>1, <3>2 DEF Alive, Found, TypeOK
    <3>4. keyOf'[x] = k /\ map'[k] = x /\ \A j \in Keys \ {k} : map'[j] = map[j]
      BY <3>1, <3>2 DEF TypeOK
    <3>5. x \notin taken' \union upgraded' /\ ~resolved'[x]
      <4>1. x \notin 1..chans
        BY <3>1
      <4>2. QED
        BY <2>1, <3>1, <4>1 DEF OrderInv, MadeInv
    <3>6. \A y \in 1..chans' : y = x \/ y \in 1..chans
      BY <3>1, <3>2
    <3>7. 1..chans \subseteq 1..chans' /\ x \in 1..chans'
      BY <3>1, <3>2
    <3> HIDE DEF x, k
    <3>8. MadeInv'
      BY <2>1, <3>2, <3>3, <3>4, <3>7 DEF OrderInv, MadeInv
    <3>9. FoundInv'
      <4>1. ASSUME NEW y \in 1..chans', NEW z \in 1..chans', y < z, keyOf'[y] = keyOf'[z], Found(z)'
            PROVE  resolved'[y] \/ ~Alive(y)'
        <5>1. z \in 1..chans
          BY <3>5, <3>6, <4>1 DEF Found
        <5>2. y \in 1..chans
          BY <3>1, <4>1, <5>1 DEF x
        <5>3. QED
          BY <2>1, <3>3, <4>1, <5>1, <5>2 DEF OrderInv, FoundInv
      <4>2. QED
        BY <4>1 DEF FoundInv
    <3>10. QED
      BY <3>8, <3>9 DEF OrderInv
  <2>5. QED
    BY <1>6, <2>2, <2>3, <2>4 DEF LockedBuild
<1>7. CASE \/ TakeRequest \/ TailCall \/ DropOwner \/ WriteResponse \/ SetValue \/ WriteDest
           \/ SetPipeline \/ FinishMap \/ ReceiverStep
           \/ \E b \in Builders : \/ CloneBuilder(b) \/ DropBuilder(b) \/ DirectBuild(b)
                                  \/ \E k \in Keys : BeginBuild(b, k)
           \/ UNCHANGED vars
  BY <1>1, <1>7 DEF TakeRequest, TailCall, DropOwner, WriteResponse, SetValue, WriteDest, SetPipeline,
     FinishMap, ReceiverStep, SetRecvClosed, CloneReceiver, DropReceiver, CloneBuilder, DropBuilder,
     DirectBuild, BeginBuild, vars
<1>8. QED
  BY <1>2, <1>3, <1>4, <1>5, <1>6, <1>7 DEF Next, OwnerStep, Answer, BuilderStep, BuildStep

\* Calls of one client on one pipelined value are not reordered: however builds,
\* drops and the rounds of the resolution interleave, channels made for one key are
\* resolved in the order they were made.
THEOREM ChannelsResolvedInOrder == Spec => []ResolvedInOrder
<1>1. OrderInv => ResolvedInOrder
  BY DEF OrderInv, FoundInv, Found, ResolvedInOrder
<1>2. ReqInv /\ OrderInv /\ [Next]_vars => ReqInv' /\ OrderInv'
  BY ReqInvStep, OrderInvStep
<1>3. Init => ReqInv /\ OrderInv
  BY ReqInvInit, OrderInvInit
<1>4. QED
  BY <1>1, <1>2, <1>3, PTL DEF Spec
===============================================================================

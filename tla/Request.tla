------------------------------- MODULE Request -------------------------------
(***************************************************************************)
(* One request of recapn-channel/src/request.rs: the request, its response *)
(* and its pipeline in one allocation, shared by                           *)
(*   - its owner, who holds it as a Request, a Responder or a              *)
(*     ResultsSender and answers or drops it;                              *)
(*   - the response receivers and the pipeline builders, which count as    *)
(*     receivers of the response;                                          *)
(*   - the pipelined channels the builders have made, one per key while    *)
(*     the pipeline is not set, each a receiver of the response too until  *)
(*     it is resolved or freed.                                            *)
(*                                                                         *)
(* The owner answers in several steps (write the response, raise SET, wake *)
(* everyone, write the pipeline, empty the map round by round, raise       *)
(* SET_PIPELINE) while builders look at the flags, with and without the    *)
(* mutex of the map, and senders of pipelined channels come and go.        *)
(* Waking the waiters is WaitList, moving the requests of a resolved       *)
(* channel is Mpsc.                                                        *)
(***************************************************************************)
EXTENDS AtomicState, Naturals, FiniteSets

CONSTANTS
    Builders,      \* the PipelineBuilders there may ever be
    Keys,          \* the pipeline keys
    MaxReceivers,  \* bound: response receivers alive at once
    MaxChannels,   \* bound: pipelined channels made in all
    MaxHandles,    \* bound: senders of one pipelined channel alive at once
    NoChannel

ASSUME RequestAssumption ==
    /\ MaxReceivers \in Nat /\ MaxChannels \in Nat /\ MaxHandles \in Nat
    /\ NoChannel \notin 1..MaxChannels
    /\ Keys # {}

VARIABLES
    flags,         \* SharedRequest.state
    stage,         \* what the owner holds, or where its answer is
    written,       \* the response has been written
    dest,          \* pipeline_dest: "unwritten", "response" (None) or "separate" (Some)
    count,         \* receivers_count
    closing,       \* a thread has taken count to 0 and not yet raised RECV_CLOSED
    receivers,     \* the ResponseReceivers alive
    builders,      \* the PipelineBuilders alive
    bpc,           \* bpc[b]: where the build of b is
    bkey,          \* bkey[b]: the key it builds
    map,           \* pipeline_map: map[k] is the channel of the WeakChannel of k
    taken,         \* the channels of the map the owner is resolving
    upgraded,      \* the channel whose Receiver the owner holds
    chans,         \* the number of pipelined channels made
    keyOf,         \* keyOf[x]: the key of channel x
    handles,       \* handles[x]: the Senders of x that still hold their Arc
    senderCount,   \* senderCount[x]: ResolutionState.sender_count
    queued,        \* queued[x]: x holds a request, whose parent is an Arc of x
    tracked,       \* tracked[x]: State.parent_request is Some
    resolved,      \* resolved[x]: x has been resolved by the pipeline
    uninitRead     \* history: response() was read before it was written

ownerVars == <<stage, written, dest, taken, upgraded>>
countVars == <<count, closing>>
userVars == <<receivers, builders, bpc, bkey>>
chanVars == <<chans, keyOf, handles, senderCount, queued, tracked, resolved>>
vars == <<flags, ownerVars, countVars, userVars, map, chanVars, uninitRead>>

Chans == 1..MaxChannels
Stages == {"Request", "Responder", "ResultsSender",
           "respond", "set", "wake", "mapping", "mappingForResults", "resultsSet", "done"}

\* The strong count of a pipelined channel is not zero.
Alive(x) == handles[x] > 0 \/ queued[x] \/ upgraded = {x}

-----------------------------------------------------------------------------
(* The three constructors differ in who receives the response.             *)

Init ==
    /\ flags = {} /\ stage = "Request" /\ written = FALSE /\ dest = "unwritten"
    /\ closing = FALSE
    /\ \E b \in Builders :
        \/ receivers = 1 /\ builders = {b} /\ count = 2     \* request_response_pipeline
        \/ receivers = 1 /\ builders = {}  /\ count = 1     \* request_response
        \/ receivers = 0 /\ builders = {b} /\ count = 1     \* request_pipeline
    /\ bpc = [b \in Builders |-> "idle"]
    /\ bkey = [b \in Builders |-> CHOOSE k \in Keys : TRUE]
    /\ map = [k \in Keys |-> NoChannel]
    /\ taken = {} /\ upgraded = {}
    /\ chans = 0
    /\ keyOf = [x \in Chans |-> CHOOSE k \in Keys : TRUE]
    /\ handles = [x \in Chans |-> 0] /\ senderCount = [x \in Chans |-> 0]
    /\ queued = [x \in Chans |-> FALSE] /\ tracked = [x \in Chans |-> FALSE]
    /\ resolved = [x \in Chans |-> FALSE]
    /\ uninitRead = FALSE

-----------------------------------------------------------------------------
(* Receivers of the response.                                              *)

\* Receiver::track
AddReceiver == count' = count + 1 /\ UNCHANGED closing

\* Mutant: fetch_sub returns the count before the subtraction.
RemoveReceiverOld ==
    /\ count' = count - 1
    /\ closing' = (closing \/ count = 0)

\* remove_receiver, its fetch_sub: the last receiver has to close the request.
RemoveReceiver ==
    /\ count' = count - 1
    /\ closing' = (closing \/ count = 1)

\* remove_receiver, the rest: RECV_CLOSED.  Waking `finished` is WaitList's,
\* leaving the parent channel is Mpsc's.
SetRecvClosed ==
    /\ closing
    /\ closing' = FALSE
    /\ flags' = SetFlag(flags, "RECV_CLOSED")
    /\ UNCHANGED <<count, ownerVars, userVars, map, chanVars, uninitRead>>

CloneReceiver ==
    /\ receivers > 0 /\ receivers < MaxReceivers
    /\ receivers' = receivers + 1
    /\ AddReceiver
    /\ UNCHANGED <<flags, ownerVars, builders, bpc, bkey, map, chanVars, uninitRead>>

DropReceiver ==
    /\ receivers > 0
    /\ receivers' = receivers - 1
    /\ RemoveReceiver
    /\ UNCHANGED <<flags, ownerVars, builders, bpc, bkey, map, chanVars, uninitRead>>

CloneBuilder(b) ==
    /\ builders # {} /\ b \notin builders
    /\ builders' = builders \union {b}
    /\ AddReceiver
    /\ UNCHANGED <<flags, ownerVars, receivers, bpc, bkey, map, chanVars, uninitRead>>

DropBuilder(b) ==
    /\ b \in builders /\ bpc[b] = "idle"
    /\ builders' = builders \ {b}
    /\ RemoveReceiver
    /\ UNCHANGED <<flags, ownerVars, receivers, bpc, bkey, map, chanVars, uninitRead>>

-----------------------------------------------------------------------------
(* PipelineBuilder::build                                                  *)

\* The flag is looked at without the mutex first.
BeginBuild(b, k) ==
    /\ b \in builders /\ bpc[b] = "idle"
    /\ bkey' = [bkey EXCEPT ![b] = k]
    /\ bpc' = [bpc EXCEPT ![b] = IF "SET_PIPELINE" \in flags THEN "direct" ELSE "lock"]
    /\ UNCHANGED <<flags, ownerVars, countVars, receivers, builders, map, chanVars, uninitRead>>

\* WeakChannel::sender: a new Sender, as long as anyone holds the channel.
AnotherSender(x) ==
    /\ handles' = [handles EXCEPT ![x] = @ + 1]
    /\ senderCount' = [senderCount EXCEPT ![x] = @ + 1]
    /\ UNCHANGED <<chans, keyOf, queued, tracked, resolved, map, countVars>>

\* weak_channel: a channel with one Sender, tracked as a receiver of the response.
NewChannel(k) ==
    LET x == chans + 1 IN
    /\ chans < MaxChannels
    /\ chans' = x
    /\ keyOf' = [keyOf EXCEPT ![x] = k]
    /\ handles' = [handles EXCEPT ![x] = 1]
    /\ senderCount' = [senderCount EXCEPT ![x] = 1]
    /\ tracked' = [tracked EXCEPT ![x] = TRUE]
    /\ map' = [map EXCEPT ![k] = x]
    /\ AddReceiver
    /\ UNCHANGED <<queued, resolved>>

\* Mutant: a channel without senders is taken to be gone.
HasSenders(x) == x # NoChannel /\ senderCount[x] > 0

\* The WeakChannel of the map can still be upgraded.
Reusable(x) == x # NoChannel /\ Alive(x)

\* With the mutex of the map: look again, then reuse or make a channel.
LockedBuild(b) ==
    /\ bpc[b] = "lock"
    /\ LET x == map[bkey[b]] IN
        \/ /\ "SET_PIPELINE" \in flags
           /\ bpc' = [bpc EXCEPT ![b] = "direct"]
           /\ UNCHANGED <<chanVars, map, countVars>>
        \/ /\ "SET_PIPELINE" \notin flags /\ bpc' = [bpc EXCEPT ![b] = "idle"]
           /\ Reusable(x) /\ handles[x] < MaxHandles
           /\ AnotherSender(x)
        \/ /\ "SET_PIPELINE" \notin flags /\ bpc' = [bpc EXCEPT ![b] = "idle"]
           /\ ~Reusable(x)
           /\ NewChannel(bkey[b])
    /\ UNCHANGED <<flags, ownerVars, receivers, builders, bkey, uninitRead>>

\* The pipeline is set: it answers for the key itself.
DirectBuild(b) ==
    /\ bpc[b] = "direct"
    /\ bpc' = [bpc EXCEPT ![b] = "idle"]
    /\ uninitRead' = (uninitRead \/ (dest = "response" /\ ~written))
    /\ UNCHANGED <<flags, ownerVars, countVars, receivers, builders, bkey, map, chanVars>>

-----------------------------------------------------------------------------
(* Pipelined channels, in the hands of the clients.                        *)

\* A request is sent on x and keeps x alive.
SendOn(x) ==
    /\ handles[x] > 0 /\ senderCount[x] > 0 /\ ~resolved[x] /\ ~queued[x]
    /\ queued' = [queued EXCEPT ![x] = TRUE]
    /\ UNCHANGED <<flags, ownerVars, countVars, userVars, map, chans, keyOf, handles, senderCount,
                   tracked, resolved, uninitRead>>

\* Sender::drop counts down before the Arc goes.
BeginDropSender(x) ==
    /\ senderCount[x] > 0
    /\ senderCount' = [senderCount EXCEPT ![x] = @ - 1]
    /\ UNCHANGED <<flags, ownerVars, countVars, userVars, map, chans, keyOf, handles, queued,
                   tracked, resolved, uninitRead>>

\* The last Arc frees the channel, and the tracked receiver in it.
EndDropSender(x) ==
    /\ senderCount[x] < handles[x]
    /\ handles' = [handles EXCEPT ![x] = @ - 1]
    /\ IF handles[x] = 1 /\ ~queued[x] /\ upgraded # {x} /\ tracked[x]
       THEN tracked' = [tracked EXCEPT ![x] = FALSE] /\ RemoveReceiver
       ELSE UNCHANGED <<tracked, countVars>>
    /\ UNCHANGED <<flags, ownerVars, userVars, map, chans, keyOf, senderCount, queued, resolved, uninitRead>>

-----------------------------------------------------------------------------
(* The owner.                                                              *)

Become(s, t) == stage = s /\ stage' = t

\* Request::respond takes the parameters and leaves a Responder.
TakeRequest ==
    /\ Become("Request", "Responder")
    /\ UNCHANGED <<flags, written, dest, taken, upgraded, countVars, userVars, map, chanVars, uninitRead>>

\* Responder::tail_call puts new parameters in.
TailCall ==
    /\ Become("Responder", "Request")
    /\ UNCHANGED <<flags, written, dest, taken, upgraded, countVars, userVars, map, chanVars, uninitRead>>

\* The owner drops what it holds without a response: close_sender.
DropOwner ==
    /\ stage \in {"Request", "Responder", "ResultsSender"}
    /\ stage' = "done"
    /\ flags' = SetFlag(flags, "SEND_CLOSED")
    /\ UNCHANGED <<written, dest, taken, upgraded, countVars, userVars, map, chanVars, uninitRead>>

\* Responder::respond and ResultsSender::respond: the response is written ...
WriteResponse ==
    /\ \/ Become("Responder", "set")
       \/ Become("ResultsSender", "resultsSet")
    /\ written' = TRUE
    /\ UNCHANGED <<flags, dest, taken, upgraded, countVars, userVars, map, chanVars, uninitRead>>

\* ... and published.
SetValue ==
    /\ \/ Become("set", "wake")
       \/ Become("resultsSet", "done")
    /\ flags' = SetFlag(flags, "SET")
    /\ UNCHANGED <<written, dest, taken, upgraded, countVars, userVars, map, chanVars, uninitRead>>

\* Mutant: the pipeline before the response is published.
WriteDestEarly ==
    /\ Become("set", "mapping")
    /\ dest' = "response"
    /\ UNCHANGED <<flags, written, taken, upgraded, countVars, userVars, map, chanVars, uninitRead>>

\* After the waiters have been woken, the response becomes the pipeline.
WriteDest ==
    /\ Become("wake", "mapping")
    /\ dest' = "response"
    /\ UNCHANGED <<flags, written, taken, upgraded, countVars, userVars, map, chanVars, uninitRead>>

\* Responder::set_pipeline: a pipeline of its own, ahead of the response.
SetPipeline ==
    /\ Become("Responder", "mappingForResults")
    /\ dest' = "separate"
    /\ UNCHANGED <<flags, written, taken, upgraded, countVars, userVars, map, chanVars, uninitRead>>

Mapping == stage \in {"mapping", "mappingForResults"}

\* Mutant: a channel that was built during the last round is missed.
FinishMapUnchecked ==
    /\ Mapping /\ taken = {} /\ upgraded = {}
    /\ flags' = SetFlag(flags, "SET_PIPELINE")
    /\ stage' = IF stage = "mapping" THEN "done" ELSE "ResultsSender"
    /\ UNCHANGED <<written, dest, taken, upgraded, countVars, userVars, map, chanVars, uninitRead>>

\* resolve_pipeline_map, with the mutex: the flag goes up when the map is found
\* empty, before the mutex is released.
FinishMap ==
    /\ Mapping /\ taken = {} /\ upgraded = {}
    /\ \A k \in Keys : map[k] = NoChannel
    /\ flags' = SetFlag(flags, "SET_PIPELINE")
    /\ stage' = IF stage = "mapping" THEN "done" ELSE "ResultsSender"
    /\ UNCHANGED <<written, dest, taken, upgraded, countVars, userVars, map, chanVars, uninitRead>>

\* Otherwise the map is taken, and left empty.
TakeMap ==
    /\ Mapping /\ taken = {} /\ upgraded = {}
    /\ \E k \in Keys : map[k] # NoChannel
    /\ taken' = {map[k] : k \in Keys} \ {NoChannel}
    /\ map' = [k \in Keys |-> NoChannel]
    /\ UNCHANGED <<flags, stage, written, dest, upgraded, countVars, userVars, chanVars, uninitRead>>

\* Mutant: the tracked receiver is dropped, and again with the channel.
UpgradeTracked(x) ==
    /\ x \in taken /\ upgraded = {}
    /\ taken' = taken \ {x}
    /\ IF Alive(x)
       THEN /\ upgraded' = {x}
            /\ IF tracked[x] THEN RemoveReceiver ELSE UNCHANGED countVars
       ELSE UNCHANGED <<upgraded, countVars>>
    /\ UNCHANGED <<flags, stage, written, dest, userVars, map, chanVars, uninitRead>>

\* Mutant: a channel without requests is passed over.
UpgradeIfUsed(x) ==
    /\ x \in taken /\ upgraded = {}
    /\ taken' = taken \ {x}
    /\ IF Alive(x) /\ queued[x]
       THEN /\ upgraded' = {x}
            /\ IF tracked[x]
               THEN tracked' = [tracked EXCEPT ![x] = FALSE] /\ RemoveReceiver
               ELSE UNCHANGED <<tracked, countVars>>
       ELSE UNCHANGED <<upgraded, tracked, countVars>>
    /\ UNCHANGED <<flags, stage, written, dest, userVars, map, chans, keyOf, handles, senderCount,
                   queued, resolved, uninitRead>>

\* WeakChannel::upgrade: nothing if the channel is gone, else its Receiver; it
\* takes the tracked receiver of the response out of the channel and drops it.
Upgrade(x) ==
    /\ x \in taken /\ upgraded = {}
    /\ taken' = taken \ {x}
    /\ IF Alive(x)
       THEN /\ upgraded' = {x}
            /\ IF tracked[x]
               THEN tracked' = [tracked EXCEPT ![x] = FALSE] /\ RemoveReceiver
               ELSE UNCHANGED <<tracked, countVars>>
       ELSE UNCHANGED <<upgraded, tracked, countVars>>
    /\ UNCHANGED <<flags, stage, written, dest, userVars, map, chans, keyOf, handles, senderCount,
                   queued, resolved, uninitRead>>

\* PipelineResolver::resolve, on the response: the channel is forwarded or closed.
ResolveChannel(x) ==
    /\ upgraded = {x}
    /\ upgraded' = {}
    /\ resolved' = [resolved EXCEPT ![x] = TRUE]
    /\ queued' = [queued EXCEPT ![x] = FALSE]
    /\ uninitRead' = (uninitRead \/ ~written)
    /\ UNCHANGED <<flags, stage, written, dest, taken, countVars, userVars, map, chans, keyOf,
                   handles, senderCount, tracked>>

-----------------------------------------------------------------------------
Answer ==
    \/ WriteResponse \/ SetValue \/ WriteDest \/ SetPipeline \/ FinishMap \/ TakeMap
    \/ \E x \in Chans : Upgrade(x) \/ ResolveChannel(x)
OwnerStep == TakeRequest \/ TailCall \/ DropOwner \/ Answer
ReceiverStep == CloneReceiver \/ DropReceiver \/ SetRecvClosed
BuildStep(b) == LockedBuild(b) \/ DirectBuild(b)
BuilderStep(b) ==
    CloneBuilder(b) \/ DropBuilder(b) \/ BuildStep(b) \/ \E k \in Keys : BeginBuild(b, k)
ChannelStep(x) == SendOn(x) \/ BeginDropSender(x) \/ EndDropSender(x)

Next ==
    \/ OwnerStep
    \/ ReceiverStep
    \/ \E b \in Builders : BuilderStep(b)
    \/ \E x \in Chans : ChannelStep(x)

Spec == Init /\ [][Next]_vars

\* An answer, a build and the closing of a request run to their end once begun.
Begun == stage \notin {"Request", "Responder", "ResultsSender"}
Fairness ==
    /\ WF_vars(Begun /\ Answer)
    /\ WF_vars(SetRecvClosed)
    /\ \A b \in Builders : WF_vars(BuildStep(b))

FairSpec == Spec /\ Fairness

-----------------------------------------------------------------------------
(* Properties.                                                             *)

TypeOK ==
    /\ flags \subseteq StateFlags
    /\ stage \in Stages
    /\ written \in BOOLEAN
    /\ dest \in {"unwritten", "response", "separate"}
    /\ count \in Nat
    /\ closing \in BOOLEAN
    /\ receivers \in Nat
    /\ builders \subseteq Builders
    /\ bpc \in [Builders -> {"idle", "lock", "direct"}]
    /\ bkey \in [Builders -> Keys]
    /\ map \in [Keys -> Chans \union {NoChannel}]
    /\ taken \subseteq Chans
    /\ upgraded \subseteq Chans
    /\ chans \in 0..MaxChannels
    /\ keyOf \in [Chans -> Keys]
    /\ handles \in [Chans -> Nat]
    /\ senderCount \in [Chans -> Nat]
    /\ queued \in [Chans -> BOOLEAN]
    /\ tracked \in [Chans -> BOOLEAN]
    /\ resolved \in [Chans -> BOOLEAN]
    /\ uninitRead \in BOOLEAN

\* The pipelined channels that hold a tracked receiver of the response.
Tracked == {x \in Chans : tracked[x]}

\* receivers_count counts the response receivers, the builders and the pipelined
\* channels that wait to be resolved, and the request is finished, or about to be,
\* exactly when there are none: it is never finished under a pending pipeline and
\* never has a receiver again.
FinishedIffNoReceivers ==
    /\ count = receivers + Cardinality(builders) + Cardinality(Tracked)
    /\ \A x \in Chans : (Alive(x) /\ ~resolved[x]) => (tracked[x] \/ upgraded = {x})
    /\ (closing \/ "RECV_CLOSED" \in flags) <=> count = 0

\* Whoever sees a flag may read what it publishes: SET the response, SET_PIPELINE
\* the pipeline, and the response if the pipeline is the response.
FlagsPublish ==
    /\ "SET" \in flags => written
    /\ "SET_PIPELINE" \in flags => dest # "unwritten"
    /\ ("SET_PIPELINE" \in flags /\ dest = "response") => "SET" \in flags

\* Once the pipeline is set every pipelined channel still in use is resolved: no
\* build slips a channel into the map behind the owner, so that later calls, which
\* go straight to the pipeline, do not overtake calls that wait in a channel.
NoChannelStranded ==
    "SET_PIPELINE" \in flags => \A x \in 1..chans : Alive(x) => resolved[x]

\* Channels made for one key are resolved in the order they were made.
ResolvedInOrder ==
    \A x, y \in 1..chans :
        (x < y /\ keyOf[x] = keyOf[y] /\ resolved[y]) => (resolved[x] \/ ~Alive(x))

\* Once the owner has begun to set the pipeline, every pipelined channel is
\* resolved, unless it is freed first.
EventuallyResolved ==
    \A x \in Chans : (Mapping /\ x <= chans) ~> (resolved[x] \/ ~Alive(x))

\* Not true of the code, and so checked by no run (README, Disagreements).
\* request.rs:560 says: "We're reading the response data we just wrote above": the response
\* is read only once it has been written.
ResponseReadAfterWrite == ~uninitRead
=============================================================================

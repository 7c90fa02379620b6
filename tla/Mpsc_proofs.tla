----------------------------- MODULE Mpsc_proofs -----------------------------
(***************************************************************************)
(* Proofs about Mpsc, for any number of channels, senders, tasks, items    *)
(* and forwards: receivers that are forwarded to each other do not wait    *)
(* for each other, a channel that was closed stays empty, and a receiver   *)
(* that sleeps over items is going to be woken.                            *)
(***************************************************************************)
EXTENDS Mpsc, SequenceTheorems, FiniteSetTheorems, TLAPS

-----------------------------------------------------------------------------
(* Resolution.                                                             *)

\* Resolving a channel ends at a channel, and a channel that is not forwarded is
\* resolved to itself.
LEMMA ResolvesToChannel ==
    ASSUME NEW c \in Channels
    PROVE  MostResolved(c) \in Channels /\ (~Forwarded(c) => MostResolved(c) = c)
<1>1. EndsFrom(c) # {} => (CHOOSE m \in EndsFrom(c) : TRUE) \in EndsFrom(c)
  OBVIOUS
<1>2. EndsFrom(c) \subseteq Channels
  BY DEF EndsFrom
<1> QED BY <1>1, <1>2 DEF MostResolved

\* A channel over which another one can be resolved, or that resolves to one that
\* is not resolved, is not closed with an error.
LEMMA OpenEndIsNotError ==
    ASSUME NEW c \in Channels, Unresolved(MostResolved(c))
    PROVE  Resolution(c) # "Error"
<1> SUFFICES ASSUME Resolution(c) = "Error" PROVE FALSE
  OBVIOUS
<1>1. MostResolved(c) = c
  BY ResolvesToChannel DEF Forwarded
<1> QED BY <1>1 DEF Unresolved

\* What the flags of a channel say.
LEMMA FlagsResolve ==
    ASSUME NEW c
    PROVE  /\ flags[c] = {} => Resolution(c) = "Unresolved"
           /\ "SET" \notin flags[c] => Resolution(c) # "Error"
           /\ "SET" \in flags[c] /\ value[c] = Error => Resolution(c) = "Error"
BY DEF Resolution, ShotState

-----------------------------------------------------------------------------
(* A finite set of numbered things has one with the greatest number.  By   *)
(* well-founded induction over the subsets.                                *)
Greatest(T, a, x) == x \in T /\ \A y \in T : a[y] <= a[x]

LEMMA FiniteHasGreatest ==
    ASSUME NEW S, IsFiniteSet(S), NEW a \in [S -> Nat], NEW T0 \in SUBSET S, T0 # {}
    PROVE  \E x : Greatest(T0, a, x)
<1> DEFINE Bad == { T \in SUBSET S : T # {} /\ ~\E x : Greatest(T, a, x) }
<1> SUFFICES ASSUME Bad # {} PROVE FALSE
  OBVIOUS
<1>1. IsWellFoundedOn(StrictSubsetOrdering(S), SUBSET S)
  <2>1. FiniteSubsetsOf(S) = SUBSET S
    BY FS_FiniteSubsetsOfFinite
  <2> QED BY <2>1, FS_StrictSubsetOrderingWellFounded
<1>2. Bad \subseteq SUBSET S
  OBVIOUS
<1>3. PICK T \in Bad : \A U \in Bad : <<U, T>> \notin StrictSubsetOrdering(S)
  BY <1>1, <1>2, WFMin
<1>4. PICK x \in T : TRUE
  OBVIOUS
<1> DEFINE U == T \ {x}
<1>5. U \notin Bad
  <2>1. U \in SUBSET S /\ T \in SUBSET S /\ U \subseteq T /\ U # T
    BY <1>4
  <2>2. <<U, T>> \in StrictSubsetOrdering(S)
    BY <2>1 DEF StrictSubsetOrdering
  <2> QED BY <1>3, <2>2
<1>6. CASE U = {}
  <2>1. T = {x} /\ a[x] \in Nat
    BY <1>4, <1>6
  <2>2. Greatest(T, a, x)
    BY <2>1 DEF Greatest
  <2> QED BY <2>2
<1>7. CASE U # {}
  <2>1. PICK y : Greatest(U, a, y)
    BY <1>5, <1>7
  <2>2. y \in T /\ a[x] \in Nat /\ a[y] \in Nat /\ \A z \in T : z = x \/ a[z] <= a[y]
    BY <1>4, <2>1 DEF Greatest
  <2>3. CASE a[x] <= a[y]
    <3>1. Greatest(T, a, y)
      BY <2>2, <2>3 DEF Greatest
    <3> QED BY <3>1
  <2>4. CASE a[y] <= a[x]
    <3>1. \A z \in T : a[z] \in Nat
      OBVIOUS
    <3>2. Greatest(T, a, x)
      BY <1>4, <2>2, <2>4, <3>1 DEF Greatest
    <3> QED BY <3>2
  <2> QED BY <2>2, <2>3, <2>4
<1> QED BY <1>6, <1>7

-----------------------------------------------------------------------------
(* The inductive invariant.                                                *)

\* A sender that has a channel in mind still has something to send and no waker to
\* call, nor has a receiver that is about to take mutexes; and nobody has two.
ThreadInv ==
    /\ \A s \in Senders : target[s] # None => sends[s] < MaxSends /\ waking[s] = {}
    /\ \A c \in Channels : rpc[c] \in {"lockA", "lockB"} => waking[c] = {}
    /\ \A t \in Threads : \A v, w \in waking[t] : v = w

\* Between its two steps a forward holds its first mutex, and nobody else holds one.
LockInv ==
    /\ \A c \in Channels : rpc[c] \in {"lockA", "lockB"} => dest[c] \in Channels \ {c}
    /\ \A c \in Channels : rpc[c] = "lockB" => lock[FirstLock(c)] = c
    /\ \A x \in Channels :
          lock[x] # None => rpc[lock[x]] = "lockB" /\ FirstLock(lock[x]) = x

\* A channel is unresolved until its receiver resolves it, as the last thing it does
\* before the queue is taken out in batches.
CloseInv ==
    /\ \A c \in Channels : rpc[c] \in {"idle", "lockA", "lockB", "close"} => flags[c] = {}
    /\ \A c \in Channels :
          rpc[c] \in {"respond", "closeMore", "respondLast"} => Resolution(c) = "Error"
    /\ \A c \in Channels : rpc[c] = "respondLast" => queue[c] = <<>>
    /\ ClosedChannelStaysEmpty

\* A receiver that sleeps has been woken, is about to be, or has left its waker in an
\* empty channel.
Called(c) == \E t \in Threads : <<c, rtask[c]>> \in waking[t]
Waits(c) == queue[c] = <<>> /\ rwaker[c] = rtask[c]
WakeInv ==
    /\ \A c \in Channels : rpc[c] # "idle" => ~asleep[c]
    /\ \A c \in Channels :
          asleep[c] => rtask[c] \in RTasks /\ (woken[c] \/ Called(c) \/ Waits(c))

MInv == TypeOK /\ ThreadInv /\ LockInv /\ CloseInv /\ WakeInv

LEMMA MInit == Init => MInv
<1> SUFFICES ASSUME Init PROVE MInv
  OBVIOUS
<1> USE MpscAssumption
<1>1. TypeOK
  BY DEF Init, TypeOK, StateFlags, Statuses, ReceiverPCs, Threads
<1>2. ThreadInv /\ LockInv /\ WakeInv
  BY DEF Init, ThreadInv, LockInv, WakeInv, Threads
<1>3. CloseInv
  BY DEF Init, CloseInv, ClosedChannelStaysEmpty
<1> QED BY <1>1, <1>2, <1>3 DEF MInv

-----------------------------------------------------------------------------
(* Operators on the state.                                                 *)

\* Taking the waker of a channel.
LEMMA TakeWakerType ==
    ASSUME TypeOK, NEW t \in Threads, NEW c \in Channels, TakeWaker(t, c)
    PROVE  /\ rwaker' \in [Channels -> RTasks \union {None}]
           /\ waking' \in [Threads -> SUBSET (Channels \X RTasks)]
BY DEF TypeOK, TakeWaker

\* A batch is what the queue began with, what is left in the queue the rest; after
\* an incomplete batch nothing is left.
LEMMA TakeBatchType ==
    ASSUME TypeOK, NEW c \in Channels, TakeBatch(c)
    PROVE  /\ queue' \in [Channels -> Seq(Items)]
           /\ \A d \in Channels \ {c} : queue'[d] = queue[d]
           /\ LastBatch(c) => queue'[c] = <<>>
           /\ batch' \in [Channels -> Seq(Items)]
           /\ parent' \in [Items -> Channels \union {None}]
           /\ status' \in [Items -> Statuses]
           /\ rpc' = [rpc EXCEPT ![c] = IF LastBatch(c) THEN "respondLast" ELSE "respond"]
<1> DEFINE n == Min({Len(queue[c]), CloseBatch})
<1>1. queue[c] \in Seq(Items) /\ Len(queue[c]) \in Nat /\ CloseBatch \in Nat
  BY MpscAssumption DEF TypeOK
<1>2. n \in {Len(queue[c]), CloseBatch} /\ n <= Len(queue[c]) /\ n <= CloseBatch
  <2>1. \E x \in {Len(queue[c]), CloseBatch} : \A y \in {Len(queue[c]), CloseBatch} : x <= y
    BY <1>1
  <2> QED BY <1>1, <2>1 DEF Min
<1>3. n \in Nat /\ n <= Len(queue[c])
  BY <1>1, <1>2
<1>4. /\ queue' = [queue EXCEPT ![c] = SubSeq(queue[c], n + 1, Len(queue[c]))]
      /\ batch' = [batch EXCEPT ![c] = SubSeq(queue[c], 1, n)]
  BY DEF TakeBatch
<1>. HIDE DEF n
<1>5. SubSeq(queue[c], 1, n) \in Seq(Items)
  <2>1. \A i \in 1..n : queue[c][i] \in Items
    BY <1>1, <1>3, ElementOfSeq
  <2> QED BY <1>1, <1>3, <2>1, SubSeqProperties
<1>6. SubSeq(queue[c], n + 1, Len(queue[c])) \in Seq(Items)
  <2>1. \A i \in (n + 1)..Len(queue[c]) : queue[c][i] \in Items
    BY <1>1, <1>3, ElementOfSeq
  <2> QED BY <1>1, <1>3, <2>1, SubSeqProperties
<1>7. ASSUME LastBatch(c) PROVE SubSeq(queue[c], n + 1, Len(queue[c])) = <<>>
  <2>1. n = Len(queue[c])
    BY <1>1, <1>2, <1>7 DEF LastBatch
  <2> QED BY <1>1, <2>1, SubSeqEmpty
<1>8. /\ parent' \in [Items -> Channels \union {None}]
      /\ status' \in [Items -> Statuses]
  BY DEF TakeBatch, TakeParents, TypeOK, Statuses
<1>9. rpc' = [rpc EXCEPT ![c] = IF LastBatch(c) THEN "respondLast" ELSE "respond"]
  BY DEF TakeBatch
<1>10. /\ queue' \in [Channels -> Seq(Items)] /\ batch' \in [Channels -> Seq(Items)]
       /\ \A d \in Channels \ {c} : queue'[d] = queue[d]
       /\ queue'[c] = SubSeq(queue[c], n + 1, Len(queue[c]))
  BY <1>4, <1>5, <1>6 DEF TypeOK
<1> QED BY <1>7, <1>8, <1>9, <1>10

-----------------------------------------------------------------------------
(* What the steps of senders, requests and wakers preserve.                *)

\* The places of the receivers and the mutexes are the same.
LEMMA SameLocks == LockInv /\ UNCHANGED <<rpc, lock, dest>> => LockInv'
BY DEF LockInv, FirstLock

\* So are the channels.
LEMMA SameChannels == CloseInv /\ UNCHANGED <<rpc, flags, value, queue>> => CloseInv'
BY DEF CloseInv, ClosedChannelStaysEmpty, Resolution

LEMMA SameWakers ==
    ASSUME WakeInv, UNCHANGED <<rpc, queue, rwaker, taskVars, waking>>
    PROVE  WakeInv'
BY DEF WakeInv, Called, Waits, taskVars

\* A thread without a waker takes that of d, and nobody else's queue gets an item.
LEMMA TakeWakerWakes ==
    ASSUME MInv, NEW t \in Threads, NEW d \in Channels, waking[t] = {}, TakeWaker(t, d),
           UNCHANGED taskVars,
           \A c \in Channels \ {d} : queue'[c] \in {queue[c], <<>>},
           \A c \in Channels : rpc'[c] # "idle" => ~asleep[c]
    PROVE  WakeInv'
<1>1. TypeOK /\ WakeInv /\ None \notin RTasks
  BY MpscAssumption DEF MInv
<1>2. asleep' = asleep /\ rtask' = rtask /\ woken' = woken
  BY DEF taskVars
<1>3. ASSUME NEW c \in Channels, asleep[c]
      PROVE  rtask[c] \in RTasks /\ (woken[c] \/ Called(c)' \/ Waits(c)')
  <2>1. rtask[c] \in RTasks /\ (woken[c] \/ Called(c) \/ Waits(c))
    BY <1>1, <1>3 DEF WakeInv
  <2>2. CASE Called(c)
    <3>1. PICK u \in Threads : <<c, rtask[c]>> \in waking[u]
      BY <2>2 DEF Called
    <3>2. waking'[u] = waking[u]
      BY <1>1, <3>1 DEF TakeWaker, TypeOK
    <3> QED BY <1>2, <2>1, <3>1, <3>2 DEF Called
  <2>3. CASE Waits(c) /\ c # d
    <3>1. queue'[c] = <<>> /\ rwaker'[c] = rtask[c]
      BY <1>1, <2>3 DEF Waits, TakeWaker, TypeOK
    <3> QED BY <1>2, <2>1, <3>1 DEF Waits
  <2>4. CASE Waits(c) /\ c = d
    <3>1. rwaker[d] # None /\ rwaker[d] = rtask[c]
      BY <1>1, <2>1, <2>4 DEF Waits
    <3>2. <<c, rtask[c]>> \in waking'[t]
      BY <1>1, <2>4, <3>1 DEF TakeWaker, TypeOK
    <3> QED BY <1>2, <2>1, <3>2 DEF Called
  <2> QED BY <2>1, <2>2, <2>3, <2>4
<1> QED BY <1>2, <1>3 DEF WakeInv

LEMMA SendReturnsType ==
    ASSUME TypeOK, ThreadInv, NEW s \in Senders, NEW st \in Statuses, sends[s] < MaxSends,
           SendReturns(s, st)
    PROVE  /\ status' \in [Items -> Statuses]
           /\ sends' \in [Senders -> 0..MaxSends]
           /\ target' \in [Senders -> Channels \union {None}]
           /\ target'[s] = None
           /\ \A r \in Senders \ {s} : target'[r] = target[r] /\ sends'[r] = sends[r]
<1>1. /\ sends \in [Senders -> 0..MaxSends] /\ sends[s] + 1 \in 0..MaxSends
      /\ status \in [Items -> Statuses]
      /\ target \in [Senders -> Channels \union {None}]
  BY MpscAssumption DEF TypeOK
<1>2. /\ status' = [status EXCEPT ![Sending(s)] = st]
      /\ sends' = [sends EXCEPT ![s] = sends[s] + 1]
      /\ target' = [target EXCEPT ![s] = None]
  BY DEF SendReturns
<1>3. status' \in [Items -> Statuses]
  BY <1>1, <1>2
<1>4. /\ sends' \in [Senders -> 0..MaxSends]
      /\ \A r \in Senders \ {s} : sends'[r] = sends[r]
  BY <1>1, <1>2
<1>5. /\ target' \in [Senders -> Channels \union {None}] /\ target'[s] = None
      /\ \A r \in Senders \ {s} : target'[r] = target[r]
  BY <1>1, <1>2
<1> QED BY <1>3, <1>4, <1>5

LEMMA BeginSendKeeps ==
    ASSUME MInv, NEW s \in Senders, BeginSend(s)
    PROVE  MInv'
<1> USE DEF MInv
<1>1. /\ UNCHANGED <<chanVars, lock, parent, finished, panicked, got, recvVars, taskVars, waking>>
      /\ sends[s] < MaxSends /\ waking[s] = {}
  BY DEF BeginSend
<1>2. /\ status' \in [Items -> Statuses]
      /\ sends' \in [Senders -> 0..MaxSends]
      /\ target' \in [Senders -> Channels \union {None}]
      /\ target'[s] # None => sends'[s] = sends[s]
      /\ \A r \in Senders \ {s} : target'[r] = target[r] /\ sends'[r] = sends[r]
  <2> DEFINE m == MostResolved(Home[s])
  <2>1. m \in Channels
    BY ResolvesToChannel, MpscAssumption
  <2> HIDE DEF m
  <2>2. CASE SendReturns(s, "Returned")
    BY <1>1, <2>2, SendReturnsType DEF Statuses
  <2>3. CASE target' = [target EXCEPT ![s] = m] /\ UNCHANGED <<status, sends>>
    BY <2>1, <2>3 DEF TypeOK
  <2> QED BY <2>2, <2>3 DEF BeginSend, m
<1>3. TypeOK'
  BY <1>1, <1>2 DEF TypeOK, chanVars, recvVars, taskVars
<1>4. ThreadInv'
  BY <1>1, <1>2 DEF ThreadInv, recvVars
<1>5. LockInv' /\ CloseInv' /\ WakeInv'
  BY <1>1, SameLocks, SameChannels, SameWakers DEF recvVars, chanVars
<1> QED BY <1>3, <1>4, <1>5

LEMMA FinishSendKeeps ==
    ASSUME MInv, NEW s \in Senders, FinishSend(s)
    PROVE  MInv'
<1> USE DEF MInv
<1> DEFINE c == target[s]
           m == MostResolved(c)
           i == Sending(s)
<1>1. /\ UNCHANGED <<lock, finished, panicked, got, recvVars, taskVars>>
      /\ c \in Channels /\ sends[s] < MaxSends /\ waking[s] = {}
  BY DEF FinishSend, TypeOK, ThreadInv
<1>2. i \in Items /\ m \in Channels /\ s \in Threads
  BY <1>1, ResolvesToChannel, MpscAssumption DEF Sending, Items, TypeOK, Threads
<1>3. CASE /\ SendReturns(s, "Returned") \/ SendReturns(s, "Discarded")
           /\ UNCHANGED <<chanVars, parent, waking>>
  <2>1. /\ status' \in [Items -> Statuses]
        /\ sends' \in [Senders -> 0..MaxSends]
        /\ target' \in [Senders -> Channels \union {None}]
        /\ target'[s] = None
        /\ \A r \in Senders \ {s} : target'[r] = target[r] /\ sends'[r] = sends[r]
    BY <1>1, <1>3, SendReturnsType DEF Statuses
  <2>2. TypeOK'
    BY <1>1, <1>3, <2>1 DEF TypeOK, chanVars, recvVars, taskVars
  <2>3. ThreadInv'
    BY <1>1, <1>3, <2>1 DEF ThreadInv, recvVars
  <2>4. LockInv' /\ CloseInv' /\ WakeInv'
    BY <1>1, <1>3, SameLocks, SameChannels, SameWakers DEF recvVars, chanVars
  <2> QED BY <2>2, <2>3, <2>4
<1>4. CASE /\ Unresolved(m)
           /\ queue' = [queue EXCEPT ![c] = Append(@, i)]
           /\ parent' = IF i \in Requests THEN [parent EXCEPT ![i] = m] ELSE parent
           /\ SendReturns(s, "Queued")
           /\ TakeWaker(s, c)
           /\ UNCHANGED <<flags, value>>
  <2>1. /\ status' \in [Items -> Statuses]
        /\ sends' \in [Senders -> 0..MaxSends]
        /\ target' \in [Senders -> Channels \union {None}]
        /\ target'[s] = None
        /\ \A r \in Senders \ {s} : target'[r] = target[r] /\ sends'[r] = sends[r]
    BY <1>1, <1>4, SendReturnsType DEF Statuses
  <2>2. /\ rwaker' \in [Channels -> RTasks \union {None}]
        /\ waking' \in [Threads -> SUBSET (Channels \X RTasks)]
    BY <1>1, <1>2, <1>4, TakeWakerType
  <2>3. queue' \in [Channels -> Seq(Items)] /\ \A d \in Channels \ {c} : queue'[d] = queue[d]
    <3>1. Append(queue[c], i) \in Seq(Items)
      BY <1>1, <1>2, AppendProperties DEF TypeOK
    <3> HIDE DEF c, i
    <3> QED BY <1>4, <3>1 DEF TypeOK
  <2>4. parent' \in [Items -> Channels \union {None}]
    <3> HIDE DEF m, i
    <3> QED BY <1>2, <1>4 DEF TypeOK
  <2>5. TypeOK'
    BY <1>1, <1>4, <2>1, <2>2, <2>3, <2>4 DEF TypeOK, recvVars, taskVars
  <2>6. /\ \A t \in Threads \ {s} : waking'[t] = waking[t]
        /\ \A v, w \in waking'[s] : v = w
    BY <1>2, <1>4 DEF TakeWaker, TypeOK
  <2>7. ThreadInv'
    <3>1. \A r \in Senders : target'[r] # None => sends'[r] < MaxSends /\ waking'[r] = {}
      BY <2>1, <2>6 DEF ThreadInv, Threads
    <3>2. \A d \in Channels : rpc[d] \in {"lockA", "lockB"} => waking'[d] = {}
      BY <2>6, MpscAssumption DEF ThreadInv, Threads
    <3>3. \A t \in Threads : \A v, w \in waking'[t] : v = w
      BY <2>6 DEF ThreadInv
    <3> QED BY <1>1, <3>1, <3>2, <3>3 DEF ThreadInv, recvVars
  <2>8. LockInv'
    BY <1>1, SameLocks DEF recvVars
  <2>9. CloseInv'
    <3>1. Resolution(c) # "Error"
      BY <1>1, <1>4, OpenEndIsNotError
    <3>2. rpc[c] # "respondLast"
      BY <1>1, <3>1 DEF CloseInv
    <3>3. rpc' = rpc /\ \A d \in Channels : Resolution(d)' = Resolution(d) /\ flags'[d] = flags[d]
      BY <1>1, <1>4 DEF Resolution, recvVars
    <3> QED BY <1>1, <2>3, <3>1, <3>2, <3>3 DEF CloseInv, ClosedChannelStaysEmpty
  <2>10. WakeInv'
    <3>1. \A d \in Channels : rpc'[d] # "idle" => ~asleep[d]
      BY <1>1 DEF WakeInv, recvVars
    <3>2. UNCHANGED taskVars /\ TakeWaker(s, c)
      BY <1>1, <1>4
    <3> HIDE DEF c
    <3> QED BY <1>1, <1>2, <2>3, <3>1, <3>2, TakeWakerWakes
  <2> QED BY <2>5, <2>7, <2>8, <2>9, <2>10
<1> QED BY <1>3, <1>4 DEF FinishSend

LEMMA RequestKeeps ==
    ASSUME MInv, NEW i \in Requests, RequestStep(i)
    PROVE  MInv'
<1> USE DEF MInv
<1>1. /\ UNCHANGED <<chanVars, lock, parent, status, got, sendVars, recvVars, taskVars, waking>>
      /\ finished' \in [Items -> {"no", "closed", "done"}]
      /\ panicked' \subseteq Requests
  BY DEF RequestStep, FinishRequest, TryRemoveFromChannel, TypeOK
<1>2. TypeOK'
  BY <1>1 DEF TypeOK, chanVars, sendVars, recvVars, taskVars
<1>3. ThreadInv'
  BY <1>1 DEF ThreadInv, recvVars, sendVars
<1>4. LockInv' /\ CloseInv' /\ WakeInv'
  BY <1>1, SameLocks, SameChannels, SameWakers DEF recvVars, chanVars
<1> QED BY <1>2, <1>3, <1>4

LEMMA CallWakerKeeps ==
    ASSUME MInv, NEW t \in Threads, CallWaker(t)
    PROVE  MInv'
<1> USE DEF MInv
<1>1. PICK w \in waking[t] :
        /\ waking' = [waking EXCEPT ![t] = {}]
        /\ woken' = [woken EXCEPT ![w[1]] = @ \/ (asleep[w[1]] /\ rtask[w[1]] = w[2])]
        /\ UNCHANGED <<chanVars, lock, itemVars, sendVars, recvVars, asleep, rtask>>
  BY DEF CallWaker
<1>2. w \in Channels \X RTasks /\ asleep[w[1]] \in BOOLEAN /\ woken[w[1]] \in BOOLEAN
  BY DEF TypeOK
<1>3. TypeOK'
  <2>1. /\ waking' \in [Threads -> SUBSET (Channels \X RTasks)]
        /\ woken' \in [Channels -> BOOLEAN]
    BY <1>1, <1>2 DEF TypeOK
  <2> QED BY <1>1, <2>1 DEF TypeOK, chanVars, itemVars, sendVars, recvVars
<1>4. waking'[t] = {} /\ \A u \in Threads \ {t} : waking'[u] = waking[u]
  BY <1>1 DEF TypeOK
<1>5. ThreadInv'
  <2>1. \A u \in Threads : waking'[u] \in {{}, waking[u]}
    BY <1>4
  <2>2. /\ \A s \in Senders : s \in Threads
        /\ \A c \in Channels : c \in Threads
    BY DEF Threads
  <2> QED BY <1>1, <2>1, <2>2 DEF ThreadInv, sendVars, recvVars
<1>6. LockInv' /\ CloseInv'
  BY <1>1, SameLocks, SameChannels DEF recvVars, chanVars
<1>7. WakeInv'
  <2>1. rpc' = rpc /\ asleep' = asleep /\ rtask' = rtask /\ queue' = queue /\ rwaker' = rwaker
    BY <1>1 DEF recvVars, chanVars
  <2>2. ASSUME NEW c \in Channels, asleep[c]
        PROVE  rtask[c] \in RTasks /\ (woken'[c] \/ Called(c)' \/ Waits(c)')
    <3>1. rtask[c] \in RTasks /\ (woken[c] \/ Called(c) \/ Waits(c))
      BY <2>2 DEF WakeInv
    <3>2. CASE woken[c]
      <4>1. woken'[c]
        BY <1>1, <1>2, <3>2 DEF TypeOK
      <4> QED BY <3>1, <4>1
    <3>3. CASE Called(c)
      <4>1. PICK u \in Threads : <<c, rtask[c]>> \in waking[u]
        BY <3>3 DEF Called
      <4>2. CASE u = t
        <5>1. w = <<c, rtask[c]>>
          BY <4>1, <4>2 DEF ThreadInv
        <5>2. woken'[c]
          BY <1>1, <2>2, <5>1 DEF TypeOK
        <5> QED BY <3>1, <5>2
      <4>3. CASE u # t
        BY <1>4, <2>1, <3>1, <4>1, <4>3 DEF Called
      <4> QED BY <4>2, <4>3
    <3>4. CASE Waits(c)
      BY <2>1, <3>1, <3>4 DEF Waits
    <3> QED BY <3>1, <3>2, <3>3, <3>4
  <2> QED BY <2>1, <2>2 DEF WakeInv
<1> QED BY <1>3, <1>5, <1>6, <1>7

-----------------------------------------------------------------------------
(* What the steps of receivers preserve.                                   *)

\* The step of receiver c leaves the others where they are.
OthersStay(c) ==
    \A d \in Channels \ {c} : rpc'[d] = rpc[d] /\ dest'[d] = dest[d]

LEMMA SameThreads ==
    ASSUME ThreadInv, UNCHANGED <<sendVars, waking>>,
           \A c \in Channels :
              rpc'[c] \in {"lockA", "lockB"} => rpc[c] \in {"lockA", "lockB"} \/ waking[c] = {}
    PROVE  ThreadInv'
BY DEF ThreadInv, sendVars

LEMMA OtherLocks ==
    ASSUME TypeOK, LockInv, NEW c \in Channels, OthersStay(c), lock' = lock,
           rpc[c] # "lockB", rpc'[c] # "lockB",
           rpc'[c] = "lockA" => dest'[c] \in Channels \ {c}
    PROVE  LockInv'
<1>1. \A x \in Channels : lock[x] # None => lock[x] \in Channels \ {c}
  BY DEF TypeOK, LockInv
<1>2. \A d \in Channels \ {c} : FirstLock(d)' = FirstLock(d)
  BY DEF OthersStay, FirstLock
<1> QED BY <1>1, <1>2 DEF LockInv, OthersStay

LEMMA AwakeType ==
    ASSUME TypeOK, NEW c \in Channels, Awake(c)
    PROVE  /\ asleep' \in [Channels -> BOOLEAN] /\ woken' \in [Channels -> BOOLEAN]
           /\ rtask' = rtask /\ ~asleep'[c]
           /\ \A d \in Channels \ {c} : asleep'[d] = asleep[d] /\ woken'[d] = woken[d]
BY DEF TypeOK, Awake

\* A receiver that has just done something else does not sleep.
LEMMA AwakeWakes ==
    ASSUME TypeOK, WakeInv, NEW c \in Channels, Awake(c), OthersStay(c), waking' = waking,
           \A d \in Channels \ {c} : queue'[d] = queue[d] /\ rwaker'[d] = rwaker[d]
    PROVE  WakeInv'
<1>1. /\ rtask' = rtask /\ ~asleep'[c]
      /\ \A d \in Channels \ {c} : asleep'[d] = asleep[d] /\ woken'[d] = woken[d]
  BY AwakeType
<1>2. \A d \in Channels \ {c} : (Called(d)' <=> Called(d)) /\ (Waits(d)' <=> Waits(d))
  BY <1>1 DEF Called, Waits
<1> QED BY <1>1, <1>2 DEF WakeInv, OthersStay

LEMMA DeliverType ==
    ASSUME TypeOK, NEW c \in Channels, queue[c] # <<>>, Deliver(c)
    PROVE  /\ queue' \in [Channels -> Seq(Items)] /\ \A d \in Channels \ {c} : queue'[d] = queue[d]
           /\ status' \in [Items -> Statuses] /\ got' \in Seq(Items) /\ Head(queue[c]) \in Items
<1>1. Head(queue[c]) \in Items /\ Tail(queue[c]) \in Seq(Items)
  BY HeadTailProperties DEF TypeOK
<1>2. got' \in Seq(Items)
  BY <1>1, AppendProperties DEF TypeOK, Deliver
<1> QED BY <1>1, <1>2 DEF TypeOK, Deliver, Statuses

\* Receiving from a channel that is not closed.
LEMMA DeliverKeepsClosed ==
    ASSUME TypeOK, CloseInv, NEW c \in Channels, UNCHANGED <<rpc, flags, value>>, rpc[c] = "idle",
           \A d \in Channels \ {c} : queue'[d] = queue[d]
    PROVE  CloseInv'
BY DEF CloseInv, ClosedChannelStaysEmpty, Resolution

LEMMA PollRecvKeeps ==
    ASSUME MInv, NEW c \in Channels, NEW t \in RTasks, PollRecv(c, t)
    PROVE  MInv'
<1> USE DEF MInv
<1>1. /\ UNCHANGED <<flags, value, lock, finished, panicked, sendVars, recvVars, waking>>
      /\ rpc[c] = "idle"
  BY DEF PollRecv, Idle
<1>2. LockInv' /\ ThreadInv' /\ OthersStay(c)
  BY <1>1, SameLocks, SameThreads DEF recvVars, OthersStay
<1>3. CASE /\ queue[c] # <<>> /\ Deliver(c)
           /\ parent' = [parent EXCEPT ![Head(queue[c])] = None]
           /\ Awake(c) /\ UNCHANGED rwaker
  <2>1. /\ queue' \in [Channels -> Seq(Items)] /\ \A d \in Channels \ {c} : queue'[d] = queue[d]
        /\ status' \in [Items -> Statuses] /\ got' \in Seq(Items) /\ Head(queue[c]) \in Items
    BY <1>3, DeliverType
  <2>2. parent' \in [Items -> Channels \union {None}]
    BY <1>3 DEF TypeOK
  <2>3. TypeOK'
    BY <1>1, <1>3, <2>1, <2>2, AwakeType DEF TypeOK, sendVars, recvVars
  <2>4. CloseInv'
    BY <1>1, <2>1, DeliverKeepsClosed DEF recvVars
  <2>5. WakeInv'
    BY <1>1, <1>2, <1>3, <2>1, AwakeWakes
  <2> QED BY <1>2, <2>3, <2>4, <2>5
<1>4. CASE /\ queue[c] = <<>>
           /\ rwaker' = [rwaker EXCEPT ![c] = t]
           /\ asleep' = [asleep EXCEPT ![c] = TRUE]
           /\ rtask' = [rtask EXCEPT ![c] = t]
           /\ woken' = [woken EXCEPT ![c] = FALSE]
           /\ UNCHANGED <<queue, status, got, parent>>
  <2>1. /\ rwaker' \in [Channels -> RTasks \union {None}]
        /\ asleep' \in [Channels -> BOOLEAN]
        /\ rtask' \in [Channels -> RTasks \union {None}]
        /\ woken' \in [Channels -> BOOLEAN]
    BY <1>4 DEF TypeOK
  <2>2. TypeOK'
    BY <1>1, <1>4, <2>1 DEF TypeOK, sendVars, recvVars
  <2>3. CloseInv'
    BY <1>1, <1>4, SameChannels DEF recvVars
  <2>4. WakeInv'
    <3>1. rtask'[c] = t /\ rwaker'[c] = t /\ queue'[c] = <<>>
      BY <1>4 DEF TypeOK
    <3>2. \A d \in Channels \ {c} :
              /\ asleep'[d] = asleep[d] /\ rtask'[d] = rtask[d] /\ woken'[d] = woken[d]
              /\ rwaker'[d] = rwaker[d]
      BY <1>4 DEF TypeOK
    <3>3. \A d \in Channels \ {c} : (Called(d)' <=> Called(d)) /\ (Waits(d)' <=> Waits(d))
      BY <1>1, <1>4, <3>2 DEF Called, Waits
    <3>4. rpc' = rpc
      BY <1>1 DEF recvVars
    <3> QED BY <1>1, <3>1, <3>2, <3>3, <3>4 DEF WakeInv, Waits
  <2> QED BY <1>2, <2>2, <2>3, <2>4
<1> QED BY <1>3, <1>4 DEF PollRecv

LEMMA TryRecvKeeps ==
    ASSUME MInv, NEW c \in Channels, TryRecv(c)
    PROVE  MInv'
<1> USE DEF MInv
<1>1. /\ UNCHANGED <<rwaker, flags, value, lock, parent, finished, panicked, sendVars, recvVars, waking>>
      /\ rpc[c] = "idle" /\ queue[c] # <<>> /\ Deliver(c) /\ Awake(c)
  BY DEF TryRecv, Idle
<1>2. LockInv' /\ ThreadInv' /\ OthersStay(c)
  BY <1>1, SameLocks, SameThreads DEF recvVars, OthersStay
<1>3. /\ queue' \in [Channels -> Seq(Items)] /\ \A d \in Channels \ {c} : queue'[d] = queue[d]
      /\ status' \in [Items -> Statuses] /\ got' \in Seq(Items)
  BY <1>1, DeliverType
<1>4. TypeOK'
  BY <1>1, <1>3, AwakeType DEF TypeOK, sendVars, recvVars
<1>5. CloseInv'
  BY <1>1, <1>3, DeliverKeepsClosed DEF recvVars
<1>6. WakeInv'
  BY <1>1, <1>2, <1>3, AwakeWakes
<1> QED BY <1>2, <1>4, <1>5, <1>6

\* Raising SEND_CLOSED does not close a channel with an error.
LEMMA CloseReceiverKeeps ==
    ASSUME TypeOK, NEW c \in Channels, flags[c] = {}, CloseReceiver(c)
    PROVE  /\ flags' \in [Channels -> SUBSET StateFlags]
           /\ \A d \in Channels \ {c} : flags'[d] = flags[d]
           /\ Resolution(c)' = "Dropped"
<1>1. flags' = [flags EXCEPT ![c] = {"SEND_CLOSED"}]
  BY DEF CloseReceiver, SetFlag
<1>2. flags'[c] = {"SEND_CLOSED"}
  BY <1>1 DEF TypeOK
<1> QED BY <1>1, <1>2 DEF TypeOK, StateFlags, Resolution, ShotState

\* What resolving c, and being done with it, leaves of the invariant of the closed.
LEMMA OthersStayClosed ==
    ASSUME CloseInv, NEW c \in Channels, OthersStay(c),
           \A d \in Channels \ {c} :
              /\ flags'[d] = flags[d] /\ value'[d] = value[d]
              /\ queue'[d] = queue[d] \/ Resolution(d) # "Error",
           rpc'[c] \notin {"idle", "lockA", "lockB", "close"},
           rpc'[c] = "gone" => Resolution(c)' # "Error" \/ queue'[c] = <<>>,
           rpc'[c] \in {"respond", "closeMore", "respondLast"} => Resolution(c)' = "Error",
           rpc'[c] = "respondLast" => queue'[c] = <<>>
    PROVE  CloseInv'
<1>1. \A d \in Channels \ {c} : Resolution(d)' = Resolution(d) /\ rpc'[d] = rpc[d]
  BY DEF Resolution, OthersStay
<1> QED BY <1>1 DEF CloseInv, ClosedChannelStaysEmpty

\* The same while c is still unresolved.
LEMMA StaysOpen ==
    ASSUME TypeOK, CloseInv, NEW c \in Channels, OthersStay(c), UNCHANGED <<flags, value, queue>>,
           flags[c] = {}, rpc'[c] \in {"idle", "lockA", "lockB", "close"}
    PROVE  CloseInv'
<1>1. \A d \in Channels : Resolution(d)' = Resolution(d)
  BY DEF Resolution
<1> QED BY <1>1 DEF CloseInv, ClosedChannelStaysEmpty, OthersStay

LEMMA DropReceiverKeeps ==
    ASSUME MInv, NEW c \in Channels, DropReceiver(c)
    PROVE  MInv'
<1> USE DEF MInv
<1>1. /\ UNCHANGED <<queue, rwaker, value, lock, itemVars, sendVars, dest, batch, waking>>
      /\ rpc[c] = "idle" /\ CloseReceiver(c) /\ Awake(c) /\ flags[c] = {}
      /\ rpc' = [rpc EXCEPT ![c] = "gone"]
  BY DEF DropReceiver, Idle, CloseInv
<1>2. rpc' \in [Channels -> ReceiverPCs] /\ rpc'[c] = "gone" /\ OthersStay(c)
  BY <1>1 DEF TypeOK, ReceiverPCs, OthersStay
<1>3. TypeOK'
  BY <1>1, <1>2, CloseReceiverKeeps, AwakeType DEF TypeOK, itemVars, sendVars
<1>4. ThreadInv'
  BY <1>1, <1>2, SameThreads DEF OthersStay
<1>5. LockInv'
  BY <1>1, <1>2, OtherLocks
<1>6. CloseInv'
  BY <1>1, <1>2, CloseReceiverKeeps, OthersStayClosed
<1>7. WakeInv'
  BY <1>1, <1>2, AwakeWakes
<1> QED BY <1>3, <1>4, <1>5, <1>6, <1>7

LEMMA BeginCloseKeeps ==
    ASSUME MInv, NEW c \in Channels, BeginClose(c)
    PROVE  MInv'
<1> USE DEF MInv
<1>1. /\ UNCHANGED <<chanVars, lock, itemVars, sendVars, dest, batch, waking>>
      /\ rpc[c] = "idle" /\ Awake(c) /\ flags[c] = {}
      /\ rpc' = [rpc EXCEPT ![c] = "close"]
  BY DEF BeginClose, Idle, CloseInv
<1>2. rpc' \in [Channels -> ReceiverPCs] /\ rpc'[c] = "close" /\ OthersStay(c)
  BY <1>1 DEF TypeOK, ReceiverPCs, OthersStay
<1>3. TypeOK'
  BY <1>1, <1>2, AwakeType DEF TypeOK, chanVars, itemVars, sendVars
<1>4. ThreadInv'
  BY <1>1, <1>2, SameThreads DEF OthersStay
<1>5. LockInv'
  BY <1>1, <1>2, OtherLocks
<1>6. CloseInv'
  BY <1>1, <1>2, StaysOpen DEF chanVars
<1>7. WakeInv'
  BY <1>1, <1>2, AwakeWakes DEF chanVars
<1> QED BY <1>3, <1>4, <1>5, <1>6, <1>7

LEMMA BeginForwardKeeps ==
    ASSUME MInv, NEW c \in Channels, NEW d \in Channels, BeginForward(c, d)
    PROVE  MInv'
<1> USE DEF MInv
<1> DEFINE m == MostResolved(d)
<1>1. /\ UNCHANGED <<queue, rwaker, value, lock, itemVars, sendVars, batch, waking>>
      /\ rpc[c] = "idle" /\ waking[c] = {} /\ Awake(c) /\ flags[c] = {}
  BY DEF BeginForward, Idle, CloseInv
<1>2. m \in Channels
  BY ResolvesToChannel
<1> HIDE DEF m
<1>3. CASE CloseReceiver(c) /\ rpc' = [rpc EXCEPT ![c] = "gone"] /\ UNCHANGED dest
  <2>1. rpc' \in [Channels -> ReceiverPCs] /\ rpc'[c] = "gone" /\ OthersStay(c)
    BY <1>3 DEF TypeOK, ReceiverPCs, OthersStay
  <2>2. TypeOK'
    BY <1>1, <1>3, <2>1, CloseReceiverKeeps, AwakeType DEF TypeOK, itemVars, sendVars
  <2>3. ThreadInv'
    BY <1>1, <2>1, SameThreads DEF OthersStay
  <2>4. LockInv'
    BY <1>1, <2>1, OtherLocks
  <2>5. CloseInv'
    BY <1>1, <1>3, <2>1, CloseReceiverKeeps, OthersStayClosed
  <2>6. WakeInv'
    BY <1>1, <2>1, AwakeWakes
  <2> QED BY <2>2, <2>3, <2>4, <2>5, <2>6
<1>4. CASE \/ rpc' = [rpc EXCEPT ![c] = "close"] /\ UNCHANGED <<flags, dest>>
           \/ /\ m # c /\ UNCHANGED flags
              /\ rpc' = [rpc EXCEPT ![c] = "lockA"]
              /\ dest' = [dest EXCEPT ![c] = m]
  <2>1. /\ rpc' \in [Channels -> ReceiverPCs] /\ rpc'[c] \in {"close", "lockA"} /\ OthersStay(c)
        /\ dest' \in [Channels -> Channels \union {None}] /\ flags' = flags
        /\ rpc'[c] = "lockA" => dest'[c] \in Channels \ {c}
    <3>1. CASE rpc' = [rpc EXCEPT ![c] = "close"] /\ UNCHANGED <<flags, dest>>
      BY <3>1 DEF TypeOK, ReceiverPCs, OthersStay
    <3>2. CASE /\ m # c /\ UNCHANGED flags
               /\ rpc' = [rpc EXCEPT ![c] = "lockA"]
               /\ dest' = [dest EXCEPT ![c] = m]
      <4>1. rpc' \in [Channels -> ReceiverPCs] /\ rpc'[c] = "lockA"
        BY <3>2 DEF TypeOK, ReceiverPCs
      <4>2. dest' \in [Channels -> Channels \union {None}] /\ dest'[c] = m
        BY <1>2, <3>2 DEF TypeOK
      <4>3. OthersStay(c)
        BY <3>2 DEF TypeOK, OthersStay
      <4> QED BY <1>2, <3>2, <4>1, <4>2, <4>3
    <3> QED BY <1>4, <3>1, <3>2
  <2>2. TypeOK'
    BY <1>1, <2>1, AwakeType DEF TypeOK, itemVars, sendVars
  <2>3. ThreadInv'
    BY <1>1, <2>1, SameThreads DEF OthersStay
  <2>4. LockInv'
    BY <1>1, <2>1, OtherLocks
  <2>5. CloseInv'
    BY <1>1, <2>1, StaysOpen
  <2>6. WakeInv'
    BY <1>1, <2>1, AwakeWakes
  <2> QED BY <2>2, <2>3, <2>4, <2>5, <2>6
<1> QED BY <1>3, <1>4 DEF BeginForward, m

\* The mutexes of a forward are two.
LEMMA TwoLocks ==
    ASSUME TypeOK, LockInv, NEW c \in Channels, rpc[c] \in {"lockA", "lockB"}
    PROVE  /\ dest[c] \in Channels \ {c}
           /\ FirstLock(c) \in {c, dest[c]} /\ SecondLock(c) \in Channels
           /\ Addr[FirstLock(c)] < Addr[SecondLock(c)]
<1>1. dest[c] \in Channels \ {c}
  BY DEF LockInv
<1>2. Addr[c] \in Nat /\ Addr[dest[c]] \in Nat /\ Addr[c] # Addr[dest[c]]
  BY <1>1, MpscAssumption
<1> QED BY <1>1, <1>2 DEF FirstLock, SecondLock

LEMMA LockAKeeps ==
    ASSUME MInv, NEW c \in Channels, LockA(c)
    PROVE  MInv'
<1> USE DEF MInv
<1>1. /\ UNCHANGED <<chanVars, itemVars, sendVars, dest, batch, taskVars, waking>>
      /\ rpc[c] = "lockA" /\ lock[FirstLock(c)] = None
      /\ lock' = [lock EXCEPT ![FirstLock(c)] = c]
      /\ rpc' = [rpc EXCEPT ![c] = "lockB"]
      /\ FirstLock(c) \in Channels /\ flags[c] = {}
  BY TwoLocks DEF LockA, Free, CloseInv
<1>2. rpc' \in [Channels -> ReceiverPCs] /\ rpc'[c] = "lockB" /\ OthersStay(c)
  BY <1>1 DEF TypeOK, ReceiverPCs, OthersStay
<1>3. TypeOK'
  BY <1>1, <1>2 DEF TypeOK, chanVars, itemVars, sendVars, taskVars
<1>4. ThreadInv'
  BY <1>1, <1>2, SameThreads DEF OthersStay
<1>5. LockInv'
  <2>1. \A d \in Channels : FirstLock(d)' = FirstLock(d) /\ dest'[d] = dest[d]
    BY <1>1 DEF FirstLock
  <2>2. lock'[FirstLock(c)] = c /\ \A x \in Channels \ {FirstLock(c)} : lock'[x] = lock[x]
    BY <1>1 DEF TypeOK
  <2>3. \A x \in Channels : lock[x] # None => lock[x] \in Channels \ {c}
    BY <1>1 DEF TypeOK, LockInv
  <2>4. \A d \in Channels \ {c} : rpc[d] = "lockB" => FirstLock(d) \in Channels \ {FirstLock(c)}
    BY <1>1, TwoLocks, MpscAssumption DEF LockInv
  <2> QED BY <1>1, <1>2, <2>1, <2>2, <2>3, <2>4 DEF LockInv, OthersStay
<1>6. CloseInv'
  BY <1>1, <1>2, StaysOpen DEF chanVars
<1>7. WakeInv'
  <2>1. /\ \A d \in Channels : rpc'[d] # "idle" => rpc[d] # "idle"
        /\ \A d \in Channels : (Called(d)' <=> Called(d)) /\ (Waits(d)' <=> Waits(d))
    BY <1>1, <1>2 DEF Called, Waits, OthersStay, chanVars, taskVars
  <2> QED BY <1>1, <2>1 DEF WakeInv, taskVars
<1> QED BY <1>3, <1>4, <1>5, <1>6, <1>7

LEMMA LockBKeeps ==
    ASSUME MInv, NEW c \in Channels, LockB(c)
    PROVE  MInv'
<1> USE DEF MInv
<1> DEFINE d == dest[c]
           m == MostResolved(d)
<1>1. /\ UNCHANGED <<itemVars, sendVars, batch, taskVars>>
      /\ rpc[c] = "lockB" /\ flags[c] = {} /\ waking[c] = {} /\ ~asleep[c]
      /\ lock' = [lock EXCEPT ![FirstLock(c)] = None]
      /\ dest' = [dest EXCEPT ![c] = None]
      /\ FirstLock(c) \in Channels /\ d \in Channels \ {c}
  BY TwoLocks DEF LockB, CloseInv, ThreadInv, WakeInv
<1>2. m \in Channels /\ c \in Threads
  BY <1>1, ResolvesToChannel DEF Threads
\* Where the receiver goes, the mutex it held is free again.
<1>3. ASSUME NEW pc \in {"gone", "close"}, rpc' = [rpc EXCEPT ![c] = pc]
      PROVE  /\ rpc' \in [Channels -> ReceiverPCs] /\ rpc'[c] = pc /\ OthersStay(c)
             /\ LockInv'
  <2>1. rpc' \in [Channels -> ReceiverPCs] /\ rpc'[c] = pc /\ OthersStay(c)
    BY <1>1, <1>3 DEF TypeOK, ReceiverPCs, OthersStay
  <2>2. lock'[FirstLock(c)] = None /\ \A x \in Channels \ {FirstLock(c)} : lock'[x] = lock[x]
    BY <1>1 DEF TypeOK
  <2>3. \A e \in Channels \ {c} : FirstLock(e)' = FirstLock(e)
    BY <2>1 DEF FirstLock, OthersStay
  <2>4. \A e \in Channels \ {c} : rpc[e] = "lockB" => FirstLock(e) \in Channels \ {FirstLock(c)}
    BY <1>1, TwoLocks, MpscAssumption DEF LockInv
  <2>5. \A x \in Channels \ {FirstLock(c)} : lock[x] # None => lock[x] \in Channels \ {c}
    BY DEF TypeOK, LockInv
  <2>6. LockInv'
    BY <2>1, <2>2, <2>3, <2>4, <2>5 DEF LockInv, OthersStay
  <2> QED BY <2>1, <2>6
<1>4. /\ lock' \in [Channels -> Channels \union {None}]
      /\ dest' \in [Channels -> Channels \union {None}]
  BY <1>1 DEF TypeOK
<1> HIDE DEF m, d
<1>5. CASE CloseReceiver(c) /\ rpc' = [rpc EXCEPT ![c] = "gone"]
           /\ UNCHANGED <<queue, rwaker, value, waking>>
  <2>1. /\ rpc' \in [Channels -> ReceiverPCs] /\ rpc'[c] = "gone" /\ OthersStay(c) /\ LockInv'
    BY <1>3, <1>5
  <2>2. TypeOK'
    BY <1>1, <1>4, <1>5, <2>1, CloseReceiverKeeps DEF TypeOK, itemVars, sendVars, taskVars
  <2>3. ThreadInv'
    BY <1>1, <1>5, <2>1, SameThreads DEF OthersStay
  <2>4. CloseInv'
    BY <1>1, <1>5, <2>1, CloseReceiverKeeps, OthersStayClosed
  <2>5. WakeInv'
    <3>1. \A e \in Channels : (Called(e)' <=> Called(e)) /\ (Waits(e)' <=> Waits(e))
      BY <1>1, <1>5 DEF Called, Waits, taskVars
    <3> QED BY <1>1, <2>1, <3>1 DEF WakeInv, taskVars, OthersStay
  <2> QED BY <2>1, <2>2, <2>3, <2>4, <2>5
<1>6. CASE rpc' = [rpc EXCEPT ![c] = "close"] /\ UNCHANGED <<chanVars, waking>>
  <2>1. /\ rpc' \in [Channels -> ReceiverPCs] /\ rpc'[c] = "close" /\ OthersStay(c) /\ LockInv'
    BY <1>3, <1>6
  <2>2. TypeOK'
    BY <1>1, <1>4, <1>6, <2>1 DEF TypeOK, itemVars, sendVars, taskVars, chanVars
  <2>3. ThreadInv'
    BY <1>1, <1>6, <2>1, SameThreads DEF OthersStay
  <2>4. CloseInv'
    BY <1>1, <1>6, <2>1, StaysOpen DEF chanVars
  <2>5. WakeInv'
    <3>1. \A e \in Channels : (Called(e)' <=> Called(e)) /\ (Waits(e)' <=> Waits(e))
      BY <1>1, <1>6 DEF Called, Waits, taskVars, chanVars
    <3> QED BY <1>1, <2>1, <3>1 DEF WakeInv, taskVars, OthersStay
  <2> QED BY <2>1, <2>2, <2>3, <2>4, <2>5
<1>7. CASE /\ Unresolved(m) /\ Resolve(c, m) /\ rpc' = [rpc EXCEPT ![c] = "gone"]
           /\ \/ queue[c] = <<>> /\ UNCHANGED <<queue, rwaker, waking>>
              \/ queue[c] # <<>> /\ MoveRequests(c, d)
  <2>1. /\ rpc' \in [Channels -> ReceiverPCs] /\ rpc'[c] = "gone" /\ OthersStay(c) /\ LockInv'
    BY <1>3, <1>7
  <2>2. /\ flags' \in [Channels -> SUBSET StateFlags]
        /\ value' \in [Channels -> Channels \union {None, Error}]
        /\ \A e \in Channels \ {c} : flags'[e] = flags[e] /\ value'[e] = value[e]
    BY <1>2, <1>7 DEF Resolve, TrySetValue, TypeOK, StateFlags
  <2>3. /\ rwaker' \in [Channels -> RTasks \union {None}]
        /\ waking' \in [Threads -> SUBSET (Channels \X RTasks)]
        /\ \A t \in Threads \ {c} : waking'[t] = waking[t]
        /\ \A v, w \in waking'[c] : v = w
    <3>1. CASE UNCHANGED <<rwaker, waking>>
      BY <1>2, <3>1 DEF TypeOK, ThreadInv
    <3>2. CASE TakeWaker(c, d)
      BY <1>1, <1>2, <3>2, TakeWakerType DEF TakeWaker, TypeOK, d
    <3> QED BY <1>7, <3>1, <3>2 DEF MoveRequests
  <2>4. /\ queue' \in [Channels -> Seq(Items)] /\ queue'[c] = <<>>
        /\ \A e \in Channels \ {c, d} : queue'[e] = queue[e]
    <3>1. CASE queue[c] = <<>> /\ UNCHANGED queue
      BY <3>1 DEF TypeOK
    <3>2. CASE queue' = [queue EXCEPT ![d] = @ \o queue[c], ![c] = <<>>]
      <4>1. queue[d] \in Seq(Items) /\ queue[c] \in Seq(Items) /\ d \in Channels \ {c}
        BY <1>1 DEF TypeOK, d
      <4>2. queue[d] \o queue[c] \in Seq(Items) /\ <<>> \in Seq(Items)
        BY <4>1, ConcatProperties, EmptySeq
      <4> QED BY <3>2, <4>1, <4>2 DEF TypeOK
    <3> QED BY <1>7, <3>1, <3>2 DEF MoveRequests
  <2>5. TypeOK'
    BY <1>1, <1>4, <2>1, <2>2, <2>3, <2>4 DEF TypeOK, itemVars, sendVars, taskVars
  <2>6. ThreadInv'
    <3>1. \A s \in Senders : target'[s] # None => sends'[s] < MaxSends /\ waking'[s] = {}
      BY <1>1, <2>3, MpscAssumption DEF ThreadInv, Threads, sendVars
    <3>2. \A e \in Channels : rpc'[e] \in {"lockA", "lockB"} => waking'[e] = {}
      BY <2>1, <2>3 DEF ThreadInv, OthersStay, Threads
    <3>3. \A t \in Threads : \A v, w \in waking'[t] : v = w
      BY <2>3 DEF ThreadInv
    <3> QED BY <3>1, <3>2, <3>3 DEF ThreadInv
  <2>7. CloseInv'
    <3>1. Resolution(d) # "Error"
      BY <1>1, <1>7, OpenEndIsNotError DEF m, d
    <3>2. \A e \in Channels \ {c} :
              /\ flags'[e] = flags[e] /\ value'[e] = value[e]
              /\ queue'[e] = queue[e] \/ Resolution(e) # "Error"
      BY <2>2, <2>4, <3>1
    <3> QED BY <2>1, <2>4, <3>2, OthersStayClosed
  <2>8. WakeInv'
    <3>1. CASE queue[c] = <<>> /\ UNCHANGED <<queue, rwaker, waking>>
      <4>1. \A e \in Channels : (Called(e)' <=> Called(e)) /\ (Waits(e)' <=> Waits(e))
        BY <1>1, <3>1 DEF Called, Waits, taskVars
      <4> QED BY <1>1, <2>1, <4>1 DEF WakeInv, taskVars, OthersStay
    <3>2. CASE MoveRequests(c, d)
      <4>1. \A e \in Channels \ {d} : queue'[e] \in {queue[e], <<>>}
        BY <2>4
      <4>2. \A e \in Channels : rpc'[e] # "idle" => ~asleep[e]
        BY <1>1, <2>1 DEF WakeInv, OthersStay
      <4>3. d \in Channels
        BY <1>1 DEF d
      <4> QED BY <1>1, <1>2, <3>2, <4>1, <4>2, <4>3, TakeWakerWakes DEF MoveRequests
    <3> QED BY <1>7, <3>1, <3>2
  <2> QED BY <2>1, <2>5, <2>6, <2>7, <2>8
<1> QED BY <1>5, <1>6, <1>7 DEF LockB, m, d

\* A receiver that is not idle, and neither goes idle, does not disturb who sleeps.
LEMMA BusyWakes ==
    ASSUME TypeOK, WakeInv, NEW c \in Channels, rpc[c] # "idle", OthersStay(c),
           UNCHANGED <<taskVars, waking>>,
           \A d \in Channels \ {c} : queue'[d] = queue[d] /\ rwaker'[d] = rwaker[d]
    PROVE  WakeInv'
<1>1. ~asleep[c]
  BY DEF WakeInv
<1>2. \A d \in Channels \ {c} : (Called(d)' <=> Called(d)) /\ (Waits(d)' <=> Waits(d))
  BY DEF Called, Waits, taskVars
<1> QED BY <1>1, <1>2 DEF WakeInv, taskVars, OthersStay

LEMMA CloseChannelKeeps ==
    ASSUME MInv, NEW c \in Channels, CloseChannel(c)
    PROVE  MInv'
<1> USE DEF MInv
<1>1. /\ UNCHANGED <<lock, finished, panicked, got, sendVars, dest, taskVars, waking>>
      /\ rpc[c] = "close" /\ flags[c] = {}
      /\ rwaker' = [rwaker EXCEPT ![c] = None]
      /\ Resolve(c, Error) /\ TakeBatch(c)
  BY DEF CloseChannel, CloseInv
<1>2. /\ queue' \in [Channels -> Seq(Items)]
      /\ \A d \in Channels \ {c} : queue'[d] = queue[d]
      /\ LastBatch(c) => queue'[c] = <<>>
      /\ batch' \in [Channels -> Seq(Items)]
      /\ parent' \in [Items -> Channels \union {None}]
      /\ status' \in [Items -> Statuses]
      /\ rpc' = [rpc EXCEPT ![c] = IF LastBatch(c) THEN "respondLast" ELSE "respond"]
  BY <1>1, TakeBatchType
<1>3. /\ rpc' \in [Channels -> ReceiverPCs] /\ OthersStay(c)
      /\ rpc'[c] = IF LastBatch(c) THEN "respondLast" ELSE "respond"
  BY <1>1, <1>2 DEF TypeOK, ReceiverPCs, OthersStay
<1>4. /\ flags' \in [Channels -> SUBSET StateFlags]
      /\ value' \in [Channels -> Channels \union {None, Error}]
      /\ \A d \in Channels \ {c} : flags'[d] = flags[d] /\ value'[d] = value[d]
      /\ "SET" \in flags'[c] /\ value'[c] = Error
  BY <1>1 DEF Resolve, TrySetValue, TypeOK, StateFlags
<1>5. Resolution(c)' = "Error"
  BY <1>4 DEF Resolution, ShotState
<1>6. rwaker' \in [Channels -> RTasks \union {None}] /\ \A d \in Channels \ {c} : rwaker'[d] = rwaker[d]
  BY <1>1 DEF TypeOK
<1>7. TypeOK'
  BY <1>1, <1>2, <1>3, <1>4, <1>6 DEF TypeOK, sendVars, taskVars
<1>8. ThreadInv'
  BY <1>1, <1>3, SameThreads DEF OthersStay
<1>9. LockInv'
  BY <1>1, <1>3, OtherLocks
<1>10. CloseInv'
  <2> HIDE DEF OthersStay
  <2>1. rpc'[c] \in {"respondLast", "respond"} /\ (rpc'[c] = "respondLast" => queue'[c] = <<>>)
    BY <1>2, <1>3
  <2> QED BY <1>2, <1>3, <1>4, <1>5, <2>1, OthersStayClosed
<1>11. WakeInv'
  BY <1>1, <1>2, <1>3, <1>6, BusyWakes
<1> QED BY <1>7, <1>8, <1>9, <1>10, <1>11

LEMMA CloseMoreKeeps ==
    ASSUME MInv, NEW c \in Channels, CloseMore(c)
    PROVE  MInv'
<1> USE DEF MInv
<1>1. /\ UNCHANGED <<rwaker, flags, value, lock, finished, panicked, got, sendVars, dest, taskVars, waking>>
      /\ rpc[c] = "closeMore" /\ Resolution(c) = "Error" /\ TakeBatch(c)
  BY DEF CloseMore, CloseInv
<1>2. /\ queue' \in [Channels -> Seq(Items)]
      /\ \A d \in Channels \ {c} : queue'[d] = queue[d]
      /\ LastBatch(c) => queue'[c] = <<>>
      /\ batch' \in [Channels -> Seq(Items)]
      /\ parent' \in [Items -> Channels \union {None}]
      /\ status' \in [Items -> Statuses]
      /\ rpc' = [rpc EXCEPT ![c] = IF LastBatch(c) THEN "respondLast" ELSE "respond"]
  BY <1>1, TakeBatchType
<1>3. /\ rpc' \in [Channels -> ReceiverPCs] /\ OthersStay(c)
      /\ rpc'[c] = IF LastBatch(c) THEN "respondLast" ELSE "respond"
  BY <1>1, <1>2 DEF TypeOK, ReceiverPCs, OthersStay
<1>4. TypeOK'
  BY <1>1, <1>2, <1>3 DEF TypeOK, sendVars, taskVars
<1>5. ThreadInv'
  BY <1>1, <1>3, SameThreads DEF OthersStay
<1>6. LockInv'
  BY <1>1, <1>3, OtherLocks
<1>7. CloseInv'
  <2>1. Resolution(c)' = "Error"
    BY <1>1 DEF Resolution
  <2>2. rpc'[c] \in {"respondLast", "respond"} /\ (rpc'[c] = "respondLast" => queue'[c] = <<>>)
    BY <1>2, <1>3
  <2> QED BY <1>1, <1>2, <1>3, <2>1, <2>2, OthersStayClosed
<1>8. WakeInv'
  BY <1>1, <1>2, <1>3, BusyWakes
<1> QED BY <1>4, <1>5, <1>6, <1>7, <1>8

LEMMA RespondBatchKeeps ==
    ASSUME MInv, NEW c \in Channels, RespondBatch(c)
    PROVE  MInv'
<1> USE DEF MInv
<1>1. /\ UNCHANGED <<chanVars, lock, parent, finished, panicked, got, sendVars, dest, taskVars, waking>>
      /\ rpc[c] \in {"respond", "respondLast"} /\ Resolution(c) = "Error"
      /\ rpc[c] = "respondLast" => queue[c] = <<>>
      /\ rpc' = [rpc EXCEPT ![c] = IF rpc[c] = "respond" THEN "closeMore" ELSE "gone"]
  BY DEF RespondBatch, CloseInv
<1>2. /\ rpc' \in [Channels -> ReceiverPCs] /\ OthersStay(c)
      /\ rpc'[c] = IF rpc[c] = "respond" THEN "closeMore" ELSE "gone"
  BY <1>1 DEF TypeOK, ReceiverPCs, OthersStay
<1>3. /\ status' \in [Items -> Statuses]
      /\ batch' \in [Channels -> Seq(Items)]
  BY EmptySeq DEF RespondBatch, TypeOK, Statuses
<1>4. TypeOK'
  BY <1>1, <1>2, <1>3 DEF TypeOK, chanVars, sendVars, taskVars
<1>5. ThreadInv'
  BY <1>1, <1>2, SameThreads DEF OthersStay
<1>6. LockInv'
  BY <1>1, <1>2, OtherLocks
<1>7. CloseInv'
  <2>1. Resolution(c)' = "Error" /\ (rpc'[c] = "gone" => queue'[c] = <<>>)
    BY <1>1, <1>2 DEF Resolution, chanVars
  <2> QED BY <1>1, <1>2, <2>1, OthersStayClosed DEF chanVars
<1>8. WakeInv'
  BY <1>1, <1>2, BusyWakes DEF chanVars
<1> QED BY <1>4, <1>5, <1>6, <1>7, <1>8

LEMMA MStep == MInv /\ [Next]_vars => MInv'
<1> SUFFICES ASSUME MInv, [Next]_vars PROVE MInv'
  OBVIOUS
<1>1. ASSUME NEW s \in Senders, SenderStep(s) PROVE MInv'
  BY <1>1, BeginSendKeeps, FinishSendKeeps DEF SenderStep
<1>2. ASSUME NEW c \in Channels, ReceiverStep(c) PROVE MInv'
  <2>1. CASE TryRecv(c) \/ DropReceiver(c) \/ BeginClose(c)
    BY <2>1, TryRecvKeeps, DropReceiverKeeps, BeginCloseKeeps
  <2>2. CASE ForwardStep(c)
    BY <2>2, LockAKeeps, LockBKeeps DEF ForwardStep
  <2>3. CASE CloseStep(c)
    BY <2>3, CloseChannelKeeps, CloseMoreKeeps, RespondBatchKeeps DEF CloseStep
  <2>4. CASE \E d \in Channels : BeginForward(c, d)
    BY <2>4, BeginForwardKeeps
  <2>5. CASE \E t \in RTasks : PollRecv(c, t)
    BY <2>5, PollRecvKeeps
  <2> QED BY <1>2, <2>1, <2>2, <2>3, <2>4, <2>5 DEF ReceiverStep
<1>3. ASSUME NEW i \in Requests, RequestStep(i) PROVE MInv'
  BY <1>3, RequestKeeps
<1>4. ASSUME NEW t \in Threads, CallWaker(t) PROVE MInv'
  BY <1>4, CallWakerKeeps
<1>5. CASE UNCHANGED vars
  <2>1. TypeOK'
    BY <1>5 DEF MInv, TypeOK, vars, chanVars, itemVars, sendVars, recvVars, taskVars
  <2>2. ThreadInv'
    BY <1>5 DEF MInv, ThreadInv, vars, sendVars, recvVars
  <2>3. LockInv' /\ CloseInv' /\ WakeInv'
    BY <1>5, SameLocks, SameChannels, SameWakers DEF MInv, vars, chanVars, recvVars
  <2> QED BY <2>1, <2>2, <2>3 DEF MInv
<1> QED BY <1>1, <1>2, <1>3, <1>4, <1>5 DEF Next

-----------------------------------------------------------------------------
\* Of receivers that wait for their second mutex, the one whose second mutex has the
\* greatest address waits for none of the others.
LEMMA GreatestWaitsForNone ==
    ASSUME MInv PROVE LocksAcyclic
<1> USE DEF MInv
<1> SUFFICES ASSUME NEW T \in SUBSET Channels, T # {}, \A c \in T : rpc[c] = "lockB"
             PROVE  \E c \in T : lock[SecondLock(c)] \notin T
  BY DEF LocksAcyclic
<1> DEFINE addr == [c \in T |-> Addr[SecondLock(c)]]
<1>1. IsFiniteSet(T)
  BY FS_Subset, MpscAssumption
<1>2. addr \in [T -> Nat]
  BY TwoLocks, MpscAssumption
<1>3. PICK c \in T : \A e \in T : addr[e] <= addr[c]
  <2>1. \E x : Greatest(T, addr, x)
    <3> HIDE DEF addr
    <3> QED BY <1>1, <1>2, FiniteHasGreatest
  <2> QED BY <2>1 DEF Greatest
<1>4. ASSUME lock[SecondLock(c)] \in T PROVE FALSE
  <2> DEFINE e == lock[SecondLock(c)]
  <2>1. e # None /\ SecondLock(c) \in Channels
    BY <1>4, TwoLocks, MpscAssumption
  <2>2. FirstLock(e) = SecondLock(c)
    BY <2>1 DEF LockInv
  <2>3. Addr[FirstLock(e)] < Addr[SecondLock(e)]
    BY <1>4, TwoLocks
  <2>4. addr[e] = Addr[SecondLock(e)] /\ addr[c] = Addr[SecondLock(c)] /\ addr[e] <= addr[c]
    BY <1>3, <1>4
  <2>5. addr[e] \in Nat /\ addr[c] \in Nat
    BY <1>2, <1>3, <1>4
  <2> HIDE DEF addr, e
  <2> QED BY <2>2, <2>3, <2>4, <2>5
<1> QED BY <1>4

\* The variables keep their types; in particular nobody resolves to, or is parent of
\* a request as, anything but a channel.
THEOREM MpscIsTyped == Spec => []TypeOK
<1>1. MInv => TypeOK
  BY DEF MInv
<1> QED BY <1>1, MInit, MStep, PTL DEF Spec

\* However many receivers are forwarded to each other at once, forward_to never has
\* them wait for each other's mutexes, since it takes its two by their addresses.
THEOREM ForwardsDoNotDeadlock == Spec => []LocksAcyclic
<1>1. MInv => LocksAcyclic
  BY GreatestWaitsForNone
<1> QED BY <1>1, MInit, MStep, PTL DEF Spec

\* After close has returned, no send and no forward that had resolved the channel
\* before, and waited for its mutex since, puts anything into its queue.
THEOREM ClosedStaysEmpty == Spec => []ClosedChannelStaysEmpty
<1>1. MInv => ClosedChannelStaysEmpty
  BY DEF MInv, CloseInv
<1> QED BY <1>1, MInit, MStep, PTL DEF Spec

\* A receiver whose poll_recv returned Pending and whose queue has items since is
\* woken, or its waker is in a thread that is about to call it, even if it moved
\* between tasks and the items came by a forward.
THEOREM SleepersAreWoken == Spec => []SleepingReceiverIsWoken
<1>1. MInv => SleepingReceiverIsWoken
  BY DEF MInv, WakeInv, Called, Waits, SleepingReceiverIsWoken
<1> QED BY <1>1, MInit, MStep, PTL DEF Spec

-----------------------------------------------------------------------------
(***************************************************************************)
(* Proofs about what becomes of the items of Mpsc, for any number of       *)
(* channels, senders, items and forwards: no accepted item is lost or      *)
(* doubled, the items of a sender are received in order, requests know     *)
(* the channel they are in, and Mpsc implements Delivery.                  *)
(*                                                                         *)
(* They rest on where the chain of forwards from a channel ends: at most   *)
(* at one channel, which is where the items of the senders of that channel *)
(* are added, so that a queue that is not such an end only waits to be     *)
(* forwarded, closed or dropped.                                           *)
(***************************************************************************)

-----------------------------------------------------------------------------
(* Chains of forwards: the channels of F are forwarded, x of them to v[x]. *)
Links(F, v) == F \subseteq Channels /\ \A x \in F : v[x] \in Channels
Closed(F, v, c) == { S \in SUBSET Channels : c \in S /\ \A x \in S : x \in F => v[x] \in S }
Ends(F, v, c) == { m \in Channels : m \notin F /\ \A S \in Closed(F, v, c) : m \in S }

LEMMA EndOfOpen ==
    ASSUME NEW F, NEW v, NEW c \in Channels \ F
    PROVE  Ends(F, v, c) = {c}
<1>1. {c} \in Closed(F, v, c)
  BY DEF Closed
<1>2. \A S \in Closed(F, v, c) : c \in S
  BY DEF Closed
<1> QED BY <1>1, <1>2 DEF Ends

LEMMA EndOfLinked ==
    ASSUME NEW F, NEW v, Links(F, v), NEW c \in F
    PROVE  Ends(F, v, c) = Ends(F, v, v[c])
<1> DEFINE d == v[c]
<1>1. c \in Channels /\ d \in Channels
  BY DEF Links
<1>2. ASSUME NEW S \in Closed(F, v, c) PROVE S \in Closed(F, v, d)
  BY <1>2 DEF Closed
<1>3. ASSUME NEW S \in Closed(F, v, d) PROVE S \union {c} \in Closed(F, v, c)
  BY <1>1, <1>3 DEF Closed
<1>4. ASSUME NEW m \in Ends(F, v, d) PROVE m \in Ends(F, v, c)
  BY <1>2, <1>4 DEF Ends
<1>5. ASSUME NEW m \in Ends(F, v, c) PROVE m \in Ends(F, v, d)
  <2>1. m # c /\ m \in Channels \ F /\ \A S \in Closed(F, v, c) : m \in S
    BY <1>5 DEF Ends
  <2>2. \A S \in Closed(F, v, d) : m \in S
    BY <1>3, <2>1
  <2> QED BY <2>1, <2>2 DEF Ends
<1> QED BY <1>4, <1>5

\* A chain has one end at most.
LEMMA OneEnd ==
    ASSUME NEW F, NEW v, Links(F, v), NEW c \in Channels,
           NEW m \in Ends(F, v, c), NEW n \in Ends(F, v, c)
    PROVE  m = n
<1> DEFINE T == { x \in Channels : m \in Ends(F, v, x) }
<1>1. T \in Closed(F, v, c)
  <2>1. ASSUME NEW x \in T, x \in F PROVE v[x] \in T
    BY <2>1, EndOfLinked DEF Links
  <2> QED BY <2>1 DEF Closed
<1>2. n \in T /\ n \in Channels \ F
  BY <1>1 DEF Ends
<1> QED BY <1>2, EndOfOpen

\* One more channel is forwarded: G and w are F and v after c has been linked to m.
Linking(F, v, c, m, G, w) ==
    /\ c \in Channels \ F /\ m \in Channels
    /\ G = F \union {c} /\ w[c] = m /\ \A x \in F : w[x] = v[x]

\* Chains that ended there go on as c does ...
LEMMA EndsMove ==
    ASSUME NEW F, NEW v, NEW G, NEW w, Links(F, v),
           NEW c, NEW m, Linking(F, v, c, m, G, w),
           NEW x \in Channels, c \in Ends(F, v, x)
    PROVE  Ends(G, w, x) = Ends(G, w, c)
<1>1. Links(G, w) /\ c \in G /\ c \in Channels
  BY DEF Links, Linking
<1>2. \A S \in Closed(G, w, x) : S \in Closed(F, v, x) /\ c \in S
  BY DEF Closed, Linking, Ends
<1>3. \A S \in Closed(G, w, x) : S \in Closed(G, w, c)
  BY <1>2 DEF Closed
<1>4. Ends(G, w, c) \subseteq Ends(G, w, x)
  BY <1>3 DEF Ends
<1>5. ASSUME NEW e \in Ends(G, w, x) PROVE e \in Ends(G, w, c)
  <2> DEFINE R == { y \in Channels : \A S \in Closed(F, v, x) : y \in S }
  <2>1. e \in Channels \ G /\ \A S \in Closed(G, w, x) : e \in S
    BY <1>5 DEF Ends
  <2>2. x \in R /\ \A y \in R : y \in F => v[y] \in R
    BY DEF Closed, Links
  <2>3. ASSUME NEW S \in Closed(G, w, c) PROVE R \union S \in Closed(G, w, x)
    <3>1. S \in SUBSET Channels /\ c \in S /\ \A y \in S : y \in G => w[y] \in S
      BY <2>3 DEF Closed
    <3>2. \A y \in R \union S : y \in G => w[y] \in R \union S
      BY <2>2, <3>1 DEF Linking
    <3> QED BY <2>2, <3>1, <3>2 DEF Closed
  <2>4. ASSUME e \in R PROVE FALSE
    <3>1. e \in Ends(F, v, x)
      BY <2>1, <2>4 DEF Ends, Linking
    <3> QED BY <1>1, <2>1, <3>1, OneEnd
  <2>5. \A S \in Closed(G, w, c) : e \in S
    BY <2>1, <2>3, <2>4
  <2> QED BY <2>1, <2>5 DEF Ends
<1> QED BY <1>4, <1>5

\* ... the others end as before.
LEMMA EndsStay ==
    ASSUME NEW F, NEW v, NEW G, NEW w, Links(F, v),
           NEW c, NEW m, Linking(F, v, c, m, G, w),
           NEW x \in Channels, c \notin Ends(F, v, x)
    PROVE  Ends(G, w, x) = Ends(F, v, x)
<1>1. \A S \in Closed(G, w, x) : S \in Closed(F, v, x)
  BY DEF Closed, Linking
<1>2. ASSUME NEW e \in Ends(F, v, x) PROVE e \in Ends(G, w, x)
  BY <1>1, <1>2 DEF Ends, Linking
<1>3. PICK T \in Closed(F, v, x) : c \notin T
  BY DEF Ends, Linking
<1>4. ASSUME NEW S \in Closed(F, v, x) PROVE S \intersect T \in Closed(G, w, x)
  BY <1>3, <1>4 DEF Closed, Linking
<1>5. ASSUME NEW e \in Ends(G, w, x) PROVE e \in Ends(F, v, x)
  BY <1>4, <1>5 DEF Ends, Linking
<1> QED BY <1>2, <1>5

\* Channels with the same end keep having the same end.
LEMMA EndsStaySame ==
    ASSUME NEW F, NEW v, NEW G, NEW w, Links(F, v),
           NEW c, NEW m, Linking(F, v, c, m, G, w),
           NEW x \in Channels, NEW y \in Channels, Ends(F, v, x) = Ends(F, v, y)
    PROVE  Ends(G, w, x) = Ends(G, w, y)
BY EndsMove, EndsStay

\* Only the links of the channels that are forwarded matter.
LEMMA SameEnds ==
    ASSUME NEW F, NEW v, NEW w, \A x \in F : w[x] = v[x], NEW c
    PROVE  Ends(F, w, c) = Ends(F, v, c)
<1>1. Closed(F, w, c) = Closed(F, v, c)
  BY DEF Closed
<1> QED BY <1>1 DEF Ends

-----------------------------------------------------------------------------
(* The chains of the channels.                                             *)
Fwd == { c \in Channels : Forwarded(c) }

LEMMA EndsAreEnds ==
    ASSUME NEW c \in Channels
    PROVE  EndsFrom(c) = Ends(Fwd, value, c)
<1>1. ClosedFrom(c) = Closed(Fwd, value, c)
  BY DEF ClosedFrom, Closed, Fwd
<1> QED BY <1>1 DEF EndsFrom, Ends, Fwd

\* The end is what a channel is resolved to.
LEMMA ResolvesToEnd ==
    ASSUME Links(Fwd, value), NEW c \in Channels, NEW m
    PROVE  m \in Ends(Fwd, value, c) <=> m = MostResolved(c) /\ ~Forwarded(m)
<1>1. CASE ~Forwarded(c)
  BY <1>1, EndOfOpen DEF MostResolved, Fwd
<1>2. CASE Forwarded(c)
  <2>1. CASE EndsFrom(c) = {}
    BY <1>2, <2>1, EndsAreEnds DEF MostResolved
  <2>2. CASE EndsFrom(c) # {}
    <3>1. MostResolved(c) = CHOOSE x \in EndsFrom(c) : TRUE
      BY <1>2, <2>2 DEF MostResolved
    <3>2. MostResolved(c) \in EndsFrom(c)
      BY <2>2, <3>1
    <3>3. \A x \in EndsFrom(c) : ~Forwarded(x)
      BY DEF EndsFrom
    <3> QED BY <3>2, <3>3, OneEnd, EndsAreEnds
  <2> QED BY <2>1, <2>2
<1> QED BY <1>1, <1>2

-----------------------------------------------------------------------------
(* The inductive invariant, on top of MInv.                                *)
E(c) == Ends(Fwd, value, c)
Ended(c) == \E e \in E(c) : Terminal(e)

\* No item is twice in the lists.
Apart(lists) ==
    \A c, d \in Channels : \A j \in 1..Len(lists[c]), k \in 1..Len(lists[d]) :
        lists[c][j] = lists[d][k] => c = d /\ j = k

\* The items in the lists are those with the status st.
Holds(lists, stats, st) ==
    /\ \A c \in Channels : \A k \in 1..Len(lists[c]) : stats[lists[c][k]] = st
    /\ \A i \in Items : stats[i] = st =>
          \E c \in Channels : \E k \in 1..Len(lists[c]) : lists[c][k] = i

\* A queued item is in one place of the queues, an item whose error is under way in one
\* place of the batches.
PlaceInv ==
    /\ Holds(queue, status, "Queued") /\ Apart(queue)
    /\ Holds(batch, status, "Erroring") /\ Apart(batch)

\* Between two batches there is none.
BatchInv == \A c \in Channels : rpc[c] \notin {"respond", "respondLast"} => batch[c] = <<>>

\* The items a sender has sent are those up to its count, and the items delivered are
\* those received.
SentInv ==
    /\ \A i \in Items : status[i] = "Unsent" <=> sends[i[1]] < i[2]
    /\ \A k \in 1..Len(got) : status[got[k]] = "Delivered"
    /\ \A i \in Items : status[i] = "Delivered" => \E k \in 1..Len(got) : got[k] = i

\* Every channel that is forwarded is forwarded to a channel; an item in a channel that
\* is not forwarded is where its sender ends up; a sender ends up in the same channel
\* while it sends; and one that was turned away, or lost an item to an error, ends up in
\* a channel that is closed.
EndInv ==
    /\ Links(Fwd, value)
    /\ \A c \in Channels : \A k \in 1..Len(queue[c]) : c \notin Fwd => c \in E(Home[queue[c][k][1]])
    /\ \A s \in Senders : target[s] # None => E(target[s]) = E(Home[s])
    /\ \A i \in Items : status[i] \in {"Returned", "Erroring", "Errored"} => Ended(Home[i[1]])

\* In a channel that is not forwarded the items of one sender are in order, behind
\* those received.
Before(i, j) == i[1] = j[1] => i[2] < j[2]
OrderInv ==
    /\ \A c \in Channels \ Fwd : \A j, k \in 1..Len(queue[c]) :
          j < k => Before(queue[c][j], queue[c][k])
    /\ \A c \in Channels \ Fwd : \A j \in 1..Len(got), k \in 1..Len(queue[c]) :
          Before(got[j], queue[c][k])
    /\ \A j, k \in 1..Len(got) : j < k => Before(got[j], got[k])

\* The parent of a queued request ends up where the request is, and without try_recv
\* no other request has one.
ParentInv ==
    /\ \A c \in Channels : \A k \in 1..Len(queue[c]) : queue[c][k] \in Requests =>
          parent[queue[c][k]] \in Channels /\ E(parent[queue[c][k]]) = E(c)
    /\ CanTryRecv = {} => \A i \in Requests : status[i] # "Queued" => parent[i] = None

DInv == PlaceInv /\ BatchInv /\ SentInv /\ EndInv /\ OrderInv /\ ParentInv

LEMMA DInit == Init => DInv
<1> SUFFICES ASSUME Init PROVE DInv
  OBVIOUS
<1>1. /\ Len(got) = 0
      /\ \A i \in Items : status[i] = "Unsent" /\ i[2] \in 1..MaxSends /\ sends[i[1]] = 0
      /\ \A c \in Channels : flags[c] = {} /\ batch[c] = <<>> /\ Len(queue[c]) = 0 /\ Len(batch[c]) = 0
  BY DEF Init, Items
<1>2. Fwd = {}
  BY <1>1, FlagsResolve DEF Fwd, Forwarded
<1>3. PlaceInv /\ BatchInv
  BY <1>1 DEF PlaceInv, Holds, Apart, BatchInv
<1>4. SentInv
  BY <1>1, MpscAssumption DEF SentInv
<1>5. EndInv
  BY <1>1, <1>2 DEF Init, EndInv, Links
<1>6. OrderInv
  BY <1>1 DEF Init, OrderInv
<1>7. ParentInv
  BY <1>1 DEF Init, ParentInv, Requests
<1> QED BY <1>3, <1>4, <1>5, <1>6, <1>7 DEF DInv

-----------------------------------------------------------------------------
(* How the steps of receivers change the ends.                             *)

\* Terminal channels stay terminal, and at most one channel is forwarded, to a channel.
SameLinks == Fwd' = Fwd /\ \A x \in Fwd : value'[x] = value[x]
Resolves ==
    /\ SameLinks \/ \E c, m \in Channels : Linking(Fwd, value, c, m, Fwd', value')
    /\ \A x \in Channels : Terminal(x) => Terminal(x)'

\* What that leaves: the channels that are not forwarded are still the ends they were,
\* channels that ended in the same one still do.
Carries ==
    /\ Links(Fwd', value') /\ Fwd \subseteq Fwd'
    /\ \A x, y \in Channels : E(x) = E(y) => E(x)' = E(y)'
    /\ \A x \in Channels : \A e \in E(x) : e \notin Fwd' => e \in E(x)'
    /\ \A x \in Channels : Ended(x) => Ended(x)'

LEMMA EndsKept ==
    ASSUME Links(Fwd, value), Resolves, NEW x \in Channels
    PROVE  /\ \A y \in Channels : E(x) = E(y) => E(x)' = E(y)'
           /\ \A e \in E(x) : e \notin Fwd' => e \in E(x)'
<1>1. E(x)' = Ends(Fwd', value', x) /\ \A y : E(y)' = Ends(Fwd', value', y)
  BY DEF E
<1>2. CASE SameLinks
  <2>1. \A y : E(y)' = E(y)
    BY <1>1, <1>2, SameEnds DEF SameLinks, E
  <2> QED BY <2>1
<1>3. ASSUME NEW c \in Channels, NEW m \in Channels, Linking(Fwd, value, c, m, Fwd', value')
      PROVE  /\ \A y \in Channels : E(x) = E(y) => E(x)' = E(y)'
             /\ \A e \in E(x) : e \notin Fwd' => e \in E(x)'
  <2>1. \A y \in Channels : E(x) = E(y) => E(x)' = E(y)'
    BY <1>1, <1>3, EndsStaySame DEF E
  <2>2. ASSUME NEW e \in E(x), e \notin Fwd' PROVE e \in E(x)'
    <3>1. e # c
      BY <1>3, <2>2 DEF Linking
    <3>2. c \notin E(x)
      BY <2>2, <3>1, OneEnd DEF E
    <3>3. E(x)' = E(x)
      BY <1>1, <1>3, <3>2, EndsStay DEF E
    <3> QED BY <2>2, <3>3
  <2> QED BY <2>1, <2>2
<1> QED BY <1>2, <1>3 DEF Resolves

LEMMA ResolvesCarries ==
    ASSUME Links(Fwd, value), Resolves
    PROVE  Carries
<1>1. Links(Fwd', value') /\ Fwd \subseteq Fwd'
  BY DEF Links, Resolves, SameLinks, Linking
<1>2. \A x \in Channels : /\ \A y \in Channels : E(x) = E(y) => E(x)' = E(y)'
                          /\ \A e \in E(x) : e \notin Fwd' => e \in E(x)'
  BY EndsKept
<1>3. ASSUME NEW x \in Channels, Ended(x) PROVE Ended(x)'
  <2>1. PICK e \in E(x) : Terminal(e)
    BY <1>3 DEF Ended
  <2>2. e \in Channels
    BY DEF E, Ends
  <2>3. Terminal(e)'
    BY <2>1, <2>2 DEF Resolves
  <2>4. e \notin Fwd'
    BY <2>3 DEF Terminal, Fwd, Forwarded
  <2>5. e \in E(x)'
    BY <1>2, <2>4
  <2> QED BY <2>3, <2>5 DEF Ended
<1> QED BY <1>1, <1>2, <1>3 DEF Carries

\* A step that resolves nothing.
LEMMA NothingResolved ==
    ASSUME UNCHANGED <<flags, value>> PROVE Resolves
<1>1. \A x : Resolution(x)' = Resolution(x)
  BY DEF Resolution
<1> QED BY <1>1 DEF Resolves, SameLinks, Fwd, Forwarded, Terminal

\* The only change is to a channel that was not resolved.
LEMMA OthersResolved ==
    ASSUME NEW c \in Channels, flags[c] = {},
           \A d \in Channels \ {c} : flags'[d] = flags[d] /\ value'[d] = value[d]
    PROVE  /\ c \notin Fwd /\ Fwd' \ {c} = Fwd /\ \A x \in Fwd : value'[x] = value[x]
           /\ \A x \in Channels : Terminal(x) => Terminal(x)'
<1>1. Resolution(c) = "Unresolved"
  BY FlagsResolve
<1>2. \A d \in Channels \ {c} : Resolution(d)' = Resolution(d)
  BY DEF Resolution
<1> QED BY <1>1, <1>2 DEF Fwd, Forwarded, Terminal

LEMMA CloseReceiverResolves ==
    ASSUME TypeOK, NEW c \in Channels, flags[c] = {}, CloseReceiver(c), value' = value
    PROVE  Resolves
<1>1. (\A d \in Channels \ {c} : flags'[d] = flags[d]) /\ Resolution(c)' = "Dropped"
  BY CloseReceiverKeeps
<1>2. c \notin Fwd'
  BY <1>1 DEF Fwd, Forwarded
<1> QED BY <1>1, <1>2, OthersResolved DEF Resolves, SameLinks

LEMMA ResolveResolves ==
    ASSUME TypeOK, NEW c \in Channels, flags[c] = {},
           NEW v \in Channels \union {Error}, Resolve(c, v)
    PROVE  /\ Resolves
           /\ v = Error => Resolution(c)' = "Error"
           /\ v # Error => Linking(Fwd, value, c, v, Fwd', value')
<1>1. flags' = [flags EXCEPT ![c] = {"SET"}] /\ value' = [value EXCEPT ![c] = v]
  BY DEF Resolve, TrySetValue
<1>2. /\ flags'[c] = {"SET"} /\ value'[c] = v
      /\ \A d \in Channels \ {c} : flags'[d] = flags[d] /\ value'[d] = value[d]
  BY <1>1 DEF TypeOK
<1>3. Resolution(c)' = IF v = Error THEN "Error" ELSE "Forwarded"
  BY <1>2 DEF Resolution, ShotState
<1>4. CASE v = Error
  <2>1. c \notin Fwd'
    BY <1>3, <1>4 DEF Fwd, Forwarded
  <2> QED BY <1>2, <1>3, <1>4, <2>1, OthersResolved DEF Resolves, SameLinks
<1>5. CASE v # Error
  <2>1. c \in Fwd'
    BY <1>3, <1>5 DEF Fwd, Forwarded
  <2>2. Linking(Fwd, value, c, v, Fwd', value')
    BY <1>2, <1>5, <2>1, OthersResolved DEF Linking
  <2> QED BY <1>2, <1>5, <2>2, OthersResolved DEF Resolves
<1> QED BY <1>4, <1>5

LEMMA ReceiverResolves ==
    ASSUME MInv, NEW c \in Channels, ReceiverStep(c)
    PROVE  Resolves
<1> USE DEF MInv
<1>1. CASE TryRecv(c) \/ BeginClose(c) \/ LockA(c) \/ CloseMore(c) \/ RespondBatch(c)
            \/ \E t \in RTasks : PollRecv(c, t)
  <2>1. UNCHANGED <<flags, value>>
    BY <1>1 DEF TryRecv, BeginClose, LockA, CloseMore, RespondBatch, PollRecv, chanVars
  <2> QED BY <2>1, NothingResolved
<1>2. CASE DropReceiver(c)
  BY <1>2, CloseReceiverResolves DEF DropReceiver, Idle, CloseInv
<1>3. ASSUME NEW d \in Channels, BeginForward(c, d) PROVE Resolves
  <2>1. flags[c] = {} /\ value' = value
    BY <1>3 DEF BeginForward, Idle, CloseInv
  <2>2. CloseReceiver(c) \/ flags' = flags
    BY <1>3 DEF BeginForward
  <2> QED BY <2>1, <2>2, CloseReceiverResolves, NothingResolved
<1>4. CASE LockB(c)
  <2> DEFINE m == MostResolved(dest[c])
  <2>1. flags[c] = {} /\ m \in Channels
    BY <1>4, ResolvesToChannel DEF LockB, CloseInv, LockInv
  <2> HIDE DEF m
  <2>2. \/ CloseReceiver(c) /\ value' = value
        \/ UNCHANGED <<flags, value>>
        \/ Resolve(c, m)
    BY <1>4 DEF LockB, chanVars, m
  <2> QED BY <2>1, <2>2, CloseReceiverResolves, NothingResolved, ResolveResolves
<1>5. CASE CloseChannel(c)
  BY <1>5, ResolveResolves DEF CloseChannel, CloseInv
<1> QED BY <1>1, <1>2, <1>3, <1>4, <1>5 DEF ReceiverStep, ForwardStep, CloseStep

LEMMA StepCarries ==
    ASSUME MInv, Links(Fwd, value), [Next]_vars
    PROVE  Carries
<1>1. ASSUME NEW s \in Senders, SenderStep(s) PROVE UNCHANGED <<flags, value>>
  BY <1>1 DEF SenderStep, BeginSend, FinishSend, chanVars
<1>2. ASSUME NEW i \in Requests, RequestStep(i) PROVE UNCHANGED <<flags, value>>
  BY <1>2 DEF RequestStep, FinishRequest, TryRemoveFromChannel, chanVars
<1>3. ASSUME NEW t \in Threads, CallWaker(t) PROVE UNCHANGED <<flags, value>>
  BY <1>3 DEF CallWaker, chanVars
<1>4. CASE UNCHANGED vars
  BY <1>4, NothingResolved, ResolvesCarries DEF vars, chanVars
<1>5. CASE Next
  BY <1>1, <1>2, <1>3, <1>5, NothingResolved, ReceiverResolves, ResolvesCarries DEF Next
<1> QED BY <1>4, <1>5

-----------------------------------------------------------------------------
(* Facts about ends and items.                                             *)

LEMMA OpenIsItsEnd ==
    ASSUME NEW c \in Channels, c \notin Fwd
    PROVE  E(c) = {c}
BY EndOfOpen DEF E

LEMMA EndIsOne ==
    ASSUME Links(Fwd, value), NEW c \in Channels, NEW m \in E(c), NEW n \in E(c)
    PROVE  m = n
BY OneEnd DEF E

\* A channel that resolves to one that is not forwarded ends there.
LEMMA ResolvesToItsEnd ==
    ASSUME Links(Fwd, value), NEW c \in Channels, ~Forwarded(MostResolved(c))
    PROVE  /\ MostResolved(c) \in Channels \ Fwd
           /\ E(c) = {MostResolved(c)} /\ E(MostResolved(c)) = {MostResolved(c)}
<1> DEFINE m == MostResolved(c)
<1>1. m \in Channels /\ m \notin Fwd
  BY ResolvesToChannel DEF Fwd
<1>2. m \in E(c)
  BY <1>1, ResolvesToEnd DEF E
<1> HIDE DEF m
<1>3. E(c) = {m}
  BY <1>2, EndIsOne
<1>4. E(m) = {m}
  BY <1>1, OpenIsItsEnd
<1> QED BY <1>1, <1>3, <1>4 DEF m

LEMMA ItemParts ==
    ASSUME NEW i \in Items
    PROVE  i[1] \in Senders /\ i[2] \in Nat /\ i = <<i[1], i[2]>> /\ Home[i[1]] \in Channels
BY MpscAssumption DEF Items

LEMMA ListTypes ==
    ASSUME TypeOK
    PROVE  /\ \A c \in Channels : Len(queue[c]) \in Nat /\ \A k \in 1..Len(queue[c]) : queue[c][k] \in Items
           /\ \A c \in Channels : Len(batch[c]) \in Nat /\ \A k \in 1..Len(batch[c]) : batch[c][k] \in Items
           /\ Len(got) \in Nat /\ \A k \in 1..Len(got) : got[k] \in Items
<1>1. ASSUME NEW q \in Seq(Items) PROVE Len(q) \in Nat /\ \A k \in 1..Len(q) : q[k] \in Items
  BY <1>1, LenProperties, ElementOfSeq
<1> QED BY <1>1 DEF TypeOK

\* What each part of the invariant keeps where nothing happens to it but that channels
\* are resolved.
LEMMA SameOrder ==
    ASSUME OrderInv, Carries, UNCHANGED <<queue, got>> PROVE OrderInv'
BY DEF OrderInv, Carries

LEMMA SameParents ==
    ASSUME TypeOK, ParentInv, Carries, UNCHANGED <<queue, status, parent>> PROVE ParentInv'
BY ListTypes DEF ParentInv, Carries, E

LEMMA SameBatches ==
    ASSUME BatchInv, UNCHANGED <<rpc, batch>> PROVE BatchInv'
BY DEF BatchInv

\* The ends after a step of the channel that has the name c before it.
NextE(c) == Ends(Fwd', value', c)

\* The items in the queues end up in open channels as before, senders as before.
LEMMA QueuesEnd ==
    ASSUME TypeOK, EndInv, Carries
    PROVE  /\ \A c \in Channels : \A k \in 1..Len(queue[c]) :
                  c \notin Fwd' => c \in NextE(Home[queue[c][k][1]])
           /\ \A s \in Senders : target[s] # None => NextE(target[s]) = NextE(Home[s])
           /\ \A i \in Items : status[i] \in {"Returned", "Erroring", "Errored"} => Ended(Home[i[1]])'
<1>1. ASSUME NEW c \in Channels, NEW k \in 1..Len(queue[c]), c \notin Fwd'
      PROVE  c \in NextE(Home[queue[c][k][1]])
  <2>1. Home[queue[c][k][1]] \in Channels
    BY ListTypes, ItemParts
  <2>2. c \in E(Home[queue[c][k][1]])
    BY <1>1 DEF EndInv, Carries
  <2> QED BY <1>1, <2>1, <2>2 DEF Carries, E, NextE
<1>2. ASSUME NEW s \in Senders, target[s] # None PROVE NextE(target[s]) = NextE(Home[s])
  <2>1. target[s] \in Channels /\ Home[s] \in Channels /\ E(target[s]) = E(Home[s])
    BY <1>2, MpscAssumption DEF TypeOK, EndInv
  <2> QED BY <2>1 DEF Carries, E, NextE
<1>3. ASSUME NEW i \in Items, status[i] \in {"Returned", "Erroring", "Errored"}
      PROVE  Ended(Home[i[1]])'
  BY <1>3, ItemParts DEF EndInv, Carries
<1> QED BY <1>1, <1>2, <1>3

-----------------------------------------------------------------------------
(* Senders.                                                                *)

\* A send that returns settles the next item of its sender, which was unsent.
LEMMA SendSettles ==
    ASSUME TypeOK, ThreadInv, SentInv, NEW s \in Senders, NEW st \in Statuses \ {"Unsent", "Delivered"},
           sends[s] < MaxSends, SendReturns(s, st), got' = got
    PROVE  /\ Sending(s) \in Items /\ Sending(s)[1] = s /\ status[Sending(s)] = "Unsent"
           /\ status'[Sending(s)] = st
           /\ \A i \in Items : i # Sending(s) => status'[i] = status[i]
           /\ \A i \in Items : i[1] = s /\ status[i] # "Unsent" => i[2] < Sending(s)[2]
           /\ target'[s] = None /\ \A r \in Senders \ {s} : target'[r] = target[r]
           /\ SentInv'
<1> DEFINE i == Sending(s)
<1>1. /\ i \in Items /\ i[1] = s /\ i[2] = sends[s] + 1 /\ sends[s] \in Nat
      /\ i = <<s, sends[s] + 1>>
  BY MpscAssumption DEF Sending, Items, TypeOK
<1>2. status' = [status EXCEPT ![i] = st]
  BY DEF SendReturns
<1>3. sends'[s] = sends[s] + 1 /\ \A r \in Senders \ {s} : sends'[r] = sends[r]
  BY DEF SendReturns, TypeOK
<1> HIDE DEF i
<1>4. status'[i] = st /\ \A j \in Items : j # i => status'[j] = status[j]
  BY <1>1, <1>2 DEF TypeOK
<1>5. status[i] = "Unsent"
  BY <1>1 DEF SentInv
<1>6. ASSUME NEW j \in Items PROVE status'[j] = "Unsent" <=> sends'[j[1]] < j[2]
  <2>1. j[1] \in Senders /\ j[2] \in Nat /\ j = <<j[1], j[2]>> /\ sends[j[1]] \in Nat
    BY ItemParts, MpscAssumption DEF TypeOK
  <2>2. status[j] = "Unsent" <=> sends[j[1]] < j[2]
    BY DEF SentInv
  <2>3. CASE j = i
    BY <1>1, <1>3, <1>4, <2>3
  <2>4. CASE j # i /\ j[1] = s
    <3>1. j[2] # sends[s] + 1
      BY <1>1, <2>1, <2>4
    <3> QED BY <1>1, <1>3, <1>4, <2>1, <2>2, <2>4, <3>1
  <2>5. CASE j[1] # s
    BY <1>1, <1>3, <1>4, <2>1, <2>2, <2>5
  <2> QED BY <2>3, <2>4, <2>5
<1>7. /\ \A k \in 1..Len(got) : status'[got[k]] = "Delivered"
      /\ \A j \in Items : status'[j] = "Delivered" => \E k \in 1..Len(got) : got[k] = j
  BY <1>4, <1>5, ListTypes DEF SentInv
<1>8. SentInv'
  BY <1>6, <1>7 DEF SentInv
<1>9. ASSUME NEW j \in Items, j[1] = s, status[j] # "Unsent" PROVE j[2] < i[2]
  BY <1>1, <1>9, ItemParts DEF SentInv
<1>10. target'[s] = None /\ \A r \in Senders \ {s} : target'[r] = target[r]
  BY DEF SendReturns, TypeOK
<1> QED BY <1>1, <1>4, <1>5, <1>8, <1>9, <1>10 DEF i

\* An item that is given back, or that nobody waits for, is nowhere.
LEMMA NotQueuedKeeps ==
    ASSUME MInv, DInv, Carries, NEW s \in Senders, NEW st \in {"Returned", "Discarded"},
           sends[s] < MaxSends, SendReturns(s, st),
           UNCHANGED <<queue, batch, rpc, parent, got>>,
           st = "Returned" => Ended(Home[s])
    PROVE  DInv'
<1> DEFINE i == Sending(s)
<1>1. /\ i \in Items /\ i[1] = s /\ status[i] = "Unsent" /\ status'[i] = st
      /\ \A j \in Items : j # i => status'[j] = status[j]
      /\ target'[s] = None /\ \A r \in Senders \ {s} : target'[r] = target[r]
      /\ SentInv'
  BY SendSettles DEF MInv, DInv, Statuses
<1> HIDE DEF i
<1>2. PlaceInv'
  BY <1>1, ListTypes DEF MInv, DInv, PlaceInv, Holds
<1>3. BatchInv' /\ OrderInv'
  BY SameBatches, SameOrder DEF DInv
<1>4. EndInv'
  <2>1. \A r \in Senders : target'[r] # None => target'[r] = target[r]
    BY <1>1
  <2>2. \A j \in Items : status'[j] \in {"Returned", "Erroring", "Errored"} => Ended(Home[j[1]])'
    <3>1. Home[s] \in Channels
      BY MpscAssumption
    <3> QED BY <1>1, <3>1, QueuesEnd DEF MInv, DInv, Carries
  <2> QED BY <2>1, <2>2, QueuesEnd DEF MInv, DInv, EndInv, Carries, E, NextE
<1>5. ParentInv'
  <2>1. \A j \in Requests : status'[j] # "Queued" => status[j] # "Queued"
    BY <1>1 DEF Requests
  <2>2. /\ \A c \in Channels : \A k \in 1..Len(queue[c]) : queue[c][k] \in Requests =>
              parent[queue[c][k]] \in Channels /\ NextE(parent[queue[c][k]]) = NextE(c)
    BY DEF DInv, ParentInv, Carries, E, NextE
  <2> QED BY <2>1, <2>2 DEF DInv, ParentInv, E, NextE
<1> QED BY <1>1, <1>2, <1>3, <1>4, <1>5 DEF DInv

LEMMA BeginSendOrders ==
    ASSUME MInv, DInv, Carries, NEW s \in Senders, BeginSend(s)
    PROVE  DInv'
<1> DEFINE m == MostResolved(Home[s])
<1>1. /\ UNCHANGED <<queue, batch, rpc, parent, got>>
      /\ sends[s] < MaxSends
  BY DEF BeginSend, chanVars, recvVars
<1>2. ASSUME ~Forwarded(m)
      PROVE  m \in Channels /\ E(Home[s]) = {m} /\ E(m) = {m}
  BY <1>2, ResolvesToItsEnd, MpscAssumption DEF DInv, EndInv
<1> HIDE DEF m
<1>3. CASE Terminal(m) /\ SendReturns(s, "Returned")
  <2>1. Ended(Home[s])
    BY <1>2, <1>3 DEF Ended, Terminal, Forwarded
  <2> QED BY <1>1, <1>3, <2>1, NotQueuedKeeps
<1>4. CASE Unresolved(m) /\ target' = [target EXCEPT ![s] = m] /\ UNCHANGED <<status, sends>>
  <2>1. PlaceInv' /\ SentInv' /\ BatchInv' /\ OrderInv' /\ ParentInv'
    BY <1>1, <1>4, SameBatches, SameOrder, SameParents DEF MInv, DInv, PlaceInv, SentInv
  <2>2. target'[s] = m /\ \A r \in Senders \ {s} : target'[r] = target[r]
    BY <1>4 DEF MInv, TypeOK
  <2>3. NextE(m) = NextE(Home[s])
    <3>1. Home[s] \in Channels /\ m \in Channels /\ E(m) = E(Home[s])
      BY <1>2, <1>4, MpscAssumption DEF Unresolved, Forwarded
    <3> QED BY <3>1 DEF Carries, E, NextE
  <2>4. EndInv'
    BY <1>1, <1>4, <2>2, <2>3, QueuesEnd DEF MInv, DInv, EndInv, Carries, E, NextE
  <2> QED BY <2>1, <2>4 DEF DInv
<1> QED BY <1>3, <1>4 DEF BeginSend, m

\* An item that is accepted is behind those its sender sent before, wherever they are.
LEMMA QueuedKeeps ==
    ASSUME MInv, DInv, Carries, NEW s \in Senders, NEW c \in Channels, NEW m \in Channels,
           sends[s] < MaxSends, SendReturns(s, "Queued"), UNCHANGED <<batch, rpc, got, flags, value>>,
           queue' = [queue EXCEPT ![c] = Append(@, Sending(s))],
           parent' = IF Sending(s) \in Requests THEN [parent EXCEPT ![Sending(s)] = m] ELSE parent,
           E(c) = {m}, E(m) = {m}, E(Home[s]) = E(c)
    PROVE  DInv'
<1> DEFINE i == Sending(s)
           n == Len(queue[c])
<1>1. /\ i \in Items /\ i[1] = s /\ status[i] = "Unsent" /\ status'[i] = "Queued"
      /\ \A j \in Items : j # i => status'[j] = status[j]
      /\ \A j \in Items : j[1] = s /\ status[j] # "Unsent" => j[2] < i[2]
      /\ target'[s] = None /\ \A r \in Senders \ {s} : target'[r] = target[r]
      /\ SentInv'
  BY SendSettles DEF MInv, DInv, Statuses
<1>2. /\ n \in Nat /\ Len(queue'[c]) = n + 1 /\ queue'[c][n + 1] = i
      /\ \A k \in 1..n : queue'[c][k] = queue[c][k]
      /\ \A d \in Channels \ {c} : queue'[d] = queue[d]
  <2> HIDE DEF i
  <2>1. queue[c] \in Seq(Items) /\ queue'[c] = Append(queue[c], i)
    BY DEF MInv, TypeOK, i
  <2>2. \A d \in Channels \ {c} : queue'[d] = queue[d]
    BY DEF MInv, TypeOK
  <2> QED BY <1>1, <2>1, <2>2, AppendProperties, LenProperties
<1> HIDE DEF i, n
<1>3. /\ \A d \in Channels : Len(queue[d]) \in Nat /\ \A k \in 1..Len(queue[d]) :
            queue[d][k] \in Items /\ status[queue[d][k]] = "Queued" /\ queue[d][k] # i
      /\ \A d \in Channels : Len(batch[d]) \in Nat /\ \A k \in 1..Len(batch[d]) :
            batch[d][k] \in Items /\ status[batch[d][k]] = "Erroring" /\ batch[d][k] # i
      /\ Len(got) \in Nat /\ \A k \in 1..Len(got) :
            got[k] \in Items /\ status[got[k]] = "Delivered" /\ got[k] # i
  BY <1>1, ListTypes DEF MInv, DInv, PlaceInv, Holds, SentInv
<1>4. \* What is in the queues is what was in them and i at the end of c.
      \A d \in Channels : \A k \in 1..Len(queue'[d]) :
          \/ k \in 1..Len(queue[d]) /\ queue'[d][k] = queue[d][k]
          \/ d = c /\ k = n + 1 /\ queue'[d][k] = i
  BY <1>2, <1>3 DEF n
<1>5. \A d \in Channels : \A k \in 1..Len(queue[d]) : k \in 1..Len(queue'[d]) /\ queue'[d][k] = queue[d][k]
  BY <1>2, <1>3 DEF n
<1>6. PlaceInv'
  <2>1. Holds(queue', status', "Queued")
    <3>1. \A d \in Channels : \A k \in 1..Len(queue'[d]) : status'[queue'[d][k]] = "Queued"
      BY <1>1, <1>3, <1>4
    <3>2. ASSUME NEW j \in Items, status'[j] = "Queued"
          PROVE  \E d \in Channels : \E k \in 1..Len(queue'[d]) : queue'[d][k] = j
      <4>1. CASE j = i
        <5>1. n + 1 \in 1..Len(queue'[c])
          BY <1>2
        <5> QED BY <1>2, <4>1, <5>1
      <4>2. CASE j # i
        <5>1. PICK d \in Channels : \E k \in 1..Len(queue[d]) : queue[d][k] = j
          BY <1>1, <3>2, <4>2 DEF DInv, PlaceInv, Holds
        <5> QED BY <1>5, <5>1
      <4> QED BY <4>1, <4>2
    <3> QED BY <3>1, <3>2 DEF Holds
  <2>2. Apart(queue')
    <3> SUFFICES ASSUME NEW d \in Channels, NEW e \in Channels,
                        NEW j \in 1..Len(queue'[d]), NEW k \in 1..Len(queue'[e]),
                        queue'[d][j] = queue'[e][k]
                 PROVE  d = e /\ j = k
      BY DEF Apart
    <3> QED BY <1>3, <1>4 DEF DInv, PlaceInv, Apart
  <2>3. Holds(batch', status', "Erroring") /\ Apart(batch')
    BY <1>1, <1>3 DEF DInv, PlaceInv, Holds
  <2> QED BY <2>1, <2>2, <2>3 DEF PlaceInv
<1>7. BatchInv'
  BY SameBatches DEF DInv
<1>8. /\ Fwd' = Fwd /\ \A x : NextE(x) = E(x)
  <2>1. Fwd' = Fwd
    BY DEF Fwd, Forwarded, Resolution
  <2> QED BY <2>1 DEF NextE, E
<1>9. c \notin Fwd => m = c
  BY OpenIsItsEnd
<1>10. EndInv'
  <2>1. ASSUME NEW d \in Channels, NEW k \in 1..Len(queue'[d]), d \notin Fwd'
        PROVE  d \in NextE(Home[queue'[d][k][1]])
    <3>1. CASE k \in 1..Len(queue[d]) /\ queue'[d][k] = queue[d][k]
      BY <1>8, <2>1, <3>1 DEF DInv, EndInv
    <3>2. CASE d = c /\ queue'[d][k] = i
      BY <1>1, <1>8, <1>9, <2>1, <3>2
    <3> QED BY <1>4, <3>1, <3>2
  <2>2. \A r \in Senders : target'[r] # None => target'[r] = target[r]
    BY <1>1
  <2>3. \A j \in Items : status'[j] \in {"Returned", "Erroring", "Errored"} => Ended(Home[j[1]])'
    BY <1>1, QueuesEnd DEF MInv, DInv
  <2> QED BY <2>1, <2>2, <2>3, QueuesEnd DEF MInv, DInv, EndInv, Carries, E, NextE
<1>11. OrderInv'
  <2>1. ASSUME NEW d \in Channels \ Fwd', NEW j \in 1..Len(queue'[d]), NEW k \in 1..Len(queue'[d]), j < k
        PROVE  Before(queue'[d][j], queue'[d][k])
    <3>1. CASE k \in 1..Len(queue[d]) /\ queue'[d][k] = queue[d][k]
      <4>1. j \in 1..Len(queue[d]) /\ queue'[d][j] = queue[d][j]
        BY <1>3, <1>5, <2>1, <3>1
      <4> QED BY <1>8, <2>1, <3>1, <4>1 DEF DInv, OrderInv
    <3>2. CASE d = c /\ k = n + 1 /\ queue'[d][k] = i
      <4>1. j \in 1..Len(queue[d]) /\ queue'[d][j] = queue[d][j]
        BY <1>2, <2>1, <3>2 DEF n
      <4>2. queue[d][j] \in Items /\ status[queue[d][j]] = "Queued"
        BY <1>3, <4>1
      <4> QED BY <1>1, <3>2, <4>1, <4>2 DEF Before
    <3> QED BY <1>4, <3>1, <3>2
  <2>2. ASSUME NEW d \in Channels \ Fwd', NEW j \in 1..Len(got), NEW k \in 1..Len(queue'[d])
        PROVE  Before(got[j], queue'[d][k])
    <3>1. CASE k \in 1..Len(queue[d]) /\ queue'[d][k] = queue[d][k]
      BY <1>8, <3>1 DEF DInv, OrderInv
    <3>2. CASE queue'[d][k] = i
      BY <1>1, <1>3, <3>2 DEF Before
    <3> QED BY <1>4, <3>1, <3>2
  <2> QED BY <2>1, <2>2 DEF DInv, OrderInv
<1>12. ParentInv'
  <2>1. ASSUME NEW d \in Channels, NEW k \in 1..Len(queue'[d]), queue'[d][k] \in Requests
        PROVE  parent'[queue'[d][k]] \in Channels /\ NextE(parent'[queue'[d][k]]) = NextE(d)
    <3>1. CASE k \in 1..Len(queue[d]) /\ queue'[d][k] = queue[d][k]
      <4>1. parent'[queue[d][k]] = parent[queue[d][k]]
        BY <1>3, <3>1 DEF i
      <4> QED BY <1>8, <2>1, <3>1, <4>1 DEF DInv, ParentInv
    <3>2. CASE d = c /\ queue'[d][k] = i
      <4>1. parent'[i] = m
        BY <1>1, <2>1, <3>2 DEF MInv, TypeOK, i
      <4> QED BY <1>8, <3>2, <4>1
    <3> QED BY <1>4, <3>1, <3>2
  <2>2. ASSUME NEW j \in Requests, status'[j] # "Queued" PROVE status[j] # "Queued" /\ parent'[j] = parent[j]
    <3>1. j # i /\ j \in Items
      BY <1>1, <2>2 DEF Requests
    <3> QED BY <1>1, <2>2, <3>1 DEF i
  <2> QED BY <2>1, <2>2 DEF DInv, ParentInv, E, NextE
<1> QED BY <1>1, <1>6, <1>7, <1>10, <1>11, <1>12 DEF DInv

LEMMA FinishSendOrders ==
    ASSUME MInv, DInv, Carries, NEW s \in Senders, FinishSend(s)
    PROVE  DInv'
<1> DEFINE c == target[s]
           m == MostResolved(c)
<1>1. /\ UNCHANGED <<batch, rpc, got>>
      /\ sends[s] < MaxSends /\ c \in Channels /\ E(c) = E(Home[s])
  BY DEF FinishSend, recvVars, MInv, TypeOK, ThreadInv, DInv, EndInv
<1>2. ASSUME ~Forwarded(m) PROVE m \in Channels /\ E(c) = {m} /\ E(m) = {m}
  BY <1>1, <1>2, ResolvesToItsEnd DEF DInv, EndInv
<1>3. \/ Terminal(m) /\ SendReturns(s, "Returned") /\ UNCHANGED <<chanVars, parent>>
      \/ SendReturns(s, "Discarded") /\ UNCHANGED <<chanVars, parent>>
      \/ /\ Unresolved(m) /\ SendReturns(s, "Queued") /\ UNCHANGED <<flags, value>>
         /\ queue' = [queue EXCEPT ![c] = Append(@, Sending(s))]
         /\ parent' = IF Sending(s) \in Requests THEN [parent EXCEPT ![Sending(s)] = m] ELSE parent
  BY DEF FinishSend
<1> HIDE DEF c, m
<1>4. CASE Terminal(m) /\ SendReturns(s, "Returned") /\ UNCHANGED <<chanVars, parent>>
  <2>1. Ended(Home[s])
    BY <1>1, <1>2, <1>4 DEF Ended, Terminal, Forwarded
  <2> QED BY <1>1, <1>4, <2>1, NotQueuedKeeps DEF chanVars
<1>5. CASE SendReturns(s, "Discarded") /\ UNCHANGED <<chanVars, parent>>
  BY <1>1, <1>5, NotQueuedKeeps DEF chanVars
<1>6. CASE /\ Unresolved(m) /\ SendReturns(s, "Queued") /\ UNCHANGED <<flags, value>>
           /\ queue' = [queue EXCEPT ![c] = Append(@, Sending(s))]
           /\ parent' = IF Sending(s) \in Requests THEN [parent EXCEPT ![Sending(s)] = m] ELSE parent
  <2>1. ~Forwarded(m)
    BY <1>6 DEF Unresolved, Forwarded
  <2> QED BY <1>1, <1>2, <1>6, <2>1, QueuedKeeps
<1> QED BY <1>3, <1>4, <1>5, <1>6

-----------------------------------------------------------------------------
(* Steps that leave the items where they are.                              *)
LEMMA QuietKeeps ==
    ASSUME MInv, DInv, Carries, UNCHANGED <<queue, batch, status, got, sends, target, parent>>,
           \A c \in Channels : rpc'[c] \notin {"respond", "respondLast"} =>
                                   rpc[c] \notin {"respond", "respondLast"}
    PROVE  DInv'
<1>1. PlaceInv' /\ SentInv' /\ BatchInv' /\ OrderInv' /\ ParentInv'
  BY SameOrder, SameParents DEF MInv, DInv, PlaceInv, SentInv, BatchInv
<1>2. EndInv'
  BY QueuesEnd DEF MInv, DInv, EndInv, Carries, E, NextE
<1> QED BY <1>1, <1>2 DEF DInv

-----------------------------------------------------------------------------
(* Items that leave a queue leave from its front.                          *)
Leaves(c, n, st) ==
    /\ Len(queue'[c]) = Len(queue[c]) - n
    /\ \A k \in 1..Len(queue'[c]) : queue'[c][k] = queue[c][k + n]
    /\ \A d \in Channels \ {c} : queue'[d] = queue[d]
    /\ \A i \in Items : status'[i] = IF \E k \in 1..n : queue[c][k] = i THEN st ELSE status[i]

LEMMA FrontLeaves ==
    ASSUME MInv, DInv, Carries, NEW c \in Channels, NEW n \in 0..Len(queue[c]),
           NEW st \in {"Delivered", "Erroring"}, Leaves(c, n, st)
    PROVE  /\ Holds(queue', status', "Queued") /\ Apart(queue')
           /\ \A d \in Channels : \A k \in 1..Len(queue'[d]) :
                  /\ queue'[d][k] \in Items
                  /\ \A j \in 1..n : queue[c][j] # queue'[d][k]
                  /\ d \notin Fwd' => d \in NextE(Home[queue'[d][k][1]])
                  /\ queue'[d][k] \in Requests =>
                        /\ parent[queue'[d][k]] \in Channels
                        /\ NextE(parent[queue'[d][k]]) = NextE(d)
           /\ \A d \in Channels \ Fwd' : \A j, k \in 1..Len(queue'[d]) :
                  j < k => Before(queue'[d][j], queue'[d][k])
           /\ \A d \in Channels \ Fwd' : \A j \in 1..Len(got), k \in 1..Len(queue'[d]) :
                  Before(got[j], queue'[d][k])
           /\ \A i \in Items : status[i] = "Unsent" <=> status'[i] = "Unsent"
           /\ \A k \in 1..n : status'[queue[c][k]] = st
           /\ \A d \in Channels : \A k \in 1..Len(batch[d]) : status'[batch[d][k]] = "Erroring"
           /\ \A k \in 1..Len(got) : status'[got[k]] = "Delivered"
<1> DEFINE At(d, k) == IF d = c THEN k + n ELSE k
<1>1. n \in Nat /\ Len(queue[c]) \in Nat
  BY ListTypes DEF MInv
<1>2. /\ \A d \in Channels : \A k \in 1..Len(queue[d]) :
            queue[d][k] \in Items /\ status[queue[d][k]] = "Queued"
      /\ \A d \in Channels : Len(queue[d]) \in Nat
  BY ListTypes DEF MInv, DInv, PlaceInv, Holds
<1>3. ASSUME NEW d \in Channels, NEW k \in 1..Len(queue'[d])
      PROVE  At(d, k) \in 1..Len(queue[d]) /\ queue'[d][k] = queue[d][At(d, k)]
  BY <1>1, <1>2 DEF Leaves
<1>4. ASSUME NEW d \in Channels, NEW k \in 1..Len(queue'[d]), NEW j \in 1..n
      PROVE  queue[c][j] # queue'[d][k]
  <2>1. j \in 1..Len(queue[c]) /\ (d = c => At(d, k) # j)
    BY <1>1, <1>3
  <2>2. PICK p \in 1..Len(queue[d]) : queue'[d][k] = queue[d][p] /\ (d = c => p # j)
    <3> HIDE DEF At
    <3> QED BY <1>3, <2>1
  <2>3. Apart(queue)
    BY DEF DInv, PlaceInv
  <2> QED BY <2>1, <2>2, <2>3 DEF Apart
<1>5. ASSUME NEW d \in Channels, NEW j \in 1..Len(queue'[d]), NEW e \in Channels, NEW k \in 1..Len(queue'[e])
      PROVE  /\ (d = e /\ At(d, j) = At(e, k)) => j = k
             /\ (d = e /\ j < k) => At(d, j) < At(e, k)
  <2>1. j \in Nat /\ k \in Nat
    OBVIOUS
  <2> QED BY <1>1, <2>1
<1>6. Apart(queue')
  <2> SUFFICES ASSUME NEW d \in Channels, NEW e \in Channels,
                      NEW j \in 1..Len(queue'[d]), NEW k \in 1..Len(queue'[e]),
                      queue'[d][j] = queue'[e][k]
               PROVE  d = e /\ j = k
    BY DEF Apart
  <2> HIDE DEF At
  <2>1. PICK p \in 1..Len(queue[d]) : p = At(d, j) /\ queue'[d][j] = queue[d][p]
    BY <1>3
  <2>2. PICK r \in 1..Len(queue[e]) : r = At(e, k) /\ queue'[e][k] = queue[e][r]
    BY <1>3
  <2>3. Apart(queue)
    BY DEF DInv, PlaceInv
  <2>4. queue[d][p] = queue[e][r]
    BY <2>1, <2>2
  <2>5. d = e /\ p = r
    BY <2>3, <2>4 DEF Apart
  <2> QED BY <1>5, <2>1, <2>2, <2>5
<1>7. ASSUME NEW d \in Channels, NEW k \in 1..Len(queue'[d])
      PROVE  queue'[d][k] \in Items /\ status'[queue'[d][k]] = "Queued"
  <2> HIDE DEF At
  <2>1. queue'[d][k] \in Items /\ status[queue'[d][k]] = "Queued"
    BY <1>2, <1>3
  <2>2. ~\E j \in 1..n : queue[c][j] = queue'[d][k]
    BY <1>4
  <2> QED BY <2>1, <2>2 DEF Leaves
<1>8. ASSUME NEW i \in Items, status'[i] = "Queued"
      PROVE  \E d \in Channels : \E k \in 1..Len(queue'[d]) : queue'[d][k] = i
  <2>1. status[i] = "Queued" /\ ~\E k \in 1..n : queue[c][k] = i
    BY <1>8 DEF Leaves
  <2>2. PICK d \in Channels : \E k \in 1..Len(queue[d]) : queue[d][k] = i
    BY <2>1 DEF DInv, PlaceInv, Holds
  <2>3. PICK k \in 1..Len(queue[d]) : queue[d][k] = i
    BY <2>2
  <2>4. CASE d # c
    <3>1. queue'[d] = queue[d]
      BY <2>4 DEF Leaves
    <3> QED BY <2>3, <3>1
  <2>5. CASE d = c
    <3>1. k \notin 1..n /\ k - n \in 1..Len(queue'[c]) /\ (k - n) + n = k
      BY <1>1, <2>1, <2>3, <2>5 DEF Leaves
    <3>2. queue'[c][k - n] = queue[c][k]
      BY <3>1 DEF Leaves
    <3> QED BY <2>3, <2>5, <3>1, <3>2
  <2> QED BY <2>4, <2>5
<1>9. ASSUME NEW d \in Channels, NEW k \in 1..Len(queue'[d])
      PROVE  /\ d \notin Fwd' => d \in NextE(Home[queue'[d][k][1]])
             /\ queue'[d][k] \in Requests =>
                   parent[queue'[d][k]] \in Channels /\ NextE(parent[queue'[d][k]]) = NextE(d)
  <2> HIDE DEF At
  <2>1. d \notin Fwd' => d \in NextE(Home[queue'[d][k][1]])
    BY <1>3, QueuesEnd DEF MInv, DInv, E, NextE
  <2>2. ASSUME queue'[d][k] \in Requests
        PROVE  parent[queue'[d][k]] \in Channels /\ NextE(parent[queue'[d][k]]) = NextE(d)
    BY <1>3, <2>2 DEF DInv, ParentInv, Carries, E, NextE
  <2> QED BY <2>1, <2>2
<1>10. /\ \A d \in Channels \ Fwd' : \A j, k \in 1..Len(queue'[d]) :
              j < k => Before(queue'[d][j], queue'[d][k])
       /\ \A d \in Channels \ Fwd' : \A j \in 1..Len(got), k \in 1..Len(queue'[d]) :
              Before(got[j], queue'[d][k])
  <2> HIDE DEF At
  <2> QED BY <1>3, <1>5 DEF DInv, OrderInv, Carries
<1>11. /\ \A i \in Items : status[i] = "Unsent" <=> status'[i] = "Unsent"
       /\ \A k \in 1..n : status'[queue[c][k]] = st
  <2>1. \A k \in 1..n : queue[c][k] \in Items /\ status[queue[c][k]] = "Queued"
    BY <1>1, <1>2
  <2>2. \A i \in Items : status'[i] = IF \E k \in 1..n : queue[c][k] = i THEN st ELSE status[i]
    BY DEF Leaves
  <2>3. ASSUME NEW i \in Items PROVE status[i] = "Unsent" <=> status'[i] = "Unsent"
    <3>1. CASE \E k \in 1..n : queue[c][k] = i
      BY <2>1, <2>2, <3>1
    <3>2. CASE ~\E k \in 1..n : queue[c][k] = i
      BY <2>2, <3>2
    <3> QED BY <3>1, <3>2
  <2> QED BY <2>1, <2>2, <2>3
<1>12. /\ \A d \in Channels : \A k \in 1..Len(batch[d]) : status'[batch[d][k]] = "Erroring"
       /\ \A k \in 1..Len(got) : status'[got[k]] = "Delivered"
  <2>1. \A i \in Items : status[i] # "Queued" => status'[i] = status[i]
    BY <1>1, <1>2 DEF Leaves
  <2> QED BY <2>1, ListTypes DEF MInv, DInv, PlaceInv, Holds, SentInv
<1> HIDE DEF At
<1>13. Holds(queue', status', "Queued")
  BY <1>7, <1>8 DEF Holds
<1> QED BY <1>4, <1>6, <1>7, <1>9, <1>10, <1>11, <1>12, <1>13

-----------------------------------------------------------------------------
(* Receiving.                                                              *)

LEMMA DeliverLeaves ==
    ASSUME TypeOK, NEW c \in Channels, queue[c] # <<>>, Deliver(c)
    PROVE  /\ 1 \in 0..Len(queue[c]) /\ Leaves(c, 1, "Delivered") /\ queue[c][1] \in Items
           /\ Len(got') = Len(got) + 1 /\ got'[Len(got) + 1] = queue[c][1]
           /\ \A k \in 1..Len(got) : got'[k] = got[k]
<1>1. queue[c] \in Seq(Items) /\ Len(queue[c]) \in Nat \ {0}
  BY EmptySeq DEF TypeOK
<1>2. Head(queue[c]) = queue[c][1] /\ queue[c][1] \in Items
  BY <1>1, ElementOfSeq
<1>3. queue'[c] = Tail(queue[c]) /\ \A d \in Channels \ {c} : queue'[d] = queue[d]
  BY DEF Deliver, TypeOK
<1>4. Len(queue'[c]) = Len(queue[c]) - 1 /\ \A k \in 1..Len(queue'[c]) : queue'[c][k] = queue[c][k + 1]
  BY <1>1, <1>3, HeadTailProperties
<1>5. \A i \in Items : status'[i] = IF i = queue[c][1] THEN "Delivered" ELSE status[i]
  BY <1>2 DEF Deliver, TypeOK
<1>6. \A i \in Items : (\E k \in 1..1 : queue[c][k] = i) <=> i = queue[c][1]
  OBVIOUS
<1>7. got' = Append(got, queue[c][1]) /\ got \in Seq(Items)
  BY <1>2 DEF Deliver, TypeOK
<1>8. /\ Len(got') = Len(got) + 1 /\ got'[Len(got) + 1] = queue[c][1]
      /\ \A k \in 1..Len(got) : got'[k] = got[k]
  BY <1>2, <1>7, AppendProperties
<1> QED BY <1>1, <1>2, <1>3, <1>4, <1>5, <1>6, <1>8 DEF Leaves

\* The item received was before the others of its sender, all of which are behind it in
\* the same open channel, or in closed ones.
LEMMA DeliverKeeps ==
    ASSUME MInv, DInv, Carries, NEW c \in Channels, rpc[c] = "idle", queue[c] # <<>>, Deliver(c),
           UNCHANGED <<batch, rpc, flags, value, sends, target>>,
           \A i \in Items : i # queue[c][1] => parent'[i] = parent[i],
           CanTryRecv = {} => parent'[queue[c][1]] = None
    PROVE  DInv'
<1> DEFINE i == queue[c][1]
           g == Len(got)
<1>1. /\ 1 \in 0..Len(queue[c]) /\ Leaves(c, 1, "Delivered") /\ i \in Items
      /\ Len(got') = g + 1 /\ got'[g + 1] = i /\ \A k \in 1..g : got'[k] = got[k]
  BY DeliverLeaves DEF MInv
<1>2. /\ Holds(queue', status', "Queued") /\ Apart(queue')
      /\ \A d \in Channels : \A k \in 1..Len(queue'[d]) :
             /\ queue'[d][k] \in Items /\ queue'[d][k] # i
             /\ d \notin Fwd' => d \in NextE(Home[queue'[d][k][1]])
             /\ queue'[d][k] \in Requests =>
                   parent[queue'[d][k]] \in Channels /\ NextE(parent[queue'[d][k]]) = NextE(d)
      /\ \A d \in Channels \ Fwd' : \A j, k \in 1..Len(queue'[d]) :
             j < k => Before(queue'[d][j], queue'[d][k])
      /\ \A d \in Channels \ Fwd' : \A j \in 1..g, k \in 1..Len(queue'[d]) :
             Before(got[j], queue'[d][k])
      /\ \A j \in Items : status[j] = "Unsent" <=> status'[j] = "Unsent"
      /\ status'[i] = "Delivered"
      /\ \A d \in Channels : \A k \in 1..Len(batch[d]) : status'[batch[d][k]] = "Erroring"
      /\ \A k \in 1..g : status'[got[k]] = "Delivered"
  BY <1>1, FrontLeaves
<1>3. \A j \in Items : status'[j] = IF j = i THEN "Delivered" ELSE status[j]
  BY <1>1 DEF Leaves
<1>4. g \in Nat /\ \A k \in 1..Len(got') : (k \in 1..g /\ got'[k] = got[k]) \/ (k = g + 1 /\ got'[k] = i)
  BY <1>1, ListTypes DEF MInv
<1>5. c \notin Fwd /\ Fwd' = Fwd /\ (\A x : NextE(x) = E(x)) /\ i[1] \in Senders /\ Home[i[1]] \in Channels
  <2>1. Fwd' = Fwd
    BY DEF Fwd, Forwarded, Resolution
  <2>2. c \notin Fwd
    BY FlagsResolve DEF MInv, CloseInv, Fwd, Forwarded
  <2> QED BY <1>1, <2>1, <2>2, ItemParts DEF NextE, E
<1>6. 1 \in 1..Len(queue[c]) /\ c \in E(Home[i[1]])
  <2>1. 1 \in 1..Len(queue[c])
    BY <1>1
  <2> QED BY <1>5, <2>1 DEF DInv, EndInv
<1> HIDE DEF i, g
<1>7. PlaceInv'
  <2>1. \A j \in Items : status'[j] = "Erroring" => status[j] = "Erroring"
    BY <1>3
  <2> QED BY <1>2, <2>1 DEF DInv, PlaceInv, Holds
<1>8. BatchInv'
  BY SameBatches DEF DInv
<1>9. SentInv'
  <2>1. \A k \in 1..Len(got') : status'[got'[k]] = "Delivered"
    BY <1>2, <1>4
  <2>2. ASSUME NEW j \in Items, status'[j] = "Delivered"
        PROVE  \E k \in 1..Len(got') : got'[k] = j
    <3>1. CASE j = i
      <4>1. g + 1 \in 1..Len(got')
        BY <1>1, <1>4
      <4> QED BY <1>1, <3>1, <4>1
    <3>2. CASE j # i
      <4>1. PICK k \in 1..Len(got) : got[k] = j
        BY <1>3, <2>2, <3>2 DEF DInv, SentInv
      <4>2. k \in 1..Len(got') /\ got'[k] = got[k]
        BY <1>1, <1>4, <4>1 DEF g
      <4> QED BY <4>1, <4>2
    <3> QED BY <3>1, <3>2
  <2> QED BY <1>2, <2>1, <2>2 DEF DInv, SentInv
<1>10. EndInv'
  <2>1. \A j \in Items : status'[j] \in {"Returned", "Erroring", "Errored"} => Ended(Home[j[1]])'
    BY <1>3, QueuesEnd DEF MInv, DInv
  <2> QED BY <1>2, <2>1, QueuesEnd DEF MInv, DInv, EndInv, Carries, E, NextE
<1>11. OrderInv'
  <2>1. ASSUME NEW d \in Channels \ Fwd', NEW k \in 1..Len(queue'[d]) PROVE Before(i, queue'[d][k])
    <3> DEFINE j == queue'[d][k]
    <3>1. CASE j[1] # i[1]
      BY <3>1 DEF Before
    <3>2. CASE j[1] = i[1]
      <4>1. d \in E(Home[i[1]])
        BY <1>2, <1>5, <2>1, <3>2
      <4>2. d = c
        BY <1>5, <1>6, <4>1, EndIsOne DEF DInv, EndInv
      <4>3. k + 1 \in 1..Len(queue[c]) /\ queue'[c][k] = queue[c][k + 1] /\ 1 < k + 1
        BY <1>1, <4>2 DEF Leaves
      <4>4. Before(queue[c][1], queue[c][k + 1])
        BY <1>5, <1>6, <4>3 DEF DInv, OrderInv
      <4> QED BY <4>2, <4>3, <4>4 DEF i
    <3> QED BY <3>1, <3>2
  <2>2. \A d \in Channels \ Fwd' : \A j \in 1..Len(got'), k \in 1..Len(queue'[d]) :
            Before(got'[j], queue'[d][k])
    BY <1>2, <1>4, <2>1
  <2>3. ASSUME NEW j \in 1..Len(got'), NEW k \in 1..Len(got'), j < k PROVE Before(got'[j], got'[k])
    <3>1. j \in 1..g /\ got'[j] = got[j]
      BY <1>1, <1>4, <2>3
    <3>2. CASE k \in 1..g /\ got'[k] = got[k]
      BY <2>3, <3>1, <3>2 DEF DInv, OrderInv, g
    <3>3. CASE got'[k] = i
      BY <1>5, <1>6, <3>1, <3>3 DEF DInv, OrderInv, g, i
    <3> QED BY <1>4, <3>2, <3>3
  <2> QED BY <1>2, <2>2, <2>3 DEF OrderInv
<1>12. ParentInv'
  <2>1. ASSUME NEW d \in Channels, NEW k \in 1..Len(queue'[d]), queue'[d][k] \in Requests
        PROVE  parent'[queue'[d][k]] \in Channels /\ NextE(parent'[queue'[d][k]]) = NextE(d)
    <3>1. parent'[queue'[d][k]] = parent[queue'[d][k]]
      BY <1>2 DEF i
    <3> QED BY <1>2, <2>1, <3>1
  <2>2. ASSUME CanTryRecv = {}, NEW j \in Requests, status'[j] # "Queued" PROVE parent'[j] = None
    <3>1. CASE j = i
      BY <2>2, <3>1 DEF i
    <3>2. CASE j # i
      BY <1>3, <2>2, <3>2 DEF DInv, ParentInv, Requests, i
    <3> QED BY <3>1, <3>2
  <2> QED BY <2>1, <2>2 DEF ParentInv, E, NextE
<1> QED BY <1>7, <1>8, <1>9, <1>10, <1>11, <1>12 DEF DInv

LEMMA PollRecvOrders ==
    ASSUME MInv, DInv, Carries, NEW c \in Channels, NEW t \in RTasks, PollRecv(c, t)
    PROVE  DInv'
<1>1. UNCHANGED <<batch, rpc, flags, value, sends, target>> /\ rpc[c] = "idle"
  BY DEF PollRecv, Idle, recvVars, sendVars
<1>2. CASE queue[c] # <<>> /\ Deliver(c) /\ parent' = [parent EXCEPT ![Head(queue[c])] = None]
  <2>1. Head(queue[c]) = queue[c][1] /\ queue[c][1] \in Items
    BY <1>2, DeliverLeaves DEF MInv
  <2>2. parent'[queue[c][1]] = None /\ \A i \in Items : i # queue[c][1] => parent'[i] = parent[i]
    BY <1>2, <2>1 DEF MInv, TypeOK
  <2> QED BY <1>1, <1>2, <2>2, DeliverKeeps
<1>3. CASE UNCHANGED <<queue, status, got, parent>>
  BY <1>1, <1>3, QuietKeeps
<1> QED BY <1>2, <1>3 DEF PollRecv

LEMMA TryRecvOrders ==
    ASSUME MInv, DInv, Carries, NEW c \in Channels, TryRecv(c)
    PROVE  DInv'
<1>1. /\ UNCHANGED <<batch, rpc, flags, value, sends, target, parent>>
      /\ rpc[c] = "idle" /\ queue[c] # <<>> /\ Deliver(c) /\ CanTryRecv # {}
  BY DEF TryRecv, Idle, recvVars, sendVars
<1> QED BY <1>1, DeliverKeeps

-----------------------------------------------------------------------------
(* Closing.                                                                *)

LEMMA TakeBatchLeaves ==
    ASSUME TypeOK, NEW c \in Channels, TakeBatch(c)
    PROVE  \E n \in 0..Len(queue[c]) :
              /\ Leaves(c, n, "Erroring")
              /\ Len(batch'[c]) = n /\ \A k \in 1..n : batch'[c][k] = queue[c][k]
              /\ \A d \in Channels \ {c} : batch'[d] = batch[d]
              /\ \A i \in Items : parent'[i] = IF \E k \in 1..n : queue[c][k] = i THEN None ELSE parent[i]
              /\ rpc'[c] \in {"respond", "respondLast"}
              /\ \A d \in Channels \ {c} : rpc'[d] = rpc[d]
<1> DEFINE n == Min({Len(queue[c]), CloseBatch})
           taken == SubSeq(queue[c], 1, n)
           rest == SubSeq(queue[c], n + 1, Len(queue[c]))
<1>1. queue[c] \in Seq(Items) /\ Len(queue[c]) \in Nat /\ CloseBatch \in Nat
  BY MpscAssumption DEF TypeOK
<1>2. n \in 0..Len(queue[c])
  <2>1. \E x \in {Len(queue[c]), CloseBatch} : \A y \in {Len(queue[c]), CloseBatch} : x <= y
    BY <1>1
  <2> QED BY <1>1, <2>1 DEF Min
<1>3. /\ queue' = [queue EXCEPT ![c] = rest] /\ batch' = [batch EXCEPT ![c] = taken]
      /\ parent' = [i \in Items |-> IF i \in ToSet(taken) THEN None ELSE parent[i]]
      /\ status' = [i \in Items |-> IF i \in ToSet(taken) THEN "Erroring" ELSE status[i]]
      /\ rpc' = [rpc EXCEPT ![c] = IF LastBatch(c) THEN "respondLast" ELSE "respond"]
  BY DEF TakeBatch, TakeParents
<1> HIDE DEF n
<1>4. taken \in Seq(Items) /\ Len(taken) = n /\ \A k \in 1..n : taken[k] = queue[c][k]
  <2>1. \A k \in 1..n : queue[c][k] \in Items
    BY <1>1, <1>2, ElementOfSeq
  <2> QED BY <1>1, <1>2, <2>1, SubSeqProperties
<1>5. Len(rest) = Len(queue[c]) - n /\ \A k \in 1..Len(rest) : rest[k] = queue[c][k + n]
  <2>1. \A k \in (n + 1)..Len(queue[c]) : queue[c][k] \in Items
    BY <1>1, <1>2, ElementOfSeq
  <2> QED BY <1>1, <1>2, <2>1, SubSeqProperties
<1>6. \A i \in Items : i \in ToSet(taken) <=> \E k \in 1..n : queue[c][k] = i
  <2>1. ToSet(taken) = { taken[k] : k \in 1..n }
    BY <1>4, LenProperties DEF ToSet
  <2> QED BY <1>4, <2>1
<1> HIDE DEF taken, rest
<1>7. Leaves(c, n, "Erroring")
  <2>1. queue'[c] = rest /\ \A d \in Channels \ {c} : queue'[d] = queue[d]
    BY <1>3 DEF TypeOK
  <2>2. \A i \in Items : status'[i] = IF \E k \in 1..n : queue[c][k] = i THEN "Erroring" ELSE status[i]
    BY <1>3, <1>6
  <2> QED BY <1>5, <2>1, <2>2 DEF Leaves
<1>8. batch'[c] = taken /\ \A d \in Channels \ {c} : batch'[d] = batch[d]
  BY <1>3 DEF TypeOK
<1>9. \A i \in Items : parent'[i] = IF \E k \in 1..n : queue[c][k] = i THEN None ELSE parent[i]
  BY <1>3, <1>6
<1>10. rpc'[c] \in {"respond", "respondLast"} /\ \A d \in Channels \ {c} : rpc'[d] = rpc[d]
  BY <1>3 DEF TypeOK
<1> QED BY <1>2, <1>4, <1>7, <1>8, <1>9, <1>10

\* The items taken out of a channel that is closed belong to senders that end up there.
LEMMA TakeBatchKeeps ==
    ASSUME MInv, DInv, Carries, NEW c \in Channels, TakeBatch(c),
           rpc[c] \notin {"respond", "respondLast"}, c \notin Fwd, Terminal(c)',
           UNCHANGED <<got, sends, target>>
    PROVE  DInv'
<1>1. PICK n \in 0..Len(queue[c]) :
        /\ Leaves(c, n, "Erroring")
        /\ Len(batch'[c]) = n /\ \A k \in 1..n : batch'[c][k] = queue[c][k]
        /\ \A d \in Channels \ {c} : batch'[d] = batch[d]
        /\ \A i \in Items : parent'[i] = IF \E k \in 1..n : queue[c][k] = i THEN None ELSE parent[i]
        /\ rpc'[c] \in {"respond", "respondLast"}
        /\ \A d \in Channels \ {c} : rpc'[d] = rpc[d]
  BY TakeBatchLeaves DEF MInv
<1>2. /\ Holds(queue', status', "Queued") /\ Apart(queue')
      /\ \A d \in Channels : \A k \in 1..Len(queue'[d]) :
             /\ queue'[d][k] \in Items /\ \A j \in 1..n : queue[c][j] # queue'[d][k]
             /\ d \notin Fwd' => d \in NextE(Home[queue'[d][k][1]])
             /\ queue'[d][k] \in Requests =>
                   parent[queue'[d][k]] \in Channels /\ NextE(parent[queue'[d][k]]) = NextE(d)
      /\ \A d \in Channels \ Fwd' : \A j, k \in 1..Len(queue'[d]) :
             j < k => Before(queue'[d][j], queue'[d][k])
      /\ \A d \in Channels \ Fwd' : \A j \in 1..Len(got), k \in 1..Len(queue'[d]) :
             Before(got[j], queue'[d][k])
      /\ \A i \in Items : status[i] = "Unsent" <=> status'[i] = "Unsent"
      /\ \A k \in 1..n : status'[queue[c][k]] = "Erroring"
      /\ \A d \in Channels : \A k \in 1..Len(batch[d]) : status'[batch[d][k]] = "Erroring"
      /\ \A k \in 1..Len(got) : status'[got[k]] = "Delivered"
  BY <1>1, FrontLeaves
<1>3. \A i \in Items : status'[i] = IF \E k \in 1..n : queue[c][k] = i THEN "Erroring" ELSE status[i]
  BY <1>1 DEF Leaves
<1>4. \A k \in 1..n : k \in 1..Len(queue[c]) /\ queue[c][k] \in Items /\ status[queue[c][k]] = "Queued"
  BY ListTypes DEF MInv, DInv, PlaceInv, Holds
<1>5. batch[c] = <<>> /\ Len(batch[c]) = 0
  BY DEF DInv, BatchInv
<1>6. PlaceInv'
  <2>1. \A d \in Channels : \A k \in 1..Len(batch'[d]) : status'[batch'[d][k]] = "Erroring"
    BY <1>1, <1>2
  <2>2. ASSUME NEW i \in Items, status'[i] = "Erroring"
        PROVE  \E d \in Channels : \E k \in 1..Len(batch'[d]) : batch'[d][k] = i
    <3>1. CASE \E k \in 1..n : queue[c][k] = i
      BY <1>1, <3>1
    <3>2. CASE ~\E k \in 1..n : queue[c][k] = i
      <4>1. PICK d \in Channels : \E k \in 1..Len(batch[d]) : batch[d][k] = i
        BY <1>3, <2>2, <3>2 DEF DInv, PlaceInv, Holds
      <4>2. d # c
        BY <1>5, <4>1
      <4> QED BY <1>1, <4>1, <4>2
    <3> QED BY <3>1, <3>2
  <2>3. Apart(batch')
    <3> SUFFICES ASSUME NEW d \in Channels, NEW e \in Channels,
                        NEW j \in 1..Len(batch'[d]), NEW k \in 1..Len(batch'[e]),
                        batch'[d][j] = batch'[e][k]
                 PROVE  d = e /\ j = k
      BY DEF Apart
    <3>1. \A x \in Channels \ {c} : \A y \in 1..Len(batch'[x]) :
              y \in 1..Len(batch[x]) /\ batch'[x][y] = batch[x][y] /\ status[batch[x][y]] = "Erroring"
      BY <1>1 DEF DInv, PlaceInv, Holds
    <3>2. \A y \in 1..Len(batch'[c]) :
              y \in 1..Len(queue[c]) /\ batch'[c][y] = queue[c][y] /\ status[queue[c][y]] = "Queued"
      BY <1>1, <1>4
    <3>3. Apart(queue) /\ Apart(batch)
      BY DEF DInv, PlaceInv
    <3>4. CASE d = c /\ e = c
      <4>1. queue[c][j] = queue[c][k]
        BY <3>2, <3>4
      <4> QED BY <3>2, <3>3, <3>4, <4>1 DEF Apart
    <3>5. CASE d # c /\ e # c
      <4>1. batch[d][j] = batch[e][k]
        BY <3>1, <3>5
      <4> QED BY <3>1, <3>3, <3>5, <4>1 DEF Apart
    <3>6. CASE d = c /\ e # c
      <4>1. status[batch'[d][j]] = "Queued" /\ status[batch'[e][k]] = "Erroring"
        BY <3>1, <3>2, <3>6
      <4> QED BY <4>1
    <3>7. CASE d # c /\ e = c
      <4>1. status[batch'[d][j]] = "Erroring" /\ status[batch'[e][k]] = "Queued"
        BY <3>1, <3>2, <3>7
      <4> QED BY <4>1
    <3> QED BY <3>4, <3>5, <3>6, <3>7
  <2> QED BY <1>2, <2>1, <2>2, <2>3 DEF PlaceInv, Holds
<1>7. BatchInv'
  BY <1>1 DEF DInv, BatchInv
<1>8. SentInv'
  <2>1. \A i \in Items : status'[i] = "Delivered" => status[i] = "Delivered"
    BY <1>3
  <2> QED BY <1>2, <2>1 DEF DInv, SentInv
<1>9. EndInv'
  <2>1. ASSUME NEW i \in Items, status'[i] \in {"Returned", "Erroring", "Errored"}
        PROVE  Ended(Home[i[1]])'
    <3>1. CASE \E k \in 1..n : queue[c][k] = i
      <4>1. PICK k \in 1..n : queue[c][k] = i
        BY <3>1
      <4>2. c \in E(Home[i[1]])
        BY <1>4, <4>1 DEF DInv, EndInv
      <4>3. c \notin Fwd'
        BY DEF Terminal, Fwd, Forwarded
      <4>4. c \in E(Home[i[1]])'
        BY <4>2, <4>3, ItemParts DEF Carries
      <4> QED BY <4>4 DEF Ended
    <3>2. CASE ~\E k \in 1..n : queue[c][k] = i
      BY <1>3, <2>1, <3>2, QueuesEnd DEF MInv, DInv
    <3> QED BY <3>1, <3>2
  <2> QED BY <1>2, <2>1, QueuesEnd DEF MInv, DInv, EndInv, Carries, E, NextE
<1>10. OrderInv'
  BY <1>2 DEF DInv, OrderInv
<1>11. ParentInv'
  <2>1. ASSUME NEW d \in Channels, NEW k \in 1..Len(queue'[d]), queue'[d][k] \in Requests
        PROVE  parent'[queue'[d][k]] \in Channels /\ NextE(parent'[queue'[d][k]]) = NextE(d)
    <3>1. parent'[queue'[d][k]] = parent[queue'[d][k]]
      BY <1>1, <1>2
    <3> QED BY <1>2, <2>1, <3>1
  <2>2. ASSUME CanTryRecv = {}, NEW i \in Requests, status'[i] # "Queued" PROVE parent'[i] = None
    BY <1>1, <1>3, <2>2 DEF DInv, ParentInv, Requests
  <2> QED BY <2>1, <2>2 DEF ParentInv, E, NextE
<1> QED BY <1>6, <1>7, <1>8, <1>9, <1>10, <1>11 DEF DInv

LEMMA CloseChannelOrders ==
    ASSUME MInv, DInv, Carries, NEW c \in Channels, CloseChannel(c)
    PROVE  DInv'
<1>1. /\ UNCHANGED <<got, sends, target>> /\ TakeBatch(c) /\ Resolve(c, Error)
      /\ rpc[c] = "close" /\ flags[c] = {}
  BY DEF CloseChannel, sendVars, MInv, CloseInv
<1>2. c \notin Fwd /\ Terminal(c)'
  BY <1>1, FlagsResolve, ResolveResolves DEF MInv, Fwd, Forwarded, Terminal
<1> QED BY <1>1, <1>2, TakeBatchKeeps

LEMMA CloseMoreOrders ==
    ASSUME MInv, DInv, Carries, NEW c \in Channels, CloseMore(c)
    PROVE  DInv'
<1>1. /\ UNCHANGED <<got, sends, target, flags, value>> /\ TakeBatch(c)
      /\ rpc[c] = "closeMore" /\ Resolution(c) = "Error"
  BY DEF CloseMore, sendVars, MInv, CloseInv
<1>2. c \notin Fwd /\ Terminal(c)'
  BY <1>1 DEF Resolution, Fwd, Forwarded, Terminal
<1> QED BY <1>1, <1>2, TakeBatchKeeps

LEMMA RespondBatchOrders ==
    ASSUME MInv, DInv, Carries, NEW c \in Channels, RespondBatch(c)
    PROVE  DInv'
<1>1. /\ UNCHANGED <<queue, got, sends, target, parent>>
      /\ batch'[c] = <<>> /\ \A d \in Channels \ {c} : batch'[d] = batch[d] /\ rpc'[d] = rpc[d]
  BY DEF RespondBatch, chanVars, sendVars, MInv, TypeOK
<1>2. \A i \in Items : status'[i] = IF \E k \in 1..Len(batch[c]) : batch[c][k] = i THEN "Errored" ELSE status[i]
  <2>1. ToSet(batch[c]) = { batch[c][k] : k \in 1..Len(batch[c]) }
    BY LenProperties DEF ToSet, MInv, TypeOK
  <2> QED BY <2>1 DEF RespondBatch
<1>3. /\ \A d \in Channels : \A k \in 1..Len(batch[d]) : batch[d][k] \in Items /\ status[batch[d][k]] = "Erroring"
      /\ \A d \in Channels : \A k \in 1..Len(queue[d]) : queue[d][k] \in Items /\ status[queue[d][k]] = "Queued"
      /\ \A k \in 1..Len(got) : got[k] \in Items /\ status[got[k]] = "Delivered"
  BY ListTypes DEF MInv, DInv, PlaceInv, Holds, SentInv
<1>4. \A i \in Items : status[i] # "Erroring" => status'[i] = status[i]
  BY <1>2, <1>3
<1>5. \A i \in Items : status'[i] \in {"Errored", status[i]} /\ (status'[i] # status[i] => status[i] = "Erroring")
  BY <1>2, <1>4
<1>6. PlaceInv'
  <2>1. Holds(queue', status', "Queued")
    BY <1>1, <1>3, <1>4, <1>5 DEF DInv, PlaceInv, Holds
  <2>2. ASSUME NEW d \in Channels, NEW k \in 1..Len(batch'[d])
        PROVE  d # c /\ k \in 1..Len(batch[d]) /\ batch'[d][k] = batch[d][k]
    BY <1>1
  <2>3. Apart(batch')
    BY <2>2 DEF DInv, PlaceInv, Apart
  <2>4. ASSUME NEW d \in Channels, NEW k \in 1..Len(batch'[d]) PROVE status'[batch'[d][k]] = "Erroring"
    <3>1. ~\E j \in 1..Len(batch[c]) : batch[c][j] = batch[d][k]
      BY <2>2, <2>4 DEF DInv, PlaceInv, Apart
    <3> QED BY <1>2, <1>3, <2>2, <2>4, <3>1
  <2>5. ASSUME NEW i \in Items, status'[i] = "Erroring"
        PROVE  \E d \in Channels : \E k \in 1..Len(batch'[d]) : batch'[d][k] = i
    <3>1. status[i] = "Erroring" /\ ~\E k \in 1..Len(batch[c]) : batch[c][k] = i
      BY <1>2, <2>5
    <3>2. PICK d \in Channels : \E k \in 1..Len(batch[d]) : batch[d][k] = i
      BY <3>1 DEF DInv, PlaceInv, Holds
    <3>3. d # c
      BY <3>1, <3>2
    <3> QED BY <1>1, <3>2, <3>3
  <2> QED BY <1>1, <2>1, <2>3, <2>4, <2>5 DEF DInv, PlaceInv, Holds
<1>7. BatchInv'
  BY <1>1 DEF DInv, BatchInv
<1>8. SentInv'
  BY <1>1, <1>3, <1>4, <1>5 DEF DInv, SentInv
<1>9. EndInv'
  <2>1. \A i \in Items : status'[i] \in {"Returned", "Erroring", "Errored"} => Ended(Home[i[1]])'
    BY <1>5, QueuesEnd DEF MInv, DInv
  <2> QED BY <1>1, <2>1, QueuesEnd DEF MInv, DInv, EndInv, Carries, E, NextE
<1>10. OrderInv'
  BY <1>1, SameOrder DEF DInv
<1>11. ParentInv'
  <2>1. \A c1 \in Channels : \A k \in 1..Len(queue[c1]) : queue[c1][k] \in Requests =>
            parent[queue[c1][k]] \in Channels /\ NextE(parent[queue[c1][k]]) = NextE(c1)
    BY DEF DInv, ParentInv, Carries, E, NextE
  <2>2. \A i \in Requests : status'[i] # "Queued" => status[i] # "Queued"
    BY <1>5 DEF Requests
  <2> QED BY <1>1, <2>1, <2>2 DEF DInv, ParentInv, E, NextE
<1> QED BY <1>6, <1>7, <1>8, <1>9, <1>10, <1>11 DEF DInv

-----------------------------------------------------------------------------
(* Forwarding.                                                             *)

\* The requests of c are appended to those of d; the two are not ends of one sender.
LEMMA MoveKeeps ==
    ASSUME MInv, DInv, Carries, NEW c \in Channels, NEW d \in Channels \ {c}, NEW m \in Channels,
           Linking(Fwd, value, c, m, Fwd', value'), E(d) = {m}, E(m) = {m},
           queue' = [queue EXCEPT ![d] = @ \o queue[c], ![c] = <<>>],
           UNCHANGED <<batch, status, got, sends, target, parent>>, BatchInv'
    PROVE  DInv'
<1> DEFINE n == Len(queue[d])
           l == Len(queue[c])
<1>1. /\ n \in Nat /\ l \in Nat
      /\ Len(queue'[c]) = 0 /\ Len(queue'[d]) = n + l
      /\ \A k \in 1..n : queue'[d][k] = queue[d][k]
      /\ \A k \in 1..l : queue'[d][k + n] = queue[c][k]
      /\ \A k \in (n + 1)..(n + l) : queue'[d][k] = queue[c][k - n]
      /\ \A e \in Channels \ {c, d} : queue'[e] = queue[e]
  <2>1. queue[c] \in Seq(Items) /\ queue[d] \in Seq(Items)
    BY DEF MInv, TypeOK
  <2>2. n \in Nat /\ l \in Nat
    BY <2>1, LenProperties
  <2>3. /\ Len(queue[d] \o queue[c]) = n + l
        /\ \A k \in 1..(n + l) : (queue[d] \o queue[c])[k] = IF k <= n THEN queue[d][k] ELSE queue[c][k - n]
    BY <2>1, ConcatProperties
  <2>4. /\ queue'[d] = queue[d] \o queue[c] /\ queue'[c] = <<>>
        /\ \A e \in Channels \ {c, d} : queue'[e] = queue[e]
    BY DEF MInv, TypeOK
  <2> HIDE DEF n, l
  <2>5. \A k \in 1..n : k \in 1..(n + l) /\ k <= n
    BY <2>2
  <2>6. \A k \in 1..l : k + n \in 1..(n + l) /\ ~(k + n <= n) /\ (k + n) - n = k
    BY <2>2
  <2>7. \A k \in (n + 1)..(n + l) : k \in 1..(n + l) /\ ~(k <= n)
    BY <2>2
  <2>8. \A k \in 1..l : (queue[d] \o queue[c])[k + n] = queue[c][k]
    BY <2>3, <2>6
  <2> QED BY <2>2, <2>3, <2>4, <2>5, <2>7, <2>8
<1> HIDE DEF n, l
<1>2. \* Where the items of a queue were.
      \A e \in Channels : \A k \in 1..Len(queue'[e]) :
          \/ k \in 1..Len(queue[e]) /\ e # c /\ queue'[e][k] = queue[e][k]
          \/ e = d /\ k > n /\ k - n \in 1..Len(queue[c]) /\ queue'[e][k] = queue[c][k - n]
  <2> TAKE e \in Channels
  <2> TAKE k \in 1..Len(queue'[e])
  <2>1. CASE e \in Channels \ {c, d}
    <3>1. queue'[e] = queue[e]
      BY <1>1, <2>1
    <3> QED BY <2>1, <3>1
  <2>2. CASE e = d
    <3>1. k \in 1..(n + l)
      BY <1>1, <2>2
    <3>2. CASE k <= n
      <4>1. k \in 1..n
        BY <1>1, <3>1, <3>2
      <4> QED BY <1>1, <2>2, <4>1 DEF n
    <3>3. CASE ~(k <= n)
      <4>1. k \in (n + 1)..(n + l) /\ k > n /\ k - n \in 1..l
        BY <1>1, <3>1, <3>3
      <4> QED BY <1>1, <2>2, <4>1 DEF l
    <3> QED BY <3>2, <3>3
  <2>3. CASE e = c
    BY <1>1, <2>3
  <2> QED BY <2>1, <2>2, <2>3
<1>3. \A e \in Channels : Len(queue[e]) \in Nat /\ \A k \in 1..Len(queue[e]) :
          queue[e][k] \in Items /\ status[queue[e][k]] = "Queued"
  BY ListTypes DEF MInv, DInv, PlaceInv, Holds
<1>4. Apart(queue')
  <2> SUFFICES ASSUME NEW e \in Channels, NEW f \in Channels,
                      NEW j \in 1..Len(queue'[e]), NEW k \in 1..Len(queue'[f]),
                      queue'[e][j] = queue'[f][k]
               PROVE  e = f /\ j = k
    BY DEF Apart
  <2>1. Apart(queue)
    BY DEF DInv, PlaceInv
  <2>2. CASE e # c /\ f # c /\ j \in 1..Len(queue[e]) /\ k \in 1..Len(queue[f])
             /\ queue[e][j] = queue[f][k]
    BY <2>1, <2>2 DEF Apart
  <2>3. CASE e = d /\ f = d /\ j - n \in 1..Len(queue[c]) /\ k - n \in 1..Len(queue[c])
             /\ queue[c][j - n] = queue[c][k - n]
    <3>1. j - n = k - n
      BY <2>1, <2>3 DEF Apart
    <3>2. j \in Int /\ k \in Int
      OBVIOUS
    <3> QED BY <1>1, <2>3, <3>1, <3>2
  <2>4. CASE e # c /\ j \in 1..Len(queue[e]) /\ k - n \in 1..Len(queue[c])
             /\ queue[e][j] = queue[c][k - n]
    BY <2>1, <2>4 DEF Apart
  <2>5. CASE f # c /\ k \in 1..Len(queue[f]) /\ j - n \in 1..Len(queue[c])
             /\ queue[c][j - n] = queue[f][k]
    BY <2>1, <2>5 DEF Apart
  <2> QED BY <1>2, <2>2, <2>3, <2>4, <2>5
<1>5. PlaceInv'
  <2>1. ASSUME NEW e \in Channels, NEW k \in 1..Len(queue'[e]) PROVE status'[queue'[e][k]] = "Queued"
    <3>1. CASE k \in 1..Len(queue[e]) /\ queue'[e][k] = queue[e][k]
      BY <1>3, <3>1
    <3>2. CASE k - n \in 1..Len(queue[c]) /\ queue'[e][k] = queue[c][k - n]
      BY <1>3, <3>2
    <3> QED BY <1>2, <3>1, <3>2
  <2>2. ASSUME NEW i \in Items, status'[i] = "Queued"
        PROVE  \E e \in Channels : \E k \in 1..Len(queue'[e]) : queue'[e][k] = i
    <3>1. PICK e \in Channels : \E k \in 1..Len(queue[e]) : queue[e][k] = i
      BY <2>2 DEF DInv, PlaceInv, Holds
    <3>2. PICK k \in 1..Len(queue[e]) : queue[e][k] = i
      BY <3>1
    <3>3. CASE e = c
      <4>1. k \in 1..l
        BY <3>2, <3>3 DEF l
      <4>2. k + n \in 1..Len(queue'[d])
        <5>1. n \in Nat /\ l \in Nat /\ Len(queue'[d]) = n + l
          BY <1>1
        <5> QED BY <4>1, <5>1
      <4>3. queue'[d][k + n] = i
        BY <1>1, <3>2, <3>3, <4>1
      <4> QED BY <4>2, <4>3
    <3>4. CASE e = d
      <4>1. k \in 1..n
        BY <3>2, <3>4 DEF n
      <4>2. k \in 1..Len(queue'[d])
        <5>1. n \in Nat /\ l \in Nat /\ Len(queue'[d]) = n + l
          BY <1>1
        <5> QED BY <4>1, <5>1
      <4>3. queue'[d][k] = i
        BY <1>1, <3>2, <3>4, <4>1
      <4> QED BY <4>2, <4>3
    <3>5. CASE e \in Channels \ {c, d}
      <4>1. queue'[e] = queue[e]
        BY <1>1, <3>5
      <4> QED BY <3>2, <4>1
    <3> QED BY <3>3, <3>4, <3>5
  <2>3. Holds(queue', status', "Queued")
    BY <2>1, <2>2 DEF Holds
  <2> QED BY <1>4, <2>3 DEF DInv, PlaceInv
<1>6. SentInv'
  BY DEF DInv, SentInv
<1>7. /\ c \in Channels \ Fwd /\ Fwd' = Fwd \union {c} /\ NextE(c) = NextE(d) /\ NextE(c) = NextE(m)
      /\ Links(Fwd', value')
  <2>1. c \in Channels \ Fwd /\ Fwd' = Fwd \union {c} /\ value'[c] = m /\ Links(Fwd', value')
    BY DEF Linking, Carries
  <2>2. NextE(c) = NextE(m)
    BY <2>1, EndOfLinked DEF NextE
  <2>3. NextE(m) = NextE(d)
    BY DEF Carries, E, NextE
  <2> QED BY <2>1, <2>2, <2>3
<1>8. \* Who ended in c ends where d ends.
      \A x \in Channels : c \in E(x) => NextE(x) = NextE(d)
  <2>1. ASSUME NEW x \in Channels, c \in E(x) PROVE NextE(x) = NextE(c)
    BY <2>1, EndsMove DEF DInv, EndInv, E, NextE
  <2> QED BY <1>7, <2>1
<1>9. \A k \in 1..Len(queue[c]) : c \in E(Home[queue[c][k][1]]) /\ Home[queue[c][k][1]] \in Channels
  <2>1. c \notin Fwd
    BY <1>7
  <2> QED BY <1>3, <2>1, ItemParts DEF DInv, EndInv
<1>10. ASSUME d \notin Fwd' PROVE d \notin Fwd /\ NextE(d) = {d}
  <2>1. NextE(d) = {d}
    BY <1>10, EndOfOpen DEF NextE
  <2> QED BY <1>7, <1>10, <2>1
<1>11. EndInv'
  <2>1. ASSUME NEW e \in Channels, NEW k \in 1..Len(queue'[e]), e \notin Fwd'
        PROVE  e \in NextE(Home[queue'[e][k][1]])
    <3>1. CASE k \in 1..Len(queue[e]) /\ queue'[e][k] = queue[e][k]
      BY <2>1, <3>1, QueuesEnd DEF MInv, DInv, E, NextE
    <3>2. CASE e = d /\ k - n \in 1..Len(queue[c]) /\ queue'[e][k] = queue[c][k - n]
      BY <1>8, <1>9, <1>10, <2>1, <3>2
    <3> QED BY <1>2, <3>1, <3>2
  <2> QED BY <1>7, <2>1, QueuesEnd DEF MInv, DInv, EndInv, E, NextE
<1>12. OrderInv'
  <2>1. ASSUME NEW e \in Channels \ Fwd', NEW j \in 1..Len(queue'[e]), NEW k \in 1..Len(queue'[e]), j < k
        PROVE  Before(queue'[e][j], queue'[e][k])
    <3>1. e \notin Fwd /\ e # c
      BY <1>7
    <3>2. CASE k \in 1..Len(queue[e]) /\ queue'[e][k] = queue[e][k]
      <4>1. j \in 1..Len(queue[e]) /\ ~(j > n /\ e = d)
        BY <1>1, <1>3, <2>1, <3>2 DEF n
      <4>2. queue'[e][j] = queue[e][j]
        BY <1>2, <4>1
      <4> QED BY <2>1, <3>1, <3>2, <4>1, <4>2 DEF DInv, OrderInv
    <3>3. CASE e = d /\ k - n \in 1..Len(queue[c]) /\ queue'[e][k] = queue[c][k - n]
      <4>1. CASE j \in 1..Len(queue[d]) /\ queue'[e][j] = queue[d][j]
        <5> DEFINE x == queue[d][j]
                   y == queue[c][k - n]
        <5>1. ASSUME x[1] = y[1] PROVE FALSE
          <6>1. d \in E(Home[x[1]]) /\ c \in E(Home[y[1]]) /\ Home[y[1]] \in Channels
            BY <1>9, <3>1, <3>3, <4>1 DEF DInv, EndInv
          <6> QED BY <5>1, <6>1, EndIsOne DEF DInv, EndInv
        <5> QED BY <3>3, <4>1, <5>1 DEF Before
      <4>2. CASE j - n \in 1..Len(queue[c]) /\ queue'[e][j] = queue[c][j - n]
        <5>1. j - n < k - n
          BY <1>1, <2>1
        <5> QED BY <1>7, <3>3, <4>2, <5>1 DEF DInv, OrderInv
      <4> QED BY <1>2, <3>3, <4>1, <4>2
    <3> QED BY <1>2, <3>2, <3>3
  <2>2. ASSUME NEW e \in Channels \ Fwd', NEW j \in 1..Len(got), NEW k \in 1..Len(queue'[e])
        PROVE  Before(got[j], queue'[e][k])
    <3>1. e \notin Fwd
      BY <1>7
    <3>2. CASE k \in 1..Len(queue[e]) /\ queue'[e][k] = queue[e][k]
      BY <3>1, <3>2 DEF DInv, OrderInv
    <3>3. CASE k - n \in 1..Len(queue[c]) /\ queue'[e][k] = queue[c][k - n]
      BY <1>7, <3>3 DEF DInv, OrderInv
    <3> QED BY <1>2, <3>2, <3>3
  <2> QED BY <2>1, <2>2 DEF DInv, OrderInv
<1>13. ParentInv'
  <2>1. ASSUME NEW e \in Channels, NEW k \in 1..Len(queue[e]), queue[e][k] \in Requests
        PROVE  parent[queue[e][k]] \in Channels /\ NextE(parent[queue[e][k]]) = NextE(e)
    BY <2>1 DEF DInv, ParentInv, Carries, E, NextE
  <2>2. ASSUME NEW e \in Channels, NEW k \in 1..Len(queue'[e]), queue'[e][k] \in Requests
        PROVE  parent[queue'[e][k]] \in Channels /\ NextE(parent[queue'[e][k]]) = NextE(e)
    <3>1. CASE k \in 1..Len(queue[e]) /\ queue'[e][k] = queue[e][k]
      BY <2>1, <2>2, <3>1
    <3>2. CASE e = d /\ k - n \in 1..Len(queue[c]) /\ queue'[e][k] = queue[c][k - n]
      BY <1>7, <2>1, <2>2, <3>2
    <3> QED BY <1>2, <3>1, <3>2
  <2> QED BY <2>2 DEF DInv, ParentInv, E, NextE
<1> QED BY <1>5, <1>6, <1>11, <1>12, <1>13 DEF DInv

LEMMA LockBOrders ==
    ASSUME MInv, DInv, Carries, NEW c \in Channels, LockB(c)
    PROVE  DInv'
<1> DEFINE d == dest[c]
           m == MostResolved(d)
<1>1. /\ UNCHANGED <<batch, status, got, sends, target, parent>>
      /\ flags[c] = {} /\ rpc[c] = "lockB" /\ d \in Channels \ {c} /\ m \in Channels
  BY ResolvesToChannel DEF LockB, itemVars, sendVars, MInv, CloseInv, LockInv
<1>2. \/ UNCHANGED queue
      \/ /\ Unresolved(m) /\ Resolve(c, m)
         /\ queue' = [queue EXCEPT ![d] = @ \o queue[c], ![c] = <<>>]
  BY DEF LockB, MoveRequests, chanVars
<1>3. \A e \in Channels : rpc'[e] \notin {"respond", "respondLast"} => rpc[e] \notin {"respond", "respondLast"}
  BY <1>1 DEF LockB, MInv, TypeOK
<1>4. CASE UNCHANGED queue
  BY <1>1, <1>3, <1>4, QuietKeeps
<1>5. CASE /\ Unresolved(m) /\ Resolve(c, m)
           /\ queue' = [queue EXCEPT ![d] = @ \o queue[c], ![c] = <<>>]
  <2>1. E(d) = {m} /\ E(m) = {m}
    BY <1>1, <1>5, ResolvesToItsEnd DEF Unresolved, Forwarded, DInv, EndInv
  <2>2. m # Error /\ m \in Channels \union {Error}
    BY <1>1, MpscAssumption
  <2> HIDE DEF d, m
  <2>3. Linking(Fwd, value, c, m, Fwd', value')
    BY <1>1, <1>5, <2>2, ResolveResolves DEF MInv
  <2>4. BatchInv'
    BY <1>1, <1>3 DEF DInv, BatchInv
  <2> QED BY <1>1, <1>5, <2>1, <2>3, <2>4, MoveKeeps
<1> QED BY <1>2, <1>4, <1>5

LEMMA OtherReceiverOrders ==
    ASSUME MInv, DInv, Carries, NEW c \in Channels,
           \/ DropReceiver(c) \/ BeginClose(c) \/ LockA(c)
           \/ \E d \in Channels : BeginForward(c, d)
    PROVE  DInv'
<1>1. UNCHANGED <<queue, batch, status, got, sends, target, parent>>
  BY DEF DropReceiver, BeginClose, LockA, BeginForward, chanVars, itemVars, sendVars
<1>2. rpc[c] \in {"idle", "lockA"} /\ \A d \in Channels \ {c} : rpc'[d] = rpc[d]
  BY DEF DropReceiver, BeginClose, LockA, BeginForward, Idle, MInv, TypeOK
<1> QED BY <1>1, <1>2, QuietKeeps

LEMMA DStep == MInv /\ DInv /\ [Next]_vars => DInv'
<1> SUFFICES ASSUME MInv, DInv, [Next]_vars PROVE DInv'
  OBVIOUS
<1>0. Carries
  BY StepCarries DEF DInv, EndInv
<1>1. ASSUME NEW s \in Senders, SenderStep(s) PROVE DInv'
  BY <1>0, <1>1, BeginSendOrders, FinishSendOrders DEF SenderStep
<1>2. ASSUME NEW c \in Channels, ReceiverStep(c) PROVE DInv'
  <2>1. CASE TryRecv(c) \/ \E t \in RTasks : PollRecv(c, t)
    BY <1>0, <2>1, TryRecvOrders, PollRecvOrders
  <2>2. CASE DropReceiver(c) \/ BeginClose(c) \/ LockA(c) \/ \E d \in Channels : BeginForward(c, d)
    BY <1>0, <2>2, OtherReceiverOrders
  <2>3. CASE LockB(c)
    BY <1>0, <2>3, LockBOrders
  <2>4. CASE CloseStep(c)
    BY <1>0, <2>4, CloseChannelOrders, CloseMoreOrders, RespondBatchOrders DEF CloseStep
  <2> QED BY <1>2, <2>1, <2>2, <2>3, <2>4 DEF ReceiverStep, ForwardStep
<1>3. ASSUME NEW i \in Requests, RequestStep(i) PROVE DInv'
  <2>1. UNCHANGED <<queue, batch, status, got, sends, target, parent, rpc>>
    BY <1>3 DEF RequestStep, FinishRequest, TryRemoveFromChannel, chanVars, sendVars, recvVars
  <2> QED BY <1>0, <2>1, QuietKeeps
<1>4. ASSUME NEW t \in Threads, CallWaker(t) PROVE DInv'
  <2>1. UNCHANGED <<queue, batch, status, got, sends, target, parent, rpc>>
    BY <1>4 DEF CallWaker, chanVars, itemVars, sendVars, recvVars
  <2> QED BY <1>0, <2>1, QuietKeeps
<1>5. CASE UNCHANGED vars
  <2>1. UNCHANGED <<queue, batch, status, got, sends, target, parent, rpc>>
    BY <1>5 DEF vars, chanVars, itemVars, sendVars, recvVars
  <2> QED BY <1>0, <2>1, QuietKeeps
<1> QED BY <1>1, <1>2, <1>3, <1>4, <1>5 DEF Next

LEMMA Delivering == Spec => [](MInv /\ DInv)
BY MInit, DInit, MStep, DStep, PTL DEF Spec

-----------------------------------------------------------------------------
\* What one sender sends is received in the order it was sent, whatever channels it is
\* forwarded through, by whichever receivers, while the sender is on its way to a mutex.
THEOREM DeliveriesInOrder == Spec => []SenderOrderKept
<1>1. DInv => SenderOrderKept
  BY DEF DInv, OrderInv, Before, SenderOrderKept
<1> QED BY <1>1, Delivering, PTL

\* The places of the items of the lists.
LEMMA PlacesOfApart ==
    ASSUME NEW lists \in [Channels -> Seq(Items)], NEW stats, NEW st,
           Apart(lists), Holds(lists, stats, st), NEW i \in Items
    PROVE  /\ stats[i] = st => \E p : Places(lists, i) = {p}
           /\ stats[i] # st => Places(lists, i) = {}
<1>1. \A c \in Channels : DOMAIN lists[c] = 1..Len(lists[c])
  BY LenProperties
<1>2. \A p \in Places(lists, i) :
          p = <<p[1], p[2]>> /\ p[1] \in Channels /\ p[2] \in 1..Len(lists[p[1]]) /\ lists[p[1]][p[2]] = i
  BY <1>1 DEF Places
<1>3. CASE stats[i] = st
  <2>1. PICK c \in Channels : \E k \in 1..Len(lists[c]) : lists[c][k] = i
    BY <1>3 DEF Holds
  <2>2. PICK k \in 1..Len(lists[c]) : lists[c][k] = i
    BY <2>1
  <2>3. <<c, k>> \in Places(lists, i)
    BY <1>1, <2>2 DEF Places
  <2>4. ASSUME NEW p \in Places(lists, i) PROVE p = <<c, k>>
    <3>1. p[1] = c /\ p[2] = k
      BY <1>2, <2>2, <2>4 DEF Apart
    <3> QED BY <1>2, <3>1
  <2>5. Places(lists, i) = {<<c, k>>}
    BY <2>3, <2>4
  <2> QED BY <1>3, <2>5
<1>4. CASE stats[i] # st
  BY <1>2, <1>4 DEF Holds
<1> QED BY <1>3, <1>4

\* An accepted item that nobody has received yet is in one place and one only, and no
\* other item is anywhere: forwards append what they take, batches are what was cut off.
THEOREM NothingIsLost == Spec => []NothingLostOrDuplicated
<1>1. ASSUME TypeOK, PlaceInv PROVE NothingLostOrDuplicated
  <2> SUFFICES ASSUME NEW i \in Items
               PROVE  Occurrences(i) = IF status[i] \in {"Queued", "Erroring"} THEN 1 ELSE 0
    BY DEF NothingLostOrDuplicated
  <2>1. /\ status[i] = "Queued" => \E p : Places(queue, i) = {p}
        /\ status[i] # "Queued" => Places(queue, i) = {}
        /\ status[i] = "Erroring" => \E p : Places(batch, i) = {p}
        /\ status[i] # "Erroring" => Places(batch, i) = {}
    <3>1. /\ queue \in [Channels -> Seq(Items)] /\ batch \in [Channels -> Seq(Items)]
          /\ Holds(queue, status, "Queued") /\ Apart(queue)
          /\ Holds(batch, status, "Erroring") /\ Apart(batch)
      BY <1>1 DEF PlaceInv, TypeOK
    <3>2. /\ status[i] = "Queued" => \E p : Places(queue, i) = {p}
          /\ status[i] # "Queued" => Places(queue, i) = {}
      BY <3>1, PlacesOfApart
    <3>3. /\ status[i] = "Erroring" => \E p : Places(batch, i) = {p}
          /\ status[i] # "Erroring" => Places(batch, i) = {}
      BY <3>1, PlacesOfApart
    <3> QED BY <3>2, <3>3
  <2>2. Cardinality({}) = 0 /\ \A p : Cardinality({p}) = 1
    BY FS_EmptySet, FS_Singleton
  <2>3. Cardinality(Places(queue, i)) = IF status[i] = "Queued" THEN 1 ELSE 0
    BY <2>1, <2>2
  <2>4. Cardinality(Places(batch, i)) = IF status[i] = "Erroring" THEN 1 ELSE 0
    BY <2>1, <2>2
  <2> QED BY <2>3, <2>4 DEF Occurrences
<1> QED BY <1>1, Delivering, PTL DEF MInv, DInv

\* Where receivers use recv only, the parent that a request in a channel has is resolved
\* to the channel it is in, through all the forwards, or ends with it in a ring of them;
\* and a request that has left its channel has no parent.
THEOREM ParentsFollow == CanTryRecv = {} => (Spec => []ParentFollowsQueue)
<1> SUFFICES ASSUME CanTryRecv = {} PROVE Spec => []ParentFollowsQueue
  OBVIOUS
<1>1. ASSUME TypeOK, PlaceInv, ParentInv PROVE ParentFollowsQueue
  <2> SUFFICES ASSUME NEW i \in Requests
               PROVE  IF status[i] = "Queued"
                      THEN /\ parent[i] # None
                           /\ \E c \in Channels :
                                 i \in ToSet(queue[c]) /\ EndsFrom(parent[i]) = EndsFrom(c)
                      ELSE parent[i] = None
    BY DEF ParentFollowsQueue
  <2>1. CASE status[i] = "Queued"
    <3>1. PICK c \in Channels : \E k \in 1..Len(queue[c]) : queue[c][k] = i
      BY <1>1, <2>1 DEF PlaceInv, Holds, Requests
    <3>2. PICK k \in 1..Len(queue[c]) : queue[c][k] = i
      BY <3>1
    <3>3. parent[i] \in Channels /\ E(parent[i]) = E(c)
      BY <1>1, <3>2 DEF ParentInv
    <3>4. i \in ToSet(queue[c])
      <4>1. ToSet(queue[c]) = { queue[c][j] : j \in 1..Len(queue[c]) }
        BY <1>1, LenProperties DEF ToSet, TypeOK
      <4> QED BY <3>2, <4>1
    <3>5. EndsFrom(parent[i]) = EndsFrom(c)
      BY <3>3, EndsAreEnds DEF E
    <3> QED BY <2>1, <3>3, <3>4, <3>5, MpscAssumption
  <2>2. CASE status[i] # "Queued"
    BY <1>1, <2>2 DEF ParentInv
  <2> QED BY <2>1, <2>2
<1> QED BY <1>1, Delivering, PTL DEF MInv, DInv

-----------------------------------------------------------------------------
(* What the users of the channels see.                                     *)
Seen(stats) == [i \in Items |-> Outcome(stats[i])]

LEMMA Outcomes ==
    /\ Outcome("Unsent") = "Unsent" /\ Outcome("Queued") = "Accepted"
    /\ Outcome("Delivered") = "Received" /\ Outcome("Erroring") = "Failed"
    /\ Outcome("Errored") = "Failed" /\ Outcome("Returned") = "Returned"
    /\ Outcome("Discarded") = "Discarded"
BY DEF Outcome

LEMMA OutcomeOf ==
    ASSUME NEW st \in Statuses
    PROVE  /\ Outcome(st) = "Accepted" <=> st = "Queued"
           /\ Outcome(st) = "Received" <=> st = "Delivered"
           /\ Outcome(st) = "Failed" <=> st \in {"Erroring", "Errored"}
           /\ Outcome(st) = "Returned" <=> st = "Returned"
BY DEF Outcome, Statuses

\* A sender for whom the channel is over ends up in one that is closed.
LEMMA OverIsEnded ==
    ASSUME TypeOK, EndInv, NEW s \in Senders, Promise!Over(s)
    PROVE  Ended(Home[s])
<1>1. PICK i \in Items : i[1] = s /\ Outcome(status[i]) \in {"Returned", "Failed"}
  BY DEF Promise!Over, Promise!Items, Items
<1>2. status[i] \in Statuses
  BY DEF TypeOK
<1> QED BY <1>1, <1>2, OutcomeOf DEF EndInv

LEMMA NotOver ==
    ASSUME TypeOK, EndInv, NEW s \in Senders, NEW m \in E(Home[s]), ~Terminal(m)
    PROVE  ~Promise!Over(s)
<1> SUFFICES ASSUME Promise!Over(s) PROVE FALSE
  OBVIOUS
<1>1. PICK e \in E(Home[s]) : Terminal(e)
  BY OverIsEnded DEF Ended
<1>2. e = m
  BY <1>1, EndIsOne, MpscAssumption DEF EndInv
<1> QED BY <1>1, <1>2

LEMMA SendMaps ==
    ASSUME MInv, DInv, NEW s \in Senders, NEW st \in {"Returned", "Discarded", "Queued"},
           sends[s] < MaxSends, SendReturns(s, st), got' = got,
           Promise!Over(s) => st = "Returned"
    PROVE  Promise!Next
<1> DEFINE o == Outcome(st)
           i == <<s, sends[s] + 1>>
<1>1. /\ i \in Items /\ status'[i] = st /\ \A j \in Items : j # i => status'[j] = status[j]
  BY SendSettles DEF MInv, DInv, Statuses, Sending
<1>2. o \in {"Accepted", "Returned", "Discarded"} /\ (Promise!Over(s) => o = "Returned")
  BY Outcomes
<1>3. Seen(status') = [Seen(status) EXCEPT ![i] = o]
  <2> HIDE DEF i
  <2> QED BY <1>1 DEF Seen
<1>4. sends' = [sends EXCEPT ![s] = @ + 1]
  BY DEF SendReturns
<1> HIDE DEF o
<1>5. Promise!Send(s, o)
  BY <1>2, <1>3, <1>4 DEF Promise!Send, Seen, Outcome
<1> QED BY <1>2, <1>5 DEF Promise!Next

LEMMA SenderMaps ==
    ASSUME MInv, DInv, NEW s \in Senders, SenderStep(s)
    PROVE  Promise!Next \/ UNCHANGED <<sends, status, got>>
<1>1. CASE BeginSend(s)
  <2>1. sends[s] < MaxSends /\ got' = got
    BY <1>1 DEF BeginSend
  <2>2. SendReturns(s, "Returned") \/ UNCHANGED <<status, sends>>
    BY <1>1 DEF BeginSend
  <2> QED BY <2>1, <2>2, SendMaps
<1>2. CASE FinishSend(s)
  <2> DEFINE c == target[s]
             m == MostResolved(c)
  <2>1. sends[s] < MaxSends /\ got' = got /\ c \in Channels /\ E(c) = E(Home[s])
    BY <1>2 DEF FinishSend, MInv, TypeOK, ThreadInv, DInv, EndInv
  <2>2. \/ SendReturns(s, "Returned")
        \/ Unresolved(m) /\ (SendReturns(s, "Discarded") \/ SendReturns(s, "Queued"))
    BY <1>2 DEF FinishSend
  <2>3. ASSUME Unresolved(m) PROVE ~Promise!Over(s)
    <3>1. m \in E(Home[s]) /\ ~Terminal(m)
      BY <2>1, <2>3, ResolvesToItsEnd DEF Unresolved, Forwarded, Terminal, DInv, EndInv
    <3> QED BY <3>1, NotOver DEF MInv, DInv
  <2> QED BY <2>1, <2>2, <2>3, SendMaps
<1> QED BY <1>1, <1>2 DEF SenderStep

\* What is received is behind what was received before, and nothing of its sender failed.
LEMMA DeliverMaps ==
    ASSUME MInv, DInv, NEW c \in Channels, rpc[c] = "idle", queue[c] # <<>>, Deliver(c), sends' = sends
    PROVE  Promise!Next
<1> DEFINE i == queue[c][1]
<1>1. i \in Items /\ 1 \in 1..Len(queue[c]) /\ Leaves(c, 1, "Delivered")
  BY DeliverLeaves DEF MInv
<1>2. got' = Append(got, i)
  BY DeliverLeaves DEF Deliver, MInv, TypeOK
<1>3. status[i] = "Queued"
  BY <1>1 DEF DInv, PlaceInv, Holds
<1>4. flags[c] = {} /\ c \notin Fwd /\ ~Terminal(c)
  BY FlagsResolve DEF MInv, CloseInv, Fwd, Forwarded, Terminal
<1>5. ~Promise!Over(i[1])
  <2>1. c \in E(Home[i[1]]) /\ i[1] \in Senders
    BY <1>1, <1>4, ItemParts DEF DInv, EndInv
  <2> QED BY <1>4, <2>1, NotOver DEF MInv, DInv
<1> HIDE DEF i
<1>6. Seen(status') = [Seen(status) EXCEPT ![i] = "Received"]
  <2>1. \A j \in Items : status'[j] = IF j = i THEN "Delivered" ELSE status[j]
    BY <1>1 DEF Leaves, i
  <2>2. Outcome("Delivered") = "Received"
    BY Outcomes
  <2> QED BY <1>1, <2>1, <2>2 DEF Seen
<1>7. ASSUME NEW j \in Items, j[1] = i[1], Seen(status)[j] = "Received" PROVE j[2] < i[2]
  <2>1. status[j] = "Delivered"
    BY <1>7, OutcomeOf DEF MInv, TypeOK, Seen
  <2>2. PICK k \in 1..Len(got) : got[k] = j
    BY <2>1 DEF DInv, SentInv
  <2>3. Before(got[k], queue[c][1])
    BY <1>1, <1>4, <2>2 DEF DInv, OrderInv
  <2> QED BY <1>7, <2>2, <2>3 DEF Before, i
<1>8. Seen(status)[i] = "Accepted"
  BY <1>1, <1>3, Outcomes DEF Seen
<1>9. Promise!Receive(i)
  BY <1>2, <1>5, <1>6, <1>7, <1>8 DEF Promise!Receive, Promise!Items, Items, Seen, Outcome
<1> QED BY <1>1, <1>9 DEF Promise!Next, Promise!Items, Items

LEMMA TakeBatchMaps ==
    ASSUME MInv, DInv, NEW c \in Channels, TakeBatch(c), UNCHANGED <<sends, got>>
    PROVE  Promise!Next
<1>1. PICK n \in 0..Len(queue[c]) : Leaves(c, n, "Erroring")
  BY TakeBatchLeaves DEF MInv
<1> DEFINE failed == { queue[c][k] : k \in 1..n }
<1>2. \A k \in 1..n : queue[c][k] \in Items /\ status[queue[c][k]] = "Queued"
  BY ListTypes DEF MInv, DInv, PlaceInv, Holds
<1>3. \A i \in Items : status'[i] = IF i \in failed THEN "Erroring" ELSE status[i]
  BY <1>1 DEF Leaves
<1>4. failed \in SUBSET Items /\ \A i \in failed : status[i] = "Queued"
  BY <1>2
<1> HIDE DEF failed
<1>5. Seen(status') = [i \in Items |-> IF i \in failed THEN "Failed" ELSE Seen(status)[i]]
  <2>1. Outcome("Erroring") = "Failed"
    BY Outcomes
  <2> QED BY <1>3, <2>1 DEF Seen
<1>6. \A i \in failed : Seen(status)[i] = "Accepted"
  BY <1>4, Outcomes DEF Seen
<1>7. Promise!Fail(failed)
  BY <1>5, <1>6 DEF Promise!Fail, Promise!Items, Items, Seen, Outcome
<1> QED BY <1>4, <1>7 DEF Promise!Next, Promise!Items, Items

\* Answering the items of a batch with the error changes nothing their users did not
\* have to expect.
LEMMA RespondBatchMaps ==
    ASSUME MInv, DInv, NEW c \in Channels, RespondBatch(c)
    PROVE  UNCHANGED <<Seen(status), sends, got>>
<1>1. UNCHANGED <<sends, got>>
  BY DEF RespondBatch, sendVars
<1>2. \A i \in ToSet(batch[c]) : i \in Items /\ status[i] = "Erroring"
  <2>1. ToSet(batch[c]) = { batch[c][k] : k \in 1..Len(batch[c]) }
    BY LenProperties DEF ToSet, MInv, TypeOK
  <2> QED BY <2>1, ListTypes DEF MInv, DInv, PlaceInv, Holds
<1>3. \A i \in Items : status'[i] = IF i \in ToSet(batch[c]) THEN "Errored" ELSE status[i]
  BY DEF RespondBatch
<1>4. ASSUME NEW i \in Items PROVE Outcome(status'[i]) = Outcome(status[i])
  BY <1>2, <1>3, Outcomes
<1>5. Seen(status') = Seen(status)
  BY <1>4 DEF Seen
<1> QED BY <1>1, <1>5 DEF Seen, Outcome

LEMMA ReceiverMaps ==
    ASSUME MInv, DInv, NEW c \in Channels, ReceiverStep(c)
    PROVE  Promise!Next \/ UNCHANGED <<Seen(status), sends, got>>
<1>1. ASSUME UNCHANGED <<status, sends, got>> PROVE UNCHANGED <<Seen(status), sends, got>>
  BY <1>1 DEF Seen
<1>2. CASE TryRecv(c)
  BY <1>2, DeliverMaps DEF TryRecv, Idle, sendVars
<1>3. ASSUME NEW t \in RTasks, PollRecv(c, t)
      PROVE  Promise!Next \/ UNCHANGED <<status, sends, got>>
  BY <1>3, DeliverMaps DEF PollRecv, Idle, sendVars
<1>4. CASE CloseChannel(c) \/ CloseMore(c)
  BY <1>4, TakeBatchMaps DEF CloseChannel, CloseMore, sendVars
<1>5. CASE RespondBatch(c)
  BY <1>5, RespondBatchMaps
<1>6. CASE DropReceiver(c) \/ BeginClose(c) \/ ForwardStep(c) \/ \E d \in Channels : BeginForward(c, d)
  <2>1. UNCHANGED <<status, sends, got>>
    BY <1>6 DEF DropReceiver, BeginClose, ForwardStep, LockA, LockB, BeginForward, itemVars, sendVars
  <2> QED BY <1>1, <2>1
<1> QED BY <1>1, <1>2, <1>3, <1>4, <1>5, <1>6 DEF ReceiverStep, CloseStep

LEMMA StepMaps == MInv /\ DInv /\ [Next]_vars => [Promise!Next]_(Promise!vars)
<1> SUFFICES ASSUME MInv, DInv, [Next]_vars
             PROVE  Promise!Next \/ UNCHANGED <<Seen(status), sends, got>>
  BY DEF Promise!vars, Seen
<1>1. ASSUME UNCHANGED <<status, sends, got>> PROVE UNCHANGED <<Seen(status), sends, got>>
  BY <1>1 DEF Seen
<1>2. ASSUME NEW s \in Senders, SenderStep(s) PROVE Promise!Next \/ UNCHANGED <<status, sends, got>>
  BY <1>2, SenderMaps
<1>3. ASSUME NEW i \in Requests, RequestStep(i) PROVE UNCHANGED <<status, sends, got>>
  BY <1>3 DEF RequestStep, FinishRequest, TryRemoveFromChannel, sendVars
<1>4. ASSUME NEW t \in Threads, CallWaker(t) PROVE UNCHANGED <<status, sends, got>>
  BY <1>4 DEF CallWaker, itemVars, sendVars
<1>5. CASE UNCHANGED vars
  BY <1>1, <1>5 DEF vars, itemVars, sendVars
<1> QED BY <1>1, <1>2, <1>3, <1>4, <1>5, ReceiverMaps DEF Next

\* Whatever is forwarded, closed, dropped or received at the same time, those who send
\* see what Delivery promises: no item is received after one of its sender that came
\* back or failed, and what is accepted is received in order or fails.
THEOREM ChannelsDeliver == Spec => DeliverySpec
<1>1. Init => Promise!Init
  BY Outcomes DEF Init, Promise!Init, Promise!Items, Items
<1> QED BY <1>1, Delivering, StepMaps, PTL DEF Spec, DeliverySpec, Promise!Spec
=============================================================================

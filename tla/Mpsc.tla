-------------------------------- MODULE Mpsc --------------------------------
(***************************************************************************)
(* The request channels of recapn-channel/src/mpsc.rs: a queue of requests *)
(* and events per channel, any number of Senders, one Receiver which       *)
(* receives, forwards the whole channel to another one, closes it with an  *)
(* error or is dropped, and the chain of forwards that every Sender walks  *)
(* to find the channel its requests belong to.                             *)
(*                                                                         *)
(* Each sender and each receiver is a thread.  A critical section under    *)
(* the mutex of one channel is one step, taken when the mutex is free:     *)
(* what it reads without the mutex (the resolution of a channel, whether   *)
(* a request is finished) it reads once, and that read places the step.    *)
(* forward_to takes two mutexes and is cut between them; a waker is called *)
(* after the mutex is released, in a step of its own.                      *)
(***************************************************************************)
EXTENDS AtomicState, Integers, Sequences, FiniteSets, SequencesExt, FiniteSetsExt

CONSTANTS
    Channels,     \* the channels
    Addr,         \* Addr[c]: the address of the shared state of c
    None,         \* no channel, no task
    Error,        \* the error a channel is closed with
    Senders,      \* the sending threads
    Home,         \* Home[s]: the channel the Sender of s was created with
    MaxSends,     \* how many items each of them sends
    EventItems,   \* the items sent with send_event; the others are requests
    CanFinish,    \* the requests whose last response receiver may be dropped
    Forwards,     \* <<c, d>>: the receiver of c may be forwarded to a Sender of d
    CanClose,     \* the channels whose receiver may close with an error
    CanDrop,      \* the channels whose receiver may be dropped
    CanTryRecv,   \* the channels whose receiver may use try_recv
    CloseBatch,   \* capacity of the batch of close (32 in the source)
    RTasks        \* the tasks that may poll a receiver

Items == Senders \X (1..MaxSends)
Requests == Items \ EventItems

ASSUME MpscAssumption ==
    /\ IsFiniteSet(Channels)
    /\ None \notin Channels \union RTasks /\ Error \notin Channels /\ Error # None
    /\ Addr \in [Channels -> Nat]
    /\ \A c, d \in Channels : Addr[c] = Addr[d] => c = d
    /\ Home \in [Senders -> Channels]
    /\ MaxSends \in Nat /\ CloseBatch \in Nat \ {0}
    /\ EventItems \subseteq Items /\ CanFinish \subseteq Requests
    /\ Forwards \subseteq Channels \X Channels
    /\ CanClose \subseteq Channels /\ CanDrop \subseteq Channels /\ CanTryRecv \subseteq Channels
    /\ Senders \intersect Channels = {}

VARIABLES
    queue,        \* queue[c]: State.requests
    rwaker,       \* rwaker[c]: State.waker, the task it wakes
    lock,         \* lock[c]: the thread that holds the mutex of c between two steps
    flags,        \* flags[c]: ResolutionState.state
    value,        \* value[c]: ResolutionState.value, a channel or Error
    parent,       \* parent[i]: SharedRequest.parent
    finished,     \* finished[i]: remove_receiver of the last receiver: not begun,
                  \* "closed" once RECV_CLOSED is up, "done" once it has returned
    status,       \* status[i]: what has become of the item
    panicked,     \* the requests whose remove_receiver ran into todo!()
    sends,        \* sends[s]: the number of sends s has completed
    target,       \* target[s]: the channel s has resolved to and is about to lock
    rpc,          \* rpc[c]: where the receiver of c is
    dest,         \* dest[c]: `other` and `other_shared` of forward_to
    batch,        \* batch[c]: the items close has taken out of the queue
    asleep,       \* asleep[c]: the last poll_recv returned Pending
    rtask,        \* rtask[c]: the task of that poll
    woken,        \* woken[c]: that task has been woken since
    waking,       \* waking[t]: the waker thread t has taken and not yet called
    got           \* history: the items received, in order

sendVars == <<sends, target>>
recvVars == <<rpc, dest, batch>>
taskVars == <<asleep, rtask, woken>>
itemVars == <<parent, finished, status, panicked, got>>
chanVars == <<queue, rwaker, flags, value>>
vars == <<chanVars, lock, itemVars, sendVars, recvVars, taskVars, waking>>

Threads == Senders \union Channels
Statuses == {"Unsent", "Queued", "Delivered", "Erroring", "Errored", "Returned", "Discarded"}
ReceiverPCs == {"idle", "lockA", "lockB", "close", "closeMore", "respond", "respondLast", "gone"}

-----------------------------------------------------------------------------
(* Resolution of a channel.                                                *)

\* SharedChannel::try_resolved
Resolution(c) ==
    CASE ShotState(flags[c]) = "Empty"  -> "Unresolved"
      [] ShotState(flags[c]) = "Closed" -> "Dropped"
      [] ShotState(flags[c]) = "Sent"   -> IF value[c] = Error THEN "Error" ELSE "Forwarded"

Forwarded(c) == Resolution(c) = "Forwarded"

\* The sets of channels that have c and, with a forwarded channel, the one it is
\* forwarded to.  What is in all of them is the chain of forwards from c.
ClosedFrom(c) ==
    { S \in SUBSET Channels : c \in S /\ \A x \in S : Forwarded(x) => value[x] \in S }
EndsFrom(c) ==
    LET closed == ClosedFrom(c)
    IN  { m \in Channels : ~Forwarded(m) /\ \A S \in closed : m \in S }

\* most_resolved: the end of the chain.  Resolutions never change, so the walk is as
\* good as one read of the last link.  Without an end, in a ring of forwards, the
\* code walks for ever; c is then a channel that nothing can be done with.
MostResolved(c) ==
    IF ~Forwarded(c) THEN c
    ELSE LET ends == EndsFrom(c) IN IF ends = {} THEN c ELSE CHOOSE m \in ends : TRUE

Unresolved(c) == Resolution(c) = "Unresolved"
Terminal(c) == Resolution(c) \in {"Dropped", "Error"}

\* SharedChannel::most_unresolved returns a channel
HasMostUnresolved(c) == Unresolved(MostResolved(c))

\* ResolutionState::resolve: the value is written, then the flag raised; waking
\* those who wait for the resolution is WaitList's.
Resolve(c, v) ==
    /\ flags' = [flags EXCEPT ![c] = TrySetValue(@)]
    /\ value' = [value EXCEPT ![c] = IF "RECV_CLOSED" \in flags[c] THEN None ELSE v]

Init ==
    /\ queue = [c \in Channels |-> <<>>]
    /\ rwaker = [c \in Channels |-> None]
    /\ lock = [c \in Channels |-> None]
    /\ flags = [c \in Channels |-> {}]
    /\ value = [c \in Channels |-> None]
    /\ parent = [i \in Items |-> None]
    /\ finished = [i \in Items |-> "no"]
    /\ status = [i \in Items |-> "Unsent"]
    /\ panicked = {}
    /\ sends = [s \in Senders |-> 0]
    /\ target = [s \in Senders |-> None]
    /\ rpc = [c \in Channels |-> "idle"]
    /\ dest = [c \in Channels |-> None]
    /\ batch = [c \in Channels |-> <<>>]
    /\ asleep = [c \in Channels |-> FALSE]
    /\ rtask = [c \in Channels |-> None]
    /\ woken = [c \in Channels |-> FALSE]
    /\ waking = [t \in Threads |-> {}]
    /\ got = <<>>

Free(c) == lock[c] = None

\* Mutant: no test for a waker.
TakeAnyWaker(t, c) ==
    /\ waking' = [waking EXCEPT ![t] = {<<c, rwaker[c]>>}]
    /\ rwaker' = [rwaker EXCEPT ![c] = None]

\* The waker of c, if there is one, leaves the channel with thread t.
TakeWaker(t, c) ==
    /\ waking' = [waking EXCEPT ![t] = IF rwaker[c] = None THEN {} ELSE {<<c, rwaker[c]>>}]
    /\ rwaker' = [rwaker EXCEPT ![c] = None]

\* Mutant: the waker is dropped, and not called.
DropWaker(t) ==
    /\ waking[t] # {}
    /\ waking' = [waking EXCEPT ![t] = {}]
    /\ UNCHANGED <<chanVars, lock, itemVars, sendVars, recvVars, taskVars>>

\* w.wake(), after the mutexes are released
CallWaker(t) ==
    /\ \E w \in waking[t] :
        /\ waking' = [waking EXCEPT ![t] = {}]
        /\ woken' = [woken EXCEPT ![w[1]] = @ \/ (asleep[w[1]] /\ rtask[w[1]] = w[2])]
    /\ UNCHANGED <<chanVars, lock, itemVars, sendVars, recvVars, asleep, rtask>>

-----------------------------------------------------------------------------
(* Senders.                                                                *)

Sending(s) == <<s, sends[s] + 1>>

SendReturns(s, st) ==
    /\ status' = [status EXCEPT ![Sending(s)] = st]
    /\ sends' = [sends EXCEPT ![s] = @ + 1]
    /\ target' = [target EXCEPT ![s] = None]

\* resolve_and_lock, up to the mutex: a terminal channel gives the item back.
BeginSend(s) ==
    /\ sends[s] < MaxSends /\ target[s] = None /\ waking[s] = {}
    /\ LET m == MostResolved(Home[s]) IN
        \/ Terminal(m) /\ SendReturns(s, "Returned")
        \/ Unresolved(m) /\ target' = [target EXCEPT ![s] = m] /\ UNCHANGED <<status, sends>>
    /\ UNCHANGED <<chanVars, lock, parent, finished, panicked, got, recvVars, taskVars, waking>>

\* Mutant: the channel is not resolved again with the mutex in hand.
FinishSendOnce(s) ==
    /\ target[s] # None /\ Free(target[s])
    /\ LET c == target[s] IN
        /\ queue' = [queue EXCEPT ![c] = Append(@, Sending(s))]
        /\ parent' = IF Sending(s) \in Requests THEN [parent EXCEPT ![Sending(s)] = c] ELSE parent
        /\ SendReturns(s, "Queued")
        /\ TakeWaker(s, c)
    /\ UNCHANGED <<flags, value, lock, finished, panicked, got, recvVars, taskVars>>

\* resolve_and_lock with the mutex of `this` in hand, and the rest of send and
\* send_event: the channel is resolved again, and the item goes into the queue the
\* mutex guards while its parent is the channel just resolved.
FinishSend(s) ==
    /\ target[s] # None /\ Free(target[s])
    /\ LET c == target[s]
           m == MostResolved(c)
           i == Sending(s)
       IN
        \/ /\ Terminal(m)
           /\ SendReturns(s, "Returned")
           /\ UNCHANGED <<chanVars, parent, waking>>
        \/ /\ Unresolved(m) /\ i \in Requests /\ finished[i] # "no"
           /\ SendReturns(s, "Discarded")
           /\ UNCHANGED <<chanVars, parent, waking>>
        \/ /\ Unresolved(m) /\ ~(i \in Requests /\ finished[i] # "no")
           /\ queue' = [queue EXCEPT ![c] = Append(@, i)]
           /\ parent' = IF i \in Requests THEN [parent EXCEPT ![i] = m] ELSE parent
           /\ SendReturns(s, "Queued")
           /\ TakeWaker(s, c)
           /\ UNCHANGED <<flags, value>>
    /\ UNCHANGED <<lock, finished, panicked, got, recvVars, taskVars>>

-----------------------------------------------------------------------------
(* The last response receiver of a request goes away.                      *)

\* remove_receiver: RECV_CLOSED first ...
FinishRequest(i) ==
    /\ i \in CanFinish /\ finished[i] = "no"
    /\ finished' = [finished EXCEPT ![i] = "closed"]
    /\ UNCHANGED <<chanVars, lock, parent, status, panicked, got, sendVars, recvVars, taskVars, waking>>

\* ... then try_remove_from_channel, which ends in todo!() when the request is in
\* a channel that is not terminal.
TryRemoveFromChannel(i) ==
    /\ finished[i] = "closed"
    /\ finished' = [finished EXCEPT ![i] = "done"]
    /\ panicked' = IF parent[i] # None /\ HasMostUnresolved(parent[i])
                   THEN panicked \union {i} ELSE panicked
    /\ UNCHANGED <<chanVars, lock, parent, status, got, sendVars, recvVars, taskVars, waking>>

-----------------------------------------------------------------------------
(* The receiver of c.                                                      *)

\* The receiver's owner is at liberty to begin an operation.
Idle(c) == rpc[c] = "idle" /\ waking[c] = {}

Awake(c) ==
    /\ asleep' = [asleep EXCEPT ![c] = FALSE]
    /\ woken' = [woken EXCEPT ![c] = FALSE]
    /\ UNCHANGED rtask

\* Mutant: pop_back.
DeliverLast(c) ==
    /\ queue' = [queue EXCEPT ![c] = Front(@)]
    /\ status' = [status EXCEPT ![Last(queue[c])] = "Delivered"]
    /\ got' = Append(got, Last(queue[c]))

\* pop_front hands the item to the caller.
Deliver(c) ==
    /\ queue' = [queue EXCEPT ![c] = Tail(@)]
    /\ status' = [status EXCEPT ![Head(queue[c])] = "Delivered"]
    /\ got' = Append(got, Head(queue[c]))

\* poll_recv
PollRecv(c, t) ==
    /\ Idle(c) /\ Free(c) /\ "RECV_CLOSED" \notin flags[c]
    /\ \/ /\ queue[c] # <<>>
          /\ Deliver(c)
          /\ parent' = [parent EXCEPT ![Head(queue[c])] = None]
          /\ Awake(c)
          /\ UNCHANGED rwaker
       \/ /\ queue[c] = <<>>
          /\ rwaker' = [rwaker EXCEPT ![c] = t]
          /\ asleep' = [asleep EXCEPT ![c] = TRUE]
          /\ rtask' = [rtask EXCEPT ![c] = t]
          /\ woken' = [woken EXCEPT ![c] = FALSE]
          /\ UNCHANGED <<queue, status, got, parent>>
    /\ UNCHANGED <<flags, value, lock, finished, panicked, sendVars, recvVars, waking>>

\* try_recv: unlike poll_recv it does not take the parent back.
TryRecv(c) ==
    /\ c \in CanTryRecv /\ Idle(c) /\ Free(c) /\ queue[c] # <<>>
    /\ Deliver(c)
    /\ Awake(c)
    /\ UNCHANGED <<rwaker, flags, value, lock, parent, finished, panicked, sendVars, recvVars, waking>>

\* The Receiver is dropped: without the mutex, and without touching the queue.
CloseReceiver(c) ==
    flags' = [flags EXCEPT ![c] = IF "SET" \in @ THEN @ ELSE SetFlag(@, "SEND_CLOSED")]

DropReceiver(c) ==
    /\ c \in CanDrop /\ Idle(c)
    /\ CloseReceiver(c)
    /\ rpc' = [rpc EXCEPT ![c] = "gone"]
    /\ Awake(c)
    /\ UNCHANGED <<queue, rwaker, value, lock, itemVars, sendVars, dest, batch, waking>>

\* forward_to to a Sender of d, up to the first mutex.  Its `other` is d, its
\* `other_shared` is what d resolves to now.
BeginForward(c, d) ==
    /\ <<c, d>> \in Forwards /\ Idle(c)
    /\ LET m == MostResolved(d) IN
        \/ /\ Resolution(m) = "Dropped"                  \* drop(self)
           /\ CloseReceiver(c)
           /\ rpc' = [rpc EXCEPT ![c] = "gone"]
           /\ UNCHANGED dest
        \/ /\ Resolution(m) = "Error"                    \* self.close(err)
           /\ rpc' = [rpc EXCEPT ![c] = "close"]
           /\ UNCHANGED <<flags, dest>>
        \/ /\ Unresolved(m) /\ m # c                     \* m = c returns Err(self)
           /\ rpc' = [rpc EXCEPT ![c] = "lockA"]
           /\ dest' = [dest EXCEPT ![c] = m]
           /\ UNCHANGED flags
    /\ Awake(c)
    /\ UNCHANGED <<queue, rwaker, value, lock, itemVars, sendVars, batch, waking>>

\* Mutant: this channel's mutex first.
OwnLock(c) == c

\* The two mutexes are taken in the order of their addresses.
FirstLock(c) == IF Addr[c] < Addr[dest[c]] THEN c ELSE dest[c]
SecondLock(c) == IF FirstLock(c) = c THEN dest[c] ELSE c

LockA(c) ==
    /\ rpc[c] = "lockA" /\ Free(FirstLock(c))
    /\ lock' = [lock EXCEPT ![FirstLock(c)] = c]
    /\ rpc' = [rpc EXCEPT ![c] = "lockB"]
    /\ UNCHANGED <<chanVars, itemVars, sendVars, dest, batch, taskVars, waking>>

\* Mutant: the requests are linked into the new channel and stay in the old one.
CopyRequests(c, d) ==
    /\ queue' = [queue EXCEPT ![d] = @ \o queue[c]]
    /\ TakeWaker(c, d)

\* Mutant: the receiver of the new channel is not woken.
MoveRequestsQuietly(c, d) ==
    /\ queue' = [queue EXCEPT ![d] = @ \o queue[c], ![c] = <<>>]
    /\ UNCHANGED <<rwaker, waking>>

\* The requests of c go behind those of d, whose receiver is to be woken.
MoveRequests(c, d) ==
    /\ queue' = [queue EXCEPT ![d] = @ \o queue[c], ![c] = <<>>]
    /\ TakeWaker(c, d)

\* With both mutexes: `other` is resolved again; if that is terminal the loop is
\* entered again and ends there, else c is resolved to it and the requests are
\* appended to the queue whose mutex is held.
LockB(c) ==
    /\ rpc[c] = "lockB" /\ Free(SecondLock(c))
    /\ lock' = [lock EXCEPT ![FirstLock(c)] = None]
    /\ LET d == dest[c]
           m == MostResolved(d)
       IN
        \/ /\ Resolution(m) = "Dropped"
           /\ CloseReceiver(c)
           /\ rpc' = [rpc EXCEPT ![c] = "gone"]
           /\ UNCHANGED <<queue, rwaker, value, waking>>
        \/ /\ Resolution(m) = "Error"
           /\ rpc' = [rpc EXCEPT ![c] = "close"]
           /\ UNCHANGED <<chanVars, waking>>
        \/ /\ Unresolved(m)
           /\ Resolve(c, m)
           /\ rpc' = [rpc EXCEPT ![c] = "gone"]
           /\ \/ queue[c] = <<>> /\ UNCHANGED <<queue, rwaker, waking>>
              \/ queue[c] # <<>> /\ MoveRequests(c, d)
    /\ dest' = [dest EXCEPT ![c] = None]
    /\ UNCHANGED <<itemVars, sendVars, batch, taskVars>>

BeginClose(c) ==
    /\ c \in CanClose /\ Idle(c)
    /\ rpc' = [rpc EXCEPT ![c] = "close"]
    /\ Awake(c)
    /\ UNCHANGED <<chanVars, lock, itemVars, sendVars, dest, batch, waking>>

\* Mutant: the parent is left in the requests.
KeepParents(items) == UNCHANGED parent

\* take_parent, for a batch
TakeParents(items) ==
    parent' = [i \in Items |-> IF i \in ToSet(items) THEN None ELSE parent[i]]

\* Mutant: the loop ends after one batch.
AnyBatch(c) == Len(queue[c]) >= 0

\* An incomplete batch is the last.
LastBatch(c) == Len(queue[c]) < CloseBatch

\* close takes the items out in batches.
TakeBatch(c) ==
    LET n == Min({Len(queue[c]), CloseBatch})
        taken == SubSeq(queue[c], 1, n)
    IN  /\ queue' = [queue EXCEPT ![c] = SubSeq(@, n + 1, Len(@))]
        /\ batch' = [batch EXCEPT ![c] = taken]
        /\ TakeParents(taken)
        /\ status' = [i \in Items |-> IF i \in ToSet(taken) THEN "Erroring" ELSE status[i]]
        /\ rpc' = [rpc EXCEPT ![c] = IF LastBatch(c) THEN "respondLast" ELSE "respond"]

\* close, first critical section: resolve with the error, take the first batch.
CloseChannel(c) ==
    /\ rpc[c] = "close" /\ Free(c)
    /\ rwaker' = [rwaker EXCEPT ![c] = None]
    /\ Resolve(c, Error)
    /\ TakeBatch(c)
    /\ UNCHANGED <<lock, finished, panicked, got, sendVars, dest, taskVars, waking>>

\* close, later critical sections
CloseMore(c) ==
    /\ rpc[c] = "closeMore" /\ Free(c)
    /\ TakeBatch(c)
    /\ UNCHANGED <<rwaker, flags, value, lock, finished, panicked, got, sendVars, dest, taskVars, waking>>

\* respond_with_err for the batch, without the mutex
RespondBatch(c) ==
    /\ rpc[c] \in {"respond", "respondLast"}
    /\ status' = [i \in Items |-> IF i \in ToSet(batch[c]) THEN "Errored" ELSE status[i]]
    /\ batch' = [batch EXCEPT ![c] = <<>>]
    /\ rpc' = [rpc EXCEPT ![c] = IF rpc[c] = "respond" THEN "closeMore" ELSE "gone"]
    /\ UNCHANGED <<chanVars, lock, parent, finished, panicked, got, sendVars, dest, taskVars, waking>>

-----------------------------------------------------------------------------
SenderStep(s) == BeginSend(s) \/ FinishSend(s)
ForwardStep(c) == LockA(c) \/ LockB(c)
CloseStep(c) == CloseChannel(c) \/ CloseMore(c) \/ RespondBatch(c)
ReceiverStep(c) ==
    \/ TryRecv(c) \/ DropReceiver(c) \/ BeginClose(c)
    \/ ForwardStep(c) \/ CloseStep(c)
    \/ \E d \in Channels : BeginForward(c, d)
    \/ \E t \in RTasks : PollRecv(c, t)
RequestStep(i) == FinishRequest(i) \/ TryRemoveFromChannel(i)

Next ==
    \/ \E s \in Senders : SenderStep(s)
    \/ \E c \in Channels : ReceiverStep(c)
    \/ \E i \in Requests : RequestStep(i)
    \/ \E t \in Threads : CallWaker(t)

Spec == Init /\ [][Next]_vars

\* Every operation once begun is carried through, and a receiver's loop goes on
\* receiving: it polls whenever its last poll did not return Pending or its task
\* has been woken since.  Nobody is obliged to send, forward, close, drop or
\* finish, and a poll out of turn (a spurious wakeup) is never promised.
Fairness ==
    /\ \A s \in Senders : WF_vars(FinishSend(s))
    /\ \A t \in Threads : WF_vars(CallWaker(t))
    /\ \A c \in Channels :
        /\ WF_vars(ForwardStep(c))
        /\ WF_vars(CloseStep(c))
        /\ WF_vars((~asleep[c] \/ woken[c]) /\ \E t \in RTasks : PollRecv(c, t))

FairSpec == Spec /\ Fairness

-----------------------------------------------------------------------------
(* Properties.                                                             *)

TypeOK ==
    /\ queue \in [Channels -> Seq(Items)]
    /\ rwaker \in [Channels -> RTasks \union {None}]
    /\ lock \in [Channels -> Channels \union {None}]
    /\ flags \in [Channels -> SUBSET StateFlags]
    /\ value \in [Channels -> Channels \union {None, Error}]
    /\ parent \in [Items -> Channels \union {None}]
    /\ finished \in [Items -> {"no", "closed", "done"}]
    /\ status \in [Items -> Statuses]
    /\ panicked \subseteq Requests
    /\ sends \in [Senders -> 0..MaxSends]
    /\ target \in [Senders -> Channels \union {None}]
    /\ rpc \in [Channels -> ReceiverPCs]
    /\ dest \in [Channels -> Channels \union {None}]
    /\ batch \in [Channels -> Seq(Items)]
    /\ asleep \in [Channels -> BOOLEAN]
    /\ rtask \in [Channels -> RTasks \union {None}]
    /\ woken \in [Channels -> BOOLEAN]
    /\ waking \in [Threads -> SUBSET (Channels \X RTasks)]
    /\ got \in Seq(Items)

\* Where item i is in the queues, or in the batches being answered.
Places(lists, i) ==
    { p \in UNION { {c} \X DOMAIN lists[c] : c \in Channels } : lists[p[1]][p[2]] = i }
Occurrences(i) == Cardinality(Places(queue, i)) + Cardinality(Places(batch, i))

\* Sends, forwards and batches lose and duplicate nothing: an accepted item that
\* nobody has received yet is in exactly one queue or batch, and only once.
NothingLostOrDuplicated ==
    \A i \in Items :
        Occurrences(i) = IF status[i] \in {"Queued", "Erroring"} THEN 1 ELSE 0

\* The items of one sender are received in the order it sent them, whichever
\* channels they are forwarded through and whoever receives them.
SenderOrderKept ==
    \A j, k \in 1..Len(got) :
        (j < k /\ got[j][1] = got[k][1]) => got[j][2] < got[k][2]

\* A request in a channel knows a channel that is resolved to the one it is in, or
\* ends in the same ring of forwards, and a request that has left its channel knows none.
ParentFollowsQueue ==
    \A i \in Requests :
        IF status[i] = "Queued"
        THEN /\ parent[i] # None
             /\ \E c \in Channels :
                    i \in ToSet(queue[c]) /\ EndsFrom(parent[i]) = EndsFrom(c)
        ELSE parent[i] = None

\* A receiver that sleeps over a queue with items in it has been woken, or its
\* waker is in the hands of a thread that is about to call it.
SleepingReceiverIsWoken ==
    \A c \in Channels :
        (asleep[c] /\ queue[c] # <<>>) =>
            woken[c] \/ \E t \in Threads : <<c, rtask[c]>> \in waking[t]

\* Once close has returned, the closed channel holds no item and gets no new one.
ClosedChannelStaysEmpty ==
    \A c \in Channels : (Resolution(c) = "Error" /\ rpc[c] = "gone") => queue[c] = <<>>

\* Receivers forwarded to each other at the same time do not wait for each other:
\* of any of them that wait for a second mutex, one waits for a mutex that none
\* of the others holds.
LocksAcyclic ==
    \A T \in SUBSET Channels :
        (T # {} /\ \A c \in T : rpc[c] = "lockB") =>
            \E c \in T : lock[SecondLock(c)] \notin T

\* What the users of a channel see: which of their items have been received, returned or
\* answered with an error, and nothing of where they are.
Outcome(st) ==
    CASE st = "Queued" -> "Accepted"
      [] st = "Delivered" -> "Received"
      [] st \in {"Erroring", "Errored"} -> "Failed"
      [] OTHER -> st

Promise == INSTANCE Delivery WITH
    outcome <- [i \in Items |-> Outcome(status[i])], received <- got

\* However channels are forwarded and closed, their users see no more than Delivery.
DeliverySpec == Promise!Spec

\* No accepted item is left behind in a channel whose receiver goes on receiving
\* or closes.
EventuallyHandled ==
    \A i \in Items : status[i] = "Queued" ~> status[i] \in {"Delivered", "Errored"}

\* Violated: a forwarded channel keeps no request, "senders that were originally
\* associated with this receiver will automatically begin refering to the channel
\* associated with the forwarded channel".
ForwardedChannelIsEmpty ==
    \A c \in Channels : Forwarded(c) => queue[c] = <<>>

\* Violated: "Forwarding to a sender on this same channel will result in the
\* receiver being returned": no channel is forwarded to itself.
NeverForwardedToItself == \A c \in Channels : value[c] # c
=============================================================================

------------------------------ MODULE WaitList ------------------------------
(***************************************************************************)
(* The list of futures that wait for one atomic state to change            *)
(* (recapn-channel/src/util/wait_list.rs): RecvWaiter and ClosedWaiter on  *)
(* one side, WaitList::wake_all called by the owner of the state on the    *)
(* other.  The owner (a Responder, a Receiver, the last tracked receiver)  *)
(* raises its flag first, without the list's mutex, and then wakes         *)
(* everyone, in batches of NUM_WAKERS, releasing the mutex around each     *)
(* batch.  Futures are polled, polled again and dropped between any two of *)
(* those steps, by one task or by several in turn.                         *)
(*                                                                         *)
(* A critical section of a waiter reads the atomic state once and is       *)
(* otherwise private to the mutex, so it is one step.  Those of wake_all   *)
(* are observed through `notified`, which is read without the mutex, so    *)
(* they are cut at every store to it.                                      *)
(***************************************************************************)
EXTENDS AtomicState, Naturals, FiniteSets

CONSTANTS
    Waiters,      \* the futures polled against this list
    Tasks,        \* the tasks that may poll a future: a waker is <<waiter, task>>
    NoTask,       \* no waker
    NumWakers,    \* NUM_WAKERS, the capacity of one batch of wake_all
    WaiterKind,   \* "Recv" for RecvWaiter, "Closed" for ClosedWaiter
    Outcomes,     \* the flags the owner may raise before it wakes everyone
    OtherFlags,   \* flags of the same byte that other owners raise
    WakersPanic   \* whether a waker may panic when it is called

ASSUME WaitListAssumption ==
    /\ NoTask \notin Tasks
    /\ NumWakers \in Nat \ {0}
    /\ WaiterKind \in {"Recv", "Closed"}
    /\ Outcomes \subseteq (IF WaiterKind = "Recv" THEN {"SET", "SEND_CLOSED"} ELSE {"RECV_CLOSED"})
    /\ OtherFlags \subseteq (IF WaiterKind = "Recv" THEN {"RECV_CLOSED"} ELSE {"SET", "SEND_CLOSED"})
    /\ WakersPanic \in BOOLEAN

VARIABLES
    flags,        \* the AtomicState
    list,         \* the waiters linked in WaitList.list
    guarded,      \* the waiters moved to the guarded list of wake_all
    locked,       \* wake_all holds the mutex of the list
    node,         \* node[w]: RecvWaiter.waiter is Some
    waker,        \* waker[w]: Waiter.waker
    notified,     \* notified[w]: Waiter.notified
    pc,           \* pc[w]: where the poll of w is
    answer,       \* answer[w]: what the last poll of w returned
    task,         \* task[w]: the task of the last poll of w
    woken,        \* woken[w]: that task has been woken since that poll began
    npc,          \* where the owner is
    popped,       \* the waiter wake_all has unlinked and not yet released
    batch         \* the wakers of the current batch

waiterVars == <<list, node, waker, notified, pc, answer, task, woken>>
ownerVars == <<guarded, locked, npc, popped, batch>>
vars == <<flags, waiterVars, ownerVars>>

Answers == {"Unpolled", "Dropped"} \union ShotStates
Wakers == Waiters \X Tasks
Linked == list \union guarded

\* What a poll makes of the state once its waiter is linked or notified.
Answer(f) ==
    IF WaiterKind = "Recv" THEN ShotState(f)
    ELSE IF "RECV_CLOSED" \in f THEN "Closed" ELSE "Empty"

\* What the first poll of a future tests, before and after it takes the mutex:
\* RecvWaiter looks for a sent value only.
FirstAnswer(f) ==
    IF WaiterKind = "Recv" THEN (IF ShotState(f) = "Sent" THEN "Sent" ELSE "Empty")
    ELSE (IF "RECV_CLOSED" \in f THEN "Closed" ELSE "Empty")

Init ==
    /\ flags = {}
    /\ list = {} /\ guarded = {} /\ locked = FALSE
    /\ node = [w \in Waiters |-> FALSE]
    /\ waker = [w \in Waiters |-> NoTask]
    /\ notified = [w \in Waiters |-> FALSE]
    /\ pc = [w \in Waiters |-> "idle"]
    /\ answer = [w \in Waiters |-> "Unpolled"]
    /\ task = [w \in Waiters |-> NoTask]
    /\ woken = [w \in Waiters |-> FALSE]
    /\ npc = "start" /\ popped = {} /\ batch = {}

-----------------------------------------------------------------------------
(* The futures.                                                            *)

BeginPoll(w, t) ==
    /\ pc[w] = "idle"
    /\ answer[w] \in {"Unpolled", "Empty"}
    /\ task' = [task EXCEPT ![w] = t]
    /\ woken' = [woken EXCEPT ![w] = FALSE]

Return(w, a) ==
    /\ answer' = [answer EXCEPT ![w] = a]
    /\ pc' = [pc EXCEPT ![w] = "idle"]

\* Mutant: a notified waiter takes it that the value was sent.
SettleAsSent(w) ==
    /\ node' = [node EXCEPT ![w] = FALSE]
    /\ waker' = [waker EXCEPT ![w] = NoTask]
    /\ notified' = [notified EXCEPT ![w] = FALSE]
    /\ Return(w, "Sent")

\* The waiter is unlinked: the node is dropped and the state decides.
Settle(w) ==
    /\ node' = [node EXCEPT ![w] = FALSE]
    /\ waker' = [waker EXCEPT ![w] = NoTask]
    /\ notified' = [notified EXCEPT ![w] = FALSE]
    /\ Return(w, Answer(flags))

\* First poll, before the mutex is taken.
PollNew(w, t) ==
    /\ ~node[w]
    /\ BeginPoll(w, t)
    /\ IF FirstAnswer(flags) # "Empty"
       THEN Return(w, FirstAnswer(flags))
       ELSE pc' = [pc EXCEPT ![w] = "register"] /\ UNCHANGED answer
    /\ UNCHANGED <<flags, list, node, waker, notified, ownerVars>>

\* Mutant: the state is not looked at again under the mutex.
RegisterBlindly(w) ==
    /\ pc[w] = "register" /\ ~locked
    /\ list' = list \union {w}
    /\ node' = [node EXCEPT ![w] = TRUE]
    /\ waker' = [waker EXCEPT ![w] = task[w]]
    /\ notified' = [notified EXCEPT ![w] = FALSE]
    /\ Return(w, "Empty")
    /\ UNCHANGED <<flags, task, woken, ownerVars>>

\* First poll, under the mutex: look again, then link the waiter.
Register(w) ==
    /\ pc[w] = "register" /\ ~locked
    /\ IF FirstAnswer(flags) # "Empty"
       THEN /\ Return(w, FirstAnswer(flags))
            /\ UNCHANGED <<list, node, waker, notified>>
       ELSE /\ list' = list \union {w}
            /\ node' = [node EXCEPT ![w] = TRUE]
            /\ waker' = [waker EXCEPT ![w] = task[w]]
            /\ notified' = [notified EXCEPT ![w] = FALSE]
            /\ Return(w, "Empty")
    /\ UNCHANGED <<flags, task, woken, ownerVars>>

\* Later polls: `notified` is read without the mutex.
PollAgain(w, t) ==
    /\ node[w]
    /\ BeginPoll(w, t)
    /\ IF notified[w]
       THEN Settle(w)
       ELSE /\ pc' = [pc EXCEPT ![w] = "recheck"]
            /\ UNCHANGED <<node, waker, notified, answer>>
    /\ UNCHANGED <<flags, list, ownerVars>>

\* The waker kept by a waiter that is still linked: replaced by the polling one
\* only when there is none, or when the one there wakes the same task.
KeptWaker(w) ==
    IF waker[w] = NoTask \/ waker[w] = task[w] THEN task[w] ELSE waker[w]

\* Later polls, under the mutex.
Recheck(w) ==
    /\ pc[w] = "recheck" /\ ~locked
    /\ IF notified[w]
       THEN Settle(w) /\ UNCHANGED <<list, guarded>>
       ELSE IF Answer(flags) = "Empty"
       THEN /\ waker' = [waker EXCEPT ![w] = KeptWaker(w)]
            /\ Return(w, "Empty")
            /\ UNCHANGED <<list, guarded, node, notified>>
       ELSE /\ list' = list \ {w}
            /\ guarded' = guarded \ {w}
            /\ Settle(w)
    /\ UNCHANGED <<flags, task, woken, locked, npc, popped, batch>>

\* Mutant: the node is unlinked from the list it was pushed to, not from the one it
\* has been moved to.
DropFromListOnly(w) ==
    /\ pc[w] = "idle" /\ answer[w] # "Dropped"
    /\ node[w] => ~locked
    /\ list' = list \ {w}
    /\ node' = [node EXCEPT ![w] = FALSE]
    /\ waker' = [waker EXCEPT ![w] = NoTask]
    /\ notified' = [notified EXCEPT ![w] = FALSE]
    /\ Return(w, "Dropped")
    /\ UNCHANGED <<flags, guarded, task, woken, locked, npc, popped, batch>>

\* pinned_drop: a future with a node unlinks it, wherever it is, under the mutex.
DropWaiter(w) ==
    /\ pc[w] = "idle" /\ answer[w] # "Dropped"
    /\ node[w] => ~locked
    /\ list' = list \ {w}
    /\ guarded' = guarded \ {w}
    /\ node' = [node EXCEPT ![w] = FALSE]
    /\ waker' = [waker EXCEPT ![w] = NoTask]
    /\ notified' = [notified EXCEPT ![w] = FALSE]
    /\ Return(w, "Dropped")
    /\ UNCHANGED <<flags, task, woken, locked, npc, popped, batch>>

-----------------------------------------------------------------------------
(* The owner of the state.                                                 *)

\* set_value, set_send_closed or set_recv_closed, before wake_all.
RaiseFlag ==
    /\ npc = "start"
    /\ \E f \in Outcomes : flags' = SetFlag(flags, f)
    /\ npc' = "lock"
    /\ UNCHANGED <<waiterVars, guarded, locked, popped, batch>>

\* Another owner of a bit of the same byte.
RaiseOther ==
    /\ \E f \in OtherFlags \ flags : flags' = SetFlag(flags, f)
    /\ UNCHANGED <<waiterVars, ownerVars>>

\* Lock, and move every waiter to the guarded list.
TakeList ==
    /\ npc = "lock"
    /\ locked' = TRUE
    /\ guarded' = list /\ list' = {}
    /\ npc' = "pop"
    /\ UNCHANGED <<flags, node, waker, notified, pc, answer, task, woken, popped, batch>>

\* Mutant: one more than the batch can hold.
PopOneMore ==
    /\ npc = "pop" /\ Cardinality(batch) <= NumWakers
    /\ \E w \in guarded :
        /\ guarded' = guarded \ {w}
        /\ popped' = {w}
        /\ batch' = IF waker[w] = NoTask THEN batch ELSE batch \union {<<w, waker[w]>>}
        /\ waker' = [waker EXCEPT ![w] = NoTask]
    /\ npc' = "release"
    /\ UNCHANGED <<flags, locked, list, node, notified, pc, answer, task, woken>>

\* Unlink one waiter and take its waker out of the node.
Pop ==
    /\ npc = "pop" /\ Cardinality(batch) < NumWakers
    /\ \E w \in guarded :
        /\ guarded' = guarded \ {w}
        /\ popped' = {w}
        /\ batch' = IF waker[w] = NoTask THEN batch ELSE batch \union {<<w, waker[w]>>}
        /\ waker' = [waker EXCEPT ![w] = NoTask]
    /\ npc' = "release"
    /\ UNCHANGED <<flags, locked, list, node, notified, pc, answer, task, woken>>

\* notified.store(true, Release): from here on the future owns its node.
Release ==
    /\ npc = "release"
    /\ notified' = [w \in Waiters |-> notified[w] \/ w \in popped]
    /\ popped' = {}
    /\ npc' = "pop"
    /\ UNCHANGED <<flags, guarded, locked, list, node, waker, pc, answer, task, woken, batch>>

\* Mutant: a full batch is taken for the last one.
UnlockOnce ==
    /\ npc = "pop" /\ (Cardinality(batch) >= NumWakers \/ guarded = {})
    /\ npc' = "wakeLast"
    /\ locked' = FALSE
    /\ UNCHANGED <<flags, waiterVars, guarded, popped, batch>>

\* The batch is full, or the list is empty: unlock and wake.
Unlock ==
    /\ npc = "pop"
    /\ \/ Cardinality(batch) >= NumWakers /\ npc' = "wake"
       \/ Cardinality(batch) < NumWakers /\ guarded = {} /\ npc' = "wakeLast"
    /\ locked' = FALSE
    /\ UNCHANGED <<flags, waiterVars, guarded, popped, batch>>

\* Waker::wake of one waker of the batch.
Wake ==
    /\ npc \in {"wake", "wakeLast"}
    /\ \E k \in batch :
        /\ batch' = batch \ {k}
        /\ woken' = [woken EXCEPT ![k[1]] = @ \/ task[k[1]] = k[2]]
    /\ UNCHANGED <<flags, guarded, locked, npc, popped, list, node, waker, notified, pc, answer, task>>

\* A waker panics: the rest of the batch is dropped and the guarded list unwound.
WakePanic ==
    /\ WakersPanic
    /\ npc \in {"wake", "wakeLast"} /\ batch # {}
    /\ batch' = {}
    /\ npc' = IF npc = "wake" THEN "unwind" ELSE "done"
    /\ UNCHANGED <<flags, waiterVars, guarded, locked, popped>>

\* Mutant: the guarded list is marked but not emptied.
UnwindInPlace ==
    /\ npc = "unwind"
    /\ notified' = [w \in Waiters |-> notified[w] \/ w \in guarded]
    /\ npc' = "done"
    /\ UNCHANGED <<flags, guarded, locked, popped, batch, list, node, waker, pc, answer, task, woken>>

\* RecvWaitersList::drop: unlink and mark everyone left, wake nobody.
Unwind ==
    /\ npc = "unwind"
    /\ notified' = [w \in Waiters |-> notified[w] \/ w \in guarded]
    /\ guarded' = {}
    /\ npc' = "done"
    /\ UNCHANGED <<flags, locked, popped, batch, list, node, waker, pc, answer, task, woken>>

\* A full batch has been woken: take the mutex again.
Relock ==
    /\ npc = "wake" /\ batch = {}
    /\ locked' = TRUE
    /\ npc' = "pop"
    /\ UNCHANGED <<flags, waiterVars, guarded, popped, batch>>

Finish ==
    /\ npc = "wakeLast" /\ batch = {}
    /\ npc' = "done"
    /\ UNCHANGED <<flags, waiterVars, guarded, locked, popped, batch>>

-----------------------------------------------------------------------------
Poll(w, t) == PollNew(w, t) \/ PollAgain(w, t)
FinishPoll(w) == Register(w) \/ Recheck(w)
WakeAll == TakeList \/ Pop \/ Release \/ Unlock \/ Wake \/ Relock \/ Finish
Owner == RaiseFlag \/ WakeAll \/ WakePanic \/ Unwind

Next ==
    \/ \E w \in Waiters : FinishPoll(w) \/ DropWaiter(w) \/ \E t \in Tasks : Poll(w, t)
    \/ Owner
    \/ RaiseOther

Spec == Init /\ [][Next]_vars

\* A woken task polls again, a poll or a wake_all once begun runs to its end.
\* Nobody is obliged to raise a flag, to poll for a first time or to drop.
Fairness ==
    /\ WF_vars(WakeAll)
    /\ \A w \in Waiters :
        /\ WF_vars(FinishPoll(w))
        /\ WF_vars(woken[w] /\ Poll(w, task[w]))

FairSpec == Spec /\ Fairness

-----------------------------------------------------------------------------
(* Properties.                                                             *)

\* Types; and the batch never exceeds the array it is kept in.
TypeOK ==
    /\ flags \subseteq StateFlags
    /\ list \subseteq Waiters /\ guarded \subseteq Waiters /\ popped \subseteq Waiters
    /\ locked \in BOOLEAN
    /\ node \in [Waiters -> BOOLEAN]
    /\ waker \in [Waiters -> Tasks \union {NoTask}]
    /\ notified \in [Waiters -> BOOLEAN]
    /\ pc \in [Waiters -> {"idle", "register", "recheck"}]
    /\ answer \in [Waiters -> Answers]
    /\ task \in [Waiters -> Tasks \union {NoTask}]
    /\ woken \in [Waiters -> BOOLEAN]
    /\ npc \in {"start", "lock", "pop", "release", "wake", "wakeLast", "unwind", "done"}
    /\ batch \subseteq Wakers /\ IsFiniteSet(batch) /\ Cardinality(batch) <= NumWakers

\* Memory safety of the intrusive list: the list, the guarded list on the stack
\* of wake_all and the node wake_all is working on are disjoint, and together
\* they are the nodes of live futures that are not notified.  A dropped or
\* completed future is never reachable from wake_all.
NoDanglingNode ==
    /\ list \intersect guarded = {}
    /\ popped \intersect Linked = {}
    /\ \A w \in Waiters : (w \in Linked \union popped) <=> (node[w] /\ ~notified[w])

\* The guard node lives on the stack of wake_all: once wake_all has returned or
\* unwound, no waiter is linked to it, even if a waker panicked.
GuardOutlivesList == npc \in {"start", "lock", "done"} => guarded = {}

\* A future that is waiting has, once wake_all has returned, been woken since its
\* last poll began: no interleaving of a poll with the flag and the batches of
\* wake_all leaves a future asleep.
NoLostWakeup ==
    npc = "done" =>
        \A w \in Waiters : (pc[w] = "idle" /\ answer[w] = "Empty") => woken[w]

\* Dropping the sender reaches every receiver that waits, or begins to wait, for
\* the value.
DroppedSenderIsSeen ==
    (npc = "done" /\ ShotState(flags) = "Closed") =>
        \A w \in Waiters : (pc[w] = "idle" /\ answer[w] = "Empty") => woken[w]

\* What a future has returned stays returned, and a value is only reported once
\* it is set.
AnswersAreFinal ==
    [][\A w \in Waiters :
        /\ answer[w] \in {"Sent", "Closed"} => answer'[w] \in {answer[w], "Dropped"}
        /\ answer'[w] = "Sent" => "SET" \in flags']_vars

\* Once the owner has raised its flag, every future that waits is answered (or
\* dropped by its owner).
EventuallyAnswered ==
    \A w \in Waiters :
        (answer[w] = "Empty" /\ npc # "start") ~> (answer[w] # "Empty")
=============================================================================

--------------------------- MODULE WaitList_proofs ---------------------------
(***************************************************************************)
(* Proofs about WaitList, for any set of futures, any batch size and any   *)
(* interleaving.                                                           *)
(***************************************************************************)
EXTENDS WaitList, FiniteSetTheorems, TLAPS

-----------------------------------------------------------------------------
(* The lists hold exactly the nodes of live, unnotified futures.           *)

\* wake_all holds the mutex while it has a node in hand, and the guarded list
\* exists only between its first and its last critical section.
OwnerPlace ==
    /\ locked <=> npc \in {"pop", "release"}
    /\ popped # {} => npc = "release"
    /\ GuardOutlivesList
    /\ npc = "wakeLast" => guarded = {}

\* Where a poll is says whether the future has a node.
NodePlace ==
    \A w \in Waiters :
        /\ pc[w] = "register" => ~node[w]
        /\ pc[w] = "recheck" => node[w]
        /\ node[w] => answer[w] = "Empty"

ListInv == TypeOK /\ OwnerPlace /\ NodePlace /\ NoDanglingNode

\* Initially nothing is linked.
LEMMA ListInvInit == Init => ListInv
<1> SUFFICES ASSUME Init PROVE ListInv
  OBVIOUS
<1>1. TypeOK
  <2>1. IsFiniteSet({}) /\ Cardinality({}) = 0
    BY FS_EmptySet
  <2>2. IsFiniteSet(batch) /\ Cardinality(batch) <= NumWakers
    BY <2>1, WaitListAssumption DEF Init
  <2>3. QED
    BY <2>2 DEF Init, TypeOK, Answers, ShotStates
<1>2. OwnerPlace
  BY DEF Init, OwnerPlace, GuardOutlivesList
<1>3. \A w \in Waiters : ~node[w] /\ pc[w] = "idle"
  BY DEF Init
<1>4. NodePlace
  BY <1>3 DEF NodePlace
<1>5. NoDanglingNode
  BY <1>3 DEF Init, NoDanglingNode, Linked
<1>6. QED
  BY <1>1, <1>2, <1>4, <1>5 DEF ListInv

\* A future gives up its node either after wake_all has released it, or under the
\* mutex, by unlinking it from whichever list holds it.
LEMMA SettleStep ==
    ASSUME ListInv, NEW w \in Waiters, node[w], Settle(w), TypeOK',
           UNCHANGED <<locked, npc, popped>>,
           \/ notified[w] /\ UNCHANGED <<list, guarded>>
           \/ ~locked /\ list' = list \ {w} /\ guarded' = guarded \ {w}
    PROVE  ListInv'
<1>1. ~node'[w] /\ pc'[w] = "idle"
  BY DEF ListInv, TypeOK, Settle, Return
<1>2. \A v \in Waiters \ {w} : /\ node'[v] = node[v] /\ notified'[v] = notified[v]
                               /\ answer'[v] = answer[v] /\ pc'[v] = pc[v]
  BY DEF ListInv, TypeOK, Settle, Return
<1>3. w \notin list' \union guarded' \union popped'
  BY DEF ListInv, NoDanglingNode, Linked, OwnerPlace
<1>4. OwnerPlace'
  BY DEF ListInv, OwnerPlace, GuardOutlivesList
<1>5. NodePlace'
  BY <1>1, <1>2 DEF ListInv, NodePlace
<1>6. NoDanglingNode'
  BY <1>1, <1>2, <1>3 DEF ListInv, NoDanglingNode, Linked
<1>7. QED
  BY <1>4, <1>5, <1>6 DEF ListInv

\* Every operation keeps the nodes and the lists in step.
LEMMA ListInvStep == ListInv /\ [Next]_vars => ListInv'
<1> SUFFICES ASSUME ListInv, [Next]_vars PROVE ListInv'
  OBVIOUS
<1> USE WaitListAssumption DEF ListInv
<1>1. ASSUME NEW w \in Waiters, NEW t \in Tasks, PollNew(w, t) PROVE ListInv'
  BY <1>1 DEF PollNew, BeginPoll, Return, FirstAnswer, ShotState, TypeOK, OwnerPlace, NodePlace,
     NoDanglingNode, GuardOutlivesList, Linked, Answers, ShotStates, ownerVars
<1>2. ASSUME NEW w \in Waiters, Register(w) PROVE ListInv'
  <2>1. CASE FirstAnswer(flags) # "Empty"
    BY <1>2, <2>1 DEF Register, Return, FirstAnswer, ShotState, TypeOK, OwnerPlace, NodePlace,
       NoDanglingNode, GuardOutlivesList, Linked, Answers, ShotStates, ownerVars
  <2>2. CASE FirstAnswer(flags) = "Empty"
    <3> USE <1>2, <2>2 DEF Register, Return
    <3>1. TypeOK'
      <4>1. node' \in [Waiters -> BOOLEAN] /\ notified' \in [Waiters -> BOOLEAN]
        BY DEF TypeOK
      <4>2. /\ waker' \in [Waiters -> Tasks \union {NoTask}]
            /\ pc' \in [Waiters -> {"idle", "register", "recheck"}]
            /\ answer' \in [Waiters -> Answers]
        BY DEF TypeOK, Answers, ShotStates
      <4>3. QED
        BY <4>1, <4>2 DEF TypeOK, ownerVars
    <3>2. OwnerPlace'
      BY DEF OwnerPlace, GuardOutlivesList, ownerVars
    <3>3. node'[w] /\ ~notified'[w] /\ answer'[w] = "Empty" /\ pc'[w] = "idle"
      BY DEF TypeOK
    <3>4. \A v \in Waiters \ {w} : /\ node'[v] = node[v] /\ notified'[v] = notified[v]
                                   /\ answer'[v] = answer[v] /\ pc'[v] = pc[v]
      BY DEF TypeOK
    <3>5. NodePlace'
      BY <3>3, <3>4 DEF NodePlace
    <3>6. NoDanglingNode'
      BY <3>3, <3>4 DEF NoDanglingNode, Linked, ownerVars, OwnerPlace, NodePlace
    <3>7. QED
      BY <3>1, <3>2, <3>5, <3>6
  <2>3. QED
    BY <2>1, <2>2
<1>3. ASSUME NEW w \in Waiters, NEW t \in Tasks, PollAgain(w, t) PROVE ListInv'
  <2>1. CASE notified[w]
    <3>1. Settle(w) /\ UNCHANGED <<list, ownerVars>> /\ pc[w] = "idle" /\ node[w]
      BY <1>3, <2>1 DEF PollAgain, BeginPoll
    <3>2. TypeOK'
      BY <1>3, <3>1 DEF PollAgain, BeginPoll, Settle, Return, Answer, ShotState, TypeOK,
         Answers, ShotStates, ownerVars
    <3>3. QED
      BY <2>1, <3>1, <3>2, SettleStep DEF ownerVars
  <2>2. CASE ~notified[w]
    BY <1>3, <2>2 DEF PollAgain, BeginPoll, TypeOK, OwnerPlace, NodePlace,
       NoDanglingNode, GuardOutlivesList, Linked, ownerVars
  <2>3. QED
    BY <2>1, <2>2
<1>4. ASSUME NEW w \in Waiters, Recheck(w) PROVE ListInv'
  <2>1. TypeOK'
    BY <1>4 DEF Recheck, Settle, Return, Answer, ShotState, KeptWaker, TypeOK, Answers, ShotStates
  <2>2. CASE notified[w] \/ Answer(flags) # "Empty"
    <3>1. /\ Settle(w) /\ node[w] /\ ~locked /\ UNCHANGED <<locked, npc, popped>>
          /\ \/ notified[w] /\ UNCHANGED <<list, guarded>>
             \/ list' = list \ {w} /\ guarded' = guarded \ {w}
      BY <1>4, <2>2 DEF Recheck, NodePlace
    <3>2. QED
      BY <2>1, <3>1, SettleStep
  <2>3. CASE ~notified[w] /\ Answer(flags) = "Empty"
    BY <1>4, <2>1, <2>3 DEF Recheck, Return, TypeOK, OwnerPlace, NodePlace, NoDanglingNode,
       GuardOutlivesList, Linked
  <2>4. QED
    BY <2>2, <2>3
<1>5. ASSUME NEW w \in Waiters, DropWaiter(w) PROVE ListInv'
  BY <1>5 DEF DropWaiter, Return, TypeOK, OwnerPlace, NodePlace,
     NoDanglingNode, GuardOutlivesList, Linked, Answers, ShotStates
<1>6. CASE RaiseFlag
  BY <1>6 DEF RaiseFlag, SetFlag, StateFlags, TypeOK, OwnerPlace, NodePlace,
     NoDanglingNode, GuardOutlivesList, Linked, waiterVars
<1>7. CASE RaiseOther
  BY <1>7 DEF RaiseOther, SetFlag, StateFlags, TypeOK, OwnerPlace, NodePlace,
     NoDanglingNode, GuardOutlivesList, Linked, waiterVars, ownerVars
<1>8. CASE TakeList
  BY <1>8 DEF TakeList, TypeOK, OwnerPlace, NodePlace, NoDanglingNode, GuardOutlivesList, Linked
<1>9. CASE Pop
  <2>1. IsFiniteSet(batch') /\ Cardinality(batch') <= NumWakers
    <3>1. PICK w \in guarded :
              batch' = IF waker[w] = NoTask THEN batch ELSE batch \union {<<w, waker[w]>>}
      BY <1>9 DEF Pop
    <3>2. IsFiniteSet(batch) /\ Cardinality(batch) \in Nat /\ Cardinality(batch) < NumWakers
      BY <1>9, FS_CardinalityType DEF Pop, TypeOK
    <3>3. \A x : /\ IsFiniteSet(batch \union {x})
                 /\ \/ Cardinality(batch \union {x}) = Cardinality(batch)
                    \/ Cardinality(batch \union {x}) = Cardinality(batch) + 1
      BY <3>2, FS_AddElement
    <3>4. QED
      BY <3>1, <3>2, <3>3
  <2>2. QED
    BY <1>9, <2>1 DEF Pop, Wakers, TypeOK, OwnerPlace, NodePlace, NoDanglingNode,
       GuardOutlivesList, Linked
<1>10. CASE Release
  BY <1>10 DEF Release, TypeOK, OwnerPlace, NodePlace, NoDanglingNode, GuardOutlivesList, Linked
<1>11. CASE Unlock
  BY <1>11 DEF Unlock, TypeOK, OwnerPlace, NodePlace, NoDanglingNode, GuardOutlivesList, Linked, waiterVars
<1>12. CASE Wake
  <2>1. IsFiniteSet(batch') /\ Cardinality(batch') <= NumWakers
    <3>1. IsFiniteSet(batch) /\ Cardinality(batch) \in Nat /\ Cardinality(batch) <= NumWakers
      BY FS_CardinalityType DEF TypeOK
    <3>2. \A x : /\ IsFiniteSet(batch \ {x})
                 /\ \/ Cardinality(batch \ {x}) = Cardinality(batch)
                    \/ Cardinality(batch \ {x}) = Cardinality(batch) - 1
      BY <3>1, FS_RemoveElement
    <3>3. PICK k \in batch : batch' = batch \ {k}
      BY <1>12 DEF Wake
    <3>4. QED
      BY <3>1, <3>2, <3>3
  <2>2. QED
    BY <1>12, <2>1 DEF Wake, Wakers, TypeOK, OwnerPlace, NodePlace, NoDanglingNode,
       GuardOutlivesList, Linked
<1>13. CASE WakePanic
  BY <1>13, FS_EmptySet DEF WakePanic, TypeOK, OwnerPlace, NodePlace, NoDanglingNode, GuardOutlivesList, Linked, waiterVars
<1>14. CASE Unwind
  BY <1>14 DEF Unwind, TypeOK, OwnerPlace, NodePlace, NoDanglingNode, GuardOutlivesList, Linked
<1>15. CASE Relock
  BY <1>15 DEF Relock, TypeOK, OwnerPlace, NodePlace, NoDanglingNode, GuardOutlivesList, Linked, waiterVars
<1>16. CASE Finish
  BY <1>16 DEF Finish, TypeOK, OwnerPlace, NodePlace, NoDanglingNode, GuardOutlivesList, Linked, waiterVars
<1>17. CASE UNCHANGED vars
  BY <1>17 DEF vars, waiterVars, ownerVars, TypeOK, OwnerPlace, NodePlace, NoDanglingNode,
     GuardOutlivesList, Linked
<1>18. QED
  BY <1>1, <1>2, <1>3, <1>4, <1>5, <1>6, <1>7, <1>8, <1>9, <1>10, <1>11, <1>12, <1>13, <1>14,
     <1>15, <1>16, <1>17 DEF Next, Poll, FinishPoll, Owner, WakeAll

\* For every number of futures and tasks, whatever flag is raised and whether or
\* not wakers panic: a node reachable from the list, or held by wake_all, is the
\* node of a live future, and the guard is never left behind.
THEOREM ListIsSafe == Spec => [](TypeOK /\ NoDanglingNode /\ GuardOutlivesList)
<1>1. ListInv => TypeOK /\ NoDanglingNode /\ GuardOutlivesList
  BY DEF ListInv, OwnerPlace
<1>2. QED
  BY ListInvInit, ListInvStep, <1>1, PTL DEF Spec

\* For every number of futures and tasks, and every order of their steps: the types,
\* and no batch of wakers outgrows the array it is kept in.
THEOREM WaitListIsTyped == Spec => []TypeOK
<1>1. ListInv => TypeOK
  BY DEF ListInv
<1>2. QED
  BY ListInvInit, ListInvStep, <1>1, PTL DEF Spec

\* However wake_all ends, a panicking waker included, no waiter stays linked to the
\* guard on its stack.
THEOREM GuardIsEmptied == Spec => []GuardOutlivesList
<1>1. ListInv => GuardOutlivesList
  BY DEF ListInv, OwnerPlace
<1>2. QED
  BY ListInvInit, ListInvStep, <1>1, PTL DEF Spec

-----------------------------------------------------------------------------
(* No wakeup is lost, as long as a future stays with one task, wakers do   *)
(* not panic and the owner raises the flag the first poll looks for.       *)

\* The conditions under which the code keeps its promise: NoLostWakeup fails
\* without each of the three (a new waker is not stored, a panic drops the
\* batch, RecvWaiter registers on a closed state).
WakeAssumption ==
    /\ \A t, u \in Tasks : t = u
    /\ ~WakersPanic
    /\ Outcomes \subseteq {"SET", "RECV_CLOSED"}

\* Whoever sleeps is still to be reached by wake_all, is in its batch, or has
\* been woken; nobody links itself once the flag is up.
WakeInv ==
    /\ npc # "start" => FirstAnswer(flags) # "Empty"
    /\ npc \notin {"start", "lock"} => list = {}
    /\ npc \in {"start", "lock"} => \A w \in Waiters : ~notified[w]
    /\ npc = "done" => batch = {}
    /\ npc # "unwind"
    /\ \A w \in Linked : waker[w] = task[w]
    /\ \A w \in Waiters : pc[w] # "idle" \/ answer[w] = "Empty" => task[w] \in Tasks
    /\ \A w \in Waiters :
          (pc[w] = "idle" /\ answer[w] = "Empty") =>
              w \in Linked \/ <<w, task[w]>> \in batch \/ woken[w]

\* Initially nobody sleeps.
LEMMA WakeInvInit == Init => WakeInv
<1> SUFFICES ASSUME Init PROVE WakeInv
  OBVIOUS
<1>1. \A w \in Waiters : ~notified[w] /\ pc[w] = "idle" /\ answer[w] = "Unpolled"
  BY DEF Init
<1>2. QED
  BY <1>1 DEF Init, WakeInv, Linked

\* Flags are never lowered, and a first poll answers whenever a later one does not.
LEMMA AnswerFacts ==
    /\ FirstAnswer(flags) # "Empty" => Answer(flags) # "Empty"
    /\ \A f : FirstAnswer(flags) # "Empty" => FirstAnswer(SetFlag(flags, f)) # "Empty"
BY WaitListAssumption DEF FirstAnswer, Answer, ShotState, SetFlag

\* A future that gives up its node once the state is final has its answer.
LEMMA SettleWakes ==
    ASSUME ListInv, WakeInv, NEW w \in Waiters, Settle(w), Answer(flags) # "Empty",
           \A v \in Waiters \ {w} : task'[v] = task[v] /\ woken'[v] = woken[v],
           list' \subseteq list, guarded' \subseteq guarded, 
           Linked \ {w} \subseteq Linked', w \notin Linked',
           UNCHANGED <<flags, npc, batch>>
    PROVE  WakeInv'
<1>1. pc'[w] = "idle" /\ answer'[w] # "Empty" /\ ~notified'[w]
  BY DEF ListInv, TypeOK, Settle, Return
<1>2. \A v \in Waiters \ {w} : /\ notified'[v] = notified[v] /\ waker'[v] = waker[v]
                               /\ answer'[v] = answer[v] /\ pc'[v] = pc[v]
  BY DEF ListInv, TypeOK, Settle, Return
<1>3. FirstAnswer(flags)' = FirstAnswer(flags)
  BY DEF FirstAnswer, ShotState
<1>4. Linked' \subseteq Linked /\ Linked \subseteq Waiters
  BY DEF Linked, ListInv, TypeOK
<1>5. QED
  BY <1>1, <1>2, <1>3, <1>4 DEF WakeInv

\* Every operation keeps the promise to whoever sleeps.
LEMMA WakeInvStep ==
    ASSUME WakeAssumption, ListInv, WakeInv, [Next]_vars PROVE WakeInv'
<1> USE WaitListAssumption DEF WakeAssumption
<1>1. ASSUME NEW w \in Waiters, NEW t \in Tasks, PollNew(w, t) PROVE WakeInv'
  <2>1. task'[w] = t /\ \A v \in Waiters \ {w} : task'[v] = task[v] /\ woken'[v] = woken[v]
    BY <1>1 DEF PollNew, BeginPoll, ListInv, TypeOK
  <2>2. pc'[w] # "idle" \/ answer'[w] # "Empty"
    BY <1>1 DEF PollNew, Return, ListInv, TypeOK
  <2>3. \A v \in Waiters \ {w} : pc'[v] = pc[v] /\ answer'[v] = answer[v]
    BY <1>1 DEF PollNew, Return, ListInv, TypeOK
  <2>4. w \notin Linked /\ Linked' = Linked /\ Linked \subseteq Waiters
    BY <1>1 DEF PollNew, ListInv, NoDanglingNode, Linked, TypeOK, ownerVars
  <2>5. UNCHANGED <<flags, list, waker, notified, npc, batch>> /\ FirstAnswer(flags)' = FirstAnswer(flags)
    BY <1>1 DEF PollNew, ownerVars, FirstAnswer, ShotState
  <2>6. QED
    BY <2>1, <2>2, <2>3, <2>4, <2>5 DEF WakeInv
<1>2. ASSUME NEW w \in Waiters, Register(w) PROVE WakeInv'
  <2>1. \A v \in Waiters \ {w} : pc'[v] = pc[v] /\ answer'[v] = answer[v] /\ waker'[v] = waker[v]
                                /\ notified'[v] = notified[v]
    BY <1>2 DEF Register, Return, ListInv, TypeOK
  <2>2. UNCHANGED <<flags, task, woken, npc, batch, guarded>> /\ FirstAnswer(flags)' = FirstAnswer(flags)
    BY <1>2 DEF Register, ownerVars, FirstAnswer, ShotState
  <2>3. w \notin Linked /\ Linked \subseteq Waiters /\ task[w] \in Tasks
    BY <1>2 DEF Register, ListInv, NodePlace, NoDanglingNode, Linked, TypeOK, WakeInv
  <2>4. CASE FirstAnswer(flags) # "Empty"
    <3>1. answer'[w] # "Empty" /\ UNCHANGED <<list, notified, waker>>
      BY <1>2, <2>4 DEF Register, Return, ListInv, TypeOK
    <3>2. Linked' = Linked
      BY <3>1, <2>2 DEF Linked
    <3>3. QED
      BY <2>1, <2>2, <2>3, <3>1, <3>2, <1>2 DEF WakeInv, Register, Return
  <2>5. CASE FirstAnswer(flags) = "Empty"
    <3>1. npc = "start"
      BY <2>5 DEF WakeInv
    <3>2. Linked' = Linked \union {w} /\ waker'[w] = task[w] /\ ~notified'[w]
      BY <1>2, <2>2, <2>5 DEF Register, Linked, ListInv, TypeOK
    <3>3. QED
      BY <2>1, <2>2, <2>3, <3>1, <3>2 DEF WakeInv
  <2>6. QED
    BY <2>4, <2>5
<1>3. ASSUME NEW w \in Waiters, NEW t \in Tasks, PollAgain(w, t) PROVE WakeInv'
  <2>1. task'[w] = t /\ \A v \in Waiters \ {w} : task'[v] = task[v] /\ woken'[v] = woken[v]
    BY <1>3 DEF PollAgain, BeginPoll, ListInv, TypeOK
  <2>2. CASE notified[w]
    <3>1. Settle(w) /\ UNCHANGED <<flags, list, guarded, npc, batch>>
      BY <1>3, <2>2 DEF PollAgain, ownerVars
    <3>2. Answer(flags) # "Empty"
      BY <2>2, AnswerFacts DEF WakeInv
    <3>3. w \notin Linked /\ Linked' = Linked
      BY <2>2, <3>1 DEF ListInv, NoDanglingNode, Linked
    <3>4. QED
      BY <2>1, <3>1, <3>2, <3>3, SettleWakes
  <2>3. CASE ~notified[w]
    <3>1. UNCHANGED <<flags, list, guarded, npc, batch, waker, notified, answer>>
      BY <1>3, <2>3 DEF PollAgain, ownerVars
    <3>2. pc'[w] # "idle" /\ \A v \in Waiters \ {w} : pc'[v] = pc[v]
      BY <1>3, <2>3 DEF PollAgain, ListInv, TypeOK
    <3>3. answer[w] = "Empty" /\ task[w] = t
      BY <1>3 DEF PollAgain, ListInv, NodePlace, WakeInv
    <3>4. Linked' = Linked /\ Linked \subseteq Waiters /\ FirstAnswer(flags)' = FirstAnswer(flags)
      BY <3>1 DEF Linked, FirstAnswer, ShotState, ListInv, TypeOK
    <3>5. QED
      BY <2>1, <3>1, <3>2, <3>3, <3>4 DEF WakeInv
  <2>4. QED
    BY <2>2, <2>3
<1>4. ASSUME NEW w \in Waiters, Recheck(w) PROVE WakeInv'
  <2>1. UNCHANGED <<flags, npc, batch, task, woken>>
    BY <1>4 DEF Recheck
  <2>2. CASE notified[w]
    <3>1. Settle(w) /\ UNCHANGED <<list, guarded>>
      BY <1>4, <2>2 DEF Recheck
    <3>2. Answer(flags) # "Empty"
      BY <2>2, AnswerFacts DEF WakeInv
    <3>3. w \notin Linked /\ Linked' = Linked
      BY <2>2, <3>1 DEF ListInv, NoDanglingNode, Linked
    <3>4. QED
      BY <2>1, <3>1, <3>2, <3>3, SettleWakes
  <2>3. CASE ~notified[w] /\ Answer(flags) # "Empty"
    <3>1. Settle(w) /\ list' = list \ {w} /\ guarded' = guarded \ {w}
      BY <1>4, <2>3 DEF Recheck
    <3>2. QED
      BY <2>1, <2>3, <3>1, SettleWakes DEF Linked
  <2>4. CASE ~notified[w] /\ Answer(flags) = "Empty"
    <3>1. UNCHANGED <<list, guarded, notified>> /\ Return(w, "Empty")
      BY <1>4, <2>4 DEF Recheck
    <3>2. w \in Linked /\ Linked' = Linked /\ Linked \subseteq Waiters
      BY <1>4, <2>4, <3>1 DEF Recheck, ListInv, NoDanglingNode, OwnerPlace, NodePlace, Linked, TypeOK
    <3>3. waker' = waker
      BY <1>4, <2>4, <3>2 DEF Recheck, KeptWaker, WakeInv, ListInv, TypeOK
    <3>4. /\ pc'[w] = "idle" /\ answer'[w] = "Empty"
          /\ \A v \in Waiters \ {w} : pc'[v] = pc[v] /\ answer'[v] = answer[v]
      BY <3>1 DEF Return, ListInv, TypeOK
    <3>5. FirstAnswer(flags)' = FirstAnswer(flags)
      BY <2>1 DEF FirstAnswer, ShotState
    <3>6. task[w] \in Tasks
      BY <1>4 DEF Recheck, WakeInv
    <3>7. QED
      BY <2>1, <3>1, <3>2, <3>3, <3>4, <3>5, <3>6 DEF WakeInv
  <2>5. QED
    BY <2>2, <2>3, <2>4
<1>5. ASSUME NEW w \in Waiters, DropWaiter(w) PROVE WakeInv'
  <2>1. /\ pc'[w] = "idle" /\ answer'[w] = "Dropped" /\ ~notified'[w]
        /\ \A v \in Waiters \ {w} : /\ pc'[v] = pc[v] /\ answer'[v] = answer[v]
                                    /\ waker'[v] = waker[v] /\ notified'[v] = notified[v]
    BY <1>5 DEF DropWaiter, Return, ListInv, TypeOK
  <2>2. Linked' = Linked \ {w} /\ Linked \subseteq Waiters
    BY <1>5 DEF DropWaiter, Linked, ListInv, TypeOK
  <2>3. UNCHANGED <<flags, npc, batch, task, woken>> /\ list' \subseteq list /\ FirstAnswer(flags)' = FirstAnswer(flags)
    BY <1>5 DEF DropWaiter, FirstAnswer, ShotState
  <2>4. QED
    BY <2>1, <2>2, <2>3 DEF WakeInv
<1>6. CASE RaiseFlag
  <2>1. UNCHANGED <<waiterVars, guarded, batch>> /\ npc' = "lock" /\ npc = "start"
    BY <1>6 DEF RaiseFlag
  <2>2. FirstAnswer(flags') # "Empty"
    BY <1>6 DEF RaiseFlag, SetFlag, FirstAnswer, ShotState
  <2>3. QED
    BY <2>1, <2>2 DEF WakeInv, waiterVars, Linked, FirstAnswer
<1>7. CASE RaiseOther
  <2>1. UNCHANGED <<waiterVars, ownerVars>>
    BY <1>7 DEF RaiseOther
  <2>2. FirstAnswer(flags) # "Empty" => FirstAnswer(flags') # "Empty"
    BY <1>7, AnswerFacts DEF RaiseOther
  <2>3. QED
    BY <2>1, <2>2 DEF WakeInv, waiterVars, ownerVars, Linked, FirstAnswer
<1>8. CASE TakeList
  <2>1. Linked' = Linked /\ list' = {} /\ npc = "lock" /\ npc' = "pop"
    BY <1>8 DEF TakeList, Linked, ListInv, OwnerPlace, GuardOutlivesList
  <2>2. UNCHANGED <<flags, node, waker, notified, pc, answer, task, woken, batch>>
    BY <1>8 DEF TakeList
  <2>3. QED
    BY <2>1, <2>2 DEF WakeInv, FirstAnswer
<1>9. CASE Pop
  <2>1. PICK w \in guarded :
            /\ guarded' = guarded \ {w} /\ popped' = {w}
            /\ batch' = IF waker[w] = NoTask THEN batch ELSE batch \union {<<w, waker[w]>>}
            /\ waker' = [waker EXCEPT ![w] = NoTask]
    BY <1>9 DEF Pop
  <2>2. UNCHANGED <<flags, list, node, notified, pc, answer, task, woken>> /\ npc = "pop" /\ npc' = "release"
    BY <1>9 DEF Pop
  <2>3. /\ w \in Waiters /\ w \in Linked /\ waker[w] = task[w] /\ task[w] \in Tasks
        /\ Linked' = Linked \ {w} /\ Linked \subseteq Waiters
    BY <2>1, <2>2 DEF Linked, WakeInv, ListInv, NoDanglingNode, NodePlace, TypeOK
  <2>4. batch' = batch \union {<<w, task[w]>>} /\ \A v \in Waiters \ {w} : waker'[v] = waker[v]
    BY <2>1, <2>3 DEF ListInv, TypeOK
  <2>5. QED
    BY <2>2, <2>3, <2>4 DEF WakeInv, FirstAnswer
<1>10. CASE Release
  BY <1>10 DEF Release, WakeInv, FirstAnswer, Linked
<1>11. CASE Unlock
  BY <1>11 DEF Unlock, WakeInv, FirstAnswer, Linked, waiterVars
<1>12. CASE Wake
  <2>1. PICK k \in batch :
            /\ batch' = batch \ {k}
            /\ woken' = [woken EXCEPT ![k[1]] = @ \/ task[k[1]] = k[2]]
    BY <1>12 DEF Wake
  <2>2. UNCHANGED <<flags, guarded, npc, list, waker, notified, pc, answer, task>> /\ npc \in {"wake", "wakeLast"}
    BY <1>12 DEF Wake
  <2>3. PICK v \in Waiters, t \in Tasks : k = <<v, t>>
    BY <2>1 DEF ListInv, TypeOK, Wakers
  <2>4. \A u \in Waiters : woken[u] => woken'[u]
    <3>1. woken' = [woken EXCEPT ![v] = (woken[v] \/ task[v] = t)]
      BY <2>1, <2>3
    <3>2. \A u \in Waiters : woken'[u] = IF u = v THEN (woken[v] \/ task[v] = t) ELSE woken[u]
      BY <3>1, Zenon DEF ListInv, TypeOK
    <3>3. QED
      BY <3>2, Zenon
  <2>5. \A u \in Waiters : <<u, task[u]>> = k => woken'[u]
    <3>1. woken' = [woken EXCEPT ![v] = (woken[v] \/ task[v] = t)]
      BY <2>1, <2>3
    <3>2. woken'[v] = (woken[v] \/ task[v] = t)
      BY <3>1, Zenon DEF ListInv, TypeOK
    <3>3. \A u \in Waiters : <<u, task[u]>> = k => u = v /\ task[v] = t
      BY <2>3
    <3>4. QED
      BY <3>2, <3>3, Zenon
  <2>6. QED
    BY <2>1, <2>2, <2>4, <2>5 DEF WakeInv, FirstAnswer, Linked
<1>13. CASE WakePanic
  BY <1>13 DEF WakePanic
<1>14. CASE Unwind
  BY <1>14 DEF Unwind, WakeInv
<1>15. CASE Relock
  BY <1>15 DEF Relock, WakeInv, FirstAnswer, Linked, waiterVars
<1>16. CASE Finish
  BY <1>16 DEF Finish, WakeInv, FirstAnswer, Linked, waiterVars
<1>17. CASE UNCHANGED vars
  BY <1>17 DEF vars, waiterVars, ownerVars, WakeInv, FirstAnswer, Linked
<1>18. QED
  BY <1>1, <1>2, <1>3, <1>4, <1>5, <1>6, <1>7, <1>8, <1>9, <1>10, <1>11, <1>12, <1>13, <1>14,
     <1>15, <1>16, <1>17 DEF Next, Poll, FinishPoll, Owner, WakeAll

\* For every number of futures and every batch size: under WakeAssumption, no
\* interleaving of polls and drops with the flag and the batches of wake_all
\* leaves a future asleep once wake_all has returned.
THEOREM WakeupsAreNotLost == ASSUME WakeAssumption PROVE Spec => []NoLostWakeup
<1>1. ListInv /\ WakeInv => NoLostWakeup
  BY DEF ListInv, WakeInv, NoLostWakeup, OwnerPlace, GuardOutlivesList, Linked
<1>2. ListInv /\ WakeInv /\ [Next]_vars => ListInv' /\ WakeInv'
  BY ListInvStep, WakeInvStep
<1>3. Init => ListInv /\ WakeInv
  BY ListInvInit, WakeInvInit
<1>4. QED
  BY <1>1, <1>2, <1>3, PTL DEF Spec
-----------------------------------------------------------------------------
(* What a future has returned.                                             *)

\* A poll under way has returned nothing yet, and a value is reported only once
\* SET is up.
AnswerInv ==
    \A w \in Waiters :
        /\ pc[w] # "idle" => answer[w] \in {"Unpolled", "Empty"}
        /\ answer[w] = "Sent" => "SET" \in flags

\* What AnswersAreFinal says of one step.
AnswerKept ==
    \A w \in Waiters :
        /\ answer[w] \in {"Sent", "Closed"} => answer'[w] \in {answer[w], "Dropped"}
        /\ answer'[w] = "Sent" => "SET" \in flags'

\* What the state makes of a poll, early or late.
LEMMA SentIsSet ==
    /\ Answer(flags) = "Sent" => "SET" \in flags
    /\ FirstAnswer(flags) = "Sent" => "SET" \in flags
BY DEF Answer, FirstAnswer, ShotState

\* A future changes only its own answer: while it has none, or to be dropped.
LEMMA OneAnswer ==
    ASSUME AnswerInv, NEW w \in Waiters, UNCHANGED flags,
           \A v \in Waiters \ {w} : answer'[v] = answer[v] /\ pc'[v] = pc[v],
           answer[w] \in {"Unpolled", "Empty"} \/ answer'[w] = "Dropped",
           answer'[w] = "Sent" => "SET" \in flags,
           pc'[w] # "idle" => answer'[w] \in {"Unpolled", "Empty"}
    PROVE  AnswerInv' /\ AnswerKept
BY DEF AnswerInv, AnswerKept

\* Every operation keeps the answers given.
LEMMA AnswerInvStep == ASSUME ListInv, AnswerInv, [Next]_vars PROVE AnswerInv' /\ AnswerKept
<1> USE DEF ListInv, TypeOK
<1>1. ASSUME NEW w \in Waiters, NEW a, Return(w, a), a = "Sent" => "SET" \in flags,
             answer[w] \in {"Unpolled", "Empty"} \/ a = "Dropped", UNCHANGED flags
      PROVE  AnswerInv' /\ AnswerKept
  <2>1. /\ answer'[w] = a /\ pc'[w] = "idle"
        /\ \A v \in Waiters \ {w} : answer'[v] = answer[v] /\ pc'[v] = pc[v]
    BY <1>1 DEF Return
  <2>2. QED
    BY <1>1, <2>1, OneAnswer
<1>2. ASSUME NEW w \in Waiters, UNCHANGED <<flags, answer>>, answer[w] \in {"Unpolled", "Empty"},
             NEW q, pc' = [pc EXCEPT ![w] = q]
      PROVE  AnswerInv' /\ AnswerKept
  BY <1>2, OneAnswer
<1>3. ASSUME NEW w \in Waiters, NEW t \in Tasks, PollNew(w, t) PROVE AnswerInv' /\ AnswerKept
  <2>1. UNCHANGED flags /\ answer[w] \in {"Unpolled", "Empty"}
    BY <1>3 DEF PollNew, BeginPoll
  <2>2. CASE Return(w, FirstAnswer(flags))
    BY <1>1, <2>1, <2>2, SentIsSet
  <2>3. CASE pc' = [pc EXCEPT ![w] = "register"] /\ UNCHANGED answer
    BY <1>2, <2>1, <2>3
  <2>4. QED
    BY <1>3, <2>2, <2>3 DEF PollNew
<1>4. ASSUME NEW w \in Waiters, Register(w) PROVE AnswerInv' /\ AnswerKept
  <2>1. UNCHANGED flags /\ answer[w] \in {"Unpolled", "Empty"}
    BY <1>4 DEF Register, AnswerInv
  <2>2. Return(w, FirstAnswer(flags)) \/ Return(w, "Empty")
    BY <1>4 DEF Register
  <2>3. QED
    BY <1>1, <2>1, <2>2, SentIsSet
<1>5. ASSUME NEW w \in Waiters, NEW t \in Tasks, PollAgain(w, t) PROVE AnswerInv' /\ AnswerKept
  <2>1. UNCHANGED flags /\ answer[w] \in {"Unpolled", "Empty"}
    BY <1>5 DEF PollAgain, BeginPoll
  <2>2. CASE notified[w]
    BY <1>1, <1>5, <2>1, <2>2, SentIsSet DEF PollAgain, Settle
  <2>3. CASE ~notified[w]
    BY <1>2, <1>5, <2>1, <2>3 DEF PollAgain
  <2>4. QED
    BY <2>2, <2>3
<1>6. ASSUME NEW w \in Waiters, Recheck(w) PROVE AnswerInv' /\ AnswerKept
  <2>1. UNCHANGED flags /\ answer[w] \in {"Unpolled", "Empty"}
    BY <1>6 DEF Recheck, AnswerInv
  <2>2. Return(w, Answer(flags)) \/ Return(w, "Empty")
    BY <1>6 DEF Recheck, Settle
  <2>3. QED
    BY <1>1, <2>1, <2>2, SentIsSet
<1>7. ASSUME NEW w \in Waiters, DropWaiter(w) PROVE AnswerInv' /\ AnswerKept
  BY <1>1, <1>7 DEF DropWaiter
<1>8. CASE Owner \/ RaiseOther \/ UNCHANGED vars
  <2>1. UNCHANGED <<answer, pc>>
    BY <1>8 DEF Owner, WakeAll, RaiseFlag, TakeList, Pop, Release, Unlock, Wake, Relock, Finish, WakePanic,
       Unwind, RaiseOther, vars, waiterVars
  <2>2. flags \subseteq flags'
    BY <1>8 DEF Owner, WakeAll, RaiseFlag, TakeList, Pop, Release, Unlock, Wake, Relock, Finish, WakePanic,
       Unwind, RaiseOther, vars, SetFlag
  <2>3. QED
    BY <2>1, <2>2 DEF AnswerInv, AnswerKept
<1>9. QED
  BY <1>3, <1>4, <1>5, <1>6, <1>7, <1>8 DEF Next, Poll, FinishPoll

\* For every number of futures, and whichever flags are raised while they are
\* polled: what a future has returned it does not take back, and it reports a value
\* only once there is one.
THEOREM AnswersStay == Spec => AnswersAreFinal
<1>1. Init => AnswerInv
  BY DEF Init, AnswerInv
<1>2. ListInv /\ AnswerInv /\ [Next]_vars => ListInv' /\ AnswerInv' /\ AnswerKept
  BY ListInvStep, AnswerInvStep
<1>3. Spec => [][AnswerKept]_vars
  BY ListInvInit, <1>1, <1>2, PTL DEF Spec
<1>4. QED
  BY <1>3 DEF AnswersAreFinal, AnswerKept
=============================================================================

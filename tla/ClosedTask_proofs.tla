-------------------------- MODULE ClosedTask_proofs --------------------------
(***************************************************************************)
(* Proofs about ClosedTask, for any number of polling tasks: the cell is   *)
(* never read while it is written, and no close goes unnoticed.            *)
(***************************************************************************)
EXTENDS ClosedTask, TLAPS

\* CLOSED_TASK_SET is down, and the cell in the hands of poll, while it changes.
FlagFollowsPoll ==
    /\ pc = "clear" => "CLOSED_TASK_SET" \in flags
    /\ pc = "restore" => cell # NoTask /\ "RECV_CLOSED" \in flags
    /\ pc \in {"dropOld", "write", "set"} => "CLOSED_TASK_SET" \notin flags
    /\ pc = "set" => cell = polling

\* A receiver that polls, or waits, has not resolved the channel, and the waker it
\* waits with is the one in the cell.
PollFollowsAnswer ==
    /\ pc # "idle" => answer # "Ready" /\ polling \in Tasks
    /\ answer # "Ready" => "SET" \notin flags /\ "SEND_CLOSED" \notin flags
    /\ (pc = "idle" /\ answer = "Pending") => cell = polling /\ "CLOSED_TASK_SET" \in flags

CloserFollowsFlag == cpc = "start" <=> "RECV_CLOSED" \notin flags

CellInv ==
    /\ TypeOK /\ WakerIsStable /\ FlagMeansWaker /\ PendingIsWoken
    /\ FlagFollowsPoll /\ PollFollowsAnswer /\ CloserFollowsFlag

\* Initially the cell is empty and the flag down.
LEMMA CellInvInit == Init => CellInv
BY DEF Init, CellInv, TypeOK, WakerIsStable, FlagMeansWaker, PendingIsWoken,
   FlagFollowsPoll, PollFollowsAnswer, CloserFollowsFlag

\* Every step of poll and of close keeps the flag, the cell and the closer in step.
LEMMA CellInvStep == CellInv /\ [Next]_vars => CellInv'
<1> SUFFICES ASSUME CellInv, [Next]_vars PROVE CellInv'
  OBVIOUS
<1> USE ClosedTaskAssumption
    DEF CellInv, TypeOK, WakerIsStable, FlagMeansWaker, PendingIsWoken, FlagFollowsPoll,
        PollFollowsAnswer, CloserFollowsFlag, StateFlags, SetFlag, Return
<1>1. ASSUME NEW t \in Tasks, BeginPoll(t) PROVE CellInv'
  BY <1>1 DEF BeginPoll
<1>2. CASE ClearFlag
  BY <1>2 DEF ClearFlag, ClearClosedTask
<1>3. CASE RestoreFlag
  BY <1>3 DEF RestoreFlag
<1>4. CASE DropOldWaker
  BY <1>4 DEF DropOldWaker
<1>5. CASE WriteWaker
  BY <1>5 DEF WriteWaker
<1>6. CASE PublishWaker
  BY <1>6 DEF PublishWaker
<1>7. CASE ResolveChannel
  BY <1>7 DEF ResolveChannel, TrySetValue
<1>8. CASE CloseFlag
  BY <1>8 DEF CloseFlag
<1>9. CASE WakeTask
  BY <1>9 DEF WakeTask
<1>10. CASE UNCHANGED vars
  BY <1>10 DEF vars
<1>11. QED
  BY <1>1, <1>2, <1>3, <1>4, <1>5, <1>6, <1>7, <1>8, <1>9, <1>10
     DEF Next, Poll, PollStep, Close

\* The waker is not raced for: while close reads it, it is written and poll does
\* not touch it.
THEOREM WakerIsNotRaced == Spec => [](TypeOK /\ WakerIsStable /\ FlagMeansWaker)
<1>1. CellInv => TypeOK /\ WakerIsStable /\ FlagMeansWaker
  BY DEF CellInv
<1>2. QED
  BY CellInvInit, CellInvStep, <1>1, PTL DEF Spec

\* A receiver told to wait is woken by the close, however the two interleave and
\* whichever task polls.
THEOREM CloseIsNoticed == Spec => []PendingIsWoken
<1>1. CellInv => PendingIsWoken
  BY DEF CellInv
<1>2. QED
  BY CellInvInit, CellInvStep, <1>1, PTL DEF Spec
=============================================================================

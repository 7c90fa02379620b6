----------------------------- MODULE ClosedTask -----------------------------
(***************************************************************************)
(* The handshake between the receiver that polls for the closing of its    *)
(* channel and the thread that closes it, without a mutex                  *)
(* (recapn-channel/src/util/closed_task.rs).  The waker lives in a plain   *)
(* cell; CLOSED_TASK_SET says that it is written and not being changed,    *)
(* and RECV_CLOSED that the closer has been there.  The poller changes the *)
(* cell in several steps, the closer wakes what it finds there.            *)
(***************************************************************************)
EXTENDS AtomicState

CONSTANTS
    Tasks,        \* the tasks the receiver may be polled by
    NoTask        \* an uninitialised cell

ASSUME ClosedTaskAssumption == NoTask \notin Tasks

VARIABLES
    flags,        \* ResolutionState.state
    cell,         \* ClosedTask.waker
    pc,           \* where poll is
    polling,      \* the task of the poll in progress, or of the last one
    answer,       \* what the last poll returned
    woken,        \* that task has been woken since that poll began
    cpc           \* where close is

vars == <<flags, cell, pc, polling, answer, woken, cpc>>

Init ==
    /\ flags = {} /\ cell = NoTask
    /\ pc = "idle" /\ polling = NoTask /\ answer = "Unpolled" /\ woken = FALSE
    /\ cpc = "start"

Return(a) == pc' = "idle" /\ answer' = a

-----------------------------------------------------------------------------
(* ClosedTask::poll, called by the receiver.                               *)

\* The first load decides between an answer, a change of waker and a first one;
\* a waker that wakes the polling task already is left alone.
BeginPoll(t) ==
    /\ pc = "idle" /\ answer # "Ready"
    /\ polling' = t /\ woken' = FALSE
    /\ \/ /\ "RECV_CLOSED" \in flags
          /\ Return("Ready")
       \/ /\ "RECV_CLOSED" \notin flags /\ "CLOSED_TASK_SET" \notin flags
          /\ pc' = "write" /\ UNCHANGED answer
       \/ /\ "RECV_CLOSED" \notin flags /\ "CLOSED_TASK_SET" \in flags
          /\ IF cell = t THEN Return("Pending") ELSE pc' = "clear" /\ UNCHANGED answer
    /\ UNCHANGED <<flags, cell, cpc>>

\* Mutant: a closer that has been there is not noticed.
ClearFlagOnly ==
    /\ pc = "clear"
    /\ flags' = ClearClosedTask(flags)
    /\ pc' = "dropOld"
    /\ UNCHANGED <<cell, polling, answer, woken, cpc>>

\* Mutant: the old waker is dropped while the flag is up.
KeepFlag ==
    /\ pc = "clear"
    /\ pc' = IF "RECV_CLOSED" \in flags THEN "restore" ELSE "dropOld"
    /\ UNCHANGED <<flags, cell, polling, answer, woken, cpc>>

\* clear_closed_task, before the old waker is touched
ClearFlag ==
    /\ pc = "clear"
    /\ flags' = ClearClosedTask(flags)
    /\ pc' = IF "RECV_CLOSED" \in flags THEN "restore" ELSE "dropOld"
    /\ UNCHANGED <<cell, polling, answer, woken, cpc>>

\* Closed meanwhile: the flag goes up again so that the old waker gets dropped.
RestoreFlag ==
    /\ pc = "restore"
    /\ flags' = SetFlag(flags, "CLOSED_TASK_SET")
    /\ Return("Ready")
    /\ UNCHANGED <<cell, polling, woken, cpc>>

DropOldWaker ==
    /\ pc = "dropOld"
    /\ cell' = NoTask
    /\ pc' = "write"
    /\ UNCHANGED <<flags, polling, answer, woken, cpc>>

WriteWaker ==
    /\ pc = "write"
    /\ cell' = polling
    /\ pc' = "set"
    /\ UNCHANGED <<flags, polling, answer, woken, cpc>>

\* Mutant: what set_closed_task returns is ignored.
PublishOnly ==
    /\ pc = "set"
    /\ flags' = SetFlag(flags, "CLOSED_TASK_SET")
    /\ Return("Pending")
    /\ UNCHANGED <<cell, polling, woken, cpc>>

\* set_closed_task publishes the waker, and tells if it came too late.
PublishWaker ==
    /\ pc = "set"
    /\ flags' = SetFlag(flags, "CLOSED_TASK_SET")
    /\ Return(IF "RECV_CLOSED" \in flags THEN "Ready" ELSE "Pending")
    /\ UNCHANGED <<cell, polling, woken, cpc>>

\* The receiver resolves or drops the channel, between polls.
ResolveChannel ==
    /\ pc = "idle" /\ flags \intersect {"SET", "SEND_CLOSED"} = {}
    /\ \/ flags' = TrySetValue(flags) /\ flags' # flags
       \/ flags' = SetFlag(flags, "SEND_CLOSED")
    /\ answer' = "Ready"
    /\ UNCHANGED <<cell, pc, polling, woken, cpc>>

-----------------------------------------------------------------------------
(* ClosedTask::close, called by the last sender.                           *)

\* Mutant: a && !(b || c) written as a && (b || c).
CloseFlagWrong ==
    /\ cpc = "start"
    /\ flags' = SetFlag(flags, "RECV_CLOSED")
    /\ cpc' = IF /\ "CLOSED_TASK_SET" \in flags
                 /\ flags \intersect {"SET", "SEND_CLOSED"} # {}
              THEN "wake" ELSE "done"
    /\ UNCHANGED <<cell, pc, polling, answer, woken>>

\* Whether there is someone to wake is decided by the flags that were up when
\* RECV_CLOSED was raised.
CloseFlag ==
    /\ cpc = "start"
    /\ flags' = SetFlag(flags, "RECV_CLOSED")
    /\ cpc' = IF /\ "CLOSED_TASK_SET" \in flags
                 /\ flags \intersect {"SET", "SEND_CLOSED"} = {}
              THEN "wake" ELSE "done"
    /\ UNCHANGED <<cell, pc, polling, answer, woken>>

WakeTask ==
    /\ cpc = "wake"
    /\ woken' = (woken \/ cell = polling)
    /\ cpc' = "done"
    /\ UNCHANGED <<flags, cell, pc, polling, answer>>

-----------------------------------------------------------------------------
PollStep == ClearFlag \/ RestoreFlag \/ DropOldWaker \/ WriteWaker \/ PublishWaker
Poll == PollStep \/ ResolveChannel \/ \E t \in Tasks : BeginPoll(t)
Close == CloseFlag \/ WakeTask
Next == Poll \/ Close

Spec == Init /\ [][Next]_vars

\* A poll and a close once begun run to their end, and a woken task polls again.
\* Nobody is obliged to close, or to poll out of turn.
Fairness ==
    /\ WF_vars(PollStep)
    /\ WF_vars(WakeTask)
    /\ WF_vars(woken /\ \E t \in Tasks : BeginPoll(t))

FairSpec == Spec /\ Fairness

-----------------------------------------------------------------------------
(* Properties.                                                             *)

TypeOK ==
    /\ flags \subseteq StateFlags
    /\ cell \in Tasks \union {NoTask}
    /\ pc \in {"idle", "clear", "restore", "dropOld", "write", "set"}
    /\ polling \in Tasks \union {NoTask}
    /\ answer \in {"Unpolled", "Pending", "Ready"}
    /\ woken \in BOOLEAN
    /\ cpc \in {"start", "wake", "done"}

\* No data race on the cell: while the closer reads the waker it is initialised,
\* and the poller is not at a step that drops or overwrites it.
WakerIsStable == cpc = "wake" => cell # NoTask /\ pc \notin {"dropOld", "write", "set"}

\* CLOSED_TASK_SET is only up over an initialised waker: neither close nor the
\* destructor of the channel touches a cell that was never written.
FlagMeansWaker == "CLOSED_TASK_SET" \in flags => cell # NoTask

\* A receiver told to wait is not left waiting: once the channel is closed its
\* task has been woken, or the closer is about to wake it.
PendingIsWoken ==
    (pc = "idle" /\ answer = "Pending" /\ "RECV_CLOSED" \in flags)
        => woken \/ (cpc = "wake" /\ cell = polling)

\* The wait for the closing of a channel ends, by whichever task it is polled.
EventuallyReady == (answer = "Pending" /\ cpc # "start") ~> answer = "Ready"
=============================================================================

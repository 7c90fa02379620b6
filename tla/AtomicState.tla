----------------------------- MODULE AtomicState -----------------------------
(***************************************************************************)
(* The atomic byte shared by the oneshot of a request and the resolution   *)
(* of a channel (recapn-channel/src/util/atomic_state.rs).  A byte of flag *)
(* bits is the set of the flags that are up; every operation of the source *)
(* is one atomic read-modify-write, so each is one expression here.        *)
(***************************************************************************)

StateFlags == {"SET", "SEND_CLOSED", "RECV_CLOSED", "CLOSED_TASK_SET", "SET_PIPELINE"}

ShotStates == {"Sent", "Empty", "Closed"}

\* set_send_closed, set_recv_closed, set_closed_task, set_value, set_pipeline:
\* a fetch_or that also returns the new flags.
SetFlag(flags, f) == flags \union {f}

\* clear_closed_task: a fetch_and that also returns the new flags.
ClearClosedTask(flags) == flags \ {"CLOSED_TASK_SET"}

\* try_set_value: the compare-and-swap loop gives up once RECV_CLOSED is up.
TrySetValue(flags) ==
    IF "RECV_CLOSED" \in flags THEN flags ELSE flags \union {"SET"}

\* StateFlags::state: a sent value wins over a dropped sender.
ShotState(flags) ==
    IF "SET" \in flags THEN "Sent"
    ELSE IF "SEND_CLOSED" \in flags THEN "Closed" ELSE "Empty"
==============================================================================

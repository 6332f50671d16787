----------------------------- MODULE BufferQueue -----------------------------
(***************************************************************************)
(* What the pipe of libs/threadlib.c needs of its list of write buffers: a *)
(* queue without a limit.  Buffers are numbered in the order in which they *)
(* are added.                                                              *)
(***************************************************************************)
EXTENDS Integers, Sequences

CONSTANT MaxBuffers   \* bound: buffers added in a behaviour

VARIABLES queue, added

Init == queue = <<>> /\ added = 0

Put ==
    /\ added < MaxBuffers
    /\ added' = added + 1
    /\ queue' = Append(queue, added + 1)

Take ==
    /\ queue # <<>>
    /\ queue' = Tail(queue)
    /\ UNCHANGED added

Next == Put \/ Take

Spec == Init /\ [][Next]_<<queue, added>>
=============================================================================

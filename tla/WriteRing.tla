------------------------------ MODULE WriteRing ------------------------------
(***************************************************************************)
(* The circular array that libs/threadlib.c keeps its write buffers in:    *)
(* allocated by the first add_to_write_buffer, reorganised into a larger   *)
(* one when it is full, emptied from the front by refill_write_pipe.  Each *)
(* action runs under the pipe's mutex.                                     *)
(***************************************************************************)
EXTENDS Integers, Sequences

CONSTANTS
    Grow,         \* the 64 of add_to_write_buffer
    MaxBuffers    \* bound: buffers added in a behaviour

(* An array of one slot is full and empty at once.                         *)
ASSUME RingAssumption == Grow \in Nat /\ Grow >= 2 /\ MaxBuffers \in Nat

VARIABLES
    write_buffers,        \* slot -> buffer, a number from 1 on, or NULL
    write_buffers_count,  \* slots allocated; 0 while there is no array
    first_write_buffer,
    last_write_buffer,
    added                 \* buffers added so far

ringVars == <<write_buffers, write_buffers_count, first_write_buffer,
              last_write_buffer, added>>

NULL == 0

(* The number of buffers from first to last, and the slot of the i-th of   *)
(* them, counting from 0: what the loop that copies them to a new array    *)
(* walks over.                                                             *)
Used ==
    IF last_write_buffer >= first_write_buffer
    THEN last_write_buffer - first_write_buffer
    ELSE last_write_buffer + write_buffers_count - first_write_buffer

Slot(i) ==
    IF first_write_buffer + i < write_buffers_count
    THEN first_write_buffer + i
    ELSE first_write_buffer + i - write_buffers_count

Step(n, count) == IF n + 1 >= count THEN 0 ELSE n + 1

RingInit ==
    /\ write_buffers = [n \in {} |-> NULL] /\ write_buffers_count = 0
    /\ first_write_buffer = 0 /\ last_write_buffer = 0
    /\ added = 0

(* The buffer goes to slot last of the array, first moves to new_first.    *)
PutAt(array, count, first, last) ==
    /\ write_buffers' = [array EXCEPT ![last] = added + 1]
    /\ write_buffers_count' = count
    /\ first_write_buffer' = first
    /\ last_write_buffer' = Step(last, count)
    /\ added' = added + 1

NoArray == write_buffers_count = 0

MutFullBehind == last_write_buffer = first_write_buffer - 1
Full ==
    \/ last_write_buffer = first_write_buffer - 1
    \/ first_write_buffer = 0 /\ last_write_buffer = write_buffers_count - 1

newnumber == (write_buffers_count \div Grow + 1) * Grow

Reorganised ==
    [n \in 0..(newnumber - 1) |-> IF n < Used THEN write_buffers[Slot(n)] ELSE NULL]

(* add_to_write_buffer, up to the refill.                                  *)
PutFirst ==
    /\ added < MaxBuffers
    /\ NoArray
    /\ PutAt([n \in 0..(Grow - 1) |-> NULL], Grow, first_write_buffer, last_write_buffer)

PutInRoom ==
    /\ added < MaxBuffers
    /\ ~NoArray /\ ~Full
    /\ PutAt(write_buffers, write_buffers_count, first_write_buffer, last_write_buffer)

MutLast == write_buffers_count
LastOfFull == write_buffers_count - 1

PutReorganised ==
    /\ added < MaxBuffers
    /\ ~NoArray /\ Full
    /\ PutAt(Reorganised, newnumber, 0, LastOfFull)

Empty == NoArray \/ first_write_buffer = last_write_buffer

(* refill_write_pipe: take the first buffer off the list.                  *)
Take ==
    /\ ~Empty
    /\ write_buffers' = [write_buffers EXCEPT ![first_write_buffer] = NULL]
    /\ first_write_buffer' = Step(first_write_buffer, write_buffers_count)
    /\ UNCHANGED <<write_buffers_count, last_write_buffer, added>>

RingNext == PutFirst \/ PutInRoom \/ PutReorganised \/ Take

RingSpec == RingInit /\ [][RingNext]_ringVars
-----------------------------------------------------------------------------
(* Properties.                                                             *)

(* The array has exactly its slots, the two indices are slots of it, and   *)
(* no buffer is in it that was not added.                                  *)
RingTypeOK ==
    /\ write_buffers_count \in Nat /\ added \in Nat
    /\ write_buffers \in [0..(write_buffers_count - 1) -> 0..added]
    /\ NoArray => first_write_buffer = 0 /\ last_write_buffer = 0
    /\ ~NoArray => /\ write_buffers_count >= 2
                   /\ first_write_buffer \in 0..(write_buffers_count - 1)
                   /\ last_write_buffer \in 0..(write_buffers_count - 1)

(* A slot holds a buffer exactly if it lies between first and last:        *)
(* refill_write_pipe's assert(pbuffer) holds, thread_pipe_free frees the   *)
(* buffers that wait and none that refill_write_pipe has freed.            *)
InUse(n) == \E i \in 0..(Used - 1) : n = Slot(i)
HeldExactly ==
    \A n \in 0..(write_buffers_count - 1) : write_buffers[n] # NULL <=> InUse(n)

(* The array, its indices and its slots, through every wrap and growth.    *)
SlotsHeld == RingTypeOK /\ HeldExactly

(* add_to_write_buffer's assert(last != first) holds: adding a buffer      *)
(* never makes the list look empty, and every buffer of it is still there. *)
NeverLooksEmpty == [][added' # added => ~Empty' /\ Used' = Used + 1]_ringVars

(* The array is the queue: buffers leave it in the order in which they     *)
(* were added, whatever wrapping round and reorganising happened.          *)
Queue == INSTANCE BufferQueue WITH
             queue <- [i \in 1..Used |-> write_buffers[Slot(i - 1)]]
IsQueue == Queue!Spec
=============================================================================

----------------------------- MODULE ThreadPipe -----------------------------
(***************************************************************************)
(* The in-process FIFO pipe of libs/threadlib.c, as made by                *)
(* thread_pipe_create on Unix: one writing thread, one reading thread, a   *)
(* mutex, the list of write buffers, and the kernel pipe behind it.        *)
(*                                                                         *)
(* Everything the code does between taking and releasing the mutex is one  *)
(* action; every gap in which the mutex is free, and every access made     *)
(* without it (thread_pipe_eof, thread_pipe_iseof), is a step of its own.  *)
(*                                                                         *)
(* A byte is its position in the stream of bytes given to                  *)
(* thread_pipe_write: 1, 2, 3, ...  A write buffer is the interval of      *)
(* positions it holds.  The circular array that stores the write buffers   *)
(* is the module WriteRing; here they are the sequence it implements.      *)
(***************************************************************************)
EXTENDS Integers, Sequences

CONSTANTS
    BufferSize,   \* argument of thread_pipe_create (buffer_limit)
    PipeMax,      \* the 4096 of thread_pipe_create, scaled
    Slack,        \* the 256 of refill_write_pipe, in the same scale
    KernelSize,   \* capacity of the kernel pipe
    WriteSizes,   \* sizes the writer asks thread_pipe_write for
    ReadSizes,    \* sizes the reader asks thread_pipe_read for
    MaxBytes,     \* bound: bytes written in a behaviour
    MaxTopups,    \* bound: calls of thread_pipe_buffer_topup
    FlushModes,   \* values of thread_pipe_eof's flush argument
    Timeouts      \* may the 15 seconds of thread_pipe_eof elapse?

pipe_size == IF BufferSize < PipeMax THEN BufferSize ELSE PipeMax
buffer_limit == BufferSize

(* thread_pipe_write splits a call in pieces of pipe_size / 2 and          *)
(* thread_pipe_read in pieces of pipe_size / 4; a piece of 0 bytes would   *)
(* make the loops spin.  A piece always fits an empty kernel pipe.         *)
ASSUME PipeAssumption ==
    /\ BufferSize \in Nat /\ PipeMax \in Nat /\ Slack \in Nat
    /\ pipe_size >= 4
    /\ KernelSize \in Nat /\ KernelSize >= pipe_size
    /\ WriteSizes \subseteq Nat \ {0}
    /\ ReadSizes \subseteq Nat \ {0}
    /\ MaxBytes \in Nat /\ MaxTopups \in Nat
    /\ FlushModes \subseteq BOOLEAN
    /\ Timeouts \in BOOLEAN

Threads == {"writer", "reader"}

Min2(a, b) == IF a < b THEN a ELSE b
Other(t) == IF t = "writer" THEN "reader" ELSE "writer"

Buffer == [lo : Nat, hi : Nat]
Size(b) == b.hi + 1 - b.lo
NoBuffer == [lo |-> 1, hi |-> 0]
Contents(b) == [i \in 1..Size(b) |-> b.lo + i - 1]

VARIABLES
    write_buffers,   \* the buffers from first_write_buffer to last_write_buffer
    bytes_buffered,
    bytes_in_pipe,
    in_write,
    eof,
    write_open,      \* phandles[1] # 0
    kernel,          \* bytes inside the kernel pipe
    pc,              \* where each thread is
    ret,             \* where refill_write_pipe returns to
    block,           \* refill_write_pipe's local block
    pbuffer,         \* buffer a thread has taken off the list and not yet written
    accepted,        \* bytes add_to_write_buffer has taken
    bytes_to_write,  \* of the current thread_pipe_write
    topups,          \* calls of thread_pipe_buffer_topup so far
    bytes_to_read,   \* of the current thread_pipe_read
    result,          \* bytes the last read(2) returned
    read_eof,        \* thread_pipe_read's local eof
    received,        \* every byte stored in the caller's buffers
    raced,           \* history: both threads once held a buffer at a time
    aborted          \* an assert of refill_write_pipe failed

shared == <<write_buffers, bytes_buffered, bytes_in_pipe, in_write, eof,
            write_open, kernel>>
writerVars == <<accepted, bytes_to_write, topups>>
readerVars == <<bytes_to_read, result, read_eof, received>>
ghosts == <<raced, aborted>>
vars == <<shared, pc, ret, block, pbuffer, writerVars, readerVars, ghosts>>

Init ==
    /\ write_buffers = <<>> /\ bytes_buffered = 0 /\ bytes_in_pipe = 0
    /\ in_write = FALSE /\ eof = FALSE /\ write_open = TRUE /\ kernel = <<>>
    /\ pc = [t \in Threads |-> "idle"]
    /\ ret = [t \in Threads |-> "idle"]
    /\ block = [t \in Threads |-> 0]
    /\ pbuffer = [t \in Threads |-> NoBuffer]
    /\ accepted = 0 /\ bytes_to_write = 0 /\ topups = 0
    /\ bytes_to_read = 0 /\ result = <<>> /\ read_eof = FALSE
    /\ received = <<>>
    /\ raced = FALSE /\ aborted = FALSE

Goto(t, l) == pc' = [pc EXCEPT ![t] = l]

(* Call refill_write_pipe(pipedata, b) from thread t, returning to l.      *)
CallRefill(t, b, l) ==
    /\ Goto(t, "refill")
    /\ ret' = [ret EXCEPT ![t] = l]
    /\ block' = [block EXCEPT ![t] = b]

-----------------------------------------------------------------------------
(* refill_write_pipe, run by either thread.                                *)

(* block = 2 only lasts while the list is over its limit.                  *)
EffectiveBlock(t) ==
    IF block[t] = 2 /\ bytes_buffered < buffer_limit THEN 0 ELSE block[t]

HasRoom(b) == bytes_in_pipe + Size(b) + Slack <= pipe_size

MutLastBuffer == write_buffers[Len(write_buffers)]
FirstBuffer == Head(write_buffers)

MayWrite(t) ==
    /\ write_buffers # <<>>
    /\ EffectiveBlock(t) > 0 \/ HasRoom(FirstBuffer)

(* Take the first buffer off the list and account for it, then release     *)
(* the mutex to write it.                                                  *)
RefillTake(t) ==
    /\ pc[t] = "refill"
    /\ MayWrite(t)
    /\ LET b == FirstBuffer IN
         /\ pbuffer' = [pbuffer EXCEPT ![t] = b]
         /\ write_buffers' = Tail(write_buffers)
         /\ bytes_in_pipe' = bytes_in_pipe + Size(b)
         /\ bytes_buffered' = bytes_buffered - Size(b)
    /\ block' = [block EXCEPT ![t] = EffectiveBlock(t)]
    /\ Goto(t, "kcheck")
    /\ raced' = (raced \/ pbuffer[Other(t)] # NoBuffer)
    /\ UNCHANGED <<in_write, eof, write_open, kernel, ret, aborted,
                   writerVars, readerVars>>

RefillStop(t) ==
    /\ pc[t] = "refill"
    /\ ~MayWrite(t)
    /\ Goto(t, ret[t])
    /\ UNCHANGED <<shared, ret, block, pbuffer, writerVars, readerVars, ghosts>>

(* Test phandles[1] and enter write(2).                                    *)
RefillEnter(t) ==
    /\ pc[t] = "kcheck"
    /\ write_open
    /\ Goto(t, "kwrite")
    /\ UNCHANGED <<shared, ret, block, pbuffer, writerVars, readerVars, ghosts>>

(* phandles[1] is closed: nothing is written and assert(result == size)    *)
(* fails.                                                                  *)
RefillAbort(t) ==
    /\ pc[t] = "kcheck"
    /\ ~write_open
    /\ aborted' = TRUE
    /\ UNCHANGED <<shared, pc, ret, block, pbuffer, writerVars, readerVars, raced>>

KernelRoom(t) == Len(kernel) + Size(pbuffer[t]) <= KernelSize

(* write(2): the buffer is smaller than PIPE_BUF, so the kernel takes all  *)
(* of it at once and blocks the thread until it can.  A close of the       *)
(* handle by the other thread does not end a write(2) under way.           *)
RefillWrite(t) ==
    /\ pc[t] = "kwrite"
    /\ KernelRoom(t)
    /\ kernel' = kernel \o Contents(pbuffer[t])
    /\ pbuffer' = [pbuffer EXCEPT ![t] = NoBuffer]
    /\ Goto(t, "refill")
    /\ UNCHANGED <<write_buffers, bytes_buffered, bytes_in_pipe, in_write, eof,
                   write_open, ret, block, writerVars, readerVars, ghosts>>

Refill(t) ==
    \/ RefillTake(t) \/ RefillStop(t)
    \/ RefillEnter(t) \/ RefillAbort(t) \/ RefillWrite(t)

-----------------------------------------------------------------------------
(* The writing thread.                                                     *)

(* thread_pipe_write: first critical section.                              *)
WriteCall ==
    /\ pc["writer"] = "idle"
    /\ \E n \in WriteSizes :
         /\ accepted + n <= MaxBytes
         /\ bytes_to_write' = n
    /\ in_write' = TRUE
    /\ Goto("writer", "w_add")
    /\ UNCHANGED <<write_buffers, bytes_buffered, bytes_in_pipe, eof, write_open,
                   kernel, ret, block, pbuffer, accepted, topups, readerVars, ghosts>>

WriteChunk == Min2(bytes_to_write, pipe_size \div 2)

MutBlockLate(buffered) == IF buffered > buffer_limit THEN 2 ELSE 0
BlockFor(buffered) == IF buffered >= buffer_limit THEN 2 ELSE 0

(* add_to_write_buffer: copy one piece to the end of the list and refill,  *)
(* blocking if the list is now over the limit the user asked for.          *)
AddToWriteBuffer ==
    /\ pc["writer"] = "w_add"
    /\ write_buffers' =
         Append(write_buffers, [lo |-> accepted + 1, hi |-> accepted + WriteChunk])
    /\ accepted' = accepted + WriteChunk
    /\ bytes_buffered' = bytes_buffered + WriteChunk
    /\ CallRefill("writer", BlockFor(bytes_buffered + WriteChunk), "w_added")
    /\ UNCHANGED <<bytes_in_pipe, in_write, eof, write_open, kernel, pbuffer,
                   bytes_to_write, topups, readerVars, ghosts>>

(* thread_pipe_write: after add_to_write_buffer returned a piece's size.   *)
WriteAdded ==
    /\ pc["writer"] = "w_added"
    /\ bytes_to_write' = bytes_to_write - WriteChunk
    /\ IF bytes_to_write' > 0
       THEN Goto("writer", "w_add") /\ UNCHANGED in_write
       ELSE Goto("writer", "idle") /\ in_write' = FALSE
    /\ UNCHANGED <<write_buffers, bytes_buffered, bytes_in_pipe, eof, write_open,
                   kernel, ret, block, pbuffer, accepted, topups, readerVars, ghosts>>

(* thread_pipe_buffer_topup.                                               *)
BufferTopup ==
    /\ pc["writer"] = "idle"
    /\ topups < MaxTopups
    /\ topups' = topups + 1
    /\ CallRefill("writer", 0, "idle")
    /\ UNCHANGED <<shared, pbuffer, accepted, bytes_to_write, readerVars, ghosts>>

MutNoFlush(flush) == "e_flag"
AfterEofCall(flush) == IF flush THEN "f_loop" ELSE "e_flag"

(* thread_pipe_eof.  It never takes the mutex.                             *)
EofCall ==
    /\ pc["writer"] = "idle"
    /\ \E flush \in FlushModes :
         /\ in_write' = (in_write \/ flush)
         /\ Goto("writer", AfterEofCall(flush))
    /\ UNCHANGED <<write_buffers, bytes_buffered, bytes_in_pipe, eof, write_open,
                   kernel, ret, block, pbuffer, writerVars, readerVars, ghosts>>

FlushBuffers ==
    /\ pc["writer"] = "f_loop"
    /\ write_buffers # <<>>
    /\ CallRefill("writer", 1, "f_time")
    /\ UNCHANGED <<shared, pbuffer, writerVars, readerVars, ghosts>>

FlushBuffersDone ==
    /\ pc["writer"] = "f_loop"
    /\ write_buffers = <<>>
    /\ Goto("writer", "f_wait")
    /\ UNCHANGED <<shared, ret, block, pbuffer, writerVars, readerVars, ghosts>>

(* The clock is read after each refill; the second loop shares the clock.  *)
FlushClock ==
    /\ pc["writer"] = "f_time"
    /\ \/ Goto("writer", "f_loop")
       \/ Timeouts /\ Goto("writer", "f_end")
    /\ UNCHANGED <<shared, ret, block, pbuffer, writerVars, readerVars, ghosts>>

MutDrainedAnyway == TRUE
Drained == bytes_in_pipe = 0

FlushWait ==
    /\ pc["writer"] = "f_wait"
    /\ Drained \/ Timeouts
    /\ Goto("writer", "f_end")
    /\ UNCHANGED <<shared, ret, block, pbuffer, writerVars, readerVars, ghosts>>

FlushEnd ==
    /\ pc["writer"] = "f_end"
    /\ in_write' = FALSE
    /\ Goto("writer", "e_flag")
    /\ UNCHANGED <<write_buffers, bytes_buffered, bytes_in_pipe, eof, write_open,
                   kernel, ret, block, pbuffer, writerVars, readerVars, ghosts>>

EofFlag ==
    /\ pc["writer"] = "e_flag"
    /\ eof' = TRUE
    /\ Goto("writer", "e_close")
    /\ UNCHANGED <<write_buffers, bytes_buffered, bytes_in_pipe, in_write, write_open,
                   kernel, ret, block, pbuffer, writerVars, readerVars, ghosts>>

EofClose ==
    /\ pc["writer"] = "e_close"
    /\ write_open' = FALSE
    /\ Goto("writer", "done")
    /\ UNCHANGED <<write_buffers, bytes_buffered, bytes_in_pipe, in_write, eof,
                   kernel, ret, block, pbuffer, writerVars, readerVars, ghosts>>

Writer ==
    \/ Refill("writer")
    \/ WriteCall \/ AddToWriteBuffer \/ WriteAdded
    \/ BufferTopup
    \/ EofCall \/ FlushBuffers \/ FlushBuffersDone \/ FlushClock \/ FlushWait
    \/ FlushEnd \/ EofFlag \/ EofClose

-----------------------------------------------------------------------------
(* The reading thread: while( !thread_pipe_iseof ) thread_pipe_read.       *)

ReadCall ==
    /\ pc["reader"] = "idle"
    /\ ~eof
    /\ bytes_to_read' \in ReadSizes
    /\ Goto("reader", "r_head")
    /\ UNCHANGED <<shared, ret, block, pbuffer, writerVars, result, read_eof,
                   received, ghosts>>

SeeEof ==
    /\ pc["reader"] = "idle"
    /\ eof
    /\ Goto("reader", "done")
    /\ UNCHANGED <<shared, ret, block, pbuffer, writerVars, readerVars, ghosts>>

(* The condition of thread_pipe_read's loop.                               *)
ReadHead ==
    /\ pc["reader"] = "r_head"
    /\ Goto("reader", IF ~eof /\ bytes_to_read > 0 THEN "r_read" ELSE "idle")
    /\ UNCHANGED <<shared, ret, block, pbuffer, writerVars, readerVars, ghosts>>

ReadChunk == Min2(bytes_to_read, pipe_size \div 4)

MutKeepLast(k) == SubSeq(kernel, k, Len(kernel))
LeftInKernel(k) == SubSeq(kernel, k + 1, Len(kernel))

(* read(2) blocks until there is a byte or the write side is closed.       *)
ReadKernel ==
    /\ pc["reader"] = "r_read"
    /\ kernel # <<>>
    /\ LET k == Min2(ReadChunk, Len(kernel)) IN
         /\ result' = SubSeq(kernel, 1, k)
         /\ kernel' = LeftInKernel(k)
    /\ read_eof' = FALSE
    /\ Goto("reader", "r_post")
    /\ UNCHANGED <<write_buffers, bytes_buffered, bytes_in_pipe, in_write, eof,
                   write_open, ret, block, pbuffer, writerVars, bytes_to_read,
                   received, ghosts>>

ReadEnd ==
    /\ pc["reader"] = "r_read"
    /\ kernel = <<>>
    /\ ~write_open
    /\ result' = <<>>
    /\ read_eof' = TRUE
    /\ Goto("reader", "r_post")
    /\ UNCHANGED <<shared, ret, block, pbuffer, writerVars, bytes_to_read,
                   received, ghosts>>

MutCountRequested == bytes_in_pipe - ReadChunk
LessInPipe == bytes_in_pipe - Len(result)

(* The critical section after read(2): the shared eof is overwritten with  *)
(* the local one, the bytes are accounted for, and an idle, drained pipe   *)
(* is refilled by the reader.                                              *)
ReadPost ==
    /\ pc["reader"] = "r_post"
    /\ eof' = read_eof
    /\ bytes_in_pipe' = LessInPipe
    /\ bytes_to_read' = bytes_to_read - Len(result)
    /\ received' = received \o result
    /\ result' = <<>>
    /\ IF ~in_write /\ bytes_in_pipe' = 0
       THEN CallRefill("reader", 0, "r_head")
       ELSE Goto("reader", "r_head") /\ UNCHANGED <<ret, block>>
    /\ UNCHANGED <<write_buffers, bytes_buffered, in_write, write_open, kernel,
                   pbuffer, writerVars, read_eof, ghosts>>

Reader ==
    \/ Refill("reader")
    \/ ReadCall \/ SeeEof \/ ReadHead \/ ReadKernel \/ ReadEnd \/ ReadPost

-----------------------------------------------------------------------------
(* The process stops when an assert fails or when both threads are done.   *)
Finished == \A t \in Threads : pc[t] = "done"

Stopped ==
    /\ aborted \/ Finished
    /\ UNCHANGED vars

Next == (~aborted /\ (Writer \/ Reader)) \/ Stopped

Spec == Init /\ [][Next]_vars

(* Both are threads of the operating system, so neither is starved.        *)
Fairness ==
    /\ WF_vars(~aborted /\ Writer)
    /\ WF_vars(~aborted /\ Reader)

FairSpec == Spec /\ Fairness
-----------------------------------------------------------------------------
(* Properties.                                                             *)

WriterPlaces == {"idle", "w_add", "w_added", "refill", "kcheck", "kwrite",
                 "f_loop", "f_time", "f_wait", "f_end", "e_flag", "e_close", "done"}
ReaderPlaces == {"idle", "r_head", "r_read", "r_post", "refill", "kcheck",
                 "kwrite", "done"}

(* The values the pipe's fields and the two threads' locals may take; the  *)
(* two unsigned counters never wrap below zero.                            *)
TypeOK ==
    /\ write_buffers \in Seq(Buffer)
    /\ bytes_buffered \in Nat /\ bytes_in_pipe \in Nat
    /\ in_write \in BOOLEAN /\ eof \in BOOLEAN /\ write_open \in BOOLEAN
    /\ kernel \in Seq(Nat)
    /\ pc \in [Threads -> WriterPlaces \cup ReaderPlaces]
    /\ pc["writer"] \in WriterPlaces /\ pc["reader"] \in ReaderPlaces
    /\ ret \in [Threads -> {"idle", "w_added", "f_time", "r_head"}]
    /\ block \in [Threads -> {0, 1, 2}]
    /\ pbuffer \in [Threads -> Buffer]
    /\ accepted \in Nat /\ bytes_to_write \in Nat /\ topups \in Nat
    /\ bytes_to_read \in Nat /\ result \in Seq(Nat) /\ read_eof \in BOOLEAN
    /\ received \in Seq(Nat)
    /\ raced \in BOOLEAN /\ aborted \in BOOLEAN

(* bytes_in_pipe, updated in different critical sections of both threads   *)
(* before a write(2) and after a read(2), counts exactly the bytes on      *)
(* their way through the kernel: held for writing, in it, or just read.    *)
InPipeAccounting ==
    bytes_in_pipe = Len(kernel) + Len(result)
                      + Size(pbuffer["writer"]) + Size(pbuffer["reader"])

(* The two counters and the bytes handed to the reader add up to the bytes *)
(* the writer handed over: none is counted twice or forgotten, whichever   *)
(* thread moved it.                                                        *)
Conservation == accepted = Len(received) + bytes_in_pipe + bytes_buffered

(* The list holds the newest bytes, in order and without gaps, and         *)
(* bytes_buffered is their number.                                         *)
BufferListInOrder ==
    /\ \A i \in 1..Len(write_buffers) :
         /\ Size(write_buffers[i]) > 0
         /\ i > 1 => write_buffers[i].lo = write_buffers[i - 1].hi + 1
    /\ write_buffers = <<>> => bytes_buffered = 0
    /\ write_buffers # <<>> =>
         /\ write_buffers[1].lo = accepted - bytes_buffered + 1
         /\ write_buffers[Len(write_buffers)].hi = accepted

(* What the pipe keeps count of is what is in it, at every release of the   *)
(* mutex.                                                                  *)
CountersExact == TypeOK /\ InPipeAccounting /\ Conservation /\ BufferListInOrder

(* Back pressure: outside refill_write_pipe fewer than buffer_limit bytes  *)
(* wait in memory, so thread_pipe_write does not return while the limit    *)
(* given to thread_pipe_create is reached.                                 *)
BackPressure ==
    pc["writer"] \in {"idle", "w_add", "w_added"} => bytes_buffered < buffer_limit

(* The bytes between the list and the reader, oldest first, when at most   *)
(* one thread is moving a buffer.                                          *)
InFlight ==
    received \o result \o kernel
      \o Contents(pbuffer["writer"]) \o Contents(pbuffer["reader"])

(* First in, first out, as long as the two threads never moved a buffer at *)
(* the same time (refill_write_pipe writes with the mutex released).       *)
FifoUnlessRaced ==
    ~raced => InFlight = [i \in 1..(accepted - bytes_buffered) |-> i]

(* Even when the threads did overtake each other every byte is there       *)
(* exactly once: nothing is lost, repeated or invented.                    *)
NothingLostOrInvented ==
    /\ Len(InFlight) = accepted - bytes_buffered
    /\ {InFlight[i] : i \in 1..Len(InFlight)} = 1..(accepted - bytes_buffered)

(* thread_pipe_eof(ph, 1), when its 15 seconds suffice, marks the end only *)
(* after the reader has every byte.                                        *)
FlushedBeforeEof ==
    pc["writer"] \in {"e_flag", "e_close", "done"} => Len(received) = accepted

(* The asserts of refill_write_pipe hold.                                  *)
AssertsHold == ~aborted

(* The end of a pipe that is flushed is clean: nothing is cut off, and the *)
(* handle is not closed under a thread that still writes to it.            *)
FlushClean == FlushedBeforeEof /\ AssertsHold

(* Each byte accepted by thread_pipe_write is eventually in the reader's   *)
(* hands, if the writer ends with thread_pipe_eof(ph, 1).                  *)
EveryByteDelivered ==
    \A n \in 1..MaxBytes : (accepted >= n) ~> (Len(received) >= n)

(* Both threads get out of the pipe.                                       *)
BothThreadsFinish == <>Finished
=============================================================================

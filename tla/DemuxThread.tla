---------------------------- MODULE DemuxThread ----------------------------
(***************************************************************************)
(* tydemux_thread (tydemux.c): the demultiplexer as a thread of a larger   *)
(* program.  The caller waits until it runs and then for its thread_lock;  *)
(* mplex waits for the audio offset and then reads the two output pipes to *)
(* their end.  Caller and mplex are not in this repository: they are what  *)
(* the comments of tydemux.c and structures.h say of them.                 *)
(*                                                                         *)
(* A chunk gives one portion for each pipe, if it gives any.  A pipe is    *)
(* the counts of the portions its writer still buffers and of those its    *)
(* reader can take; ThreadPipe has the pipe itself.                        *)
(***************************************************************************)
EXTENDS Integers, FiniteSets

CONSTANTS
    MayFail,     \* which of "probe", "args", "offset", "sequence", "repair"
                 \* can fail
    Chunks,      \* chunks in the stream
    PipeSize,    \* portions that fit into the system's pipe
    FlushRounds  \* ntimeout of the flush

Stages == {"probe", "args", "offset", "sequence", "repair"}
Pipes == {"audio", "video"}

ASSUME ThreadAssumption ==
    /\ MayFail \subseteq Stages
    /\ Chunks \in Nat /\ PipeSize \in Nat \ {0} /\ FlushRounds \in Nat \ {0}

VARIABLES
    thread_lock,            \* who holds it: "demux", "caller" or "none"
    process_lock,           \* the static copies that the exit handler uses
    write_pipes,            \* those of awrite_pipe and vwrite_pipe that are set
    running,
    wait_for_audio_offset,
    pipe,                   \* [Pipes -> [buffered, ready, eof]]
    demux, caller, mplex,   \* where each of the three is
    handler,                \* who runs the exit handler, and where it is
    chunk_nr, found, rounds

locks == <<thread_lock, process_lock, write_pipes>>
shared == <<running, wait_for_audio_offset, pipe>>
loop == <<chunk_nr, found, rounds>>
vars == <<locks, shared, demux, caller, mplex, handler, loop>>

Init ==
    /\ thread_lock = "none" /\ process_lock = FALSE /\ write_pipes = {}
    /\ running = FALSE /\ wait_for_audio_offset = TRUE
    /\ pipe = [p \in Pipes |-> [buffered |-> 0, ready |-> 0, eof |-> FALSE]]
    /\ demux = "start" /\ caller = "start" /\ mplex = "waiting"
    /\ handler = [by |-> "none", at |-> "none"]
    /\ chunk_nr = 0 /\ found = FALSE /\ rounds = 0

(* The process is there until the exit handler has run.                    *)
Alive == handler.at # "done"
DemuxAt(place) == Alive /\ demux = place /\ handler.by # "demux"

Smaller(a, b) == IF a < b THEN a ELSE b

(* thread_pipe_buffer_topup: what fits goes into the system's pipe.        *)
TopUp(p) ==
    LET n == Smaller(p.buffered, PipeSize - p.ready) IN
    [p EXCEPT !.buffered = @ - n, !.ready = @ + n]

-----------------------------------------------------------------------------
(* The caller is to block itself on the lock, so it must be taken before   *)
(* the caller learns that the thread runs.                                 *)
MutTakeLock ==
    /\ DemuxAt("start")
    /\ running' = TRUE
    /\ demux' = "locked"
    /\ UNCHANGED <<locks, wait_for_audio_offset, pipe, caller, mplex, handler, loop>>
TakeLock ==
    /\ DemuxAt("start") /\ thread_lock = "none"
    /\ thread_lock' = "demux" /\ process_lock' = TRUE
    /\ demux' = "locked"
    /\ UNCHANGED <<write_pipes, shared, caller, mplex, handler, loop>>

SetRunning ==
    /\ DemuxAt("locked")
    /\ running' = TRUE
    /\ demux' = "probe"
    /\ UNCHANGED <<locks, wait_for_audio_offset, pipe, caller, mplex, handler, loop>>

(* Each way out here leaves the lock, the pipes and mplex as they are.     *)
GiveUp(stage) ==
    /\ DemuxAt(stage) /\ stage \in MayFail
    /\ demux' = "returned"
    /\ UNCHANGED <<locks, shared, caller, mplex, handler, loop>>

Probe ==
    /\ DemuxAt("probe")
    /\ demux' = "args"
    /\ UNCHANGED <<locks, shared, caller, mplex, handler, loop>>

ParseArgs ==
    /\ DemuxAt("args")
    /\ write_pipes' = Pipes
    /\ demux' = "offset"
    /\ UNCHANGED <<thread_lock, process_lock, shared, caller, mplex, handler, loop>>

AdjustOffset ==
    /\ DemuxAt("offset")
    /\ demux' = "read"
    /\ UNCHANGED <<locks, shared, caller, mplex, handler, loop>>

(* tydemux, one turn of the loop for a pipe.                               *)
EndOfFile ==
    /\ DemuxAt("read") /\ chunk_nr = Chunks
    /\ demux' = "flush"
    /\ UNCHANGED <<locks, shared, caller, mplex, handler, loop>>

(* The first sequence is found late, or not at all; then mplex is let go.  *)
ReadChunk(sequence) ==
    /\ DemuxAt("read") /\ chunk_nr < Chunks
    /\ chunk_nr' = chunk_nr + 1
    /\ sequence \/ "sequence" \in MayFail \/ chunk_nr' < Chunks
    /\ found' = (found \/ sequence)
    /\ demux' = IF found' THEN "offset_known" ELSE "read"
    /\ UNCHANGED <<locks, shared, caller, mplex, handler, rounds>>

MutReleaseMplex ==
    /\ DemuxAt("offset_known")
    /\ wait_for_audio_offset' = (wait_for_audio_offset /\ pipe["video"].buffered = 0)
    /\ demux' = "repair"
    /\ UNCHANGED <<locks, running, pipe, caller, mplex, handler, loop>>
ReleaseMplex ==
    /\ DemuxAt("offset_known")
    /\ wait_for_audio_offset' = FALSE
    /\ demux' = "repair"
    /\ UNCHANGED <<locks, running, pipe, caller, mplex, handler, loop>>

RepairFails ==
    /\ DemuxAt("repair") /\ "repair" \in MayFail
    /\ handler.by = "none"
    /\ handler' = [by |-> "demux", at |-> "pipes"]
    /\ UNCHANGED <<locks, shared, demux, caller, mplex, loop>>

(* write_pes_holders: each portion waits in its buffer for room.           *)
WriteHolders ==
    /\ DemuxAt("repair")
    /\ pipe' = [p \in Pipes |-> TopUp([pipe[p] EXCEPT !.buffered = @ + 1])]
    /\ demux' = "read"
    /\ UNCHANGED <<locks, running, wait_for_audio_offset, caller, mplex, handler, loop>>

(* The flush before the end, with a nap while something is left: mplex is  *)
(* slow, and after FlushRounds it is not waited for.                       *)
Left(pipes) == \E p \in Pipes : pipes[p].buffered > 0
Flush ==
    /\ DemuxAt("flush")
    /\ pipe' = [p \in Pipes |-> TopUp(pipe[p])]
    /\ rounds' = rounds + 1
    /\ demux' = IF Left(pipe') /\ rounds' < FlushRounds THEN "flush" ELSE "eof_audio"
    /\ UNCHANGED <<locks, running, wait_for_audio_offset, caller, mplex, handler, chunk_nr, found>>

(* thread_pipe_eof without a flush: what is still buffered is lost.        *)
Ended(p) == [p EXCEPT !.buffered = 0, !.eof = TRUE]

EofAudio ==
    /\ DemuxAt("eof_audio")
    /\ pipe' = [pipe EXCEPT !["audio"] = Ended(@)]
    /\ demux' = "eof_video"
    /\ UNCHANGED <<locks, running, wait_for_audio_offset, caller, mplex, handler, loop>>

MutEofVideo ==
    /\ DemuxAt("eof_video")
    /\ write_pipes' = {}
    /\ demux' = "unlock"
    /\ UNCHANGED <<thread_lock, process_lock, shared, caller, mplex, handler, loop>>
EofVideo ==
    /\ DemuxAt("eof_video")
    /\ pipe' = [pipe EXCEPT !["video"] = Ended(@)]
    /\ write_pipes' = {}
    /\ demux' = "unlock"
    /\ UNCHANGED <<thread_lock, process_lock, running, wait_for_audio_offset, caller, mplex,
                   handler, loop>>

Unlock ==
    /\ DemuxAt("unlock")
    /\ thread_lock' = "none"
    /\ demux' = "unlocked"
    /\ UNCHANGED <<process_lock, write_pipes, shared, caller, mplex, handler, loop>>

Return ==
    /\ DemuxAt("unlocked")
    /\ process_lock' = FALSE
    /\ demux' = "returned"
    /\ UNCHANGED <<thread_lock, write_pipes, shared, caller, mplex, handler, loop>>

-----------------------------------------------------------------------------
(* demux_exit_handler, in the thread that calls exit; the others go on     *)
(* meanwhile.                                                              *)
HandlerEndsPipes ==
    /\ handler.at = "pipes"
    /\ pipe' = [p \in Pipes |-> IF p \in write_pipes THEN Ended(pipe[p]) ELSE pipe[p]]
    /\ write_pipes' = {}
    /\ handler' = [handler EXCEPT !.at = "lock"]
    /\ UNCHANGED <<thread_lock, process_lock, running, wait_for_audio_offset, demux, caller,
                   mplex, loop>>

HandlerUnlocks ==
    /\ handler.at = "lock"
    /\ thread_lock' = IF process_lock THEN "none" ELSE thread_lock
    /\ process_lock' = FALSE
    /\ handler' = [handler EXCEPT !.at = "done"]
    /\ UNCHANGED <<write_pipes, shared, demux, caller, mplex, loop>>

-----------------------------------------------------------------------------
CallerSeesRunning ==
    /\ Alive /\ caller = "start" /\ running
    /\ caller' = "blocked"
    /\ UNCHANGED <<locks, shared, demux, mplex, handler, loop>>

CallerGetsLock ==
    /\ Alive /\ caller = "blocked" /\ thread_lock = "none"
    /\ thread_lock' = "caller"
    /\ caller' = "released"
    /\ UNCHANGED <<process_lock, write_pipes, shared, demux, mplex, handler, loop>>

CallerExits ==
    /\ Alive /\ caller = "released" /\ mplex = "done" /\ handler.by = "none"
    /\ handler' = [by |-> "caller", at |-> "pipes"]
    /\ UNCHANGED <<locks, shared, demux, caller, mplex, loop>>

MplexStarts ==
    /\ Alive /\ mplex = "waiting" /\ ~wait_for_audio_offset
    /\ mplex' = "reading"
    /\ UNCHANGED <<locks, shared, demux, caller, handler, loop>>

(* thread_pipe_read refills a pipe that it has emptied, unless the writer  *)
(* is at it.                                                               *)
MplexReads(p) ==
    /\ Alive /\ mplex = "reading" /\ pipe[p].ready > 0
    /\ \E refills \in BOOLEAN :
         LET left == [pipe[p] EXCEPT !.ready = @ - 1] IN
         pipe' = [pipe EXCEPT ![p] = IF refills /\ left.ready = 0 THEN TopUp(left) ELSE left]
    /\ UNCHANGED <<locks, running, wait_for_audio_offset, demux, caller, mplex, handler, loop>>

MplexEnds ==
    /\ Alive /\ mplex = "reading"
    /\ \A p \in Pipes : pipe[p].ready = 0 /\ pipe[p].eof
    /\ mplex' = "done"
    /\ UNCHANGED <<locks, shared, demux, caller, handler, loop>>

-----------------------------------------------------------------------------
Demux ==
    \/ TakeLock \/ SetRunning \/ Probe \/ ParseArgs \/ AdjustOffset \/ EndOfFile
    \/ ReleaseMplex \/ RepairFails \/ WriteHolders \/ Flush \/ EofAudio \/ EofVideo
    \/ Unlock \/ Return
    \/ \E stage \in {"probe", "args", "offset"} : GiveUp(stage)
    \/ \E sequence \in BOOLEAN : ReadChunk(sequence)
ExitHandler == HandlerEndsPipes \/ HandlerUnlocks
Caller == CallerSeesRunning \/ CallerGetsLock \/ CallerExits
Mplex == MplexStarts \/ MplexEnds \/ \E p \in Pipes : MplexReads(p)

Next == Demux \/ ExitHandler \/ Caller \/ Mplex

(* Three threads that the system schedules fairly, and the handler runs in *)
(* one of them.                                                            *)
Spec ==
    /\ Init /\ [][Next]_vars
    /\ WF_vars(Demux) /\ WF_vars(ExitHandler) /\ WF_vars(Caller) /\ WF_vars(Mplex)

-----------------------------------------------------------------------------
TypeOK ==
    /\ thread_lock \in {"none", "demux", "caller"} /\ process_lock \in BOOLEAN
    /\ write_pipes \subseteq Pipes
    /\ running \in BOOLEAN /\ wait_for_audio_offset \in BOOLEAN
    /\ pipe \in [Pipes -> [buffered : Nat, ready : 0..PipeSize, eof : BOOLEAN]]
    /\ demux \in {"start", "locked", "probe", "args", "offset", "read", "offset_known", "repair",
                  "flush", "eof_audio", "eof_video", "unlock", "unlocked", "returned"}
    /\ caller \in {"start", "blocked", "released"} /\ mplex \in {"waiting", "reading", "done"}
    /\ handler \in [by : {"none", "demux", "caller"}, at : {"none", "pipes", "lock", "done"}]
    /\ chunk_nr \in 0..Chunks /\ found \in BOOLEAN /\ rounds \in 0..(FlushRounds + 1)

(* The caller goes on only when both pipes have been ended, so that it     *)
(* never tears down what the demultiplexer still writes to.                *)
ReleasedMeansEnded ==
    caller = "released" => \A p \in Pipes : pipe[p].eof /\ pipe[p].buffered = 0

(* The locks, the flags and the pipes of the hand-over.                    *)
HandOverSound == TypeOK /\ ReleasedMeansEnded

(* Nothing is written for mplex before it may read: it could not empty the *)
(* pipes.                                                                  *)
OffsetBeforeData ==
    mplex = "waiting" /\ wait_for_audio_offset
        => \A p \in Pipes : pipe[p].buffered + pipe[p].ready = 0

(* Whoever waits gets on: a program whose demultiplexer runs comes to its  *)
(* end, unless tydemux_thread gives up before it reads, with the lock, or  *)
(* finds no sequence, so that mplex is never let go.                       *)
Stranded == demux = "returned" /\ (thread_lock = "demux" \/ wait_for_audio_offset)
ProgramEnds == running ~> (~Alive \/ Stranded)

(* tydemux.c:387: "Failsafe to ensure the caller is not permanently        *)
(* blocked if we exit prematurely".                                        *)
CallerReleased == caller = "blocked" ~> (caller = "released" \/ ~Alive)
=============================================================================

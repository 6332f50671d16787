# A formal model of tydemux

The repository holds *tydemux*, which splits the recordings (tystreams) of a TiVo into a
video and an audio stream that other programs can use; *tyserver*, which runs on the TiVo
and hands the chunks of a recording to clients; the client library of that protocol with a
few programs built on it; and a small thread library. This directory holds TLA+ modules
that model the parts of the system in which order matters, TLC configurations that check
them on small instances, and proofs, checked by TLAPS, of what holds for every size. File
names below are relative to `src/`; `PROJECT.json` gives the source lines of every
definition.

- [Inventory](#inventory): the system's parts
- [Models](#models): which module models what, and how
- [Runs](#runs): what is checked, with which bounds
- [Fairness and deadlock](#fairness-and-deadlock)
- [Proofs](#proofs)
- [Divergences](#divergences): where the code does not do what it says
- [Not modelled](#not-modelled)
- [Plan](#plan)

## Inventory

### Thread pipe (`libs/threadlib.c`)

*State*: one `pipe_handle_t` per pipe: the circular array of write buffers, the counters
`bytes_buffered` and `bytes_in_pipe`, the flags `eof`, `in_write` and `in_read`, a mutex
with a condition variable, and a kernel pipe. *Operations*: `thread_pipe_create`,
`_write`, `_read`, `_peek`, `_eof`, `_iseof`, `_buffer_topup`, `_free`, and
`thread_start`/`thread_wait`. *Used by* `tydemux()`, which writes audio and video to pipes
that other threads read (and by `libs/test.c`). *Hard*: both threads call
`refill_write_pipe`, which releases the mutex around `write(2)`; `eof` is written without
the mutex; the flush has a timeout; the array wraps round and grows. *Correct if* bytes
come out once, in order and all of them; counters stay exact; the memory used stays
limited; both threads get away.

### Chunk admission and repair (`chunk_read.c`, `chunk_check.c`, `chunk_check_junk.c`, `chunk.c`)

*State* (in `tystream_holder_t`): the list `chunks` of chunks admitted and not yet parsed,
the list `junk_chunks` of chunks set aside with its counter `cons_junk_chunk`, and the
time reference `last_tick`, `med_ticks`. *Operations*: `get_chunk` reads and checks a
chunk; `check_chunk` admits it, sets it aside or drops it; when enough are set aside
`check_junk_chunks` sorts out which are strays and which lie behind a hole; `add_chunk`
appends what was restored; `get_pes_holders` parses while three chunks remain. *Hard*: a
long stream of legal chunks has to keep list, counter and reference in step, over two
lists of owned pointers. *Correct if* the chunks parsed are in stream order, gaps are
flagged, and the demultiplexer recovers from any disturbance.

### Chunk parser (`chunk_parse.c`, `tyrecord.c`, `bit.c`, `buffer.c`)

Turns the records of a chunk, some of which continue in the next chunks, into PES holders,
marks the first one after a gap, leaves out what a cut takes away and raises `repair`.
*State*: the cut in the sound that is open (`audiocut`, `audio_start_drift`, and the marks
in the cut itself), and the gap flag that is handed on to the next chunk. *Hard*: a holder
reads ahead into chunks that are parsed again after it; a record that cannot be read must
not lose the gap in front of it; the cut in the sound spans chunks. *Correct if* each
record ends up in at most one holder, no holder joins what lies on two sides of a gap, a
gap flag is never lost and sound and video stay together over a cut.

### PES holders (`pes_holder*.c`), pictures and GOPs (`gop.c`, `picture.c`, `tmp_ref*.c`)

*State*: the video and audio lists of PES holders, and six *frontiers*
(`lf_seq_pes_holder`, `lf_p_frame_pes_holder`, `lf_tmp_ref_pes_holder`,
`lf_field_pes_holder`, `lf_av_drift_pes_holder`, `lf_gop_counter_pes_holder`), each a
pointer to the last holder a pass has fixed. *Operations*: `check_fix_pes_holder_video`
runs six passes, each up to one sequence before the frontier of the pass ahead of it;
`write_pes_holders` writes and frees what the last pass has left behind. Passes move
sequence headers, close GOPs by dropping B pictures, copy and drop pictures, renumber
temporal references. *Hard*: the frontiers are raw pointers into a list that passes,
repair and writer all change. *Correct if* no frontier dangles, the passes keep their
order, and nothing is written unchecked.

### Sync drift and repair (`sync_drift.c`, `tystream_repair.c`)

`repair_tystream` cuts out what lies around a gap: it closes a GOP behind the gap, finds a
picture before it, relinks the video list and aligns the audio. `fix_drift` adds or
removes frames when audio and video drift apart. *Hard*: it runs between passes that hold
pointers into the list. *Correct if* after the repair no gap is left and the streams stay
in step.

### Stream set-up and probe (`tystream_init.c`, `probe.c`, `vstream.c`)

Detects recorder series, frame rate and audio type, and looks for the first usable GOP
(`tystream_init`), trying again with more holders when it fails.

### Demux pipeline (`tydemux.c`, `main.c`, `remote.c`)

The main loop of `tydemux()`: read holders, initialise, repair, fix, write. It writes to
files, or (`std_alone = 0`) to pipes, from a thread of its own in a larger program: the
caller blocks itself on `thread_lock`, and a multiplexer waits for `wait_for_audio_offset`
before it reads the pipes. *Hard*: three threads, two flags and a lock, and ways out of
`tydemux_thread` at every stage; an exit handler that any of the threads may run. *Correct
if* the caller goes on only when the pipes have been ended, the multiplexer is let go
before anything is written for it, and nobody waits for ever.

### Cut points and index editor (`cutpoints.c`, `index_edit*.c`)

A growing array of cuts and `cutpoint_incut_chunk`, which classifies chunks against them.
*Correct if* each chunk is classified by the cut it lies in, at both ends.

### tyserver and chunk source (`tyserver/tyserver.c`, `readfile.c`, `image.c`)

*State* (globals of a process forked per connection): the open stream (`infile`,
`tystream`, `fsid`), the buffers `buf` (a chunk) and `bufx` (a block) with **one** cursor
`chunk_in_buf`, and the list of extents that maps chunk numbers of a recording to chunks
of its parts. *Operations*: one handler per command (LITY, OPTY, COTY, SCTY, SCTX, CITY,
GSTY, GITY, PLTY, EXIT). *Hard*: state left behind by one command or one open and used by
a later one; short reads; recordings in parts. *Correct if* what is sent is what was asked
for.

### Remote client (`tydemux_remote.c`, `tyget.c`, `tyls.c`)

*State*: the socket and the `tystream_holder_t` it fills. Each call writes one command and
reads the lines it expects; nothing in a reply says which command it answers. *Correct if*
client and server never disagree on where a reply ends and what is open.

### Index files (`tyindex.c`, `fsid.c`, `dir_index.c`)

The directory of index files that tyindex writes and a tyserver loads. *Hard*: two
processes and one file, truncated before it is written.

### Support

`logging.c`, `about.c`, `tygetopt.c`, `winsock_gets.c`, `setpri.c` (pure I/O), and GNU
getopt (vendored).

### How they interact

    tyserver process                    tydemux process
    handle_request                      get_chunk -> check_chunk -> add_chunk
      open_input -> Fsid_list             |  chunks, junk_chunks
      read_a_chunk(X) -> buf, bufx      parse_chunk -> PES lists, repair = 1
        |  socket                         |
      tydemux_remote.c <-- calls ----   tystream_init / repair_tystream
        (tyget, tyls, remote chunks)      |
                                        check_fix_pes_holder_video (6 passes)
                                        write_pes_holders -> files | thread pipes -> readers

## Models

| Module | Models | Extends |
|---|---|---|
| `ThreadPipe` | the pipe between two threads | |
| `WriteRing` | its circular array of write buffers | |
| `BufferQueue` | what that array promises: a queue | |
| `ChunkSync` | admission, look-ahead and repair of chunks | |
| `CutPoints` | the list of cuts and the questions asked of it | |
| `ChunkParse` | from chunks to video and audio holders | `CutPoints` |
| `VideoPasses` | the main loop around the video list | |
| `Pictures` | GOPs, temporal references and their checks | |
| `TmpRefPass` | the repair of temporal references | `Pictures` |
| `DriftPass` | fields, drift between sound and video, time codes | `TmpRefPass` |
| `GopPasses` | the last four passes over a list of pictures | `DriftPass` |
| `DemuxThread` | the demultiplexer as a thread, its caller and mplex | |
| `ChunkSource` | the open recording as a list of extents | |
| `TyServer` | one connection of the server | `ChunkSource` |
| `AnyClient` | server + a client that sends any command | `TyServer` |
| `TyRemote` | server + the client library | `TyServer` |
| `MCChunkSync`, `MCChunkParse`, `MCVideoPasses`, `MCGopPasses`, `MCAnyClient`, `MCTyRemote` | instances for TLC | their model |
| `ThreadPipeProofs`, `ChunkSyncProofs`, `ChunkParseProofs`, `VideoPassesProofs` | theorems and proofs | their model |
| `ThreadProofs` | theorems and proofs | `WriteRing`, `DemuxThread` |
| `ChunkSourceProofs` | lemmas about chunk numbers, induction over numbers | `ChunkSource` |
| `AnyClientProofs`, `TyRemoteProofs` | theorems and proofs | their model, `ChunkSourceProofs` |

Operators whose name starts with `Mut` are the variants of a definition that a plausible
mistake in the code would give; `PROJECT.json` pairs each with the property that notices
it.

### ThreadPipe

What the code does between taking and releasing the mutex is one action; every gap in
which the mutex is free, and every access without it, is an action of its own. `pc` says
where each thread is; the locals of `refill_write_pipe` (`buffer`, `block`, `ret`) exist
once per thread, since both run it. A byte is its position in the stream of bytes written,
a write buffer an interval of positions, so loss, repetition and overtaking show in
`received`. `thread_pipe_eof` is split where the code is: flush, wait with its clock,
flag, close. The reader's own copy of `eof`, which overwrites the shared one, is in the
model (`SeeEof`, `ReadPost`). `thread_pipe_iseof` and the read of zero bytes end the
reader.

### WriteRing and BufferQueue

The array, its two indices and its reorganisation with the code's index arithmetic. The
refinement mapping takes the slots from `first` to `last`, round the end of the array, as
the queue. `ThreadPipe` keeps that queue and not the array.

### ChunkSync

One action per way through `check_chunk` (`Unreadable`, `NoVideo`, `Admit`, `Junk`) and,
since it walks a list, one per chunk that `check_junk` looks at (`JunkInSync`, `JunkOss`,
`JunkHole`, `JunkNoLuck`, `JunkLast`) and `JunkDone`; then `AddRestored` and the parse
loop. A chunk is the time of its first and last video record, its median distance, its
layout and its flags. A read of the missing chunk behind the last one is the state
`"crashed"`, a terminal one. `parsed` is a history variable.

### CutPoints and ChunkParse

A place in the stream is a GOP of the index: a time, a chunk and a record. `CutPoints` has
the three ways in which a cut is made and the three questions: how a chunk lies to the
cuts, at which record it is cut, and what a sound frame at some time means. Each searches
the list from the front, as the code does, and the first cut that has something to say
decides.

A record is its kind and whether the start code that belongs into it is found. `Flow` is
what the parser can read from a chunk on, up to a gap; a holder that starts at a record
has a `Body`, the records up to the next start, and is `Complete` if they can all be read.
`VideoOf` is `parse_chunk_video_S1` or `_S2` on a whole chunk: which starts are tried,
which become holders, where the gap is flagged or that it is left to the next chunk; the
remainder functions and `fix_pes_holder`, which splits two pictures behind one header, are
part of it. `LoopOver` has the state of the sound loop behind each record, one
`SoundFrame` per frame, and `AudioOf` what it leaves. The video and the sound of a chunk
are two actions (`ParseVideo`, `ParseSound`). What the code does with memory that is not
its own (a record in front of the first, a list without a sequence header, a holder freed
twice) is the state `"undefined"`. `holes` and `dropped` are history variables.

### VideoPasses

A holder is its picture type, whether it carries the sequence and GOP header, and its
flags `gap` and `close`; it has an identity, so a frontier is an identity as a pointer is.
`video` is the list, `kept` the holder that stays behind after a write, `junk` the
segments that repair unlinks without freeing. Each iteration of the main loop is a
sequence of actions: `GetPesHolders`, then `Start`/`StartFailed`/`NoStart` or
`Repair`/`RepairFailed`, then one step of a pass at a time (`FixSeqHeader` has one
disjunct per way through `fix_seq_header`, `CheckFix(p)` is one GOP of pass `p`), then
`WriteGops` or `WriteFrames`. A repair may start again behind any later gap too, if no
holder at a gap stands in its way (`NewStarts`): one at a GOP's start is passed over, and
what is cut out then has several gaps.

Time stamps, fields, temporal references and the audio list decide nondeterministically:
whether a GOP can be closed, how many pictures a pass adds or removes, whether the audio
allows a write. `done` (which passes have seen a sequence) is a history variable. `"S1"`
stands for an S1 recorder with software 2.x; with other versions `tystream_init` does not
move the first sequence header. When `remove_dup_frame` frees the holder its GOP starts
with, the code goes on with a dangling pointer: the model goes to the state `"undefined"`,
after which nothing is claimed. It does the same when `fix_seq_header` starts from a
holder that has been freed, which on S2 can happen (`Freed`; *Divergences*).

### Pictures, TmpRefPass, DriftPass, GopPasses

`VideoPasses` leaves open what the passes do to a sequence; these modules have the
pictures: type, temporal reference, time, the two field flags, whether the holder has a
sequence or only a GOP header, whether it was added. They are the four passes behind
`check_fix_p_frame`: `check_fix_tmp_ref`, `check_fields_in_seq`, `check_fix_av_drift` and
the time codes, each an operator from a list and the place of a sequence to the list as
the pass leaves it, with `"exit"` where the code calls `exit(1)` and `"undefined"` where
it goes on with a freed holder. `check_temporal_reference` is a fold of one step per
holder over the state of the code's counters; `fix_tmp_ref` a fold that moves one holder
per step; over- and underflow keep the code's searches and guesses, with the order in
which they are tried. `GopPasses` has one action per pass and sequence. A pass runs as far
as it may before the next has its turn, so that it is clear what each was given: how the
passes interleave with reading, repair and writing is `VideoPasses`.

### DemuxThread

One action per statement of `tydemux_thread` and `tydemux` that another thread can see;
the exit handler runs in the thread that calls `exit`, and the others go on meanwhile. A
pipe is two counts and `eof`, which is what `ThreadPipe` shows of it; the writer's topup
and the reader's refill move portions from one count to the other. The caller and mplex
are not in this repository: they do what `structures.h` and the comments of `tydemux.c`
say of them, and are marked external in `PROJECT.json`.

### ChunkSource, TyServer, AnyClient, TyRemote

`ChunkSource` is `open_input` and the two `pread` functions over a list that is reused
between opens and comes from `malloc` (`Garbage`). A block is read by a chain of calls;
with an unlucky `malloc` the chain of the code need not end, and is cut off at `MaxCalls`.
A read that fails leaves the buffer as it was or, half way through, overwritten by
something that is not the recording (`Torn`), while the cursor stays. `TyServer` has one
action per way through each handler. The reply is a sequence of tokens: a 200, 300 or 400
line, a line of text, a list, data. Probing, indexing and frame extraction are reduced to
outcomes that are properties of a recording (`probe`, `start`, `gops`, `waits`). A null
dereference (`NotOpen`, `IFrameNotIndexed`) ends the process ("crashed"), the probe loop
with step 0 does not end ("hung").

`AnyClient` adds a client that knows a program (a set of commands) and sends any of it in
any order, each after it has taken the whole reply. `TyRemote` adds the real client:
`Call` writes a command, `ReadNext`, `ReadAll` and `EndOfFile` consume tokens one by one
against what the function expects (`expects`), and a call that meets a line it does not
want returns and leaves the rest in the socket. Taking data for a line, or the reverse,
makes the socket `"garbled"`.

## Runs

Twelve runs. "Violation" runs state what the repository says of itself and TLC finds the
code doing otherwise.

| Run | Expect | Shows |
|---|---|---|
| `pipe_any` | pass | any calls, flush or not, with timeouts: exact counters, ordered and limited buffer list, no byte lost, repeated or invented; in order unless two refills raced |
| `pipe_flush` | pass | a flush that does not time out delivers everything before the end of file shows, trips no assert, and both threads finish |
| `ring` | pass | the array implements the queue through growing and wrapping round |
| `chunk_streams` | pass | stream order, exact junk count, look-ahead, sound time reference, gaps flagged, recovery |
| `chunk_crash` | violation | the last junk chunk is followed by a null pointer |
| `parse` | pass | holders unbroken, no record twice, gaps reach the video; sound outside cuts and in step with the video over them |
| `video_passes` | pass | frontiers never dangle, passes keep order and distance, no gap slips through, nothing is written unchecked |
| `gop_passes` | pass | handled sequences are well formed, no good picture is dropped, fields alternate, the drift is true and stays small, time codes count every field |
| `demux_threads` | pass | nothing torn down that is in use, mplex let go before data comes, the program ends |
| `demux_early` | violation | an early return leaves the caller blocked for ever |
| `session_any` | pass | chunk numbers map to the open recording; nothing survives a close; chunks (or blocks) sent are those asked for |
| `remote_sync` | pass | every call reads exactly its reply and returns; both sides agree on what is open |

### Bounds, and why they are enough

**Pipe**: `BufferSize` 5 for a few megabytes, `PipeMax` 4 for 4096, so that half and
quarter pieces are 2 bytes and 1 byte; `Slack` 1 for 256; `KernelSize` 4, the smallest the
code relies on, or 7, all bytes, in `pipe_flush` (see *Divergences*: a smaller one lets
the reader block for ever in `write(2)`). Writes of 1 and 3 bytes, reads of 1, 2 or 5:
smaller than, equal to and larger than a piece. 6 or 7 bytes exceed the buffer limit, so
the writer blocks, and several buffers queue behind a full kernel pipe. One call of
`thread_pipe_buffer_topup`.

**Ring**: growth by 3 for 64, 12 buffers: the array grows several times, each time from
every position of `first`.

**Chunks**: `JunkSize` 3 for 30, windows of 1, 2 and 4 medians for 4, 10 and 30, 8 chunks:
two whole junk lists, or one with admitted chunks on either side. The contents (seven in
all, for two programs and a stray chunk) come in any order, so holes, strays, duplicates
and programs that alternate all occur. A second kind of stream has chunks that look alike,
lack a median, have another frame rate or a damaged record; keeping the kinds apart keeps
the contents few.

**Parser**: `LookAhead` 2 for 3, so that a holder reaches up to two chunks ahead and a
record can end in the last one; five chunks of any of five shapes with a gap in front of
any of them, for either recorder: the end of a GOP and the next one, a picture that goes
on in the next chunk or lies wholly in it, two pictures behind one header, no video at
all, records that cannot be read in front of and behind ones that can. For the cuts eight
chunks without gaps, `TicksPerChunk` 10 and frames of 3 ticks, so that a cut never falls
on a frame and the drift left over takes every value; one cut, two in either order, one
from a cut list by the viewer's clock, and one at the start of the stream (`StreamEnds` 0
for 10).

**Video**: GOPs of four pictures, three per round, three rounds, of which two may be
irregular in some way (an odd round, a gap, a failed start, a frame added or removed). An
odd round of S2 brings eight sequences without an I picture, so that the first frontier
stays behind while the others go on. The thresholds keep their order: `InitMin` 8 for 400
(70 on S2), `RepairMin` 5 for 100, `GopMin` 2 for 4, `AfterGapMin` 2 for 5, `CloseTries` 1
for 10, `KeepFrames` 8 for 60. At the end of a loop the last frontier is four sequences
behind the second, so nine GOPs suffice for the last pass and the writer to run more than
once, before and after a repair. Three GOPs in one round are what it takes to have two
gaps at a time, the second one at the start of a GOP that a repair goes past, and a third
GOP to start again with.

**Pictures**: recordings of four to six GOPs of six or seven pictures (three references,
the smallest GOP in which the code's guesses of a type differ), open or closed at the
start, with two fields for each picture or three and two in turn. Each has up to two of: a
picture lost, two exchanged, a reference that is a stray, a lost sequence or GOP header, a
jump of the time by half a picture up to six, a cut that leaves a drift. `StrayGap` 50,
the frame tick 3003 and 30 pictures per second are the code's own.

**Threads**: four chunks, a system pipe of one portion and three rounds of the flush, so
that the flush ends with everything taken, and also gives up; failures at all five stages.

**Sessions**: `CHUNKX` 2 for 10, `ProbeChunks` 3 for 10, `MaxFsidList` 3 for 50.
Recordings with one and with two parts of different lengths, one too short for the probe,
one with a single chunk, one with a name that is not understood; refused and unknown
names; a chunk number that never exists. Any number of commands: the state space is finite
without a bound. Blocks are asked for as tyget does, below the number of chunks less
`CHUNKX`.

### What each property is for

Each property has a comment in its module; `PROJECT.json` lists, under `hazards`, the
places of the code it guards, and under `mutants` a plausible mistake it catches. Some
need a word here.

- `CountersExact`, `FlushClean`, `SlotsHeld`, `ListsCounted`, `FrontiersSound`,
  `NumbersSound`, `RepliesSound`, `SoundCut` and `HandOverSound` are conjunctions of a
  type invariant and of facts about the same state that are named on their own.
- `FifoUnlessRaced` says that order is lost *only* through the race that two refills run
  when the mutex is free between them (*Divergences*).
- `GapFlaggedUnlessCleared` says the same of gaps: a hole in the parsed chunks is flagged,
  unless the removal of an out-of-sync chunk cleared the flag.
- `GapsReachVideo` is claimed for S1 only: on S2 the first start that cannot be read ends
  the work on the chunk, and the gap of that chunk is lost (*Divergences*). The recordings
  of the run are cut or have chunks missing, not both: a gap in front of a chunk inside a
  cut is not looked at, and if the first picture behind the cut cannot be read nothing is
  flagged (*Divergences*).
- `CutKeepsSync` compares the sound a cut took with the video it took. The sound that is
  repeated and the drift handed to the video must make up the difference to the tick.
- `RefsSound` checks the code's counting check against what the standard says of a GOP:
  consecutive references, anchors and B pictures each in display order, a B picture behind
  its second anchor.
- `DriftTrue` compares the program's drift accumulator with the time at which the list
  shows each picture, computed from the list alone. It is claimed where the pictures are
  undamaged and a GOP has room for the copies planned.
- `FrontiersSound` excepts one frontier: that of the first pass on S2, which the later
  passes do not wait for, so that the writer may free its holder (*Divergences*).
- `NoneLags` excludes *stranded* frontiers: those in a segment that `repair_tystream`
  unlinked. Such a frontier never moves again, and as the later passes wait for it nothing
  more is written.
- `ServedChunk` and `ServedBlock` exclude clients that mix single chunks and blocks: for
  these they are false (*Divergences*).
- `Recovers`: once as many chunks in sync arrive as fit the junk buffer, one of them is
  admitted.

## Fairness and deadlock

`pipe_flush` assumes weak fairness of the writer's and of the reader's steps: they are
threads of the operating system, and the mutex and the condition variable are not held for
ever. `demux_threads` and `demux_early` assume the same of the demultiplexer's, the
caller's, mplex's and the exit handler's steps. `ProgramEnds` excepts the two ways to be
stranded that the code has (*Divergences*). `remote_sync` assumes weak fairness of the
server's step and of the client's reading: two processes that run. The client is never
forced to make another call.

Deadlock is checked except where the system may really stop: in `pipe_any` (the reader may
block in `write(2)`), in `ring` (the bound on buffers is reached and the list is empty),
in `parse` (the stream has ended), in the runs of `DemuxThread` (the program has ended or
is stranded) and in the session runs (the server process has ended by EXIT, a played
stream, a crash or a loop, or the client has closed).

## Proofs

TLC checks the invariants on the instances above; TLAPS proves these for every value of
the constants that meets the named assumptions. TLC has also checked each inductive
invariant on the instance of its run.

**`ThreadPipeProofs`**, from `PipeAssumption` (a pipe of at least 4 bytes that fits the
kernel pipe, positive sizes). `InPipeAccounting`, `Conservation`, `BufferListInOrder` and
`BackPressure` are not inductive by themselves: a byte can be in a thread's hands. `IInv`
adds `LocalsInv` (which locals are meaningful at which `pc`, and that a buffer taken off
the list is the interval the counter says), `ListBound` (the size of the list is
`bytes_buffered`) and `StillBlocking` (a writer inside a blocking refill leaves it only
when the limit is met). `refill_write_pipe` gets one lemma per action and thread, the
others one per action. Theorems: `PipeTypeCorrect`, `PipeInPipeAccounting`,
`PipeConservation`, `PipeBufferListInOrder`, together `PipeCountersExact`, and
`PipeBackPressure`.

Order and completeness need more: `OneMover` says that until a race only one thread holds
a buffer it has taken off the list, so that the bytes in flight have one order. With it
`OrderInv` is inductive beside `IInv`: `FirstInFirstOut` and `EveryByteOnce`, the second
also when the threads did race. For the end of the stream `FlushInv` says what
`thread_pipe_eof` has emptied at which of its statements; `FlushedEndIsClean` assumes
`AlwaysFlushed`, a writer that flushes and whose 15 seconds suffice, since the code drops
what is left otherwise.

**`ThreadProofs`**, on the write buffers from `RingAssumption` (growth by at least 2).
`RingTypeOK /\ HeldExactly` is inductive: a slot holds a buffer exactly if it lies between
`first` and `last`. From it: `RingSlotsHeld`, `RingNeverLooksEmpty` (a full array is never
taken for an empty one) and `RingIsQueue`, the refinement of `BufferQueue`. The
refinement's main step is that the reorganised array maps to the same sequence (extended
by one), slot by slot, whether or not the old one wrapped.

On the thread of the demultiplexer, from `ThreadAssumption` (a pipe that holds something,
at least one round of the flush). That the caller is released only when the pipes have
ended is not inductive. `IInv` adds who holds the lock at which place (`LockInv`: the
demultiplexer from its first step to the unlock, and if it is not the demultiplexer's any
more the pipes have ended or the process is gone), what has been ended where (`EndInv`),
that mplex is let go before the first write (`ReleaseInv`) and that the flush has rounds
left (`RoundsInv`). Theorems: `ThreadHandOverSound`, `ThreadOffsetBeforeData`. The
liveness of that module, `ProgramEnds`, is checked only.

**`ChunkSyncProofs`**, from `ChunkAssumption` (a junk buffer of at least 3; the windows
`OkTicks`, `HoleTicks` and `SyncTicks` in this order). `IInv` is `TypeOK`, `OrderInv`
(parsed, admitted, restored and set-aside chunks concatenate to an increasing sequence),
`WalkInv` (where the walk stands in the junk list), `AheadInv` (how many chunks are
unparsed at each `pc`) and `JunkCounted`. Theorems: `ChunkTypeCorrect`,
`ChunksInStreamOrder`, `JunkIsCounted`, `ParseKeepsLookAhead`, and `ListsAreCounted`,
which is all of these but the order.

What chunks are compared with needs `RunInv`: the reference is the last chunk that came
in, or that chunk is the last of the junk list, and a run of chunks in sync with each
other is no longer than that list. Theorems: `ReferenceFollowsStream` and `StreamRecovers`
(`check_junk` cannot refuse a list that ends in such a run, wherever its walk meets
strays). `GapInv` follows a breach in time through every list a chunk passes, with
`WalkMarks` for the part of the junk list that the walk has been over: `GapsAreFlagged`.
These proofs corrected the model's notion of an *ordinary* stream (`Ordinary`): a chunk
must not span more than the widest window, or two neighbours are apart without a breach,
and a stream whose first chunks lack a median is no ordinary one.

**`ChunkParseProofs`**, from `ParseAssumption` and `CutPointsAssumption` (a recording of
either series, of any length, whose chunks are made of any records; cuts that go from one
GOP of its index to another; a look-ahead of at least one chunk, frames of at least one
tick). `ParserInv` is inductive: the chunks waiting are consecutive and end with the last
one read (`QueueInv`), chunks in front of which some are missing are the flagged ones
(`HolesInv`), the cuts are those of the scenario but for their marks (`CutsInv`), and the
records of the holders come in the order of the list, no holder crosses a hole, and all
records used lie in front of every start in a chunk still to be parsed (`HoldersInv`). The
last part (`AheadOf`) is what makes reading ahead harmless: what a holder takes from a
later chunk lies in front of the first start there. It follows from what `Flow` and
`VideoOf` are, for any records: a body has no start in it, and `fix_pes_holder` splits one
holder into parts that share nothing. The folds of the model are taken apart by
`FlattenSteps` and `FlattenSpots`, which say of any sequence of sequences where each
element is in their concatenation, by induction over numbers. Theorems:
`ParseHoldersUnbroken`, `ParseRecordsOnceInOrder`.

`GapsInv` says that a hole which no holder has reached is still flagged in the chunk that
is parsed next; with it `ParseGapsReachVideo`. Its hypothesis `NoGapInCut` excludes the
chunks whose gap `parse_chunk` does not look at; for a recording that is not cut it holds
by itself (`ParseGapsReachVideoUncut`). `SoundNow` says of the sound that at most one cut
is open, that `audiocut` tells whether one is, and that `audio_start_drift` is the time
from the start of *that* cut to the first frame dropped. Each frame keeps it (`FrameOk`),
the loop over a chunk by induction over its records (`LoopOk`). Theorems: `ParseSoundCut`
and `ParseCutKeepsSync`, where `CutsApart`. That is what the code takes for granted of a
list of cuts: that it sees one cut end before sound of the next one comes. A cut is seen
to end by a frame *behind* its end, so that cuts which touch, or have no readable sound
between them, break it: a frame of one cut while another is still open is taken for the
end of the first cut and kept. The proof needs the hypothesis for such a frame only.

`CutsApart` speaks of what the parser does; `CutsSpaced` says what of a recording is
enough, without any behaviour: of two cuts, in either order in the list, one has a chunk
behind it that is read and lies as a whole in front of the other, every chunk has sound
that is found, none is missing, and the records of a chunk lie within its time. A
recording with one cut, or none, need not have any of that. `SpacedInv` is inductive then:
the chunks behind the first one read are all kept (`ChunksKept`), and a cut that is open
was begun in front of the record that is parsed, and waits for the sound of the chunk
behind it, which is still to come (`WaitsInv`). The frame of that chunk can be read
because the next chunk has sound as well (`SoundsRead`), and it is the one that closes the
cut (`CutIsClosed`). Theorems: `ParseCutsApart`, and `ParseSoundCutSpaced` and
`ParseCutKeepsSyncSpaced`, which need no more of a behaviour than `Spec`. TLC evaluates
`CutsSpaced` for each recording of `parse` (`SpacedAssumption` of `MCChunkParse`);
`NoGapInCut` it has checked there.

**`VideoPassesProofs`**, from `VideoAssumption` (types of the constants; no relation
between the limits is needed). None of the five properties proved is inductive: where a
frontier may be is said nowhere in the code, and each pass relies on what all others,
repair and writer have left. `IInv` says it for each list that a frontier can be in, the
list itself and those a repair has cut out (`ListsOK`): no two holders share an identity
and no two lists a holder; a frontier is at a sequence header, and at one that is in place
if it is the first pass's; frontiers in one list are in the order of the passes; each
sequence up to a frontier has been through the passes up to that one (`Walkable`); a
frontier has moved only if the one before it has (`Frontiers`). `InPlace` says on S1 what
the first pass has left behind it and `TmpSound` where it is in its walk, `NoGap` that
gaps and `repair` go together, `Phases` what holds while the stream has not started. That
on S2 the list starts with a sequence until the second pass has moved is needed because
that pass asks nobody.

Passes insert, drop, move and turn pictures; the repair cuts a list in two; the writer
drops its front. Each is shown to be an edit of a list, a map that tells where each holder
was before and what may have changed about it (`Edit`). `EditedList` shows once which
edits keep a list walkable, `Advanced` where a frontier may go, `Located` that a holder is
found again, and `Replaced` that the lists stay apart. Then one lemma per action
(`...Keeps`), for `FixSeqHeader` one per way through it. Theorems: `FrontiersStaySound`,
`GapsAreRepaired`, `HeadersInPlace` and, as an action property, `WrittenGopsWereChecked`.
The proof corrected the model: the frontier that S2 leaves behind was taken to be in the
list always.

`PassesStayInStep` needs a second invariant over the first. `LagInv` says of the four
renumbering passes that those whose turn in this round is over are `Adjacent` to the pass
before them: no sequence lies between the two frontiers. A pass whose turn is over is not
ready, and `NotReadyAdjacent` shows that then nothing lies there, for two sequences ahead
of it are all it waits for, and the header of the second is not at a B picture (`InPlace`
on S1, `NoneAtB` on S2). The passes that follow in the round do not disturb it: the only
one that makes sequences is the first of the four (`FixesAdjacent`). `PassesTurn` says who
runs next. When all have run, five adjacent frontiers leave four sequences (`FourSeqs`).
The hypothesis `NoSeqAtB` is about what is read on S2: `parse_chunk_video_S2` starts a
holder of its own at every sequence, P and B record (`chunk_parse.c:640-645`), so that the
holder of a sequence is never one of a B picture.

**`ChunkSourceProofs`** has no invariant but what its successors need of numbers, for
every recording and any number of parts: that `open_input`'s running total numbers the
chunks of all parts one after the other, that a number lies in one part (`NumberInPart`),
where `FlattenSeq` puts the chunks of a part (`StreamPlaces`), and what a block read by a
chain of calls contains (`ChainOfCalls`, `BlockInPart`). The library states induction with
an operator as parameter, which no backend here can instantiate; `Induction` and
`Recursion` state it of a *set* of numbers instead, from the well-foundedness of the
natural numbers, and carry all of these. `ChunkSource` gives the chain of calls of
`mfs_multifsid_pread_X`, which calls itself, as a function of the number of calls for that
reason; `MaxCalls` bounds it, and where a block reaches at most one boundary the chain is
shown to end in two calls (`ShortChain`).

**`AnyClientProofs`**, from `ServerAssumption`: recordings have numbers, so that an open
stream is never `NoStream`. `IInv` is `NothingLeftBehind` with the type of the two
variables it speaks of; the proof goes through every way out of every command:
`SessionLeavesNothing`. `ConnInv` adds the other variables and that the list of extents
numbers the open recording, and gives `NumbersReadTheRecording`. With `Asking` (one
command at a time), `Probed` (an open stream is one that the probe got through) and
`ChunkAhead` or `BlockAhead` (the buffer holds what the cursor names) follow
`ChunksAreServed` and `BlocksAreServed`. Their hypotheses are where the code does
otherwise: `DiskWorks`, for a failed read of a chunk sends whatever the buffer holds
(`tyserver.c:822`) and a failed read of a block leaves a mixture that is sent when the
block is asked for again (899); `AsksAsTyget`, for at the very end of a recording the
cursor moves although nothing was read ahead; `LongParts`, for a block reaches at most one
boundary of parts only if no part is shorter than a block. What is claimed of blocks is
claimed of those that end inside a part; single chunks are right in all of a recording,
and `NumbersReadTheRecording` says that of them alone.

**`TyRemoteProofs`**, from `ServerAssumption` and `CallsAssumption`. That nothing is in
the socket between two calls is a statement about the whole exchange. `SyncInv` therefore
says how the lines in the socket relate to the lines the client still wants: the rest of a
whole reply, with any number of 200 lines in front of the 300 line where the client skips
them (`Fits`), a refusal where the client may be refused (`Refused`), or what a server
that exits or hangs has written (`CutOff`), and on which stream the two will agree when
these lines have been read (`HandleAfter`, `Agrees`). Each way out of each command is
shown to write one of these (the lemmas `...Well`), each line read to leave one of these
(`ServedLine`, `FailedLine`, `CutOffLine`). Theorems: `RepliesAreRead` and
`HandlesAreOpen`, for any program of calls and any amount of an old reply lost when LITY
opens a new `FILE`. `NoOddRates` is assumed, because an open returns in the middle of the
reply when the client does not know the frame rate (*Divergences*).

**Only model-checked**: the invariants and action properties of `GopPasses`, and all
liveness (`ProgramEnds`, `EveryCallReturns`, and of the flush of the pipe
`EveryByteDelivered` and `BothThreadsFinish`). Out of the prover's reach are liveness
under fairness, `ENABLED` and theorems with an operator as parameter. The properties of
`GopPasses` are about what an encoder makes, after one or two mishaps of those
`MCGopPasses` lists, and not about any list of pictures: `check_temporal_reference` does
not look at an I picture that follows another one with no P picture between them, so that
a closed GOP with references 0, 9 and 1 (I, I, P) passes it, and `RefsSound` fails there.
A theorem would have to say first which damage leaves enough of a GOP to be told from its
references; TLC tries each. No module uses `RECURSIVE`.

## Divergences

Where the code does not do what it, or the text beside it, says. Two runs show one each,
and `PROJECT.json` quotes both sides under `findings`: the last junk chunk
(`chunk_check_junk.c:184`) and the early returns of `tydemux_thread` (`tydemux.c:443`,
452, 459, 481), which leave `thread_lock` held although a "failsafe" is registered at 387.
Those that follow have no run of their own: the models show most of them, and the rest
(the size of the cut list, results with another meaning than their caller has) was met in
reading.

*Pipe*: a refill by the reader between two steps of the writer's lets a later buffer
overtake an earlier one (`threadlib.c:570`); without a flush, or after its timeout, the
end of file is reported with bytes still inside (434); the reader may block in `write(2)`
on the kernel pipe it should empty, although called with `block = 0` (573, against the
comment at 521), as the room was tested before the mutex was released; the write handle is
closed without the mutex, so with `flush = 0` the reader's refill can meet a closed handle
and trip an assert (441-445, 585).

*Chunks*: `check_junk` clears a gap flag set for another reason (`chunk_check_junk.c:200`,
against `tydemux.h:407-408`); a chunk without video resets the count of consecutive junk
chunks (`chunk_check.c:440-446`, against `tydemux.h:399-400`).

*Cuts*: the list starts with room for 64 cuts and is "grown" to 64 again, so that the 65th
is written past it (`cutpoints.c:113`); a line of a cut file never marks the end of the
stream; the result of `cutpoint_create_from_tyeditor_string` is 1 or -1, while its caller
tests for 0 (`tydemux.c:472`, against `cutpoints.c:171-174`); a chunk in which one cut
ends and another starts is classified once, for the first of them, and a frame of a cut
that comes while another is open is taken for the end of that one, so that cuts that touch
get out of step; after a cut at the start of the stream the chunk in which it ends is
skipped too. *Parser*: the last holder in front of a cut reads on into it, as only its own
chunk is limited (`chunk_parse.c:184`, 555); on S2 the first start that cannot be read
loses the gap of its chunk (677), and a holder that runs out of chunks is freed twice
(761); on S1 the gap in front of a chunk inside a cut, or in which one ends, is lost if
the picture behind the cut cannot be read; on S1 a cut that ends in one of the first two
records of a chunk is looked for in front of them; a second drift for the same I picture
overwrites the first.

*Video*: `repair_tystream` returns 0 both for "too few holders yet" and for "failed", and
either ends the demux (`tydemux.c:120`; `docs/tydemux.txt:145` says "don't abort when we
fail"); the retry with the next GOP is dead code, as the pointer it starts from is `NULL`
(`tystream_repair.c:153-156`); the video list is relinked before the audio repair may fail
(198); on S2 the frontier of the first pass moves only with an I picture
(`seq_header_fix.c:169`), while the pass behind it waits for it on S1 only
(`pes_holder_video_check.c:261`), so that the writer may free the holder from which the
first pass then goes on; a stranded frontier means that nothing more is written and
nothing is said; `repair` is set before the holder that carries the gap is parsed
(`chunk_parse.c:358`, 650).

*Pictures*: `remove_dup_frame` and `check_nr_frames_tmp_ref` may free the holder their
sequence starts with, which the caller goes on using (`seq_frame_correction.c:769-838`;
`StartKept` says when); the test of the number of pictures is inverted, so that a second
look for missing ones takes place when none is missing, and copies keep the time and the
fields of their original (180); a copy made for a missing B picture may be of an anchor;
when no later picture can be copied, an earlier one is looked for with the flag that ended
the first search still set, so that the search starts at the holder the sequence starts
with (1244, 1300): it takes that holder with its sequence header, a picture of an earlier
sequence, or, in the first one, nothing, and the program ends by `exit(1)`; a GOP that
lost its last P picture ends the program by `exit(1)`, although a comment provides for it;
the end of a GOP that is not the last of its sequence is not checked, and its pictures are
not counted for the time codes; drift is corrected by the pictures *planned*, while a GOP
of six has room for three (`sync_drift.c:303`), and the fields of dropped pictures are
taken for two; a sequence with less than three pictures whose header was added indexes
past its array.

*Threads*: a stream that ends before its first sequence never lets mplex go;
`process_lock` is cleared after the lock is released (`tydemux.c:535`), so that an exit
handler in between releases the caller's lock.

*Server*: SCTY and SCTX share one cursor for two buffers, so mixing them sends wrong
chunks (`tyserver.c:821`, 946); a block that fails half way has overwritten the cached one
(899, against the comment at 897); PLTY sends blocks from a buffer of one chunk (1129,
against `tyserver/README:259`); a refused OPTY overwrites `fsid`, and a later CITY then
loads another recording's index (656, 236-238, against `tyserver/README:205`); commands
without an open stream report the error and go on to dereference it (808-812, 1059,
against `tyserver/README:90`); a second CITY gets no answer (224-227); GSTY without an
index answers twice (977, 984, against `tyserver/README:251`); SCTY's limit is off by one
(814), and it sends whatever the buffer holds when the chunk cannot be read (822); opening
a recording shorter than the probe never returns (736); blocks that reach beyond the end
of a part of a recording are wrong (`readfile.c:99`).

*Client*: a frame rate it does not know makes `tydemux_open_remote_tystream` return in the
middle of the reply (`tydemux_remote.c:1258-1261`, against `tyserver/README:190`). A call
that cannot open the socket as a stream returns with its command sent, so that the next
call reads its reply (340).

The passing runs avoid these (their programs and recordings are named in the MC modules);
what is excluded is named there.

## Not modelled

- *Of the pipe*: `thread_pipe_peek`, pipes over files, `thread_start`/`thread_wait`,
  `thread_pipe_free`, Windows.
- *Of the chunks*: `read_chunk` is "readable or not"; seeking and the probe's reading.
- *Of the parser*: four of the five sound formats (they differ in the sizes they expect),
  closed captions, the parsing of time stamps, the bits and byte buffers. Sizes of
  records: what is appended to a record is whole records.
- *Of the video*: the list of sound holders, its sorted insertion and the writer that
  interleaves both by time; the sound half of the repair; the bits of headers; closing a
  GOP picture by picture. `frame_rate.c` is compiled only with `FRAME_RATE`, which nothing
  defines.
- *Of the threads*: options, progress and debug output; the caller and mplex are those of
  another program.
- *Of the server*: connections that hang up, errors in the middle of a reply, the accept
  loop (each connection is a process of its own; they share only files); `image.c` through
  a virtual stream of its own; how much of a buffer a failed read has overwritten.
- *Of the client*: connecting, hang-ups, reading a played stream; tyget's copy loops.
- *Whole parts*: the index editor (an interactive program), the text of cut files, the
  index files, option parsing, logging, getopt. `PROJECT.json` gives the reason for each.

## Plan

Done: `ThreadPipe`, `WriteRing`/`BufferQueue` and `ChunkSync` with their proofs;
`CutPoints` and `ChunkParse` with their proofs; `VideoPasses` with its proofs; the modules
over pictures; `DemuxThread` with its proofs; `ChunkSource`, `TyServer`, `AnyClient` and
`TyRemote` with theirs. Next:

1. **Proofs**: what the folds of `GopPasses` keep for a GOP of any length.
2. **`SoundPasses`**: the sound half of the repair and the writer that interleaves both
   lists, over `VideoPasses`.
3. **`PipeChannel`**: the abstract channel that `ThreadPipe` refines once the race is
   excluded, and on which `DemuxThread` then stands.
4. **`TyIndexFiles`**: tyindex and a tyserver over the shared directory; **`TyGet`**: the
   copy program on top of `TyRemote`; **`ThreadPeek`**: the peek buffer beside the read.

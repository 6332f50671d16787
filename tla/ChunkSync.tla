------------------------------ MODULE ChunkSync ------------------------------
(***************************************************************************)
(* How the demultiplexer decides which chunks of a tystream it keeps:      *)
(* get_chunk (chunk_read.c), check_chunk (chunk_check.c),                  *)
(* check_junk_chunks and check_junk (chunk_check_junk.c), add_chunk        *)
(* (chunk.c) and the loop of get_pes_holders that hands chunks to          *)
(* parse_chunk.                                                            *)
(*                                                                         *)
(* A chunk is reduced to what these functions read: the time stamps of its *)
(* first and last video record, the median distance of its time stamps,    *)
(* the layout of its records (number, types, sizes, sequence start) and    *)
(* the flags.  small_gap is written by the code and never read: left out.  *)
(* The walk over the junk list is one step per chunk of the list.          *)
(***************************************************************************)
EXTENDS Integers, Sequences

CONSTANTS
    JunkSize,    \* JUNK_CHUNK_BUFFER_SIZE
    StdMed,      \* STD_VIDEO_MED_TICK
    OkTicks,     \* the 4 of "4 * med_ticks"
    HoleTicks,   \* the 10 of "10 * med_ticks"
    SyncTicks,   \* the 30 of "30 * med_ticks"
    Streams,     \* each a set of what readable chunks with video may hold
    MaxChunks    \* bound: chunks of the stream

(* med is 0 when a chunk has too few video records to determine it; last   *)
(* is 0 when one of its video records was too short to hold a time stamp.  *)
ASSUME ChunkAssumption ==
    /\ JunkSize \in Nat /\ JunkSize >= 3
    /\ StdMed \in Nat
    /\ OkTicks \in Nat /\ HoleTicks \in Nat /\ SyncTicks \in Nat
    /\ OkTicks <= HoleTicks /\ HoleTicks <= SyncTicks
    /\ \A s \in Streams :
         s \subseteq [first : Nat, last : Nat, med : Int, layout : Nat \ {0}]
    /\ MaxChunks \in Nat

Contents == UNION Streams

Dist(a, b) == IF a > b THEN a - b ELSE b - a
Newest(list) == list[Len(list)]
RemoveAt(list, i) == SubSeq(list, 1, i - 1) \o SubSeq(list, i + 1, Len(list))

WithGap(list, i, flag) == [list EXCEPT ![i].gap = flag]

Chunk == [nr : Nat, first : Nat, last : Nat, med : Int, layout : Nat,
          gap : BOOLEAN, junk : BOOLEAN]

VARIABLES
    stream,           \* the one of Streams that is read
    chunk_nr,         \* chunks the stream has delivered so far
    chunks,           \* tystream->chunks: admitted and not yet parsed
    parsed,           \* the chunk in front of them that is parsed, not freed
    junk_chunks,      \* tystream->junk_chunks
    cons_junk_chunk,
    last_tick,
    med_ticks,
    pc,               \* "get", "junk", "add", "parse", "exited", "crashed",
                      \* "undefined"
    at,               \* check_junk_chunks: index of its local "chunks"
    out_of_sync,      \* its local counter
    restored,         \* the list it returns to get_chunk
    run,              \* history: length of the newest run of chunks in sync
    newest,           \* history: the newest chunk that had video, as it was read
    lost,             \* history: add_chunk lost a restored list
    cleared           \* history: an OOS chunk made check_junk clear the gap
                      \* flag of the first junk chunk

lists == <<chunks, parsed, junk_chunks, restored>>
sync == <<cons_junk_chunk, last_tick, med_ticks>>
walk == <<at, out_of_sync>>
history == <<run, newest, lost, cleared>>
vars == <<stream, chunk_nr, lists, sync, pc, walk, history>>

Nothing == [first |-> 0, last |-> 0, med |-> 0, layout |-> 0]

Init ==
    /\ stream \in Streams /\ chunk_nr = 0
    /\ chunks = <<>> /\ parsed = <<>> /\ junk_chunks = <<>> /\ restored = <<>>
    /\ cons_junk_chunk = 0 /\ last_tick = 0 /\ med_ticks = StdMed
    /\ pc = "get" /\ at = 0 /\ out_of_sync = 0
    /\ run = 0 /\ newest = Nothing /\ lost = FALSE /\ cleared = FALSE

-----------------------------------------------------------------------------
(* add_chunk: a chunk laid out like the last one of the list is taken for  *)
(* a second recording of it.                                               *)
Duplicate(chunk, list) == list # <<>> /\ Newest(list).layout = chunk.layout

AddOne(chunk, list) == IF Duplicate(chunk, list) THEN list ELSE Append(list, chunk)

(* History: is c in sync with the run of chunks read before it?  Every     *)
(* chunk of a run has the same ticks per frame, StdMed, a readable last    *)
(* time stamp, and looks different from the chunk before it.  It goes on   *)
(* from an admitted chunk only while the code's window is of that rate.    *)
Sound(c) ==
    /\ c.med \in {0, StdMed} /\ c.last # 0
    /\ newest # Nothing => c.layout # newest.layout

Continues(c) ==
    /\ run > 0 /\ Dist(c.first, newest.last) <= OkTicks * StdMed
    /\ junk_chunks = <<>> => med_ticks = StdMed

NoteRun(c) ==
    /\ newest' = c
    /\ run' = IF ~Sound(c) THEN 0 ELSE IF Continues(c) THEN run + 1 ELSE 1

-----------------------------------------------------------------------------
(* get_chunk, up to the return of check_chunk.                             *)

(* Is the chunk close enough to the last admitted one?  The first chunk of *)
(* a stream, and one after a last_tick of 0, always is.                    *)
InSync(c) ==
    last_tick = 0 \/ c.first = last_tick \/ Dist(c.first, last_tick) <= SyncTicks * med_ticks

MedOr(c, med) == IF c.med # 0 THEN c.med ELSE med

Read == pc = "get" /\ chunk_nr < MaxChunks /\ chunk_nr' = chunk_nr + 1

(* read_chunk fails.                                                       *)
Unreadable ==
    /\ Read
    /\ UNCHANGED <<lists, sync, pc, walk, history>>

(* Admit a chunk: the junk collected so far really was junk.               *)
Admit ==
    /\ Read
    /\ \E c \in Contents :
         /\ c \in stream /\ InSync(c)
         /\ chunks' = AddOne([nr |-> chunk_nr',
                              first |-> IF last_tick = 0 THEN 0 ELSE c.first,
                              last |-> c.last, med |-> MedOr(c, StdMed),
                              layout |-> c.layout, gap |-> FALSE, junk |-> FALSE],
                             chunks)
         /\ last_tick' = c.last
         /\ med_ticks' = MedOr(c, med_ticks)
         /\ NoteRun(c)
    /\ junk_chunks' = <<>> /\ cons_junk_chunk' = 0
    /\ pc' = "parse"
    /\ lost' = FALSE
    /\ UNCHANGED <<parsed, restored, walk, cleared>>

MutJunkChunk(c) ==
    [nr |-> chunk_nr + 1, first |-> c.first, last |-> c.last,
     med |-> MedOr(c, StdMed), layout |-> c.layout, gap |-> FALSE, junk |-> TRUE]
JunkChunk(c) ==
    [nr |-> chunk_nr + 1, first |-> c.first, last |-> c.last,
     med |-> MedOr(c, StdMed), layout |-> c.layout, gap |-> TRUE, junk |-> TRUE]

MutCountAlways(c) == cons_junk_chunk + 1
CountJunk(c) ==
    cons_junk_chunk + (IF Duplicate(JunkChunk(c), junk_chunks) THEN 0 ELSE 1)

MutTooLate == cons_junk_chunk = JunkSize
JunkFull == cons_junk_chunk + 1 = JunkSize

(* Put a chunk that is out of sync aside; with JunkSize of them in a row   *)
(* start to look at them again.                                            *)
Junk ==
    /\ Read
    /\ \E c \in Contents :
         /\ c \in stream /\ ~InSync(c)
         /\ junk_chunks' = AddOne(JunkChunk(c), junk_chunks)
         /\ cons_junk_chunk' = CountJunk(c)
         /\ NoteRun(c)
    /\ IF JunkFull THEN pc' = "junk" /\ at' = 2 /\ out_of_sync' = 0
                   ELSE pc' = "parse" /\ UNCHANGED walk
    /\ UNCHANGED <<chunks, parsed, restored, last_tick, med_ticks, lost, cleared>>

(* A chunk without a video record is freed, and the junk with it.          *)
NoVideo ==
    /\ Read
    /\ junk_chunks' = <<>> /\ cons_junk_chunk' = 0
    /\ pc' = "parse"
    /\ run' = 0 /\ newest' = Nothing /\ lost' = FALSE
    /\ UNCHANGED <<chunks, parsed, restored, last_tick, med_ticks, walk, cleared>>

-----------------------------------------------------------------------------
(* check_junk_chunks, with check_junk: the walk over the junk list.        *)

cur == junk_chunks[at]
prev == junk_chunks[at - 1]
next == junk_chunks[at + 1]

Far(b, a) == Dist(b.first, a.last) > HoleTicks * a.med
Near(b, a) == Dist(b.first, a.last) <= OkTicks * a.med

Walking == pc = "junk" /\ at <= Len(junk_chunks)

(* Go on with element i of the list; nothing can be repaired once a chunk  *)
(* that fits nowhere is followed by the last one.                          *)
Advance(i) ==
    /\ at' = i
    /\ pc' = IF i = Len(junk_chunks') /\ out_of_sync' > 0 THEN "exited" ELSE "junk"

(* In sync with the chunk before it, maybe with a small hole.              *)
JunkInSync ==
    /\ Walking
    /\ ~Far(cur, prev)
    /\ junk_chunks' = WithGap(junk_chunks, at, ~Near(cur, prev))
    /\ out_of_sync' = out_of_sync
    /\ Advance(at + 1)
    /\ UNCHANGED <<chunk_nr, chunks, parsed, restored, sync, history>>

Suspect == Walking /\ Far(cur, prev)

(* check_junk asks for the chunk after the last one.                       *)
JunkLast ==
    /\ Suspect
    /\ at = Len(junk_chunks)
    /\ pc' = "crashed"
    /\ UNCHANGED <<chunk_nr, lists, sync, walk, history>>

(* The next chunk continues the previous one: drop this one.  The walk     *)
(* then reads the freed chunk's next, which the allocator may have left as *)
(* it was or not.                                                          *)
JunkOss ==
    /\ Suspect
    /\ at < Len(junk_chunks)
    /\ ~Far(next, prev)
    /\ junk_chunks' =
         RemoveAt(WithGap(WithGap(junk_chunks, at - 1, FALSE),
                          at + 1, ~Near(next, prev)), at)
    /\ cleared' = (cleared \/ at = 2)
    /\ out_of_sync' = out_of_sync
    /\ \/ Advance(at)
       \/ pc' = "undefined" /\ UNCHANGED at
    /\ UNCHANGED <<chunk_nr, chunks, parsed, restored, sync, run, newest, lost>>

(* The next chunk continues this one: a big hole in front of this one.     *)
JunkHole ==
    /\ Suspect
    /\ at < Len(junk_chunks)
    /\ Far(next, prev) /\ ~Far(next, cur)
    /\ junk_chunks' =
         WithGap(WithGap(junk_chunks, at, TRUE), at + 1, ~Near(next, cur))
    /\ out_of_sync' = out_of_sync
    /\ Advance(at + 1)
    /\ UNCHANGED <<chunk_nr, chunks, parsed, restored, sync, history>>

JunkNoLuck ==
    /\ Suspect
    /\ at < Len(junk_chunks)
    /\ Far(next, prev) /\ Far(next, cur)
    /\ out_of_sync' = out_of_sync + 1
    /\ UNCHANGED junk_chunks
    /\ Advance(at + 1)
    /\ UNCHANGED <<chunk_nr, chunks, parsed, restored, sync, history>>

(* The end of the list.  With out_of_sync > 0 the last chunk would stay in *)
(* the junk list.                                                          *)
MutKeepReference == last_tick
RestoredReference == junk_chunks[at - 1 - (IF out_of_sync > 0 THEN 1 ELSE 0)].last

MutNotEmptied(kept) == junk_chunks
LeftAside(kept) == SubSeq(junk_chunks, kept + 1, Len(junk_chunks))

JunkDone ==
    /\ pc = "junk"
    /\ at > Len(junk_chunks)
    /\ LET kept == Len(junk_chunks) - (IF out_of_sync > 0 THEN 1 ELSE 0) IN
         /\ restored' = SubSeq(junk_chunks, 1, kept)
         /\ junk_chunks' = LeftAside(kept)
         /\ med_ticks' = junk_chunks[kept].med
    /\ last_tick' = RestoredReference
    /\ cons_junk_chunk' = (IF out_of_sync > 0 THEN 1 ELSE 0)
    /\ lost' = FALSE
    /\ pc' = "add"
    /\ UNCHANGED <<chunk_nr, chunks, parsed, walk, run, newest, cleared>>

JunkWalk ==
    \/ JunkInSync \/ JunkLast \/ JunkOss \/ JunkHole \/ JunkNoLuck \/ JunkDone

-----------------------------------------------------------------------------
(* get_chunk: add_chunk(tystream, chunk, tystream->chunks) with the        *)
(* restored list.  Only its head is compared; if it looks like a           *)
(* duplicate nobody keeps the list.                                        *)
AddRestored ==
    /\ pc = "add"
    /\ IF Duplicate(Head(restored), chunks)
       THEN /\ cons_junk_chunk' = cons_junk_chunk - 1
            /\ lost' = TRUE
            /\ UNCHANGED chunks
       ELSE /\ chunks' = chunks \o restored
            /\ UNCHANGED <<cons_junk_chunk, lost>>
    /\ restored' = <<>>
    /\ pc' = "parse"
    /\ UNCHANGED <<chunk_nr, parsed, junk_chunks, last_tick, med_ticks, walk,
                   run, newest, cleared>>

chunk_okay_to_parse == Len(chunks) > 3

(* parse_chunk: if no picture of a chunk could carry its gap flag the next *)
(* chunk gets it.                                                          *)
ParseChunk ==
    /\ pc = "parse"
    /\ chunk_okay_to_parse
    /\ \E carried \in {Head(chunks).gap, FALSE} :
         chunks' = Tail(WithGap(chunks, 2, chunks[2].gap \/ carried))
    /\ parsed' = <<Head(chunks)>>
    /\ UNCHANGED <<chunk_nr, junk_chunks, restored, sync, pc, walk, history>>

ParseDone ==
    /\ pc = "parse"
    /\ ~chunk_okay_to_parse
    /\ pc' = "get"
    /\ UNCHANGED <<chunk_nr, lists, sync, walk, history>>

(* The end of the stream, of the process, or of the defined behaviour.     *)
Stop ==
    /\ pc \in {"exited", "crashed", "undefined"} \/ (pc = "get" /\ chunk_nr = MaxChunks)
    /\ UNCHANGED vars

GetChunk == Unreadable \/ NoVideo \/ Admit \/ Junk

Next ==
    /\ GetChunk \/ JunkWalk \/ AddRestored \/ ParseChunk \/ ParseDone \/ Stop
    /\ UNCHANGED stream

Spec == Init /\ [][Next]_vars
-----------------------------------------------------------------------------
(* Properties.                                                             *)

(* The values of the demultiplexer's chunk state.  With out_of_sync > 0    *)
(* the walk never gets past the end of the list, so the code that would    *)
(* keep the last junk chunk is never run.                                  *)
TypeOK ==
    /\ chunk_nr \in 0..MaxChunks
    /\ chunks \in Seq(Chunk) /\ parsed \in Seq(Chunk) /\ Len(parsed) <= 1
    /\ junk_chunks \in Seq(Chunk) /\ restored \in Seq(Chunk)
    /\ cons_junk_chunk \in -1..JunkSize
    /\ last_tick \in Nat /\ med_ticks \in Int
    /\ pc \in {"get", "junk", "add", "parse", "exited", "crashed", "undefined"}
    /\ at \in Nat /\ out_of_sync \in Nat
    /\ run \in Nat
    /\ newest \in [first : Nat, last : Nat, med : Int, layout : Nat]
    /\ lost \in BOOLEAN /\ cleared \in BOOLEAN

(* The chunks that are parsed, admitted, restored and set aside are those  *)
(* of the stream, each once and in the stream's order: repairing the       *)
(* stream never puts a chunk before an earlier one.                        *)
Held == parsed \o chunks \o restored \o junk_chunks

InStreamOrder ==
    /\ \A i \in 1..Len(Held) : Held[i].nr \in 1..chunk_nr
    /\ \A i, j \in 1..Len(Held) : i < j => Held[i].nr < Held[j].nr

(* check_chunk compares cons_junk_chunk with == when it decides to look at *)
(* the junk again, so the counter must follow the list exactly; only       *)
(* after a restored list was lost is it one behind.                        *)
JunkCounted ==
    pc \in {"get", "parse"} =>
        /\ cons_junk_chunk = Len(junk_chunks) - (IF lost THEN 1 ELSE 0)
        /\ cons_junk_chunk < JunkSize

(* Once at least three chunks were admitted that many are kept unparsed,   *)
(* because records may continue in a following chunk, and never more.      *)
LookAhead ==
    /\ pc = "get" => Len(chunks) <= 3
    /\ parsed # <<>> => Len(chunks) >= 3

(* The two lists and their counter.                                        *)
ListsCounted == TypeOK /\ JunkCounted /\ LookAhead

(* A stream without odd chunks: one frame rate, every median and time      *)
(* stamp readable, no chunk longer than the window in which two chunks are *)
(* in sync, and only the same chunk looks the same.                        *)
Ordinary ==
    \A c \in stream :
      /\ c.med = StdMed /\ c.last # 0
      /\ Dist(c.first, c.last) <= SyncTicks * StdMed
      /\ \A d \in stream : d.layout = c.layout => d = c

(* While nothing is set aside last_tick is the time of the newest chunk of *)
(* a run, whatever was set aside, restored, freed or dropped before: the   *)
(* next chunk is compared with the one it follows.                         *)
SyncReference ==
    pc \in {"get", "parse"} /\ run > 0 /\ ~lost /\ cons_junk_chunk = 0
      => last_tick = newest.last

(* The gap flag is up between two admitted chunks of an ordinary stream    *)
(* that lie further apart than any window of the code allows, and is only  *)
(* missing when an out of sync chunk made check_junk clear the flag of the *)
(* first junk chunk.                                                       *)
GapAt(list, i) ==
    Dist(list[i + 1].first, list[i].last) > SyncTicks * StdMed => list[i + 1].gap

GapFlagged ==
    \A i \in 1..(Len(parsed \o chunks) - 1) : GapAt(parsed \o chunks, i)

GapFlaggedUnlessCleared == Ordinary => cleared \/ GapFlagged

(* JunkSize chunks in a row that are in sync with each other are never all *)
(* thrown away: the newest of them has become the reference of the stream. *)
(* After a restored list was lost it takes one chunk more.                 *)
Recovers ==
    pc \in {"get", "parse"} /\ run >= JunkSize + (IF lost THEN 1 ELSE 0)
      => last_tick = newest.last

(* A junk list whose last chunk is out of sync is no reason to stop: "just *)
(* don't null the junk_chunk buffer and keep the cons junk counter to 1".  *)
LastJunkChunkHandled == pc # "crashed"
=============================================================================

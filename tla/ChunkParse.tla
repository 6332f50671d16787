----------------------------- MODULE ChunkParse -----------------------------
(***************************************************************************)
(* tydemux/chunk_parse.c: parse_chunk makes video and audio PES holders of *)
(* the records of a chunk, with get_video and get_audio of tyrecord.c,     *)
(* which go on into the chunks behind it, and with the cut points.         *)
(*                                                                         *)
(* A record is its kind, and whether the start code that should be in it   *)
(* is found: "pes" is 0x6e0, "seq" 0x7e0, "gop" 0xce0, "i", "p" and "b"    *)
(* 0x8e0, 0xae0 and 0xbe0, "more" 0x2e0 (the rest of a picture), "data"    *)
(* 0xe01 and 0xe02, "sound" 0x3c0 and 0x9c0.  Sizes are left out: what is  *)
(* appended to a record is whole records.  Time runs with the chunks and   *)
(* their records.                                                          *)
(***************************************************************************)
EXTENDS CutPoints, FiniteSets

CONSTANTS
    Scenarios,   \* each [series, index, cuts, shapes, gaps, length]: the
                 \* recorder, the index the cuts are made from, the cuts,
                 \* what a chunk may hold, can chunks be missing in front
                 \* of one, and how many there are
    LookAhead,   \* the 3 of chunk_okay_to_parse
    TicksPerChunk,
    Median       \* audio_median_tick_diff

Record == [kind : {"pes", "seq", "gop", "i", "p", "b", "more", "data", "sound"}, ok : BOOLEAN]

(* A cut goes from one GOP of the index to another.                        *)
CutOfIndex(cut, index) ==
    \E from, to \in ToSet(index), atEnd \in BOOLEAN : cut = CutBetween(from, to, atEnd)

ASSUME ParseAssumption ==
    /\ \A s \in Scenarios :
        /\ s.series \in {"S1", "S2"} /\ s.gaps \in BOOLEAN /\ s.length \in Nat
        /\ s.index \in Seq(Gop) /\ s.shapes \subseteq Seq(Record)
        /\ s.cuts \in Seq(Cut) /\ \A n \in DOMAIN s.cuts : CutOfIndex(s.cuts[n], s.index)
    /\ TicksPerChunk \in Nat
    /\ {LookAhead, Median} \subseteq Nat \ {0}

VARIABLES
    scenario,
    cuts,              \* tystream->cuts
    chunk_nr,          \* the next chunk that get_chunk reads
    chunks,            \* tystream->chunks
    repair,            \* 0, 1, or 2 at a cut
    video, audio,      \* the lists of holders
    audiocut, audio_start_drift,
    pc,                \* "read", "sound", "end", or "undefined": memory that
                       \* is not the program's is used
    holes,             \* history: the chunks in front of which some are missing
    dropped            \* history: time of the first sound frame a cut took

vars == <<scenario, cuts, chunk_nr, chunks, repair, video, audio, audiocut,
          audio_start_drift, pc, holes, dropped>>

Init ==
    /\ scenario \in Scenarios
    /\ cuts = scenario.cuts /\ chunk_nr = 0 /\ chunks = <<>>
    /\ repair = 0 /\ video = <<>> /\ audio = <<>>
    /\ audiocut = FALSE /\ audio_start_drift = 0 /\ pc = "read"
    /\ holes = {} /\ dropped = 0

-----------------------------------------------------------------------------
series == scenario.series

(* What can be read from a chunk on: its own records, then those of the    *)
(* chunks behind it up to a gap.                                           *)
Located(chunk) ==
    [i \in DOMAIN chunk.recs |->
        [kind |-> chunk.recs[i].kind, ok |-> chunk.recs[i].ok, nr |-> chunk.nr, rec |-> i,
         time |-> TicksPerChunk * chunk.nr + i]]

MutReach(list) == Len(list)
Reach(list) ==
    LET gaps == {k \in 2..Len(list) : list[k].gap}
    IN  IF gaps = {} THEN Len(list) ELSE (CHOOSE k \in gaps : \A m \in gaps : k <= m) - 1

Flow(list) == FlattenSeq([k \in 1..Reach(list) |-> Located(list[k])])

Pictures == {"i", "p", "b"}
Modules == {"pes", "seq", "gop"} \cup Pictures

(* The first of the given kinds behind j among those looked at, or 0.      *)
NextOf(flow, kinds, j, seen) ==
    LET there == {m \in seen : m > j /\ flow[m].kind \in kinds}
    IN  IF there = {} THEN 0 ELSE CHOOSE m \in there : \A k \in there : m <= k

(* get_video, get_audio: the bytes of a record reach to the start code of  *)
(* the next of its kind; if there is none before a gap, or it is not       *)
(* found, nothing is read.                                                 *)
NextModule(flow, j) == NextOf(flow, Modules, j, DOMAIN flow)
NextSound(flow, j) == NextOf(flow, {"sound"}, j, DOMAIN flow)

EndsAt(flow, j, next) == flow[j].ok /\ next # 0 /\ flow[next].ok
VideoReadable(flow, j) == EndsAt(flow, j, NextModule(flow, j))
SoundReadable(flow, j) == EndsAt(flow, j, NextSound(flow, j))

-----------------------------------------------------------------------------
(* Where a holder starts, and what it reads: S1 has a PES record in front  *)
(* of each picture, S2 a PES header inside the record.                     *)
Starts == IF series = "S1" THEN {"pes"} ELSE {"seq", "p", "b"}
Reads == IF series = "S1" THEN Modules \ {"pes"} ELSE {"i", "gop"}

(* The records a holder may go on with: those of its own chunk are         *)
(* limited when a cut starts there.                                        *)
Seen(flow, limit) == {m \in DOMAIN flow : m <= limit \/ flow[m].nr # flow[1].nr}

MutHolderEnd(flow, limit, j) == NextOf(flow, {"seq", "pes"}, j, Seen(flow, limit))
HolderEnd(flow, limit, j) == NextOf(flow, Starts, j, Seen(flow, limit))

Body(flow, limit, j) ==
    LET end == HolderEnd(flow, limit, j)
        last == IF end = 0 THEN Len(flow) ELSE end - 1
    IN  {m \in Seen(flow, limit) \cap ((j + 1)..last) : flow[m].kind \in Reads \cup {"data"}}

BodyReadable(flow, limit, j) ==
    \A m \in Body(flow, limit, j) : flow[m].kind = "data" \/ VideoReadable(flow, m)

(* parse_chunk_video_remainder_S1 and _S2 run into a gap or the end.       *)
RunsOut(flow, limit, j) ==
    /\ VideoReadable(flow, j) /\ BodyReadable(flow, limit, j)
    /\ HolderEnd(flow, limit, j) = 0

Complete(flow, limit, j) ==
    /\ VideoReadable(flow, j) /\ BodyReadable(flow, limit, j)
    /\ HolderEnd(flow, limit, j) # 0

(* The holder that starts at j, with the sequence and GOP header that      *)
(* parse_chunk_video_S1 puts in front of it after a cut (extra).           *)
Place(flow, m) == [nr |-> flow[m].nr, rec |-> flow[m].rec]

HolderOf(flow, parts, start, gap, restart, extra) ==
    LET Has(kind) == \E m \in parts : flow[m].kind = kind
    IN  [nr |-> flow[start].nr, time |-> flow[start].time, gap |-> gap,
         seq |-> extra \/ Has("seq"), gop |-> extra \/ Has("gop"), i |-> Has("i"),
         repaired |-> restart, drift |-> 0, places |-> {Place(flow, m) : m \in parts}]

(* fix_pes_holder: pictures that S1 sends behind one PES header are split, *)
(* one holder for each; the new holders have neither time nor flags.       *)
fix_pes_holder(flow, limit, j, gap, restart, extra) ==
    LET body == Body(flow, limit, j)
        splits == {m \in body : /\ series = "S1" /\ flow[m].kind \in Pictures
                                /\ \E k \in body : k < m /\ flow[k].kind \in Pictures}
        Part(from) == {m \in {j} \cup body : from <= m /\ \A k \in splits : from < k => m < k}
    IN  FlattenSeq([m \in DOMAIN flow |->
            IF m = j THEN <<HolderOf(flow, Part(j), j, gap, restart, extra)>>
            ELSE IF m \in splits
            THEN <<[HolderOf(flow, Part(m), j, 0, FALSE, FALSE) EXCEPT !.time = 0]>>
            ELSE <<>>])

-----------------------------------------------------------------------------
(* payload_fetch_seq_gop: does the first sequence header in the list come  *)
(* with a GOP header?                                                      *)
FirstSeq(list) == SelectInSeq(list, LAMBDA h : h.seq)
payload_fetch_seq_gop(list) == list[FirstSeq(list)].gop

(* Where parse_chunk_video starts to look: two records in front of the     *)
(* sequence header on S1.                                                  *)
FirstRecord(chunk, class) ==
    IF class # 2 THEN 1
    ELSE cutpoint_incut_chunk_record(cuts, chunk.nr) - (IF series = "S1" THEN 2 ELSE 0)

RecordLimit(chunk, class) ==
    IF class = 1 THEN cutpoint_incut_chunk_record(cuts, chunk.nr) - 1 ELSE Len(chunk.recs)

(* Is the gap left to the next chunk?                                      *)
MutGapLeft(starts, stops, whole) == starts = {}
GapLeft(starts, stops, whole) == whole = {} /\ stops = {}

(* A gap is flagged at the first holder that comes out whole, or left to   *)
(* the next chunk; there is none where a cut ends.  On S2 the first start  *)
(* that cannot be read ends the work on the chunk at once.                 *)
VideoOf(list, class) ==
    LET chunk == list[1]
        flow == Flow(list)
        limit == RecordLimit(chunk, class)
        from == FirstRecord(chunk, class)
        starts == {j \in 1..limit : j >= from /\ flow[j].kind \in Starts}
        failing == {j \in starts : ~VideoReadable(flow, j)}
        stops == IF series = "S1" THEN {} ELSE failing
        tried == {j \in starts : \A k \in stops : j < k}
        whole == {j \in tried : Complete(flow, limit, j)}
        asks == chunk.gap /\ class # 2
        restarts == IF class # 2 THEN {}
                    ELSE IF series = "S1" THEN starts \ failing
                    ELSE {j \in starts : flow[j].kind = "seq"}
        restart == IF restarts = {} THEN 0
                   ELSE CHOOSE j \in restarts : \A k \in restarts : j <= k
        extra == series = "S1" /\ restart # 0 /\ FirstSeq(video) # 0 /\ payload_fetch_seq_gop(video)
        flag == IF class = 1 THEN 2 ELSE 1
    IN  [undefined |-> \/ from < 1
                       \/ series = "S1" /\ restart # 0 /\ FirstSeq(video) = 0
                       \/ series = "S2" /\ \E j \in tried : RunsOut(flow, limit, j),
         repair |-> IF asks /\ starts # {} THEN flag ELSE repair,
         left |-> asks /\ GapLeft(starts, stops, whole),
         holders |-> FlattenSeq([j \in 1..limit |->
             IF j \notin whole THEN <<>>
             ELSE fix_pes_holder(flow, limit, j,
                                 IF asks /\ \A k \in whole : j <= k THEN flag ELSE 0,
                                 j = restart, j = restart /\ extra)])]

-----------------------------------------------------------------------------
(* pes_holder_attache_drift_i_frame: the first I picture at the time or    *)
(* after it, but for the last holder of the list, else the last one of     *)
(* the list, but for the first.                                            *)
attache_drift_i_frame(list, time, drift) ==
    LET later == {k \in 1..(Len(list) - 1) : list[k].time >= time /\ list[k].i}
        any == {k \in 2..Len(list) : list[k].i}
    IN  IF later # {} THEN [list EXCEPT ![CHOOSE k \in later : \A m \in later : k <= m].drift = drift]
        ELSE IF any # {} THEN [list EXCEPT ![CHOOSE k \in any : \A m \in any : k >= m].drift = drift]
        ELSE list

(* What is missing between the cut in the sound and the cut in the video:  *)
(* sound is repeated, and the rest of the drift is left to the video.      *)
MutMissing(total) == IF total < 0 THEN 1 + (0 - total) \div Median ELSE 0
Missing(total) == IF total < 0 THEN (0 - total) \div Median ELSE 0

(* parse_chunk_audio_V_2X, one sound frame: s is the state of the loop.    *)
SoundFrame(flow, s, j) ==
    LET time == flow[j].time
        flagged == s.asks /\ s.open
        asked == cutpoint_incut_ticks_cutpoint(s.cuts, time)
        total == s.start_drift + asked.time - time
        holder == [nr |-> flow[j].nr, time |-> time, gap |-> flagged, repeat |-> 0,
                   repaired |-> FALSE, lost |-> 0, left |-> 0]
        passed == [s EXCEPT !.cuts = asked.cuts, !.open = @ /\ ~flagged]
    IN  IF ~SoundReadable(flow, j) THEN s
        ELSE IF asked.what = "inside" THEN passed
        ELSE IF asked.what = "none" THEN [passed EXCEPT !.audio = Append(@, holder)]
        ELSE IF ~s.audiocut
        THEN [passed EXCEPT !.audiocut = TRUE, !.start_drift = time - asked.time, !.dropped = time]
        ELSE [passed EXCEPT
                 !.audiocut = FALSE, !.start_drift = 0,
                 !.undefined = @ \/ s.video = <<>>,
                 !.video = attache_drift_i_frame(@, asked.time, total + Missing(total) * Median),
                 !.audio = Append(@, [holder EXCEPT
                     !.gap = FALSE, !.repaired = TRUE, !.repeat = Missing(total),
                     !.lost = time - s.dropped, !.left = total + Missing(total) * Median])]

(* The loop over the sound of a chunk: its state behind each record.       *)
LoopOver(list) ==
    LET flow == Flow(list)
        own == {j \in DOMAIN list[1].recs : flow[j].kind = "sound"}
        start == [cuts |-> cuts, audiocut |-> audiocut, start_drift |-> audio_start_drift,
                  audio |-> audio, video |-> video, dropped |-> dropped, undefined |-> FALSE,
                  asks |-> list[1].gap, open |-> TRUE]
        after[j \in 0..Len(list[1].recs)] ==
            IF j = 0 THEN start
            ELSE IF j \in own THEN SoundFrame(flow, after[j - 1], j) ELSE after[j - 1]
    IN  after

AudioOf(list) == LoopOver(list)[Len(list[1].recs)]

-----------------------------------------------------------------------------
(* What a chunk may hold: where a cut begins or ends there is a sequence.  *)
Fits(shape, nr) ==
    \A n \in DOMAIN scenario.index :
        LET gop == scenario.index[n] IN
        gop.chunk = nr => gop.rec \in DOMAIN shape /\ shape[gop.rec].kind = "seq"

okay_to_parse == Len(chunks) > LookAhead

(* get_chunk: what lies in front of the first cut is not read, and nothing *)
(* is read behind the last.                                                *)
SkipChunk ==
    /\ pc = "read" /\ ~okay_to_parse /\ chunk_nr < scenario.length
    /\ cutpoint_incut_chunk(cuts, chunk_nr) = 4
    /\ chunk_nr' = chunk_nr + 1
    /\ UNCHANGED <<scenario, cuts, chunks, repair, video, audio, audiocut,
                   audio_start_drift, pc, holes, dropped>>

StopReading ==
    /\ pc = "read" /\ ~okay_to_parse
    /\ chunk_nr = scenario.length \/ cutpoint_incut_chunk(cuts, chunk_nr) = 5
    /\ pc' = "end"
    /\ UNCHANGED <<scenario, cuts, chunk_nr, chunks, repair, video, audio, audiocut,
                   audio_start_drift, holes, dropped>>

GetChunk(shape, gap) ==
    /\ pc = "read" /\ ~okay_to_parse /\ chunk_nr < scenario.length
    /\ cutpoint_incut_chunk(cuts, chunk_nr) \notin {4, 5}
    /\ Fits(shape, chunk_nr)
    /\ gap => scenario.gaps /\ chunk_nr > 0
    /\ chunks' = Append(chunks, [nr |-> chunk_nr, recs |-> shape, gap |-> gap])
    /\ chunk_nr' = chunk_nr + 1
    /\ holes' = IF gap THEN holes \cup {chunk_nr} ELSE holes
    /\ UNCHANGED <<scenario, cuts, repair, video, audio, audiocut, audio_start_drift,
                   pc, dropped>>

(* parse_chunk, the video: the holders come out whole or not at all, and a *)
(* gap that was flagged nowhere is left to the next chunk.                 *)
ParseVideo ==
    LET class == cutpoint_incut_chunk(cuts, chunks[1].nr) IN
    /\ pc = "read" /\ okay_to_parse
    /\ IF class = 3 THEN pc' = "sound" /\ UNCHANGED <<video, repair, chunks>>
       ELSE \E v \in {VideoOf(chunks, class)} :
            /\ pc' = IF v.undefined THEN "undefined" ELSE "sound"
            /\ repair' = v.repair
            /\ video' = video \o v.holders
            /\ chunks' = [chunks EXCEPT ![2].gap = @ \/ v.left]
    /\ UNCHANGED <<scenario, cuts, chunk_nr, audio, audiocut, audio_start_drift,
                   holes, dropped>>

(* parse_chunk, the sound, and the step to the next chunk.                 *)
ParseSound ==
    /\ pc = "sound"
    /\ \E s \in {AudioOf(chunks)} :
        /\ pc' = IF s.undefined THEN "undefined" ELSE "read"
        /\ cuts' = s.cuts /\ audio' = s.audio /\ video' = s.video
        /\ audiocut' = s.audiocut /\ audio_start_drift' = s.start_drift
        /\ dropped' = s.dropped
        /\ chunks' = [Tail(chunks) EXCEPT ![1].gap = @ \/ (s.asks /\ s.open)]
    /\ UNCHANGED <<scenario, chunk_nr, repair, holes>>

Next ==
    \/ SkipChunk \/ StopReading \/ ParseVideo \/ ParseSound
    \/ \E shape \in scenario.shapes, gap \in BOOLEAN : GetChunk(shape, gap)

Spec == Init /\ [][Next]_vars

-----------------------------------------------------------------------------
Works == pc # "undefined"

(* No picture is made of records from both sides of a gap: all records of  *)
(* a holder follow one another in the recording.                           *)
HoldersUnbroken ==
    \A k \in DOMAIN video : \A p \in video[k].places :
        \A n \in holes : ~(video[k].nr < n /\ n <= p.nr)

(* No record becomes part of two holders, and holders are in stream order, *)
(* though each reads on into chunks that are parsed again after it.        *)
Earlier(p, q) == p.nr < q.nr \/ (p.nr = q.nr /\ p.rec < q.rec)
RecordsOnceInOrder ==
    Works => \A k, m \in DOMAIN video : k < m =>
        \A p \in video[k].places, q \in video[m].places : Earlier(p, q)

(* On S1, wherever chunks are missing, the first holder behind the place   *)
(* is flagged for repair, or was made to start afresh by a cut, however    *)
(* many holders could not be read on the way.                              *)
FirstOf(k) == CHOOSE p \in video[k].places : \A q \in video[k].places : p = q \/ Earlier(p, q)
GapsReachVideo ==
    (Works /\ series = "S1") =>
        \A k \in 2..Len(video) :
            (\E n \in holes : video[k - 1].nr < n /\ n <= video[k].nr)
                => video[k].gap # 0 \/ video[k].repaired

(* The sound of a cut is left out, and nothing of it is put in.            *)
SoundOutsideCuts ==
    \A k \in DOMAIN audio, n \in DOMAIN cuts :
        \/ cuts[n].cut_is_start_of_stream
        \/ audio[k].time \notin cuts[n].cutstart..(cuts[n].cutstop - 1)

(* The flag that the sound is in a cut agrees with what the cuts remember. *)
Open(c) == c.audiostart /\ ~c.audiostop
AudioCutOpen == audiocut <=> \E n \in DOMAIN cuts : Open(cuts[n])

(* A cut of the sound, as the flag, the marks and the frames show it.      *)
SoundCut == SoundOutsideCuts /\ AudioCutOpen

(* Sound and video stay together over a cut: what the cut took from the    *)
(* sound, less what is repeated, is what it took from the video but for    *)
(* the drift left to the video.  Where sound is missing, so much is        *)
(* repeated that less than a frame of it is.                               *)
CutKeepsSync ==
    \A k \in DOMAIN audio : audio[k].repaired =>
        \E n \in DOMAIN cuts :
            LET taken == cuts[n].cutstop - cuts[n].cutstart IN
            /\ audio[k].lost - audio[k].repeat * Median = taken - audio[k].left
            /\ audio[k].lost > taken => audio[k].left \in (1 - Median)..0

(* No chunk in front of which some are missing is parsed inside a cut or   *)
(* where one ends: nothing is flagged there.                               *)
NoGapInCut ==
    (pc = "read" /\ okay_to_parse /\ chunks[1].gap) =>
        cutpoint_incut_chunk(cuts, chunks[1].nr) \notin {2, 3}

(* A frame that lies in one cut lies in no other one, and the cut in front *)
(* was seen to end.                                                        *)
ApartAt(list, ticks) ==
    \A n, m \in DOMAIN list : n # m /\ SoundIn(list[m], ticks) =>
        ~SoundIn(list[n], ticks) /\ ~Open(list[n])

(* Between two cuts there is a sound frame that can be read: no frame of   *)
(* the next one comes while the one in front is open.                      *)
CutsApart ==
    pc = "sound" =>
        \A j \in DOMAIN chunks[1].recs :
            (Flow(chunks)[j].kind = "sound" /\ SoundReadable(Flow(chunks), j)) =>
                ApartAt(LoopOver(chunks)[j - 1].cuts, Flow(chunks)[j].time)

(* Every chunk has sound, all of it can be read, and the records of a      *)
(* chunk lie within its time.                                              *)
Sounding(s) ==
    /\ ~s.gaps
    /\ \A shape \in s.shapes :
        /\ Len(shape) <= TicksPerChunk
        /\ \E j \in DOMAIN shape : shape[j].kind = "sound"
        /\ \A j \in DOMAIN shape : shape[j].kind = "sound" => shape[j].ok

(* The chunks that are read and lie as a whole behind the cut n and in     *)
(* front of the cut m.                                                     *)
FreeChunks(s, n, m) ==
    {c \in 0..s.length : /\ cutpoint_incut_chunk(s.cuts, c) # 4
                         /\ s.cuts[n].cutstop <= TicksPerChunk * c
                         /\ TicksPerChunk * (c + 1) < s.cuts[m].cutstart}

(* Between two cuts there is a chunk.                                      *)
CutsSpaced(s) ==
    \A n, m \in DOMAIN s.cuts :
        n # m => Sounding(s) /\ FreeChunks(s, n, m) \cup FreeChunks(s, m, n) # {}
=============================================================================

----------------------------- MODULE CutPoints -----------------------------
(***************************************************************************)
(* tydemux/cutpoints.c: the list of cuts, and the three questions the      *)
(* demultiplexer asks it.  The lists are short, and searched from the      *)
(* front each time; the first cut that has something to say decides.       *)
(*                                                                         *)
(* A place in the stream is a GOP of the index: the time of its I picture, *)
(* the chunk that holds its sequence header and the record it is in.       *)
(* Records are counted from 1 here, from 0 in the code.                    *)
(***************************************************************************)
EXTENDS Integers, Sequences, SequencesExt

CONSTANT StreamEnds \* the 10: a cut this near to an end of the stream is one

ASSUME CutPointsAssumption == StreamEnds \in Nat

Gop == [time_of_iframe : Nat, chunk : Nat, rec : Nat]

Cut ==
    [cutstart : Nat, cutstop : Nat, chunkstart : Nat, rec_nr_start : Nat,
     chunkstop : Nat, rec_nr_stop : Nat,
     cut_is_start_of_stream : BOOLEAN, cut_is_end_of_stream : BOOLEAN,
     audiostart : BOOLEAN, audiostop : BOOLEAN]

(* cutpoint_new, and the values its three callers give it.                 *)
CutBetween(from, to, atEnd) ==
    [cutstart |-> from.time_of_iframe, cutstop |-> to.time_of_iframe,
     chunkstart |-> from.chunk, rec_nr_start |-> from.rec,
     chunkstop |-> to.chunk, rec_nr_stop |-> to.rec,
     cut_is_start_of_stream |-> from.chunk <= StreamEnds,
     cut_is_end_of_stream |-> atEnd,
     audiostart |-> FALSE, audiostop |-> FALSE]

(* A line of a cut file: that the cut ends the stream is not found out.    *)
cutpoint_create_from_tyeditor_string(from, to) == CutBetween(from, to, FALSE)

cutpoint_add_cut(index, from, to) ==
    CutBetween(from, to, Last(index).chunk - to.chunk <= StreamEnds)

(* The first GOP at a time of the viewer's clock or after it.              *)
cutpoint_find_gop_index(index, time) ==
    LET later == {g \in ToSet(index) : g.time_of_iframe >= time + index[1].time_of_iframe}
    IN  IF later = {} THEN Last(index)
        ELSE CHOOSE g \in later : \A h \in later : g.time_of_iframe <= h.time_of_iframe

(* The cuts of a list, and one more if it is not empty.                    *)
cut_point_add_ticks(cuts, index, from, to) ==
    IF to <= from THEN cuts
    ELSE Append(cuts, cutpoint_add_cut(index, cutpoint_find_gop_index(index, from),
                                              cutpoint_find_gop_index(index, to)))

-----------------------------------------------------------------------------
(* 0: a chunk outside; 1: a cut starts in it; 2: it ends in it; 3: the     *)
(* chunk is inside; 4 and 5: before the start and after the end of what is *)
(* wanted.                                                                 *)
ClassOf(c, nr) ==
    IF c.cut_is_start_of_stream /\ nr <= c.chunkstop
    THEN IF c.chunkstop = 0 \/ nr = c.chunkstop - 1 THEN 0 ELSE 4
    ELSE IF c.cut_is_end_of_stream /\ nr > c.chunkstart THEN 5
    ELSE IF c.chunkstart < nr /\ nr < c.chunkstop THEN 3
    ELSE IF c.chunkstart = nr THEN 1 ELSE 2

cutpoint_incut_chunk(cuts, nr) ==
    LET Concerned(c) == \/ c.cut_is_start_of_stream /\ nr <= c.chunkstop
                        \/ c.cut_is_end_of_stream /\ nr > c.chunkstart
                        \/ c.chunkstart <= nr /\ nr <= c.chunkstop
        i == SelectInSeq(cuts, Concerned)
    IN  IF i = 0 THEN 0 ELSE ClassOf(cuts[i], nr)

(* The record at which the chunk is cut.                                   *)
cutpoint_incut_chunk_record(cuts, nr) ==
    LET Here(c) == nr \in {c.chunkstart, c.chunkstop}
        c == cuts[SelectInSeq(cuts, Here)]
    IN  IF c.chunkstart = nr THEN c.rec_nr_start ELSE c.rec_nr_stop

(* What a sound frame at some time means for the cuts: "none" of them      *)
(* concerns it, it starts or stops one, or it is "inside" one.  The cut    *)
(* remembers that its start and its end were seen.                         *)
MutSoundIn(c, ticks) == c.cutstart <= ticks /\ ticks < c.cutstop /\ ~c.audiostart
SoundIn(c, ticks) == c.cutstart <= ticks /\ ticks < c.cutstop
SoundAfter(c, ticks) == c.cutstop < ticks /\ ~c.audiostop /\ c.audiostart

cutpoint_incut_ticks_cutpoint(cuts, ticks) ==
    LET Concerned(c) == SoundIn(c, ticks) \/ SoundAfter(c, ticks)
        i == SelectInSeq(cuts, Concerned)
        c == cuts[i]
    IN  IF i = 0 \/ (SoundIn(c, ticks) /\ c.cut_is_start_of_stream)
        THEN [what |-> "none", time |-> 0, cuts |-> cuts]
        ELSE IF ~SoundIn(c, ticks)
        THEN [what |-> "edge", time |-> c.cutstop, cuts |-> [cuts EXCEPT ![i].audiostop = TRUE]]
        ELSE IF ~c.audiostart
        THEN [what |-> "edge", time |-> c.cutstart, cuts |-> [cuts EXCEPT ![i].audiostart = TRUE]]
        ELSE [what |-> "inside", time |-> -1, cuts |-> cuts]
=============================================================================

----------------------------- MODULE MCChunkSync -----------------------------
(***************************************************************************)
(* Instances of ChunkSync for TLC.  The windows of 4, 10 and 30 medians    *)
(* become 1, 2 and 4; a median is one tick, a chunk lasts one tick.        *)
(***************************************************************************)
EXTENDS ChunkSync

OfProgram(firsts, layout(_)) ==
    {[first |-> f, last |-> f + 1, med |-> 1, layout |-> layout(f)] : f \in firsts}

(* Two programs and a stray chunk; within a program the chunks follow each *)
(* other closely, with a small hole, or with one that is only acceptable   *)
(* while no chunk is set aside.  Only a second recording of a chunk has    *)
(* its layout.                                                             *)
Itself(f) == f
Programs == OfProgram({1, 6, 20, 22, 24, 27, 40}, Itself)

(* Fewer chunks, which may look alike without being the same; among them   *)
(* one too short to determine its median, one with another frame rate and  *)
(* one with a damaged video record.                                        *)
One(f) == 1
Two(f) == 2

Odd ==
    OfProgram({1, 20}, One) \cup OfProgram({1, 20}, Two)
      \cup {[first |-> 22, last |-> 23, med |-> 0, layout |-> 2],
            [first |-> 22, last |-> 26, med |-> 2, layout |-> 2],
            [first |-> 1, last |-> 0, med |-> -1, layout |-> 2]}

OrdinaryOrOdd == {Programs, Odd}
JustPrograms == {Programs}
=============================================================================

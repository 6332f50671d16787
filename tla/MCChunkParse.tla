---------------------------- MODULE MCChunkParse ----------------------------
(* Small instances of ChunkParse: streams with gaps, and streams with cuts. *)
EXTENDS ChunkParse

Good(kinds) == [n \in DOMAIN kinds |-> [kind |-> kinds[n], ok |-> TRUE]]
Damaged(kinds, n) == [Good(kinds) EXCEPT ![n].ok = FALSE]

(* S1: the end of a GOP and the next one; a picture that goes on in the    *)
(* next chunk; two pictures behind one header; no video; damaged records.  *)
S1Chunks ==
    {Good(<<"pes", "b", "more", "seq", "gop", "pes", "i", "sound">>),
     Good(<<"b", "data", "pes", "p", "b", "sound">>),
     Good(<<"more", "sound">>),
     Damaged(<<"sound", "pes", "b", "pes", "p">>, 2),
     Damaged(<<"pes", "b", "sound", "pes", "p">>, 2)}

(* S2: the same, but for the headers inside the records.                   *)
S2Chunks ==
    {Good(<<"b", "more", "sound", "seq", "gop", "i", "p", "sound">>),
     Good(<<"i", "data", "p", "b", "sound">>),
     Good(<<"more", "sound">>),
     Damaged(<<"more", "p", "b", "sound", "b">>, 2),
     Damaged(<<"seq", "i", "p", "sound", "b">>, 2)}

(* A GOP wherever the index has one, at the fourth record of its chunk.    *)
GopAt(nr) == [time_of_iframe |-> 10 * nr + 6, chunk |-> nr, rec |-> 4]
Gops(nrs) == [n \in DOMAIN nrs |-> GopAt(nrs[n])]
CutOut(from, to) == cutpoint_create_from_tyeditor_string(GopAt(from), GopAt(to))

Gaps(recorder, chunk) ==
    [series |-> recorder, index |-> <<>>, cuts |-> <<>>, gaps |-> TRUE, length |-> 5,
     shapes |-> chunk]

WithCuts(index, list) ==
    [series |-> "S1", index |-> Gops(index), cuts |-> list, gaps |-> FALSE, length |-> 8,
     shapes |-> {Good(<<"pes", "b", "more", "seq", "gop", "pes", "i", "sound">>),
                 Good(<<"sound", "pes", "b", "seq", "gop", "pes", "i">>),
                 Good(<<"more", "sound", "pes", "p", "pes", "b">>),
                 Good(<<"more", "sound">>)}]

(* One cut; two, in either order; the start and the end of the stream.     *)
Cuts == {WithCuts(<<1, 4>>, <<CutOut(1, 4)>>),
         WithCuts(<<1, 2, 4, 5>>, <<CutOut(1, 2), CutOut(4, 5)>>),
         WithCuts(<<1, 2, 4, 5>>, <<CutOut(4, 5), CutOut(1, 2)>>),
         WithCuts(<<0, 2, 4>>, <<CutOut(0, 2)>>),
         WithCuts(<<0, 1, 4>>, cut_point_add_ticks(<<>>, Gops(<<0, 1, 4>>), 10, 50))}

AllStreams == {Gaps("S1", S1Chunks), Gaps("S2", S2Chunks)} \cup Cuts

(* What the proofs about sound assume of the cuts.                         *)
ASSUME SpacedAssumption == \A s \in AllStreams : CutsSpaced(s)
=============================================================================

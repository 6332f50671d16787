--------------------------- MODULE MCVideoPasses ---------------------------
(* Small instances of VideoPasses: three GOPs of four pictures a round,    *)
(* and thresholds scaled down with them.                                   *)
EXTENDS VideoPasses

Pic(f) == [frame |-> f, seq |-> FALSE, close |-> FALSE]
SeqAt(f) == [frame |-> f, seq |-> TRUE, close |-> FALSE]
CutAt(f) == [frame |-> f, seq |-> TRUE, close |-> TRUE]

(* S1: the sequence header comes with the last picture of the GOP before;  *)
(* S2: with the I picture.                                                 *)
GopS1 == <<Pic("I"), Pic("P"), Pic("B"), SeqAt("B")>>
GopS2 == <<SeqAt("I"), Pic("P"), Pic("B"), Pic("B")>>

RegularRounds == [S1 |-> {GopS1 \o GopS1 \o GopS1}, S2 |-> {GopS2 \o GopS2 \o GopS2}]

(* A part of a GOP, a GOP without its I picture, one GOP, no picture at    *)
(* all, a cut.                                                             *)
SomeOddRounds ==
    [S1 |-> {<<Pic("I"), Pic("B")>>, <<Pic("P"), Pic("B"), SeqAt("B")>>, GopS1, <<>>,
             <<CutAt("I"), Pic("P"), Pic("B"), SeqAt("B")>>, <<CutAt("I"), Pic("P")>>},
     S2 |-> {<<SeqAt("I"), Pic("B")>>, <<SeqAt("P"), Pic("B"), Pic("B")>>, GopS2, <<>>,
             [i \in 1..8 |-> SeqAt("P")]}]

=============================================================================

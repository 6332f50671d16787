---------------------------- MODULE MCGopPasses -----------------------------
(* Recordings of a few GOPs with damage for GopPasses.                     *)
EXTENDS GopPasses

(* A GOP in the order it is coded.                                         *)
ClosedGop == <<<<"I", 0>>, <<"P", 3>>, <<"B", 1>>, <<"B", 2>>, <<"P", 6>>, <<"B", 4>>, <<"B", 5>>>>
OpenGop == <<<<"I", 2>>, <<"B", 0>>, <<"B", 1>>, <<"P", 5>>, <<"B", 3>>, <<"B", 4>>>>
LastGop == <<<<"I", 2>>, <<"B", 0>>, <<"B", 1>>>>

Shape(c) == <<IF c.closed THEN ClosedGop ELSE OpenGop>> \o [g \in 1..(c.gops - 1) |-> OpenGop]
            \o <<LastGop>>
First(c, g) == FoldLeft(LAMBDA n, s : n + Len(s), 0, SubSeq(Shape(c), 1, g - 1))

(* Two fields for each picture, or three and two in turn.                  *)
Repeats(c, n) == c.film /\ n % 2 = 0
Top(c, n) == ~c.film \/ n % 4 \in {0, 3}
FieldsBefore(c, n) == IF c.film THEN 2 * n + (n + 1) \div 2 ELSE 2 * n

Original(c) ==
    FoldLeft(LAMBDA l, g :
        l \o [k \in DOMAIN Shape(c)[g] |->
                LET r == Shape(c)[g][k][2]
                    n == First(c, g) + r IN
                [id |-> First(c, g) + k, type |-> Shape(c)[g][k][1],
                 head |-> IF k = 1 THEN "seq" ELSE "none", closed |-> (c.closed /\ g = 1),
                 ref |-> r, time |-> 100000 + (FieldsBefore(c, n) * FrameTick) \div 2,
                 top |-> Top(c, n), repeat |-> Repeats(c, n), three |-> FALSE, added |-> FALSE,
                 seq_added |-> FALSE, repaired |-> FALSE, drift |-> 0, tc |-> <<>>]],
        <<>>, [g \in 1..(c.gops + 1) |-> g])

(* What happened to a holder, if it is still there.                        *)
Exchanged(l, j) ==
    IF j = Len(l) \/ {l[j].head, l[j + 1].head} # {"none"} THEN l
    ELSE [l EXCEPT ![j] = l[j + 1], ![j + 1] = l[j]]

Damaged(l, d) ==
    LET j == Least({j \in DOMAIN l : l[j].id = d[2]}, 0) IN
    IF j = 0 THEN l
    ELSE CASE d[1] = "lost" -> RemoveAt(l, j)
           [] d[1] = "headless" -> [l EXCEPT ![j].head = "none"]
           [] d[1] = "seqless" -> [l EXCEPT ![j].head = "gop"]
           [] d[1] = "swapped" -> Exchanged(l, j)
           [] d[1] = "stray" -> [l EXCEPT ![j].ref = @ + 2 * StrayGap]
           [] d[1] = "jump" -> [k \in DOMAIN l |-> IF k < j THEN l[k]
                                                   ELSE [l[k] EXCEPT !.time = @ + d[3]]]
           [] OTHER -> [k \in DOMAIN l |-> IF k < j THEN l[k]
                                           ELSE [l[k] EXCEPT !.time = @ + 100000, !.repaired = (k = j),
                                                             !.drift = IF k = j THEN d[3] ELSE 0]]

MCStream(c) == FoldLeft(Damaged, Original(c), c.damage)

Heads(c) == {First(c, g) + 1 : g \in 1..c.gops}

(* Any of a recording's first pictures may be lost and so on.              *)
Some == 2..15
Lost == {<<"lost", k>> : k \in Some}
Strays == {<<"stray", k>> : k \in Some}
Swaps(c) == {<<"swapped", k>> : k \in Some \ Heads(c)}
Headers(c) == {<<d, k>> : d \in {"headless", "seqless"}, k \in Heads(c) \cap Some}
Jumps(c) == {<<"jump", k, t>> : k \in Heads(c) \cap Some, t \in {-6006, -1501, 1501, 3003, 9009, 12012, 18018}}
Cuts(c) == {<<"cut", k, t>> : k \in Heads(c) \cap Some, t \in {0, -3003, 3003}}
Events(c) == Lost \cup Strays \cup Swaps(c) \cup Headers(c) \cup Jumps(c) \cup Cuts(c)
With(film, closed, gops, damage) ==
    [film |-> film, closed |-> closed, gops |-> gops, damage |-> damage]
Singles(film, closed) ==
    LET c == With(film, closed, 6, <<>>) IN
    {c} \cup {[c EXCEPT !.damage = <<e>>] : e \in Events(c)}
(* Two mishaps in the first GOPs, or time that jumps twice.                *)
Pairs(damages, others, c) == {[c EXCEPT !.damage = <<a, b>>] : a \in damages, b \in others}
Doubles(closed) ==
    LET c == With(FALSE, closed, 4, <<>>)
        wrong == Lost \cup Swaps(c) \cup Headers(c) IN
    Pairs(Lost, wrong, c) \cup Pairs(wrong, Lost, c)
TwiceLate(film) ==
    LET c == With(film, FALSE, 6, <<>>) IN
    {d \in Pairs(Jumps(c), {<<"jump", k, t>> : k \in {13, 19}, t \in {-3003, -1501, 1501, 3003}}, c) :
        d.damage[1][2] # d.damage[2][2]}
MCCases ==
    UNION {Singles(film, closed) : film, closed \in BOOLEAN}
        \cup UNION {Doubles(closed) : closed \in BOOLEAN}
        \cup UNION {TwiceLate(film) : film \in BOOLEAN}
=============================================================================

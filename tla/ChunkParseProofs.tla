-------------------------- MODULE ChunkParseProofs --------------------------
(***************************************************************************)
(* What the holders that ChunkParse makes consist of, for every recording, *)
(* every list of cuts and every place where chunks are missing.            *)
(***************************************************************************)
EXTENDS ChunkParse, SequenceTheorems, WellFoundedInduction, TLAPS

-----------------------------------------------------------------------------
(* Induction and recursion up to N.                                        *)
LEMMA LeastNumber ==
    ASSUME NEW T, T \subseteq Nat, T # {}
    PROVE  \E x \in T : \A y \in T : x <= y
<1>1. IsWellFoundedOn(OpToRel(<, Nat), Nat)
  BY NatLessThanWellFounded
<1>2. PICK x \in T : \A y \in T : ~ (<<y, x>> \in OpToRel(<, Nat))
  BY <1>1, WFMin
<1>3. \A y \in T : ~(y < x)
  BY <1>2 DEF OpToRel
<1>4. QED
  BY <1>3

(* What holds of 0 and passes to every successor holds up to N.            *)
LEMMA Induction ==
    ASSUME NEW N \in Nat, NEW T, 0 \in T,
           \A i \in 0..(N - 1) : i \in T => i + 1 \in T
    PROVE  \A i \in 0..N : i \in T
<1> DEFINE U == {i \in 0..N : i \notin T}
<1>1. SUFFICES ASSUME U # {} PROVE FALSE
  OBVIOUS
<1>2. PICK x \in U : \A y \in U : x <= y
  <2>1. U \subseteq Nat
    OBVIOUS
  <2>2. QED
    BY <1>1, <2>1, LeastNumber
<1>3. x \in 0..N /\ x # 0
  BY <1>2
<1>4. x - 1 \in 0..(N - 1) /\ x - 1 \in T
  BY <1>2, <1>3
<1>5. QED
  BY <1>2, <1>3, <1>4

(* A recursive definition over 0..N has a function.                        *)
Recurses(f, N, a, step) ==
    f[0] = a /\ \A i \in 1..N : f[i] = step[i][f[i - 1]]

LEMMA Recursion ==
    ASSUME NEW N \in Nat, NEW S, NEW a \in S, NEW step \in [1..N -> [S -> S]]
    PROVE  \E f \in [0..N -> S] : Recurses(f, N, a, step)
<1> DEFINE T == {n \in 0..N : \E f \in [0..n -> S] : Recurses(f, n, a, step)}
<1>1. 0 \in T
  <2>1. [i \in 0..0 |-> a] \in [0..0 -> S] /\ Recurses([i \in 0..0 |-> a], 0, a, step)
    BY DEF Recurses
  <2>2. QED
    BY <2>1
<1>2. ASSUME NEW n \in 0..(N - 1), n \in T
      PROVE  n + 1 \in T
  <2>1. PICK f \in [0..n -> S] : Recurses(f, n, a, step)
    BY <1>2
  <2> DEFINE g == [i \in 0..(n + 1) |-> IF i = n + 1 THEN step[n + 1][f[n]] ELSE f[i]]
  <2>2. f[n] \in S /\ step[n + 1][f[n]] \in S
    BY <2>1
  <2>3. g \in [0..(n + 1) -> S]
    BY <2>1, <2>2
  <2>4. g[0] = a /\ \A i \in 1..(n + 1) : g[i] = step[i][g[i - 1]]
    BY <2>1 DEF Recurses
  <2>5. Recurses(g, n + 1, a, step)
    BY <2>4 DEF Recurses
  <2> HIDE DEF g
  <2>6. n + 1 \in 0..N
    OBVIOUS
  <2>7. QED
    BY <2>3, <2>5, <2>6
<1>3. N \in T
  <2> HIDE DEF T
  <2>1. \A n \in 0..(N - 1) : n \in T => n + 1 \in T
    BY <1>2
  <2>2. \A n \in 0..N : n \in T
    BY <1>1, <2>1, Induction
  <2>3. QED
    BY <2>2
<1>4. QED
  BY <1>3

-----------------------------------------------------------------------------
(* A sequence of sequences, one after the other.                           *)
Flattens(f, seqs) ==
    f[0] = <<>> /\ \A i \in 1..Len(seqs) : f[i] = f[i - 1] \o seqs[i]

(* FlattenSeq as a running concatenation.                                  *)
LEMMA FlattenSteps ==
    ASSUME NEW S, NEW seqs \in Seq(Seq(S))
    PROVE  \E f \in [0..Len(seqs) -> Seq(S)] :
              Flattens(f, seqs) /\ FlattenSeq(seqs) = f[Len(seqs)]
<1> DEFINE L == Len(seqs)
           step == [i \in 1..L |-> [s \in Seq(S) |-> s \o seqs[i]]]
           Running(h) == [i \in 1..L |-> IF i = 1 THEN seqs[i] ELSE h[i - 1] \o seqs[i]]
<1>1. L \in Nat /\ <<>> \in Seq(S) /\ \A i \in 1..L : seqs[i] \in Seq(S)
  OBVIOUS
<1>2. step \in [1..L -> [Seq(S) -> Seq(S)]]
  BY <1>1
<1>3. PICK f \in [0..L -> Seq(S)] : Recurses(f, L, <<>>, step)
  <2> HIDE DEF step, L
  <2>1. QED
    BY <1>1, <1>2, Recursion, Zenon
<1>4. \A i \in 1..L : f[i] = f[i - 1] \o seqs[i] /\ f[i] \in Seq(S) /\ f[i - 1] \in Seq(S)
  <2>1. \A i \in 1..L : f[i] = step[i][f[i - 1]]
    <3> HIDE DEF step, L
    <3>1. QED
      BY <1>3 DEF Recurses
  <2>2. ASSUME NEW i \in 1..L PROVE f[i - 1] \in Seq(S) /\ f[i] \in Seq(S)
    <3>1. i - 1 \in 0..L /\ i \in 0..L
      BY <1>1
    <3> HIDE DEF L
    <3>2. QED
      BY <1>3, <3>1
  <2>3. ASSUME NEW i \in 1..L PROVE step[i][f[i - 1]] = f[i - 1] \o seqs[i]
    BY <2>2
  <2>4. QED
    BY <2>1, <2>2, <2>3
<1>5. f[0] = <<>>
  <2> HIDE DEF step, L
  <2>1. QED
    BY <1>3 DEF Recurses
<1>6. f[1] = seqs[1] \/ L = 0
  <2>1. CASE L # 0
    <3>1. 1 \in 1..L
      BY <1>1, <2>1
    <3>2. f[1] = f[1 - 1] \o seqs[1] /\ seqs[1] \in Seq(S)
      BY <1>1, <1>4, <3>1
    <3>3. 1 - 1 = 0
      OBVIOUS
    <3>4. f[1] = <<>> \o seqs[1]
      BY <1>5, <3>2, <3>3, Zenon
    <3>5. QED
      BY <3>2, <3>4
  <2>2. QED
    BY <2>1
<1> DEFINE g == [i \in 1..L |-> f[i]]
<1> HIDE DEF L
<1>7. g = Running(g)
  <2>1. ASSUME NEW i \in 1..L PROVE g[i] = Running(g)[i]
    <3>1. CASE i = 1
      BY <1>1, <1>6, <3>1
    <3>2. CASE i # 1
      <4>1. i - 1 \in 1..L /\ g[i - 1] = f[i - 1] /\ g[i] = f[i]
        BY <1>1, <3>2
      <4>2. QED
        BY <1>4, <3>2, <4>1
    <3>3. QED
      BY <3>1, <3>2
  <2>2. QED
    BY <2>1
<1> DEFINE h == CHOOSE k : k = Running(k)
<1>8. h = Running(h)
  <2> HIDE DEF g
  <2>1. QED
    BY <1>7
<1>9. FlattenSeq(seqs) = IF L = 0 THEN seqs ELSE h[L]
  BY DEF FlattenSeq, L
<1> HIDE DEF h
<1>10. \A i \in 1..L : h[i] = f[i]
  <2> DEFINE T == {i \in 0..L : i = 0 \/ h[i] = f[i]}
  <2>1. 0 \in T
    BY <1>1
  <2>2. ASSUME NEW i \in 0..(L - 1), i \in T PROVE i + 1 \in T
    <3>1. i + 1 \in 1..L /\ (i + 1) - 1 = i
      BY <1>1
    <3>2. h[i + 1] = IF i + 1 = 1 THEN seqs[i + 1] ELSE h[(i + 1) - 1] \o seqs[i + 1]
      BY <1>8, <3>1
    <3>3. f[i + 1] = f[(i + 1) - 1] \o seqs[i + 1]
      BY <1>4, <3>1
    <3>4. CASE i = 0
      BY <1>1, <1>6, <3>1, <3>2, <3>4
    <3>5. CASE i # 0
      <4>1. h[i] = f[i] /\ i + 1 # 1
        BY <2>2, <3>5
      <4>2. h[i + 1] = f[i] \o seqs[i + 1]
        BY <3>1, <3>2, <4>1
      <4>3. f[i + 1] = f[i] \o seqs[i + 1]
        BY <3>1, <3>3
      <4>4. h[i + 1] = f[i + 1]
        BY <4>2, <4>3, Zenon
      <4>5. QED
        BY <3>1, <4>4
    <3>6. QED
      BY <3>4, <3>5
  <2> HIDE DEF T
  <2>3. \A i \in 0..L : i \in T
    <3>1. \A i \in 0..(L - 1) : i \in T => i + 1 \in T
      BY <2>2
    <3>2. QED
      BY <1>1, <2>1, <3>1, Induction
  <2>4. QED
    BY <1>1, <2>3 DEF T
<1>11. FlattenSeq(seqs) = f[L]
  <2>1. CASE L = 0
    BY <1>5, <1>9, <2>1 DEF L
  <2>2. CASE L # 0
    BY <1>1, <1>9, <1>10, <2>2
  <2>3. QED
    BY <2>1, <2>2
<1>12. Flattens(f, seqs)
  BY <1>4, <1>5 DEF Flattens, L
<1>13. QED
  BY <1>3, <1>11, <1>12 DEF L

(* Where the elements of the sequences are in their concatenation: each    *)
(* comes once, in the order of the sequences and then of the positions.    *)
Spots(whole, seqs, n, at, pos) ==
    /\ \A m \in 1..Len(whole) :
        /\ at[m] \in 1..n /\ pos[m] \in 1..Len(seqs[at[m]])
        /\ whole[m] = seqs[at[m]][pos[m]]
        /\ at[m] = 1 => pos[m] = m
    /\ \A m1, m2 \in 1..Len(whole) :
        m1 < m2 => at[m1] < at[m2] \/ (at[m1] = at[m2] /\ pos[m1] < pos[m2])
    /\ \A k \in 1..n : \A j \in 1..Len(seqs[k]) :
        \E m \in 1..Len(whole) : at[m] = k /\ pos[m] = j

LEMMA SpotsStep ==
    ASSUME NEW S, NEW seqs \in Seq(Seq(S)), NEW n \in 0..(Len(seqs) - 1),
           NEW whole \in Seq(S),
           NEW at \in [1..Len(whole) -> Nat], NEW pos \in [1..Len(whole) -> Nat],
           Spots(whole, seqs, n, at, pos), n = 0 => whole = <<>>
    PROVE  \E at2, pos2 \in [1..Len(whole \o seqs[n + 1]) -> Nat] :
              Spots(whole \o seqs[n + 1], seqs, n + 1, at2, pos2)
<1> DEFINE t == seqs[n + 1]
           W == Len(whole)
           new == whole \o t
           at2 == [m \in 1..Len(new) |-> IF m <= W THEN at[m] ELSE n + 1]
           pos2 == [m \in 1..Len(new) |-> IF m <= W THEN pos[m] ELSE m - W]
<1>1. n + 1 \in 1..Len(seqs) /\ t \in Seq(S) /\ Len(t) \in Nat /\ W \in Nat /\ n \in Nat
  OBVIOUS
<1>2. /\ Len(new) = W + Len(t)
      /\ \A m \in 1..(W + Len(t)) : new[m] = IF m <= W THEN whole[m] ELSE t[m - W]
  <2> HIDE DEF t
  <2>1. QED
    BY <1>1, ConcatProperties
<1> HIDE DEF new
<1>3. at2 \in [1..Len(new) -> Nat] /\ pos2 \in [1..Len(new) -> Nat]
  <2>1. ASSUME NEW m \in 1..Len(new) PROVE at2[m] \in Nat /\ pos2[m] \in Nat
    <3> HIDE DEF t
    <3>1. CASE m <= W
      <4>1. m \in 1..W
        BY <1>1, <1>2, <3>1
      <4>2. QED
        BY <3>1, <4>1
    <3>2. CASE ~(m <= W)
      <4>1. m - W \in Nat /\ n + 1 \in Nat
        BY <1>1, <1>2, <3>2
      <4>2. QED
        BY <3>2, <4>1
    <3>3. QED
      BY <3>1, <3>2
  <2>2. QED
    BY <2>1
<1>4. \A m \in 1..Len(new) :
        /\ at2[m] = IF m <= W THEN at[m] ELSE n + 1
        /\ pos2[m] = IF m <= W THEN pos[m] ELSE m - W
  OBVIOUS
<1> HIDE DEF at2, pos2, t
<1>5. ASSUME NEW m \in 1..W
      PROVE  /\ at[m] \in 1..n /\ pos[m] \in 1..Len(seqs[at[m]])
             /\ whole[m] = seqs[at[m]][pos[m]]
             /\ at[m] = 1 => pos[m] = m
  BY DEF Spots
<1>6. ASSUME NEW m \in 1..Len(new)
      PROVE  /\ at2[m] \in 1..(n + 1) /\ pos2[m] \in 1..Len(seqs[at2[m]])
             /\ new[m] = seqs[at2[m]][pos2[m]]
             /\ at2[m] = 1 => pos2[m] = m
  <2>1. CASE m <= W
    <3>1. m \in 1..W /\ at2[m] = at[m] /\ pos2[m] = pos[m] /\ new[m] = whole[m]
      BY <1>1, <1>2, <1>4, <2>1
    <3>2. QED
      BY <1>1, <1>5, <3>1
  <2>2. CASE ~(m <= W)
    <3>1. at2[m] = n + 1 /\ pos2[m] = m - W /\ new[m] = t[m - W] /\ m - W \in 1..Len(t)
      BY <1>1, <1>2, <1>4, <2>2
    <3>2. n = 0 => W = 0
      OBVIOUS
    <3>3. at2[m] = 1 => pos2[m] = m
      BY <1>1, <3>1, <3>2
    <3>4. QED
      BY <1>1, <3>1, <3>3 DEF t
  <2>3. QED
    BY <2>1, <2>2
<1>7. ASSUME NEW m1 \in 1..Len(new), NEW m2 \in 1..Len(new), m1 < m2
      PROVE  at2[m1] < at2[m2] \/ (at2[m1] = at2[m2] /\ pos2[m1] < pos2[m2])
  <2>1. CASE m2 <= W
    <3>1. m1 \in 1..W /\ m2 \in 1..W
      BY <1>1, <1>2, <1>7, <2>1
    <3>2. at[m1] < at[m2] \/ (at[m1] = at[m2] /\ pos[m1] < pos[m2])
      BY <1>7, <3>1 DEF Spots
    <3>3. QED
      BY <1>1, <1>4, <3>1, <3>2
  <2>2. CASE m1 <= W /\ ~(m2 <= W)
    <3>1. m1 \in 1..W
      BY <1>1, <1>2, <2>2
    <3>2. at2[m1] = at[m1] /\ at2[m2] = n + 1
      BY <1>4, <2>2
    <3>3. at[m1] \in 1..n
      BY <1>5, <3>1
    <3>4. QED
      BY <1>1, <3>2, <3>3
  <2>3. CASE ~(m1 <= W)
    <3>1. m1 \in Int /\ m2 \in Int /\ ~(m2 <= W)
      BY <1>1, <1>2, <1>7, <2>3
    <3>2. at2[m1] = n + 1 /\ at2[m2] = n + 1 /\ pos2[m1] = m1 - W /\ pos2[m2] = m2 - W
      BY <1>4, <2>3, <3>1
    <3>3. QED
      BY <1>1, <1>7, <3>1, <3>2
  <2>4. QED
    BY <2>1, <2>2, <2>3
<1>8. ASSUME NEW k \in 1..(n + 1), NEW j \in 1..Len(seqs[k])
      PROVE  \E m \in 1..Len(new) : at2[m] = k /\ pos2[m] = j
  <2>1. CASE k = n + 1
    <3>1. j \in 1..Len(t)
      BY <2>1 DEF t
    <3>2. W + j \in 1..Len(new) /\ ~(W + j <= W) /\ (W + j) - W = j
      BY <1>1, <1>2, <3>1
    <3>3. QED
      BY <1>4, <2>1, <3>2
  <2>2. CASE k # n + 1
    <3>1. k \in 1..n
      BY <1>1, <2>2
    <3>2. PICK m \in 1..W : at[m] = k /\ pos[m] = j
      BY <3>1 DEF Spots
    <3>3. m \in 1..Len(new) /\ m <= W
      BY <1>1, <1>2
    <3>4. QED
      BY <1>4, <3>2, <3>3
  <2>3. QED
    BY <2>1, <2>2
<1>9. Spots(new, seqs, n + 1, at2, pos2)
  BY <1>6, <1>7, <1>8 DEF Spots
<1>10. QED
  BY <1>3, <1>9 DEF new, t

LEMMA FlattenSpots ==
    ASSUME NEW S, NEW seqs \in Seq(Seq(S))
    PROVE  /\ FlattenSeq(seqs) \in Seq(S)
           /\ \E at, pos \in [1..Len(FlattenSeq(seqs)) -> Nat] :
                Spots(FlattenSeq(seqs), seqs, Len(seqs), at, pos)
<1> DEFINE L == Len(seqs)
<1>1. PICK f \in [0..L -> Seq(S)] : Flattens(f, seqs) /\ FlattenSeq(seqs) = f[L]
  BY FlattenSteps
<1>2. L \in Nat /\ f[L] \in Seq(S) /\ f[0] = <<>>
  BY <1>1 DEF Flattens
<1> DEFINE T == {n \in 0..L : \E at, pos \in [1..Len(f[n]) -> Nat] : Spots(f[n], seqs, n, at, pos)}
<1>3. 0 \in T
  <2> DEFINE e == [m \in 1..0 |-> 0]
  <2>1. Len(f[0]) = 0
    BY <1>2
  <2>2. e \in [1..Len(f[0]) -> Nat]
    BY <2>1
  <2>3. Spots(f[0], seqs, 0, e, e)
    BY <2>1 DEF Spots
  <2>4. 0 \in 0..L
    BY <1>2
  <2> HIDE DEF e
  <2>5. QED
    BY <2>2, <2>3, <2>4
<1>4. ASSUME NEW n \in 0..(L - 1), n \in T PROVE n + 1 \in T
  <2>1. n \in 0..L /\ n + 1 \in 1..L /\ (n + 1) - 1 = n /\ f[n] \in Seq(S)
    <3>1. n \in 0..L /\ n + 1 \in 1..L /\ (n + 1) - 1 = n
      BY <1>2
    <3> HIDE DEF L
    <3>2. QED
      BY <1>1, <3>1
  <2>2. PICK at, pos \in [1..Len(f[n]) -> Nat] : Spots(f[n], seqs, n, at, pos)
    BY <1>4
  <2>3. f[n + 1] = f[n] \o seqs[n + 1]
    <3>1. f[n + 1] = f[(n + 1) - 1] \o seqs[n + 1]
      BY <1>1, <2>1 DEF Flattens
    <3>2. QED
      BY <2>1, <3>1
  <2>4. n = 0 => f[n] = <<>>
    <3>1. f[0] = <<>>
      BY <1>2
    <3>2. QED
      BY <3>1, Zenon
  <2>5. \E at2, pos2 \in [1..Len(f[n] \o seqs[n + 1]) -> Nat] :
            Spots(f[n] \o seqs[n + 1], seqs, n + 1, at2, pos2)
    BY <2>1, <2>2, <2>4, SpotsStep
  <2>6. \E at2, pos2 \in [1..Len(f[n + 1]) -> Nat] : Spots(f[n + 1], seqs, n + 1, at2, pos2)
    BY <2>3, <2>5, Zenon
  <2>7. n + 1 \in 0..L
    BY <2>1
  <2>8. QED
    BY <2>6, <2>7
<1>5. L \in T
  <2> HIDE DEF T
  <2>1. \A n \in 0..(L - 1) : n \in T => n + 1 \in T
    BY <1>4
  <2>2. \A n \in 0..L : n \in T
    <3> HIDE DEF L
    <3>1. QED
      BY <1>2, <1>3, <2>1, Induction
  <2>3. QED
    BY <1>2, <2>2
<1>6. QED
  BY <1>1, <1>2, <1>5

-----------------------------------------------------------------------------
(* What can be read from a chunk on: the records of the chunks that are    *)
(* read, in the order of the recording.                                    *)
Kinds == {"pes", "seq", "gop", "i", "p", "b", "more", "data", "sound"}
Chunk == [nr : Nat, recs : Seq(Record), gap : BOOLEAN]
Located1 == [kind : Kinds, ok : BOOLEAN, nr : Nat, rec : Nat, time : Int]

Rising(list) == \A k, m \in 1..Len(list) : k < m => list[k].nr < list[m].nr

(* Each record of flow is one of the chunks that are read.                 *)
ReadFrom(list, flow) ==
    \A m \in 1..Len(flow) : \E k \in 1..Reach(list) :
        /\ flow[m].nr = list[k].nr /\ flow[m].rec \in 1..Len(list[k].recs)
        /\ flow[m].kind = list[k].recs[flow[m].rec].kind
        /\ k = 1 => flow[m].rec = m

(* All records of these chunks are there.                                  *)
ReadAll(list, flow) ==
    \A k \in 1..Reach(list) : \A i \in 1..Len(list[k].recs) :
        \E m \in 1..Len(flow) :
            /\ flow[m].nr = list[k].nr /\ flow[m].rec = i
            /\ flow[m].kind = list[k].recs[i].kind

InOrder(flow) ==
    \A m1, m2 \in 1..Len(flow) : m1 < m2 => Earlier(flow[m1], flow[m2])

(* The records of the first chunk come first.                              *)
OwnFirst(list, flow) ==
    /\ Len(list[1].recs) <= Len(flow)
    /\ \A m \in 1..Len(flow) :
        flow[m].nr = list[1].nr <=> m <= Len(list[1].recs)

FlowIs(list, flow) ==
    /\ flow \in Seq(Located1) /\ ReadFrom(list, flow) /\ ReadAll(list, flow)
    /\ InOrder(flow) /\ OwnFirst(list, flow)

LEMMA ReachIs ==
    ASSUME NEW list \in Seq(Chunk), list # <<>>
    PROVE  Reach(list) \in 1..Len(list) /\ \A k \in 2..Reach(list) : ~list[k].gap
<1> DEFINE gaps == {k \in 2..Len(list) : list[k].gap}
           first == CHOOSE k \in gaps : \A m \in gaps : k <= m
<1>1. Len(list) \in Nat /\ Len(list) >= 1
  OBVIOUS
<1>2. Reach(list) = IF gaps = {} THEN Len(list) ELSE first - 1
  BY DEF Reach
<1>3. CASE gaps = {}
  <2>1. Reach(list) = Len(list)
    BY <1>2, <1>3
  <2>2. \A k \in 2..Len(list) : ~list[k].gap
    BY <1>3
  <2>3. QED
    BY <1>1, <2>1, <2>2
<1>4. CASE gaps # {}
  <2>1. gaps \subseteq Nat
    BY <1>1
  <2>2. \E x \in gaps : \A y \in gaps : x <= y
    <3> HIDE DEF gaps
    <3>1. QED
      BY <1>4, <2>1, LeastNumber
  <2>3. first \in gaps /\ \A m \in gaps : first <= m
    <3> HIDE DEF gaps
    <3>1. QED
      BY <2>2
  <2> HIDE DEF first
  <2>4. Reach(list) = first - 1
    BY <1>2, <1>4
  <2>5. first \in 2..Len(list)
    BY <2>3
  <2>6. ASSUME NEW k \in 2..(first - 1) PROVE ~list[k].gap
    <3>1. k \in 2..Len(list) /\ ~(first <= k)
      BY <1>1, <2>5
    <3>2. k \notin gaps
      BY <2>3, <3>1
    <3>3. QED
      BY <3>1, <3>2
  <2>7. QED
    BY <1>1, <2>4, <2>5, <2>6
<1>5. QED
  BY <1>3, <1>4

LEMMA LocatedIs ==
    ASSUME NEW chunk \in Chunk
    PROVE  /\ Located(chunk) \in Seq(Located1) /\ Len(Located(chunk)) = Len(chunk.recs)
           /\ \A i \in 1..Len(chunk.recs) :
                /\ Located(chunk)[i].nr = chunk.nr /\ Located(chunk)[i].rec = i
                /\ Located(chunk)[i].kind = chunk.recs[i].kind
<1>1. chunk.recs \in Seq(Record) /\ chunk.nr \in Nat /\ TicksPerChunk \in Nat
  BY ParseAssumption DEF Chunk
<1>2. Len(chunk.recs) \in Nat /\ DOMAIN chunk.recs = 1..Len(chunk.recs)
  BY <1>1
<1> DEFINE Of(i) == [kind |-> chunk.recs[i].kind, ok |-> chunk.recs[i].ok, nr |-> chunk.nr,
                     rec |-> i, time |-> TicksPerChunk * chunk.nr + i]
<1>3. ASSUME NEW i \in 1..Len(chunk.recs) PROVE Of(i) \in Located1
  <2>1. chunk.recs[i] \in Record
    BY <1>1
  <2>2. chunk.recs[i].kind \in Kinds /\ chunk.recs[i].ok \in BOOLEAN
    BY <2>1 DEF Record, Kinds
  <2>3. TicksPerChunk * chunk.nr \in Nat
    BY <1>1
  <2>4. TicksPerChunk * chunk.nr + i \in Int /\ i \in Nat
    BY <1>2, <2>3
  <2>5. QED
    BY <1>1, <2>2, <2>4 DEF Located1
<1>4. Located(chunk) = [i \in 1..Len(chunk.recs) |-> Of(i)]
  BY <1>2 DEF Located
<1>5. \A i \in 1..Len(chunk.recs) : Located(chunk)[i] = Of(i)
  BY <1>4
<1>6. Located(chunk) \in [1..Len(chunk.recs) -> Located1]
  <2> HIDE DEF Of
  <2>1. QED
    BY <1>3, <1>4
<1>7. Located(chunk) \in Seq(Located1) /\ Len(Located(chunk)) = Len(chunk.recs)
  BY <1>2, <1>6
<1>8. ASSUME NEW i \in 1..Len(chunk.recs)
      PROVE  /\ Located(chunk)[i].nr = chunk.nr /\ Located(chunk)[i].rec = i
             /\ Located(chunk)[i].kind = chunk.recs[i].kind
  <2>1. Located(chunk)[i] = Of(i)
    BY <1>5
  <2>2. QED
    BY <2>1
<1> HIDE DEF Of
<1>9. QED
  BY <1>7, <1>8

LEMMA FlowFacts ==
    ASSUME NEW list \in Seq(Chunk), list # <<>>, Rising(list)
    PROVE  FlowIs(list, Flow(list))
<1> DEFINE R == Reach(list)
           seqs == [k \in 1..R |-> Located(list[k])]
           flow == Flow(list)
<1>1. R \in 1..Len(list) /\ Len(list) \in Nat /\ R \in Nat
  BY ReachIs
<1> HIDE DEF R
<1>2. ASSUME NEW k \in 1..R
      PROVE  /\ list[k] \in Chunk /\ k \in 1..Len(list) /\ seqs[k] = Located(list[k])
             /\ seqs[k] \in Seq(Located1) /\ Len(seqs[k]) = Len(list[k].recs)
             /\ \A i \in 1..Len(seqs[k]) :
                /\ seqs[k][i].nr = list[k].nr /\ seqs[k][i].rec = i
                /\ seqs[k][i].kind = list[k].recs[i].kind
  <2>1. k \in 1..Len(list)
    BY <1>1
  <2>2. list[k] \in Chunk
    BY <2>1
  <2>3. seqs[k] = Located(list[k])
    OBVIOUS
  <2>4. QED
    BY <2>1, <2>2, <2>3, LocatedIs
<1>3. seqs \in Seq(Seq(Located1)) /\ Len(seqs) = R
  <2>1. seqs \in [1..R -> Seq(Located1)]
    BY <1>2
  <2>2. QED
    BY <1>1, <2>1
<1>4. flow = FlattenSeq(seqs)
  BY DEF Flow, R
<1> HIDE DEF seqs, flow
<1>5. flow \in Seq(Located1) /\ Len(flow) \in Nat
  BY <1>3, <1>4, FlattenSpots
<1>6. PICK at, pos \in [1..Len(flow) -> Nat] : Spots(flow, seqs, R, at, pos)
  <2>1. \E at, pos \in [1..Len(FlattenSeq(seqs)) -> Nat] :
                Spots(FlattenSeq(seqs), seqs, Len(seqs), at, pos)
    BY <1>3, FlattenSpots
  <2>2. QED
    BY <1>3, <1>4, <2>1
<1>7. ASSUME NEW m \in 1..Len(flow)
      PROVE  /\ at[m] \in 1..R /\ at[m] \in 1..Len(list) /\ pos[m] \in 1..Len(list[at[m]].recs)
             /\ flow[m].nr = list[at[m]].nr /\ flow[m].rec = pos[m]
             /\ flow[m].kind = list[at[m]].recs[pos[m]].kind
             /\ at[m] = 1 => pos[m] = m
  <2>1. at[m] \in 1..R /\ pos[m] \in 1..Len(seqs[at[m]]) /\ flow[m] = seqs[at[m]][pos[m]]
        /\ (at[m] = 1 => pos[m] = m)
    BY <1>6 DEF Spots
  <2>2. PICK k \in 1..R : k = at[m]
    BY <2>1
  <2>3. QED
    BY <1>2, <2>1, <2>2
<1>8. ReadFrom(list, flow)
  BY <1>7 DEF ReadFrom, R
<1>9. ReadAll(list, flow)
  <2>1. ASSUME NEW k \in 1..R, NEW i \in 1..Len(list[k].recs)
        PROVE  \E m \in 1..Len(flow) : /\ flow[m].nr = list[k].nr /\ flow[m].rec = i
                                       /\ flow[m].kind = list[k].recs[i].kind
    <3>1. i \in 1..Len(seqs[k])
      BY <1>2
    <3>2. PICK m \in 1..Len(flow) : at[m] = k /\ pos[m] = i
      BY <1>6, <3>1 DEF Spots
    <3>3. QED
      BY <1>7, <3>2
  <2>2. QED
    BY <2>1 DEF ReadAll, R
<1>10. InOrder(flow)
  <2>1. ASSUME NEW m1 \in 1..Len(flow), NEW m2 \in 1..Len(flow), m1 < m2
        PROVE  Earlier(flow[m1], flow[m2])
    <3>1. at[m1] < at[m2] \/ (at[m1] = at[m2] /\ pos[m1] < pos[m2])
      BY <1>6, <2>1 DEF Spots
    <3>2. /\ flow[m1].nr = list[at[m1]].nr /\ flow[m1].rec = pos[m1] /\ at[m1] \in 1..Len(list)
          /\ flow[m2].nr = list[at[m2]].nr /\ flow[m2].rec = pos[m2] /\ at[m2] \in 1..Len(list)
      BY <1>7
    <3>3. at[m1] < at[m2] => list[at[m1]].nr < list[at[m2]].nr
      BY <3>2 DEF Rising
    <3>4. QED
      BY <3>1, <3>2, <3>3 DEF Earlier
  <2>2. QED
    BY <2>1 DEF InOrder
<1>11. OwnFirst(list, flow)
  <2> DEFINE L == Len(list[1].recs)
  <2>1. 1 \in 1..R /\ 1 \in 1..Len(list)
    BY <1>1
  <2>2. L \in Nat /\ L = Len(seqs[1])
    <3>1. list[1] \in Chunk /\ Len(seqs[1]) = L
      BY <1>2, <2>1
    <3>2. list[1].recs \in Seq(Record)
      BY <3>1 DEF Chunk
    <3>3. QED
      BY <3>1, <3>2
  <2>3. ASSUME NEW i \in 1..L PROVE i \in 1..Len(flow) /\ at[i] = 1
    <3>1. i \in 1..Len(seqs[1])
      BY <2>2
    <3>2. PICK m \in 1..Len(flow) : at[m] = 1 /\ pos[m] = i
      BY <1>6, <2>1, <3>1 DEF Spots
    <3>3. pos[m] = m
      BY <1>7, <3>2
    <3>4. QED
      BY <3>2, <3>3
  <2>4. L <= Len(flow)
    <3>1. CASE L = 0
      BY <1>5, <3>1
    <3>2. CASE L # 0
      <4>1. L \in 1..L
        BY <2>2, <3>2
      <4>2. L \in 1..Len(flow)
        BY <2>3, <4>1
      <4>3. QED
        BY <1>5, <4>2
    <3>3. QED
      BY <3>1, <3>2
  <2>5. ASSUME NEW m \in 1..Len(flow) PROVE flow[m].nr = list[1].nr <=> m <= L
    <3>1. at[m] \in 1..Len(list) /\ flow[m].nr = list[at[m]].nr
          /\ pos[m] \in 1..Len(list[at[m]].recs) /\ (at[m] = 1 => pos[m] = m)
      BY <1>7
    <3>2. at[m] # 1 => list[1].nr < list[at[m]].nr
      <4>1. at[m] # 1 => 1 < at[m]
        BY <3>1
      <4>2. QED
        BY <2>1, <3>1, <4>1 DEF Rising
    <3>3. list[1].nr \in Nat /\ list[at[m]].nr \in Nat
      <4>1. list[1] \in Chunk /\ list[at[m]] \in Chunk
        BY <2>1, <3>1
      <4>2. QED
        BY <4>1 DEF Chunk
    <3>4. flow[m].nr = list[1].nr <=> at[m] = 1
      BY <3>1, <3>2, <3>3
    <3>5. at[m] = 1 => m <= L
      <4>1. at[m] = 1 => pos[m] = m /\ pos[m] \in 1..L
        BY <3>1
      <4>2. QED
        BY <2>2, <4>1
    <3>6. m <= L => at[m] = 1
      <4>1. m <= L => m \in 1..L
        BY <1>5, <2>2
      <4>2. QED
        BY <2>3, <4>1
    <3>7. QED
      BY <3>4, <3>5, <3>6
  <2>6. QED
    BY <2>4, <2>5 DEF OwnFirst
<1>12. QED
  BY <1>5, <1>8, <1>9, <1>10, <1>11 DEF FlowIs, flow

-----------------------------------------------------------------------------
(* The holders of one start.                                               *)
VideoHolder ==
    [nr : Nat, time : Int, gap : 0..2, seq : BOOLEAN, gop : BOOLEAN, i : BOOLEAN,
     repaired : BOOLEAN, drift : Int, places : SUBSET [nr : Nat, rec : Nat]]

PlacesInOrder(list) ==
    \A k1, k2 \in 1..Len(list) :
        k1 < k2 => \A p \in list[k1].places : \A q \in list[k2].places : Earlier(p, q)

(* end is the first record of a kind behind j, or 0.                       *)
LEMMA NextOfIs ==
    ASSUME NEW flow, NEW kinds, NEW j \in Nat, NEW seen, seen \subseteq Nat
    PROVE  LET end == NextOf(flow, kinds, j, seen) IN
           \/ end = 0 /\ \A m \in seen : m > j => flow[m].kind \notin kinds
           \/ /\ end \in seen /\ end > j /\ flow[end].kind \in kinds
              /\ \A m \in seen : m > j /\ flow[m].kind \in kinds => end <= m
<1> DEFINE there == {m \in seen : m > j /\ flow[m].kind \in kinds}
           end == NextOf(flow, kinds, j, seen)
<1>1. end = IF there = {} THEN 0 ELSE CHOOSE m \in there : \A k \in there : m <= k
  BY DEF NextOf
<1>2. CASE there = {}
  BY <1>1, <1>2
<1>3. CASE there # {}
  <2>1. there \subseteq Nat
    OBVIOUS
  <2>2. \E x \in there : \A y \in there : x <= y
    <3> HIDE DEF there
    <3>1. QED
      BY <1>3, <2>1, LeastNumber
  <2>3. end \in there /\ \A k \in there : end <= k
    <3> HIDE DEF there
    <3>1. end = CHOOSE m \in there : \A k \in there : m <= k
      BY <1>1, <1>3
    <3> HIDE DEF end
    <3>2. QED
      BY <2>2, <3>1
  <2> HIDE DEF end
  <2>4. QED
    BY <2>3 DEF end
<1>4. QED
  BY <1>2, <1>3

LEMMA SeenIs ==
    ASSUME NEW flow \in Seq(Located1), NEW limit
    PROVE  Seen(flow, limit) \subseteq 1..Len(flow) /\ Seen(flow, limit) \subseteq Nat
BY DEF Seen

(* What belongs to a start lies behind it, and in front of the next one.   *)
LEMMA BodyIs ==
    ASSUME NEW flow \in Seq(Located1), NEW limit, NEW j \in 1..Len(flow)
    PROVE  /\ Body(flow, limit, j) \subseteq Seen(flow, limit)
           /\ Body(flow, limit, j) \subseteq 1..Len(flow)
           /\ \A m \in Body(flow, limit, j) : j < m
           /\ HolderEnd(flow, limit, j) # 0 =>
                \A m \in Body(flow, limit, j) : m < HolderEnd(flow, limit, j)
           /\ HolderEnd(flow, limit, j) # 0 =>
                \A m \in Seen(flow, limit) :
                    m > j /\ flow[m].kind \in Starts => HolderEnd(flow, limit, j) <= m
           /\ HolderEnd(flow, limit, j) # 0 => j < HolderEnd(flow, limit, j)
           /\ HolderEnd(flow, limit, j) \in 0..Len(flow)
<1> DEFINE end == HolderEnd(flow, limit, j)
           last == IF end = 0 THEN Len(flow) ELSE end - 1
<1>1. /\ Seen(flow, limit) \subseteq 1..Len(flow) /\ Seen(flow, limit) \subseteq Nat
      /\ j \in Nat /\ Len(flow) \in Nat
  BY SeenIs
<1>2. \/ end = 0
      \/ /\ end \in Seen(flow, limit) /\ end > j
         /\ \A m \in Seen(flow, limit) : m > j /\ flow[m].kind \in Starts => end <= m
  <2> DEFINE next == NextOf(flow, Starts, j, Seen(flow, limit))
  <2>1. \/ next = 0 /\ \A m \in Seen(flow, limit) : m > j => flow[m].kind \notin Starts
        \/ /\ next \in Seen(flow, limit) /\ next > j /\ flow[next].kind \in Starts
           /\ \A m \in Seen(flow, limit) : m > j /\ flow[m].kind \in Starts => next <= m
    BY <1>1, NextOfIs
  <2>2. next = end
    BY DEF HolderEnd
  <2> HIDE DEF next, end
  <2>3. QED
    BY <2>1, <2>2
<1>3. Body(flow, limit, j) \subseteq Seen(flow, limit) \cap ((j + 1)..last)
  BY DEF Body
<1> HIDE DEF end
<1>4. end \in 0..Len(flow)
  BY <1>1, <1>2
<1>5. last \in Int /\ (end # 0 => last = end - 1)
  BY <1>1, <1>4
<1> HIDE DEF last
<1>6. \A m \in Body(flow, limit, j) : m \in Seen(flow, limit) /\ m \in (j + 1)..last
  BY <1>3
<1>7. \A m \in Body(flow, limit, j) : j < m /\ (end # 0 => m < end)
  BY <1>1, <1>4, <1>5, <1>6
<1>8. QED
  BY <1>1, <1>2, <1>4, <1>6, <1>7 DEF end

(* h starts with a record and has the records of parts.                    *)
HasParts(h, flow, parts, start, gap, restart) ==
    /\ h \in VideoHolder
    /\ h.nr = flow[start].nr /\ h.gap = gap /\ h.repaired = restart
    /\ \A p \in h.places : \E m \in parts : p = Place(flow, m)

LEMMA HolderIs ==
    ASSUME NEW flow \in Seq(Located1), NEW parts, parts \subseteq 1..Len(flow),
           NEW start \in 1..Len(flow), NEW gap \in 0..2, NEW restart \in BOOLEAN,
           NEW extra \in BOOLEAN
    PROVE  /\ HasParts(HolderOf(flow, parts, start, gap, restart, extra),
                       flow, parts, start, gap, restart)
           /\ HasParts([HolderOf(flow, parts, start, gap, restart, extra) EXCEPT !.time = 0],
                       flow, parts, start, gap, restart)
<1> DEFINE Has(kind) == \E m \in parts : flow[m].kind = kind
           places == {Place(flow, m) : m \in parts}
           s == extra \/ Has("seq")
           g == extra \/ Has("gop")
           f == Has("i")
           h == [nr |-> flow[start].nr, time |-> flow[start].time, gap |-> gap,
                 seq |-> s, gop |-> g, i |-> f, repaired |-> restart, drift |-> 0,
                 places |-> places]
<1>1. h = HolderOf(flow, parts, start, gap, restart, extra)
  BY DEF HolderOf
<1>2. flow[start].nr \in Nat /\ flow[start].time \in Int
  <2>1. flow[start] \in Located1
    OBVIOUS
  <2>2. QED
    BY <2>1 DEF Located1
<1>3. places \in SUBSET [nr : Nat, rec : Nat]
  <2>1. ASSUME NEW m \in parts PROVE Place(flow, m) \in [nr : Nat, rec : Nat]
    <3>1. flow[m] \in Located1
      OBVIOUS
    <3>2. flow[m].nr \in Nat /\ flow[m].rec \in Nat
      BY <3>1 DEF Located1
    <3>3. QED
      BY <3>2 DEF Place
  <2>2. QED
    BY <2>1
<1>4. s \in BOOLEAN /\ g \in BOOLEAN /\ f \in BOOLEAN
  OBVIOUS
<1>5. \A p \in places : \E m \in parts : p = Place(flow, m)
  OBVIOUS
<1> HIDE DEF places, s, g, f
<1>6. h \in VideoHolder
  BY <1>2, <1>3, <1>4 DEF VideoHolder
<1>7. [h EXCEPT !.time = 0] =
        [nr |-> flow[start].nr, time |-> 0, gap |-> gap, seq |-> s, gop |-> g, i |-> f,
         repaired |-> restart, drift |-> 0, places |-> places]
  OBVIOUS
<1>8. [h EXCEPT !.time = 0] \in VideoHolder
  BY <1>2, <1>3, <1>4, <1>7 DEF VideoHolder
<1>9. h.nr = flow[start].nr /\ h.gap = gap /\ h.repaired = restart /\ h.places = places
  OBVIOUS
<1>10. /\ [h EXCEPT !.time = 0].nr = flow[start].nr /\ [h EXCEPT !.time = 0].places = places
       /\ [h EXCEPT !.time = 0].gap = gap /\ [h EXCEPT !.time = 0].repaired = restart
  BY <1>7
<1> HIDE DEF h
<1>11. QED
  BY <1>1, <1>5, <1>6, <1>8, <1>9, <1>10 DEF HasParts

(* What the holders of the start j are made of.                            *)
MadeOf(list, flow, limit, j) ==
    \A k \in 1..Len(list) :
        /\ list[k].nr = flow[j].nr
        /\ \A p \in list[k].places : \E m \in {j} \cup Body(flow, limit, j) : p = Place(flow, m)

LEMMA PlaceOrder ==
    ASSUME NEW flow, InOrder(flow), NEW m1 \in 1..Len(flow), NEW m2 \in 1..Len(flow), m1 < m2
    PROVE  Earlier(Place(flow, m1), Place(flow, m2))
BY DEF InOrder, Place, Earlier

(* The holders that one start gives.                                       *)
Pieces(list, flow, limit, j, gap, restart) ==
    /\ list \in Seq(VideoHolder) /\ list # <<>>
    /\ list[1].gap = gap /\ list[1].repaired = restart
    /\ MadeOf(list, flow, limit, j) /\ PlacesInOrder(list)

(* The parts of a holder: splits are where it is cut, and each part goes   *)
(* from one of them to the next.                                           *)
LEMMA PartsOrdered ==
    ASSUME NEW flow \in Seq(Located1), InOrder(flow), NEW limit, NEW j \in 1..Len(flow),
           NEW gap \in 0..2, NEW restart \in BOOLEAN, NEW extra \in BOOLEAN
    PROVE  Pieces(fix_pes_holder(flow, limit, j, gap, restart, extra),
                  flow, limit, j, gap, restart)
<1> DEFINE body == Body(flow, limit, j)
           splits == {m \in body : /\ series = "S1" /\ flow[m].kind \in Pictures
                                   /\ \E k \in body : k < m /\ flow[k].kind \in Pictures}
           Part(from) == {m \in {j} \cup body : from <= m /\ \A k \in splits : from < k => m < k}
           First == HolderOf(flow, Part(j), j, gap, restart, extra)
           More(m) == [HolderOf(flow, Part(m), j, 0, FALSE, FALSE) EXCEPT !.time = 0]
           seqs == [m \in DOMAIN flow |-> IF m = j THEN <<First>>
                                          ELSE IF m \in splits THEN <<More(m)>> ELSE <<>>]
           list == fix_pes_holder(flow, limit, j, gap, restart, extra)
           Holder(m) == IF m = j THEN First ELSE More(m)
<1>1. list = FlattenSeq(seqs)
  BY DEF fix_pes_holder
<1>2. /\ body \subseteq 1..Len(flow) /\ \A m \in body : j < m
      /\ j \in Nat /\ Len(flow) \in Nat /\ DOMAIN flow = 1..Len(flow)
  BY BodyIs
<1>3. splits \subseteq body
  OBVIOUS
<1> HIDE DEF body, splits
<1>4. ASSUME NEW from
      PROVE  /\ Part(from) \subseteq 1..Len(flow) /\ Part(from) \subseteq {j} \cup body
             /\ \A m \in Part(from) : from <= m /\ \A k \in splits : from < k => m < k
  BY <1>2
<1> HIDE DEF Part
<1>5. /\ First \in VideoHolder /\ First.nr = flow[j].nr /\ First.gap = gap
      /\ First.repaired = restart
      /\ \A p \in First.places : \E m \in Part(j) : p = Place(flow, m)
  <2>1. Part(j) \subseteq 1..Len(flow)
    BY <1>4
  <2>2. HasParts(First, flow, Part(j), j, gap, restart)
    BY <2>1, HolderIs
  <2>3. QED
    BY <2>2 DEF HasParts
<1>6. ASSUME NEW from
      PROVE  /\ More(from) \in VideoHolder /\ More(from).nr = flow[j].nr
             /\ \A p \in More(from).places : \E m \in Part(from) : p = Place(flow, m)
  <2>1. Part(from) \subseteq 1..Len(flow) /\ 0 \in 0..2 /\ FALSE \in BOOLEAN
    BY <1>4
  <2>2. HasParts(More(from), flow, Part(from), j, 0, FALSE)
    BY <2>1, HolderIs
  <2>3. QED
    BY <2>2 DEF HasParts
<1> HIDE DEF First, More
<1>7. ASSUME NEW m
      PROVE  /\ Holder(m) \in VideoHolder /\ Holder(m).nr = flow[j].nr
             /\ \A p \in Holder(m).places : \E n \in Part(m) : p = Place(flow, n)
  BY <1>5, <1>6
<1>8. Holder(j).gap = gap /\ Holder(j).repaired = restart
  BY <1>5
<1>9. \A m \in 1..Len(flow) :
        seqs[m] = IF m \in {j} \cup splits THEN <<Holder(m)>> ELSE <<>>
  BY <1>2
<1>10. seqs \in Seq(Seq(VideoHolder)) /\ Len(seqs) = Len(flow)
  <2>1. seqs = [m \in 1..Len(flow) |-> IF m \in {j} \cup splits THEN <<Holder(m)>> ELSE <<>>]
    BY <1>2
  <2> HIDE DEF Holder, seqs
  <2>2. ASSUME NEW m \in 1..Len(flow) PROVE seqs[m] \in Seq(VideoHolder)
    <3>1. Holder(m) \in VideoHolder
      BY <1>7
    <3>2. <<Holder(m)>> \in Seq(VideoHolder) /\ <<>> \in Seq(VideoHolder)
      BY <3>1
    <3>3. QED
      BY <1>9, <3>2
  <2>3. seqs \in [1..Len(flow) -> Seq(VideoHolder)]
    BY <2>1, <2>2
  <2>4. QED
    BY <1>2, <2>3
<1> HIDE DEF Holder, seqs, list
<1>11. list \in Seq(VideoHolder) /\ Len(list) \in Nat
  BY <1>1, <1>10, FlattenSpots
<1>12. PICK at, pos \in [1..Len(list) -> Nat] : Spots(list, seqs, Len(flow), at, pos)
  <2>1. \E at, pos \in [1..Len(FlattenSeq(seqs)) -> Nat] :
                Spots(FlattenSeq(seqs), seqs, Len(seqs), at, pos)
    BY <1>10, FlattenSpots
  <2>2. QED
    BY <1>1, <1>10, <2>1
<1>13. ASSUME NEW k \in 1..Len(list)
       PROVE  at[k] \in {j} \cup splits /\ at[k] \in Nat /\ pos[k] = 1 /\ list[k] = Holder(at[k])
  <2>1. at[k] \in 1..Len(flow) /\ pos[k] \in 1..Len(seqs[at[k]]) /\ list[k] = seqs[at[k]][pos[k]]
    BY <1>12 DEF Spots
  <2>2. at[k] \in {j} \cup splits
    <3>1. ASSUME at[k] \notin {j} \cup splits PROVE FALSE
      <4>1. seqs[at[k]] = <<>>
        BY <1>9, <2>1, <3>1
      <4>2. Len(seqs[at[k]]) = 0
        BY <4>1
      <4>3. QED
        BY <2>1, <4>2
    <3>2. QED
      BY <3>1
  <2>3. seqs[at[k]] = <<Holder(at[k])>>
    BY <1>9, <2>1, <2>2
  <2>4. pos[k] = 1 /\ list[k] = Holder(at[k])
    BY <2>1, <2>3
  <2>5. QED
    BY <2>1, <2>2, <2>4
<1>14. MadeOf(list, flow, limit, j)
  <2>1. ASSUME NEW k \in 1..Len(list)
        PROVE  /\ list[k].nr = flow[j].nr
               /\ \A p \in list[k].places : \E m \in {j} \cup body : p = Place(flow, m)
    <3>1. list[k] = Holder(at[k])
      BY <1>13
    <3>2. QED
      BY <1>4, <1>7, <3>1
  <2>2. QED
    BY <2>1 DEF MadeOf, body
<1>15. PlacesInOrder(list)
  <2>1. ASSUME NEW k1 \in 1..Len(list), NEW k2 \in 1..Len(list), k1 < k2,
               NEW p \in list[k1].places, NEW q \in list[k2].places
        PROVE  Earlier(p, q)
    <3>1. /\ at[k1] \in {j} \cup splits /\ at[k1] \in Nat /\ list[k1] = Holder(at[k1])
          /\ at[k2] \in {j} \cup splits /\ at[k2] \in Nat /\ list[k2] = Holder(at[k2])
          /\ pos[k1] = 1 /\ pos[k2] = 1
      BY <1>13
    <3>2. at[k1] < at[k2]
      <4>1. at[k1] < at[k2] \/ (at[k1] = at[k2] /\ pos[k1] < pos[k2])
        BY <1>12, <2>1 DEF Spots
      <4>2. QED
        BY <3>1, <4>1
    <3>3. at[k2] \in splits
      <4>1. at[k1] = j \/ j < at[k1]
        BY <1>2, <1>3, <3>1
      <4>2. at[k2] # j
        BY <1>2, <3>1, <3>2, <4>1
      <4>3. QED
        BY <3>1, <4>2
    <3>4. PICK m1 \in Part(at[k1]) : p = Place(flow, m1)
      BY <1>7, <3>1
    <3>5. PICK m2 \in Part(at[k2]) : q = Place(flow, m2)
      BY <1>7, <3>1
    <3>6. m1 < at[k2] /\ at[k2] <= m2 /\ m1 \in 1..Len(flow) /\ m2 \in 1..Len(flow)
      BY <1>4, <3>2, <3>3, <3>4, <3>5
    <3>7. m1 < m2
      BY <1>2, <3>1, <3>6
    <3>8. QED
      BY <3>4, <3>5, <3>6, <3>7, PlaceOrder
  <2>2. QED
    BY <2>1 DEF PlacesInOrder
<1>16. list # <<>> /\ list[1] = Holder(j)
  <2>1. seqs[j] = <<Holder(j)>>
    BY <1>9
  <2>2. 1 \in 1..Len(seqs[j])
    BY <2>1
  <2>3. PICK m \in 1..Len(list) : at[m] = j /\ pos[m] = 1
    BY <1>12, <2>2 DEF Spots
  <2>4. 1 \in 1..Len(list)
    BY <1>11, <2>3
  <2>5. /\ at[1] \in {j} \cup splits /\ at[1] \in Nat /\ pos[1] = 1 /\ list[1] = Holder(at[1])
    BY <1>13, <2>4
  <2>6. m = 1
    <3>1. ASSUME m # 1 PROVE FALSE
      <4>1. 1 < m
        BY <1>11, <2>3, <3>1
      <4>2. at[1] < at[m] \/ (at[1] = at[m] /\ pos[1] < pos[m])
        BY <1>12, <2>4, <4>1 DEF Spots
      <4>3. at[1] < j
        BY <2>3, <2>5, <4>2
      <4>4. at[1] = j \/ j < at[1]
        BY <1>2, <1>3, <2>5
      <4>5. QED
        BY <1>2, <2>5, <4>3, <4>4
    <3>2. QED
      BY <3>1
  <2>7. QED
    BY <2>3, <2>4, <2>5, <2>6
<1>17. QED
  BY <1>8, <1>11, <1>14, <1>15, <1>16 DEF Pieces, list

-----------------------------------------------------------------------------
(* The holders of a chunk.                                                 *)

(* A record of a holder lies behind a start of the chunk, and in front of  *)
(* all starts in the chunks behind it.                                     *)
Between(p, list, flow) ==
    \E m \in 1..Len(flow) :
        /\ p = Place(flow, m)
        /\ \E j \in 1..Len(list[1].recs) : j <= m /\ flow[j].kind \in Starts
        /\ \A q \in 1..Len(flow) :
            flow[q].nr # list[1].nr /\ flow[q].kind \in Starts => m < q

OfChunk(made, list, flow) ==
    \A k \in 1..Len(made) :
        /\ made[k].nr = list[1].nr
        /\ \A p \in made[k].places : Between(p, list, flow)

(* A gap is flagged at the first holder; without one it is left over.      *)
GapGoesOn(v, list, class) ==
    /\ v.left \in BOOLEAN /\ (v.left => list[1].gap)
    /\ list[1].gap /\ class # 2 =>
        IF v.holders = <<>> THEN series = "S1" => v.left
        ELSE v.holders[1].gap # 0

LEMMA VideoIs ==
    ASSUME NEW list \in Seq(Chunk), list # <<>>, Rising(list), NEW class,
           RecordLimit(list[1], class) \in 0..Len(list[1].recs)
    PROVE  LET v == VideoOf(list, class) IN
           /\ v.holders \in Seq(VideoHolder) /\ PlacesInOrder(v.holders)
           /\ OfChunk(v.holders, list, Flow(list)) /\ GapGoesOn(v, list, class)
<1> DEFINE chunk == list[1]
           flow == Flow(list)
           limit == RecordLimit(chunk, class)
           from == FirstRecord(chunk, class)
           starts == {j \in 1..limit : j >= from /\ flow[j].kind \in Starts}
           failing == {j \in starts : ~VideoReadable(flow, j)}
           stops == IF series = "S1" THEN {} ELSE failing
           tried == {j \in starts : \A k \in stops : j < k}
           whole == {j \in tried : Complete(flow, limit, j)}
           asks == chunk.gap /\ class # 2
           restarts == IF class # 2 THEN {}
                       ELSE IF series = "S1" THEN starts \ failing
                       ELSE {j \in starts : flow[j].kind = "seq"}
           restart == IF restarts = {} THEN 0
                      ELSE CHOOSE j \in restarts : \A k \in restarts : j <= k
           extra == series = "S1" /\ restart # 0 /\ FirstSeq(video) # 0 /\ payload_fetch_seq_gop(video)
           flag == IF class = 1 THEN 2 ELSE 1
           gapOf(j) == IF asks /\ \A k \in whole : j <= k THEN flag ELSE 0
           Of(j) == fix_pes_holder(flow, limit, j, gapOf(j), j = restart, j = restart /\ extra)
           seqs == [j \in 1..limit |-> IF j \notin whole THEN <<>> ELSE Of(j)]
           v == VideoOf(list, class)
           made == v.holders
<1>1. made = FlattenSeq(seqs) /\ v.left = (asks /\ GapLeft(starts, stops, whole))
  BY DEF VideoOf
<1>2. FlowIs(list, flow)
  BY FlowFacts
<1>3. /\ flow \in Seq(Located1) /\ InOrder(flow) /\ Len(flow) \in Nat
      /\ Len(chunk.recs) \in Nat /\ limit \in 0..Len(chunk.recs) /\ Len(chunk.recs) <= Len(flow)
      /\ \A m \in 1..Len(flow) : flow[m].nr = chunk.nr <=> m <= Len(chunk.recs)
      /\ chunk.gap \in BOOLEAN
  <2>1. chunk \in Chunk
    OBVIOUS
  <2>2. chunk.recs \in Seq(Record) /\ chunk.gap \in BOOLEAN
    BY <2>1 DEF Chunk
  <2> HIDE DEF flow
  <2>3. QED
    BY <1>2, <2>2 DEF FlowIs, OwnFirst
<1>4. whole \subseteq tried /\ tried \subseteq starts /\ \A j \in whole : Complete(flow, limit, j)
  OBVIOUS
<1>5. \A j \in starts : j \in 1..limit /\ flow[j].kind \in Starts
  OBVIOUS
<1>6. \A j \in whole : j \in 1..limit /\ flow[j].kind \in Starts /\ HolderEnd(flow, limit, j) # 0
  BY <1>4, <1>5 DEF Complete
<1>7. asks = (chunk.gap /\ class # 2) /\ flag \in {1, 2} /\ (series = "S1" => stops = {})
  OBVIOUS
<1>8. v.left \in BOOLEAN /\ (v.left => chunk.gap)
      /\ (asks /\ series = "S1" /\ whole = {} => v.left)
  BY <1>1, <1>7 DEF GapLeft
<1> HIDE DEF made, flow, limit, starts, tried, whole, restart, extra, stops, asks, flag, v
<1>9. ASSUME NEW j \in 1..limit PROVE j \in 1..Len(flow) /\ j \in 1..Len(chunk.recs)
  BY <1>3
<1>10. ASSUME NEW j PROVE gapOf(j) \in 0..2
  BY <1>7
<1>11. ASSUME NEW j \in 1..limit
       PROVE  /\ Of(j) \in Seq(VideoHolder) /\ Of(j) # <<>>
              /\ Of(j)[1].gap = gapOf(j)
              /\ MadeOf(Of(j), flow, limit, j) /\ PlacesInOrder(Of(j))
  <2> HIDE DEF gapOf
  <2>1. /\ j \in 1..Len(flow) /\ gapOf(j) \in 0..2 /\ (j = restart) \in BOOLEAN
        /\ (j = restart /\ extra) \in BOOLEAN
    BY <1>9, <1>10
  <2>2. Pieces(Of(j), flow, limit, j, gapOf(j), j = restart)
    BY <1>3, <2>1, PartsOrdered
  <2>3. QED
    BY <2>2 DEF Pieces
<1> HIDE DEF Of
<1>12. \A j \in 1..limit : seqs[j] = IF j \in whole THEN Of(j) ELSE <<>>
  OBVIOUS
<1>13. seqs \in Seq(Seq(VideoHolder)) /\ Len(seqs) = limit
  <2>1. ASSUME NEW j \in 1..limit PROVE (IF j \notin whole THEN <<>> ELSE Of(j)) \in Seq(VideoHolder)
    BY <1>11
  <2>2. seqs \in [1..limit -> Seq(VideoHolder)]
    BY <2>1
  <2>3. limit \in Nat
    BY <1>3
  <2>4. QED
    BY <2>2, <2>3
<1> HIDE DEF seqs
<1>14. made \in Seq(VideoHolder) /\ Len(made) \in Nat
  BY <1>1, <1>13, FlattenSpots
<1>15. PICK at, pos \in [1..Len(made) -> Nat] : Spots(made, seqs, limit, at, pos)
  <2>1. \E at, pos \in [1..Len(FlattenSeq(seqs)) -> Nat] :
                Spots(FlattenSeq(seqs), seqs, Len(seqs), at, pos)
    BY <1>13, FlattenSpots
  <2>2. QED
    BY <1>1, <1>13, <2>1
<1>16. ASSUME NEW k \in 1..Len(made)
       PROVE  /\ at[k] \in whole /\ at[k] \in 1..limit /\ pos[k] \in 1..Len(Of(at[k]))
              /\ made[k] = Of(at[k])[pos[k]]
  <2>1. at[k] \in 1..limit /\ pos[k] \in 1..Len(seqs[at[k]]) /\ made[k] = seqs[at[k]][pos[k]]
    BY <1>15 DEF Spots
  <2>2. at[k] \in whole
    <3>1. ASSUME at[k] \notin whole PROVE FALSE
      <4>1. seqs[at[k]] = <<>>
        BY <1>12, <2>1, <3>1
      <4>2. Len(seqs[at[k]]) = 0
        BY <4>1
      <4>3. QED
        BY <2>1, <4>2
    <3>2. QED
      BY <3>1
  <2>3. seqs[at[k]] = Of(at[k])
    BY <1>12, <2>1, <2>2
  <2>4. QED
    BY <2>1, <2>2, <2>3
(* The records of the start j are in front of the next start.              *)
<1>17. ASSUME NEW j \in whole, NEW m \in {j} \cup Body(flow, limit, j)
       PROVE  /\ j \in 1..limit /\ j \in 1..Len(flow) /\ m \in 1..Len(flow) /\ j <= m
              /\ \A q \in Seen(flow, limit) : j < q /\ flow[q].kind \in Starts => m < q
  <2>1. j \in 1..limit /\ HolderEnd(flow, limit, j) # 0
    BY <1>6
  <2>2. j \in 1..Len(flow)
    BY <1>9, <2>1
  <2>3. /\ m \in 1..Len(flow) /\ j <= m /\ m < HolderEnd(flow, limit, j)
        /\ HolderEnd(flow, limit, j) \in Int
        /\ \A q \in Seen(flow, limit) :
                q > j /\ flow[q].kind \in Starts => HolderEnd(flow, limit, j) <= q
    <3>1. /\ Body(flow, limit, j) \subseteq 1..Len(flow)
          /\ \A n \in Body(flow, limit, j) : j < n /\ n < HolderEnd(flow, limit, j)
          /\ j < HolderEnd(flow, limit, j) /\ HolderEnd(flow, limit, j) \in 0..Len(flow)
          /\ \A q \in Seen(flow, limit) :
                q > j /\ flow[q].kind \in Starts => HolderEnd(flow, limit, j) <= q
      BY <1>3, <2>1, <2>2, BodyIs
    <3>2. m = j \/ m \in Body(flow, limit, j)
      OBVIOUS
    <3>3. QED
      BY <1>3, <2>2, <3>1, <3>2
  <2>4. \A q \in Seen(flow, limit) : q \in 1..Len(flow)
    BY <1>3, SeenIs
  <2>5. QED
    BY <1>3, <2>1, <2>2, <2>3, <2>4
<1>18. ASSUME NEW k \in 1..Len(made)
       PROVE  /\ made[k].nr = chunk.nr
              /\ \A p \in made[k].places :
                    \E m \in {at[k]} \cup Body(flow, limit, at[k]) : p = Place(flow, m)
  <2>1. at[k] \in 1..limit /\ pos[k] \in 1..Len(Of(at[k])) /\ made[k] = Of(at[k])[pos[k]]
    BY <1>16
  <2>2. MadeOf(Of(at[k]), flow, limit, at[k])
    BY <1>11, <2>1
  <2>3. flow[at[k]].nr = chunk.nr
    BY <1>3, <1>9, <2>1
  <2>4. QED
    BY <2>1, <2>2, <2>3 DEF MadeOf
<1>19. OfChunk(made, list, flow)
  <2>1. ASSUME NEW k \in 1..Len(made), NEW p \in made[k].places
        PROVE  Between(p, list, flow)
    <3> DEFINE j == at[k]
    <3>1. j \in whole /\ j \in 1..limit
      BY <1>16
    <3>2. PICK m \in {j} \cup Body(flow, limit, j) : p = Place(flow, m)
      BY <1>18
    <3>3. /\ m \in 1..Len(flow) /\ j <= m
          /\ \A q \in Seen(flow, limit) : j < q /\ flow[q].kind \in Starts => m < q
      BY <1>17, <3>1, <3>2
    <3>4. j \in 1..Len(chunk.recs) /\ flow[j].kind \in Starts
      BY <1>6, <1>9, <3>1
    <3>5. ASSUME NEW q \in 1..Len(flow), flow[q].nr # chunk.nr PROVE q \in Seen(flow, limit) /\ j < q
      <4>1. ~(q <= Len(chunk.recs))
        BY <1>3, <3>5
      <4>2. 1 \in 1..Len(flow) /\ 1 <= Len(chunk.recs)
        BY <1>3, <3>4
      <4>3. flow[1].nr = chunk.nr
        BY <1>3, <4>2
      <4>4. flow[q].nr # flow[1].nr
        BY <3>5, <4>3
      <4>5. q \in Seen(flow, limit)
        BY <1>3, <4>4 DEF Seen
      <4>6. QED
        BY <1>3, <3>4, <4>1, <4>5
    <3> HIDE DEF j
    <3>6. QED
      BY <3>2, <3>3, <3>4, <3>5 DEF Between
  <2>2. QED
    BY <1>18, <2>1 DEF OfChunk
<1>20. PlacesInOrder(made)
  <2>1. ASSUME NEW k1 \in 1..Len(made), NEW k2 \in 1..Len(made), k1 < k2,
               NEW p \in made[k1].places, NEW q \in made[k2].places
        PROVE  Earlier(p, q)
    <3>1. at[k1] < at[k2] \/ (at[k1] = at[k2] /\ pos[k1] < pos[k2])
      BY <1>15, <2>1 DEF Spots
    <3>2. /\ at[k1] \in whole /\ at[k1] \in 1..limit /\ pos[k1] \in 1..Len(Of(at[k1]))
          /\ made[k1] = Of(at[k1])[pos[k1]]
          /\ at[k2] \in whole /\ at[k2] \in 1..limit /\ pos[k2] \in 1..Len(Of(at[k2]))
          /\ made[k2] = Of(at[k2])[pos[k2]]
      BY <1>16
    <3>3. CASE at[k1] = at[k2] /\ pos[k1] < pos[k2]
      <4>1. PlacesInOrder(Of(at[k1]))
        BY <1>11, <3>2
      <4>2. QED
        BY <3>2, <3>3, <4>1 DEF PlacesInOrder
    <3>4. CASE at[k1] < at[k2]
      <4>1. PICK m1 \in {at[k1]} \cup Body(flow, limit, at[k1]) : p = Place(flow, m1)
        BY <1>18
      <4>2. PICK m2 \in {at[k2]} \cup Body(flow, limit, at[k2]) : q = Place(flow, m2)
        BY <1>18
      <4>3. /\ m1 \in 1..Len(flow)
            /\ \A n \in Seen(flow, limit) : at[k1] < n /\ flow[n].kind \in Starts => m1 < n
        BY <1>17, <3>2, <4>1
      <4>4. m2 \in 1..Len(flow) /\ at[k2] <= m2
        BY <1>17, <3>2, <4>2
      <4>5. at[k2] \in Seen(flow, limit) /\ flow[at[k2]].kind \in Starts
        <5>1. at[k2] \in 1..Len(flow) /\ at[k2] <= limit
          BY <1>3, <1>9, <3>2
        <5>2. QED
          BY <1>3, <1>6, <3>2, <5>1 DEF Seen
      <4>6. m1 < at[k2] /\ at[k2] \in Int
        BY <3>2, <3>4, <4>3, <4>5
      <4>7. m1 < m2
        BY <1>3, <4>3, <4>4, <4>6
      <4>8. QED
        BY <1>3, <4>1, <4>2, <4>3, <4>4, <4>7, PlaceOrder
    <3>5. QED
      BY <3>1, <3>3, <3>4
  <2>2. QED
    BY <2>1 DEF PlacesInOrder
<1>21. CASE whole = {}
  <2>1. made = <<>>
    <3>1. ASSUME made # <<>> PROVE FALSE
      <4>1. 1 \in 1..Len(made)
        BY <1>14, <3>1
      <4>2. QED
        BY <1>16, <1>21, <4>1
    <3>2. QED
      BY <3>1
  <2>2. GapGoesOn(v, list, class)
    BY <1>7, <1>8, <1>21, <2>1 DEF GapGoesOn, made
  <2>3. QED
    BY <1>14, <1>19, <1>20, <2>2 DEF made, v, flow
<1>22. CASE whole # {}
  <2>1. PICK first \in whole : \A k \in whole : first <= k
    <3>1. whole \subseteq Nat
      BY <1>3, <1>6
    <3>2. QED
      BY <1>22, <3>1, LeastNumber
  <2>2. first \in 1..limit /\ seqs[first] = Of(first)
    BY <1>6, <1>12, <2>1
  <2>3. 1 \in 1..Len(seqs[first])
    BY <1>11, <2>2
  <2>4. PICK m \in 1..Len(made) : at[m] = first /\ pos[m] = 1
    BY <1>15, <2>2, <2>3 DEF Spots
  <2>5. 1 \in 1..Len(made)
    BY <1>14, <2>4
  <2>6. at[1] \in whole /\ at[1] \in 1..limit /\ pos[1] \in 1..Len(Of(at[1])) /\ made[1] = Of(at[1])[pos[1]]
    BY <1>16, <2>5
  <2>7. m = 1
    <3>1. ASSUME m # 1 PROVE FALSE
      <4>1. 1 < m
        BY <1>14, <2>4, <3>1
      <4>2. at[1] < at[m] \/ (at[1] = at[m] /\ pos[1] < pos[m])
        BY <1>15, <2>5, <4>1 DEF Spots
      <4>3. first <= at[1] /\ at[1] \in Int /\ pos[1] \in Nat /\ pos[1] >= 1
        BY <2>1, <2>6
      <4>4. QED
        BY <2>2, <2>4, <4>2, <4>3
    <3>2. QED
      BY <3>1
  <2>8. made[1].gap = gapOf(first)
    BY <1>11, <2>2, <2>4, <2>6, <2>7
  <2>9. asks => gapOf(first) # 0
    BY <1>7, <2>1
  <2>10. made # <<>>
    BY <2>5
  <2> HIDE DEF gapOf
  <2>11. GapGoesOn(v, list, class)
    BY <1>7, <1>8, <2>8, <2>9, <2>10 DEF GapGoesOn, made
  <2>12. QED
    BY <1>14, <1>19, <1>20, <2>11 DEF made, v, flow
<1>23. QED
  BY <1>21, <1>22

-----------------------------------------------------------------------------
(* The cuts: they change nothing but what they remember of the sound.      *)
SameCut(c, d) ==
    /\ c.cutstart = d.cutstart /\ c.cutstop = d.cutstop
    /\ c.chunkstart = d.chunkstart /\ c.rec_nr_start = d.rec_nr_start
    /\ c.chunkstop = d.chunkstop /\ c.rec_nr_stop = d.rec_nr_stop
    /\ c.cut_is_start_of_stream = d.cut_is_start_of_stream
    /\ c.cut_is_end_of_stream = d.cut_is_end_of_stream

SameCuts(list, other) ==
    Len(list) = Len(other) /\ \A n \in 1..Len(list) : SameCut(list[n], other[n])

CutsInv == scenario \in Scenarios /\ cuts \in Seq(Cut) /\ SameCuts(cuts, scenario.cuts)

LEMMA MinIs ==
    ASSUME NEW S, S \subseteq Nat, S # {}
    PROVE  Min(S) \in S /\ \A y \in S : Min(S) <= y
<1>1. \E x \in S : \A y \in S : x <= y
  BY LeastNumber
<1>2. Min(S) = CHOOSE x \in S : \A y \in S : x <= y
  BY DEF Min
<1>3. QED
  BY <1>1, <1>2

(* The record of a cut is one of the chunk it is asked for.                *)
LEMMA CutRecord ==
    ASSUME CutsInv, NEW chunk \in Chunk, Fits(chunk.recs, chunk.nr),
           NEW n \in 1..Len(cuts)
    PROVE  /\ cuts[n].chunkstart = chunk.nr => cuts[n].rec_nr_start \in 1..Len(chunk.recs)
           /\ cuts[n].chunkstop = chunk.nr => cuts[n].rec_nr_stop \in 1..Len(chunk.recs)
<1> DEFINE cut == scenario.cuts[n]
           index == scenario.index
<1>1. scenario \in Scenarios /\ SameCut(cuts[n], cut) /\ n \in DOMAIN scenario.cuts
  <2>1. scenario.cuts \in Seq(Cut) /\ Len(cuts) = Len(scenario.cuts) /\ scenario \in Scenarios
    BY ParseAssumption DEF CutsInv, SameCuts
  <2>2. SameCut(cuts[n], cut)
    BY DEF CutsInv, SameCuts
  <2>3. QED
    BY <2>1, <2>2
<1>2. CutOfIndex(cut, index) /\ index \in Seq(Gop)
  BY <1>1, ParseAssumption
<1>3. PICK g \in ToSet(index) : cut.chunkstart = g.chunk /\ cut.rec_nr_start = g.rec
  BY <1>2 DEF CutOfIndex, CutBetween
<1>4. PICK h \in ToSet(index) : cut.chunkstop = h.chunk /\ cut.rec_nr_stop = h.rec
  BY <1>2 DEF CutOfIndex, CutBetween
<1>5. ASSUME NEW x \in ToSet(index), x.chunk = chunk.nr PROVE x.rec \in 1..Len(chunk.recs)
  <2>1. PICK i \in DOMAIN index : index[i] = x
    BY <1>2 DEF ToSet
  <2>2. x.rec \in DOMAIN chunk.recs
    BY <1>5, <2>1 DEF Fits
  <2>3. chunk.recs \in Seq(Record)
    BY DEF Chunk
  <2>4. QED
    BY <2>2, <2>3
<1>6. /\ cuts[n].chunkstart = cut.chunkstart /\ cuts[n].rec_nr_start = cut.rec_nr_start
      /\ cuts[n].chunkstop = cut.chunkstop /\ cuts[n].rec_nr_stop = cut.rec_nr_stop
  BY <1>1 DEF SameCut
<1>7. QED
  BY <1>3, <1>4, <1>5, <1>6

LEMMA LimitIs ==
    ASSUME CutsInv, NEW chunk \in Chunk, Fits(chunk.recs, chunk.nr),
           NEW class, class = cutpoint_incut_chunk(cuts, chunk.nr)
    PROVE  RecordLimit(chunk, class) \in 0..Len(chunk.recs)
<1> DEFINE nr == chunk.nr
           Concerned(c) == \/ c.cut_is_start_of_stream /\ nr <= c.chunkstop
                           \/ c.cut_is_end_of_stream /\ nr > c.chunkstart
                           \/ c.chunkstart <= nr /\ nr <= c.chunkstop
           I == {n \in 1..Len(cuts) : Concerned(cuts[n])}
           H == {n \in 1..Len(cuts) : nr \in {cuts[n].chunkstart, cuts[n].chunkstop}}
           record == cutpoint_incut_chunk_record(cuts, nr)
<1>1. Len(cuts) \in Nat /\ Len(chunk.recs) \in Nat
  <2>1. cuts \in Seq(Cut) /\ chunk.recs \in Seq(Record)
    BY DEF CutsInv, Chunk
  <2>2. QED
    BY <2>1
<1>2. CASE class # 1
  BY <1>1, <1>2 DEF RecordLimit
<1>3. CASE class = 1
  <2>1. class = IF I # {} THEN IF Min(I) = 0 THEN 0 ELSE ClassOf(cuts[Min(I)], nr) ELSE 0
    BY DEF cutpoint_incut_chunk, SelectInSeq
  <2>2. I # {} /\ ClassOf(cuts[Min(I)], nr) = 1
    <3> HIDE DEF I
    <3>1. QED
      BY <1>3, <2>1
  <2>3. Min(I) \in I
    <3>1. I \subseteq Nat
      BY <1>1
    <3> HIDE DEF I
    <3>2. QED
      BY <2>2, <3>1, MinIs
  <2>4. Min(I) \in 1..Len(cuts)
    <3> HIDE DEF Concerned
    <3>1. QED
      BY <2>3
  <2>5. cuts[Min(I)].chunkstart = nr
    <3> HIDE DEF I
    <3>1. QED
      BY <2>2 DEF ClassOf
  <2>6. PICK m \in 1..Len(cuts) : cuts[m].chunkstart = nr
    <3> HIDE DEF I
    <3>1. QED
      BY <2>4, <2>5
  <2>7. m \in H
    BY <2>6
  <2>8. Min(H) \in H
    <3>1. H \subseteq Nat
      BY <1>1
    <3> HIDE DEF H
    <3>2. QED
      BY <2>7, <3>1, MinIs
  <2>9. record = IF cuts[Min(H)].chunkstart = nr THEN cuts[Min(H)].rec_nr_start
                  ELSE cuts[Min(H)].rec_nr_stop
    BY <2>7 DEF cutpoint_incut_chunk_record, SelectInSeq
  <2>10. PICK k \in 1..Len(cuts) : k = Min(H) /\ nr \in {cuts[k].chunkstart, cuts[k].chunkstop}
    BY <2>8
  <2>11. record \in 1..Len(chunk.recs)
    <3> HIDE DEF record, H
    <3>1. QED
      BY <2>9, <2>10, CutRecord
  <2>12. RecordLimit(chunk, class) = record - 1
    BY <1>3 DEF RecordLimit
  <2> HIDE DEF record
  <2>13. QED
    BY <1>1, <2>11, <2>12
<1>4. QED
  BY <1>2, <1>3

(* Without cuts every chunk is outside of them.                            *)
LEMMA NoCutClass ==
    ASSUME NEW nr
    PROVE  cutpoint_incut_chunk(<<>>, nr) = 0
BY DEF cutpoint_incut_chunk, SelectInSeq

-----------------------------------------------------------------------------
(* One sound frame.                                                        *)
SoundHolder ==
    [nr : Nat, time : Int, gap : BOOLEAN, repeat : Nat, repaired : BOOLEAN,
     lost : Int, left : Int]

LoopState ==
    [cuts : Seq(Cut), audiocut : BOOLEAN, start_drift : Int, audio : Seq(SoundHolder),
     video : Seq(VideoHolder), dropped : Int, undefined : BOOLEAN, asks : BOOLEAN,
     open : BOOLEAN]

(* A drift is all that the sound changes in the video.                     *)
SameHolders(list, other) ==
    /\ Len(list) = Len(other)
    /\ \A k \in 1..Len(list) :
        /\ list[k].nr = other[k].nr /\ list[k].gap = other[k].gap
        /\ list[k].repaired = other[k].repaired /\ list[k].places = other[k].places

LEMMA AttacheIs ==
    ASSUME NEW list \in Seq(VideoHolder), NEW time, NEW drift \in Int
    PROVE  /\ attache_drift_i_frame(list, time, drift) \in Seq(VideoHolder)
           /\ SameHolders(list, attache_drift_i_frame(list, time, drift))
<1> DEFINE later == {k \in 1..(Len(list) - 1) : list[k].time >= time /\ list[k].i}
           any == {k \in 2..Len(list) : list[k].i}
           a == CHOOSE k \in later : \A m \in later : k <= m
           b == CHOOSE k \in any : \A m \in any : k >= m
           result == attache_drift_i_frame(list, time, drift)
<1>1. Len(list) \in Nat /\ later \subseteq 1..Len(list) /\ any \subseteq 1..Len(list)
  OBVIOUS
<1>2. result = IF later # {} THEN [list EXCEPT ![a].drift = drift]
               ELSE IF any # {} THEN [list EXCEPT ![b].drift = drift] ELSE list
  BY DEF attache_drift_i_frame
<1>3. ASSUME NEW k PROVE [list EXCEPT ![k].drift = drift] \in Seq(VideoHolder)
                         /\ SameHolders(list, [list EXCEPT ![k].drift = drift])
  <2> DEFINE new == [list EXCEPT ![k].drift = drift]
  <2>1. \A n \in 1..Len(list) : list[n] \in VideoHolder
    OBVIOUS
  <2>2. \A n \in 1..Len(list) : new[n] = IF n = k THEN [list[n] EXCEPT !.drift = drift] ELSE list[n]
    OBVIOUS
  <2>3. \A h \in VideoHolder :
            /\ [h EXCEPT !.drift = drift] \in VideoHolder
            /\ [h EXCEPT !.drift = drift].nr = h.nr /\ [h EXCEPT !.drift = drift].gap = h.gap
            /\ [h EXCEPT !.drift = drift].repaired = h.repaired
            /\ [h EXCEPT !.drift = drift].places = h.places
    BY DEF VideoHolder
  <2>4. new = [n \in 1..Len(list) |-> new[n]] /\ DOMAIN new = 1..Len(list)
    OBVIOUS
  <2> HIDE DEF new
  <2>5. ASSUME NEW n \in 1..Len(list)
        PROVE  /\ new[n] \in VideoHolder /\ new[n].nr = list[n].nr /\ new[n].gap = list[n].gap
               /\ new[n].repaired = list[n].repaired /\ new[n].places = list[n].places
    BY <2>1, <2>2, <2>3
  <2>6. new \in [1..Len(list) -> VideoHolder]
    BY <2>4, <2>5
  <2>7. new \in Seq(VideoHolder) /\ Len(new) = Len(list)
    BY <1>1, <2>6
  <2>8. QED
    BY <2>5, <2>7 DEF SameHolders, new
<1>4. SameHolders(list, list)
  BY DEF SameHolders
<1> HIDE DEF later, any, a, b, result
<1>5. QED
  BY <1>2, <1>3, <1>4 DEF result

LEMMA MissingIs ==
    ASSUME NEW total \in Int
    PROVE  /\ Missing(total) \in Nat /\ Median \in Nat
           /\ total + Missing(total) * Median \in Int
           /\ total < 0 => total + Missing(total) * Median \in (1 - Median)..0
<1>1. Median \in Nat /\ Median > 0
  BY ParseAssumption
<1>2. CASE total < 0
  <2> DEFINE q == (0 - total) \div Median
  <2>1. 0 - total \in Nat
    BY <1>2
  <2>2. q \in Nat /\ Median * q <= 0 - total /\ 0 - total < Median * q + Median
    BY <1>1, <2>1
  <2>3. Missing(total) = q
    BY <1>2 DEF Missing
  <2> HIDE DEF q
  <2>4. q * Median = Median * q /\ Median * q \in Int
    BY <1>1, <2>2
  <2>5. total + q * Median \in (1 - Median)..0
    BY <1>1, <2>2, <2>4
  <2>6. QED
    BY <1>1, <2>2, <2>3, <2>5
<1>3. CASE ~(total < 0)
  BY <1>1, <1>3 DEF Missing
<1>4. QED
  BY <1>2, <1>3

(* What a frame at a time is to the cuts.                                  *)
NotCut(list, ticks, asked) ==
    /\ asked.what = "none" /\ asked.cuts = list
    /\ \/ \A n \in 1..Len(list) : ~SoundIn(list[n], ticks)
       \/ \E n \in 1..Len(list) : SoundIn(list[n], ticks) /\ list[n].cut_is_start_of_stream
CutStarts(list, ticks, asked, i) ==
    /\ asked.what = "edge" /\ asked.time = list[i].cutstart
    /\ asked.cuts = [list EXCEPT ![i].audiostart = TRUE]
    /\ SoundIn(list[i], ticks) /\ ~list[i].audiostart
InsideCut(list, asked) == asked.what = "inside" /\ asked.cuts = list
CutEnds(list, ticks, asked, i) ==
    /\ asked.what = "edge" /\ asked.time = list[i].cutstop
    /\ asked.cuts = [list EXCEPT ![i].audiostop = TRUE]
    /\ ~SoundIn(list[i], ticks) /\ Open(list[i])

Answer(list, ticks, asked) ==
    \/ NotCut(list, ticks, asked) \/ InsideCut(list, asked)
    \/ \E i \in 1..Len(list) : CutStarts(list, ticks, asked, i) \/ CutEnds(list, ticks, asked, i)

LEMMA AskedIs ==
    ASSUME NEW list \in Seq(Cut), NEW ticks \in Int
    PROVE  Answer(list, ticks, cutpoint_incut_ticks_cutpoint(list, ticks))
<1> DEFINE Concerned(c) == SoundIn(c, ticks) \/ SoundAfter(c, ticks)
           I == {n \in 1..Len(list) : Concerned(list[n])}
           i == IF I # {} THEN Min(I) ELSE 0
           asked == cutpoint_incut_ticks_cutpoint(list, ticks)
<1>1. asked =
        IF i = 0 \/ (SoundIn(list[i], ticks) /\ list[i].cut_is_start_of_stream)
        THEN [what |-> "none", time |-> 0, cuts |-> list]
        ELSE IF ~SoundIn(list[i], ticks)
        THEN [what |-> "edge", time |-> list[i].cutstop, cuts |-> [list EXCEPT ![i].audiostop = TRUE]]
        ELSE IF ~list[i].audiostart
        THEN [what |-> "edge", time |-> list[i].cutstart, cuts |-> [list EXCEPT ![i].audiostart = TRUE]]
        ELSE [what |-> "inside", time |-> -1, cuts |-> list]
  BY DEF cutpoint_incut_ticks_cutpoint, SelectInSeq
<1>2. CASE I = {}
  <2>1. i = 0
    BY <1>2
  <2>2. asked = [what |-> "none", time |-> 0, cuts |-> list]
    <3> HIDE DEF i
    <3>1. QED
      BY <1>1, <2>1
  <2>3. \A n \in 1..Len(list) : ~SoundIn(list[n], ticks)
    BY <1>2
  <2> HIDE DEF asked
  <2>4. NotCut(list, ticks, asked)
    BY <2>2, <2>3 DEF NotCut
  <2>5. QED
    BY <2>4 DEF Answer, asked
<1>3. CASE I # {}
  <2>1. I \subseteq Nat
    OBVIOUS
  <2>2. i \in I
    <3> HIDE DEF I
    <3>1. QED
      BY <1>3, <2>1, MinIs
  <2> HIDE DEF i
  <2>3. i \in 1..Len(list) /\ (SoundIn(list[i], ticks) \/ SoundAfter(list[i], ticks)) /\ i # 0
    BY <2>2
  <2> HIDE DEF I, asked
  <2>4. CASE SoundIn(list[i], ticks) /\ list[i].cut_is_start_of_stream
    <3>1. asked = [what |-> "none", time |-> 0, cuts |-> list]
      BY <1>1, <2>4
    <3>2. NotCut(list, ticks, asked)
      BY <2>3, <2>4, <3>1 DEF NotCut
    <3>3. QED
      BY <3>2 DEF Answer, asked
  <2>5. CASE ~SoundIn(list[i], ticks)
    <3>1. asked = [what |-> "edge", time |-> list[i].cutstop,
                   cuts |-> [list EXCEPT ![i].audiostop = TRUE]]
      BY <1>1, <2>3, <2>5
    <3>2. CutEnds(list, ticks, asked, i)
      BY <2>3, <2>5, <3>1 DEF CutEnds, SoundAfter, Open
    <3>3. QED
      BY <2>3, <3>2 DEF Answer, asked
  <2>6. CASE SoundIn(list[i], ticks) /\ ~list[i].cut_is_start_of_stream /\ ~list[i].audiostart
    <3>1. asked = [what |-> "edge", time |-> list[i].cutstart,
                   cuts |-> [list EXCEPT ![i].audiostart = TRUE]]
      BY <1>1, <2>3, <2>6
    <3>2. CutStarts(list, ticks, asked, i)
      BY <2>6, <3>1 DEF CutStarts
    <3>3. QED
      BY <2>3, <3>2 DEF Answer, asked
  <2>7. CASE SoundIn(list[i], ticks) /\ ~list[i].cut_is_start_of_stream /\ list[i].audiostart
    <3>1. asked = [what |-> "inside", time |-> -1, cuts |-> list]
      BY <1>1, <2>3, <2>7
    <3>2. InsideCut(list, asked)
      BY <3>1 DEF InsideCut
    <3>3. QED
      BY <3>2 DEF Answer, asked
  <2>8. QED
    BY <2>4, <2>5, <2>6, <2>7
<1>4. QED
  BY <1>2, <1>3

(* The marks that a cut gets.                                              *)
Started(new, list, i) ==
    /\ new \in Seq(Cut) /\ Len(new) = Len(list)
    /\ \A n \in 1..Len(list) :
        /\ SameCut(new[n], list[n]) /\ new[n].audiostop = list[n].audiostop
        /\ new[n].audiostart = (n = i \/ list[n].audiostart)
Ended(new, list, i) ==
    /\ new \in Seq(Cut) /\ Len(new) = Len(list)
    /\ \A n \in 1..Len(list) :
        /\ SameCut(new[n], list[n]) /\ new[n].audiostart = list[n].audiostart
        /\ new[n].audiostop = (n = i \/ list[n].audiostop)

LEMMA StartedIs ==
    ASSUME NEW list \in Seq(Cut), NEW i \in 1..Len(list)
    PROVE  Started([list EXCEPT ![i].audiostart = TRUE], list, i)
<1>0. PICK v : v = TRUE
  OBVIOUS
<1> DEFINE new == [list EXCEPT ![i].audiostart = v]
<1>1. \A c \in Cut :
        /\ [c EXCEPT !.audiostart = v] \in Cut
        /\ SameCut([c EXCEPT !.audiostart = v], c)
        /\ [c EXCEPT !.audiostart = v].audiostop = c.audiostop
        /\ [c EXCEPT !.audiostart = v].audiostart
        /\ SameCut(c, c) /\ c.audiostart \in BOOLEAN
  BY <1>0 DEF Cut, SameCut
<1>2. Len(list) \in Nat /\ \A n \in 1..Len(list) : list[n] \in Cut
  OBVIOUS
<1>3. \A n \in 1..Len(list) : new[n] = IF n = i THEN [list[n] EXCEPT !.audiostart = v] ELSE list[n]
  OBVIOUS
<1>4. new = [n \in 1..Len(list) |-> new[n]] /\ DOMAIN new = 1..Len(list)
  OBVIOUS
<1> HIDE DEF new
<1>5. ASSUME NEW n \in 1..Len(list)
      PROVE  /\ new[n] \in Cut /\ SameCut(new[n], list[n]) /\ new[n].audiostop = list[n].audiostop
             /\ new[n].audiostart = (n = i \/ list[n].audiostart)
  <2>1. list[n] \in Cut
    BY <1>2
  <2>2. CASE n = i
    <3>1. new[n] = [list[n] EXCEPT !.audiostart = v]
      BY <1>3, <2>2
    <3>2. new[n] \in Cut /\ SameCut(new[n], list[n]) /\ new[n].audiostop = list[n].audiostop
          /\ new[n].audiostart = TRUE
      BY <1>1, <2>1, <3>1
    <3>3. QED
      BY <2>2, <3>2
  <2>3. CASE n # i
    <3>1. new[n] = list[n]
      BY <1>3, <2>3
    <3>2. SameCut(list[n], list[n]) /\ list[n].audiostart \in BOOLEAN
      BY <1>1, <2>1
    <3>3. QED
      BY <2>1, <2>3, <3>1, <3>2
  <2>4. QED
    BY <2>2, <2>3
<1>6. new \in [1..Len(list) -> Cut]
  BY <1>4, <1>5
<1>7. new \in Seq(Cut) /\ Len(new) = Len(list)
  BY <1>2, <1>6
<1>8. Started(new, list, i)
  BY <1>5, <1>7 DEF Started
<1>9. [list EXCEPT ![i].audiostart = TRUE] = new
  BY <1>0 DEF new
<1>10. QED
  BY <1>8, <1>9

LEMMA EndedIs ==
    ASSUME NEW list \in Seq(Cut), NEW i \in 1..Len(list)
    PROVE  Ended([list EXCEPT ![i].audiostop = TRUE], list, i)
<1>0. PICK v : v = TRUE
  OBVIOUS
<1> DEFINE new == [list EXCEPT ![i].audiostop = v]
<1>1. \A c \in Cut :
        /\ [c EXCEPT !.audiostop = v] \in Cut
        /\ SameCut([c EXCEPT !.audiostop = v], c)
        /\ [c EXCEPT !.audiostop = v].audiostart = c.audiostart
        /\ [c EXCEPT !.audiostop = v].audiostop
        /\ SameCut(c, c) /\ c.audiostop \in BOOLEAN
  BY <1>0 DEF Cut, SameCut
<1>2. Len(list) \in Nat /\ \A n \in 1..Len(list) : list[n] \in Cut
  OBVIOUS
<1>3. \A n \in 1..Len(list) : new[n] = IF n = i THEN [list[n] EXCEPT !.audiostop = v] ELSE list[n]
  OBVIOUS
<1>4. new = [n \in 1..Len(list) |-> new[n]] /\ DOMAIN new = 1..Len(list)
  OBVIOUS
<1> HIDE DEF new
<1>5. ASSUME NEW n \in 1..Len(list)
      PROVE  /\ new[n] \in Cut /\ SameCut(new[n], list[n]) /\ new[n].audiostart = list[n].audiostart
             /\ new[n].audiostop = (n = i \/ list[n].audiostop)
  <2>1. list[n] \in Cut
    BY <1>2
  <2>2. CASE n = i
    <3>1. new[n] = [list[n] EXCEPT !.audiostop = v]
      BY <1>3, <2>2
    <3>2. new[n] \in Cut /\ SameCut(new[n], list[n]) /\ new[n].audiostart = list[n].audiostart
          /\ new[n].audiostop = TRUE
      BY <1>1, <2>1, <3>1
    <3>3. QED
      BY <2>2, <3>2
  <2>3. CASE n # i
    <3>1. new[n] = list[n]
      BY <1>3, <2>3
    <3>2. SameCut(list[n], list[n]) /\ list[n].audiostop \in BOOLEAN
      BY <1>1, <2>1
    <3>3. QED
      BY <2>1, <2>3, <3>1, <3>2
  <2>4. QED
    BY <2>2, <2>3
<1>6. new \in [1..Len(list) -> Cut]
  BY <1>4, <1>5
<1>7. new \in Seq(Cut) /\ Len(new) = Len(list)
  BY <1>2, <1>6
<1>8. Ended(new, list, i)
  BY <1>5, <1>7 DEF Ended
<1>9. [list EXCEPT ![i].audiostop = TRUE] = new
  BY <1>0 DEF new
<1>10. QED
  BY <1>8, <1>9

-----------------------------------------------------------------------------
(* The state of the loop behind one sound frame.                           *)
Quiet(s, s2) ==
    /\ s2.cuts = s.cuts /\ s2.audio = s.audio /\ s2.audiocut = s.audiocut
    /\ s2.start_drift = s.start_drift /\ s2.dropped = s.dropped

Kept(s, s2, time) ==
    /\ s2.cuts = s.cuts /\ s2.audiocut = s.audiocut
    /\ s2.start_drift = s.start_drift /\ s2.dropped = s.dropped
    /\ \E h \in SoundHolder : s2.audio = Append(s.audio, h) /\ h.time = time /\ ~h.repaired

Began(s, s2, time, asked) ==
    /\ s2.cuts = asked.cuts /\ s2.audio = s.audio /\ s2.audiocut
    /\ s2.start_drift = time - asked.time /\ s2.dropped = time

Finished(s, s2, time, asked) ==
    LET total == s.start_drift + asked.time - time IN
    /\ s2.cuts = asked.cuts /\ ~s2.audiocut /\ s2.start_drift = 0 /\ s2.dropped = s.dropped
    /\ \E h \in SoundHolder :
        /\ s2.audio = Append(s.audio, h) /\ h.time = time
        /\ h.repeat = Missing(total) /\ h.lost = time - s.dropped
        /\ h.left = total + Missing(total) * Median

Frame(s, s2, time, asked) ==
    \/ Quiet(s, s2)
    \/ asked.what = "none" /\ Kept(s, s2, time)
    \/ asked.what = "edge" /\ ~s.audiocut /\ Began(s, s2, time, asked)
    \/ asked.what = "edge" /\ s.audiocut /\ Finished(s, s2, time, asked)

(* What the answer is made of.                                             *)
LEMMA AnswerIs ==
    ASSUME NEW list \in Seq(Cut), NEW ticks, NEW asked, Answer(list, ticks, asked)
    PROVE  /\ asked.cuts \in Seq(Cut)
           /\ asked.what = "edge" => asked.time \in Int
           /\ asked.what \in {"none", "edge", "inside"}
           /\ asked.what # "edge" => asked.cuts = list
<1>1. CASE NotCut(list, ticks, asked) \/ InsideCut(list, asked)
  BY <1>1 DEF NotCut, InsideCut
<1>2. ASSUME NEW i \in 1..Len(list), CutStarts(list, ticks, asked, i)
      PROVE  asked.cuts \in Seq(Cut) /\ asked.what = "edge" /\ asked.time \in Int
  <2>1. asked.what = "edge" /\ asked.time = list[i].cutstart
        /\ asked.cuts = [list EXCEPT ![i].audiostart = TRUE]
    BY <1>2 DEF CutStarts
  <2>2. Started([list EXCEPT ![i].audiostart = TRUE], list, i)
    BY StartedIs
  <2>3. Started(asked.cuts, list, i)
    BY <2>1, <2>2
  <2>4. list[i] \in Cut
    OBVIOUS
  <2>5. list[i].cutstart \in Int
    BY <2>4 DEF Cut
  <2>6. QED
    BY <2>1, <2>3, <2>5 DEF Started
<1>3. ASSUME NEW i \in 1..Len(list), CutEnds(list, ticks, asked, i)
      PROVE  asked.cuts \in Seq(Cut) /\ asked.what = "edge" /\ asked.time \in Int
  <2>1. asked.what = "edge" /\ asked.time = list[i].cutstop
        /\ asked.cuts = [list EXCEPT ![i].audiostop = TRUE]
    BY <1>3 DEF CutEnds
  <2>2. Ended([list EXCEPT ![i].audiostop = TRUE], list, i)
    BY EndedIs
  <2>3. Ended(asked.cuts, list, i)
    BY <2>1, <2>2
  <2>4. list[i] \in Cut
    OBVIOUS
  <2>5. list[i].cutstop \in Int
    BY <2>4 DEF Cut
  <2>6. QED
    BY <2>1, <2>3, <2>5 DEF Ended
<1>4. QED
  BY <1>1, <1>2, <1>3 DEF Answer

(* The record of the loop with some of its fields changed.                 *)
Passed(s, c, open) == [s EXCEPT !.cuts = c, !.open = open]
Begun(s, flag, drift, time) ==
    [s EXCEPT !.audiocut = flag, !.start_drift = drift, !.dropped = time]
Done(s, flag, undefined, list, sound) ==
    [s EXCEPT !.audiocut = flag, !.start_drift = 0, !.undefined = undefined,
              !.video = list, !.audio = sound]

LEMMA PassedIs ==
    ASSUME NEW s \in LoopState, NEW c \in Seq(Cut), NEW open \in BOOLEAN,
           NEW s2, s2 = Passed(s, c, open)
    PROVE  /\ s2 \in LoopState /\ s2.cuts = c /\ s2.audio = s.audio
           /\ s2.audiocut = s.audiocut /\ s2.start_drift = s.start_drift
           /\ s2.dropped = s.dropped /\ s2.asks = s.asks /\ s2.video = s.video
           /\ s2.undefined = s.undefined
BY DEF LoopState, Passed

LEMMA KeptIs ==
    ASSUME NEW s \in LoopState, NEW h \in SoundHolder
    PROVE  /\ [s EXCEPT !.audio = Append(@, h)] \in LoopState
           /\ [s EXCEPT !.audio = Append(@, h)].audio = Append(s.audio, h)
           /\ [s EXCEPT !.audio = Append(@, h)].cuts = s.cuts
           /\ [s EXCEPT !.audio = Append(@, h)].audiocut = s.audiocut
           /\ [s EXCEPT !.audio = Append(@, h)].start_drift = s.start_drift
           /\ [s EXCEPT !.audio = Append(@, h)].dropped = s.dropped
           /\ [s EXCEPT !.audio = Append(@, h)].asks = s.asks
           /\ [s EXCEPT !.audio = Append(@, h)].video = s.video
<1>1. Append(s.audio, h) \in Seq(SoundHolder)
  BY DEF LoopState
<1>2. QED
  BY <1>1 DEF LoopState

LEMMA BeganIs ==
    ASSUME NEW s \in LoopState, NEW flag \in BOOLEAN, NEW drift \in Int, NEW time \in Int,
           NEW s2, s2 = Begun(s, flag, drift, time)
    PROVE  /\ s2 \in LoopState /\ s2.audiocut = flag /\ s2.start_drift = drift
           /\ s2.dropped = time /\ s2.cuts = s.cuts /\ s2.audio = s.audio
           /\ s2.asks = s.asks /\ s2.video = s.video
BY DEF LoopState, Begun

LEMMA FinishedIs ==
    ASSUME NEW s \in LoopState, NEW flag \in BOOLEAN, NEW undefined \in BOOLEAN,
           NEW list \in Seq(VideoHolder), NEW sound \in Seq(SoundHolder),
           NEW s2, s2 = Done(s, flag, undefined, list, sound)
    PROVE  /\ s2 \in LoopState /\ s2.audiocut = flag /\ s2.start_drift = 0
           /\ s2.dropped = s.dropped /\ s2.cuts = s.cuts /\ s2.audio = sound
           /\ s2.asks = s.asks /\ s2.video = list
<1> DEFINE r == [cuts |-> s.cuts, audiocut |-> flag, start_drift |-> 0, audio |-> sound,
                 video |-> list, dropped |-> s.dropped, undefined |-> undefined,
                 asks |-> s.asks, open |-> s.open]
<1>1. s = [cuts |-> s.cuts, audiocut |-> s.audiocut, start_drift |-> s.start_drift,
           audio |-> s.audio, video |-> s.video, dropped |-> s.dropped,
           undefined |-> s.undefined, asks |-> s.asks, open |-> s.open]
  BY DEF LoopState
<1>2. s2 = r
  BY <1>1 DEF Done
<1>3. s.cuts \in Seq(Cut) /\ s.dropped \in Int /\ s.asks \in BOOLEAN /\ s.open \in BOOLEAN
  BY DEF LoopState
<1>4. r \in LoopState
  BY <1>3 DEF LoopState
<1>5. /\ r.audiocut = flag /\ r.start_drift = 0 /\ r.dropped = s.dropped /\ r.cuts = s.cuts
      /\ r.audio = sound /\ r.asks = s.asks /\ r.video = list
  OBVIOUS
<1> HIDE DEF r
<1>6. QED
  BY <1>2, <1>4, <1>5

Repaired(h, gap, repaired, repeat, lost, left) ==
    [h EXCEPT !.gap = gap, !.repaired = repaired, !.repeat = repeat, !.lost = lost, !.left = left]

LEMMA RepairedIs ==
    ASSUME NEW h \in SoundHolder, NEW gap \in BOOLEAN, NEW repaired \in BOOLEAN,
           NEW repeat \in Nat, NEW lost \in Int, NEW left \in Int,
           NEW h2, h2 = Repaired(h, gap, repaired, repeat, lost, left)
    PROVE  /\ h2 \in SoundHolder /\ h2.time = h.time /\ h2.repeat = repeat
           /\ h2.lost = lost /\ h2.left = left
<1> DEFINE r == [nr |-> h.nr, time |-> h.time, gap |-> gap, repeat |-> repeat,
                 repaired |-> repaired, lost |-> lost, left |-> left]
<1>1. h = [nr |-> h.nr, time |-> h.time, gap |-> h.gap, repeat |-> h.repeat,
           repaired |-> h.repaired, lost |-> h.lost, left |-> h.left]
  BY DEF SoundHolder
<1>2. h2 = r
  BY <1>1 DEF Repaired
<1>3. h.nr \in Nat /\ h.time \in Int
  BY DEF SoundHolder
<1>4. r \in SoundHolder
  BY <1>3 DEF SoundHolder
<1>5. r.time = h.time /\ r.repeat = repeat /\ r.lost = lost /\ r.left = left
  OBVIOUS
<1> HIDE DEF r
<1>6. QED
  BY <1>2, <1>4, <1>5

LEMMA FrameIs ==
    ASSUME NEW s \in LoopState, NEW flow \in Seq(Located1), NEW j \in 1..Len(flow)
    PROVE  /\ SoundFrame(flow, s, j) \in LoopState
           /\ SameHolders(s.video, SoundFrame(flow, s, j).video)
           /\ SoundFrame(flow, s, j).asks = s.asks
           /\ Frame(s, SoundFrame(flow, s, j), flow[j].time,
                    cutpoint_incut_ticks_cutpoint(s.cuts, flow[j].time))
           /\ ~SoundReadable(flow, j) => Quiet(s, SoundFrame(flow, s, j))
           /\ SoundReadable(flow, j) =>
                 SoundFrame(flow, s, j).cuts
                     = cutpoint_incut_ticks_cutpoint(s.cuts, flow[j].time).cuts
<1> DEFINE time == flow[j].time
           flagged == s.asks /\ s.open
           asked == cutpoint_incut_ticks_cutpoint(s.cuts, time)
           total == s.start_drift + asked.time - time
           holder == [nr |-> flow[j].nr, time |-> time, gap |-> flagged, repeat |-> 0,
                      repaired |-> FALSE, lost |-> 0, left |-> 0]
           ended == [holder EXCEPT
                         !.gap = FALSE, !.repaired = TRUE, !.repeat = Missing(total),
                         !.lost = time - s.dropped, !.left = total + Missing(total) * Median]
           open == s.open /\ ~flagged
           passed == [s EXCEPT !.cuts = asked.cuts, !.open = open]
           drifted == attache_drift_i_frame(s.video, asked.time, total + Missing(total) * Median)
           undefined == s.undefined \/ s.video = <<>>
           s2 == SoundFrame(flow, s, j)
<1>1. /\ time \in Int /\ flow[j].nr \in Nat /\ s.cuts \in Seq(Cut) /\ s.asks \in BOOLEAN
      /\ s.open \in BOOLEAN /\ s.video \in Seq(VideoHolder) /\ s.start_drift \in Int
      /\ s.dropped \in Int /\ s.undefined \in BOOLEAN /\ s.audio \in Seq(SoundHolder)
      /\ s.audiocut \in BOOLEAN
  <2>1. flow[j] \in Located1
    OBVIOUS
  <2>2. QED
    BY <2>1 DEF Located1, LoopState
<1>2. Answer(s.cuts, time, asked)
  <2> HIDE DEF time
  <2>1. QED
    BY <1>1, AskedIs
<1>3. /\ asked.cuts \in Seq(Cut) /\ (asked.what = "edge" => asked.time \in Int)
      /\ asked.what \in {"none", "edge", "inside"} /\ (asked.what # "edge" => asked.cuts = s.cuts)
  <2> HIDE DEF time, asked
  <2>1. QED
    BY <1>1, <1>2, AnswerIs
<1>4. s2 = IF ~SoundReadable(flow, j) THEN s
           ELSE IF asked.what = "inside" THEN passed
           ELSE IF asked.what = "none" THEN [passed EXCEPT !.audio = Append(@, holder)]
           ELSE IF ~s.audiocut
           THEN [passed EXCEPT !.audiocut = TRUE, !.start_drift = time - asked.time, !.dropped = time]
           ELSE [passed EXCEPT
                    !.audiocut = FALSE, !.start_drift = 0, !.undefined = @ \/ s.video = <<>>,
                    !.video = attache_drift_i_frame(@, asked.time, total + Missing(total) * Median),
                    !.audio = Append(@, [holder EXCEPT
                         !.gap = FALSE, !.repaired = TRUE, !.repeat = Missing(total),
                         !.lost = time - s.dropped, !.left = total + Missing(total) * Median])]
  BY DEF SoundFrame
<1>5. /\ passed \in LoopState /\ passed.cuts = asked.cuts /\ passed.audio = s.audio
      /\ passed.audiocut = s.audiocut /\ passed.start_drift = s.start_drift
      /\ passed.dropped = s.dropped /\ passed.asks = s.asks /\ passed.video = s.video
      /\ passed.undefined = s.undefined
  <2>1. open \in BOOLEAN
    OBVIOUS
  <2>2. passed = Passed(s, asked.cuts, open)
    BY Zenon DEF Passed
  <2> HIDE DEF passed, open, asked
  <2>3. QED
    BY <1>3, <2>1, <2>2, PassedIs
<1>6. SameHolders(s.video, s.video)
  BY DEF SameHolders
<1>7. holder \in SoundHolder /\ holder.time = time /\ ~holder.repaired
  BY <1>1 DEF SoundHolder
<1>8. CASE ~SoundReadable(flow, j)
  <2>1. s2 = s
    BY <1>4, <1>8
  <2> HIDE DEF s2
  <2>2. Quiet(s, s2)
    BY <2>1 DEF Quiet
  <2>3. QED
    BY <1>6, <1>8, <2>1, <2>2 DEF Frame, s2
<1>9. CASE SoundReadable(flow, j) /\ asked.what = "inside"
  <2>1. s2 = passed
    BY <1>4, <1>9
  <2> HIDE DEF s2, passed, asked
  <2>2. Quiet(s, s2)
    BY <1>3, <1>5, <1>9, <2>1 DEF Quiet
  <2>3. QED
    BY <1>5, <1>6, <1>9, <2>1, <2>2 DEF Frame, s2, asked, time
<1>10. CASE SoundReadable(flow, j) /\ asked.what = "none"
  <2>1. s2 = [passed EXCEPT !.audio = Append(@, holder)]
    BY <1>4, <1>10
  <2> HIDE DEF s2, passed, asked, holder, time
  <2>2. /\ s2 \in LoopState /\ s2.audio = Append(passed.audio, holder) /\ s2.cuts = passed.cuts
        /\ s2.audiocut = passed.audiocut /\ s2.start_drift = passed.start_drift
        /\ s2.dropped = passed.dropped /\ s2.asks = passed.asks /\ s2.video = passed.video
    BY <1>5, <1>7, <2>1, KeptIs
  <2>3. Kept(s, s2, time)
    BY <1>3, <1>5, <1>7, <1>10, <2>2 DEF Kept
  <2>4. QED
    BY <1>5, <1>6, <1>10, <2>2, <2>3 DEF Frame, s2, asked, time
<1>11. CASE SoundReadable(flow, j) /\ asked.what = "edge" /\ ~s.audiocut
  <2>1. PICK flag \in BOOLEAN : flag = TRUE
    OBVIOUS
  <2>2. s2 = [passed EXCEPT !.audiocut = TRUE, !.start_drift = time - asked.time, !.dropped = time]
    BY <1>4, <1>11
  <2>3. [passed EXCEPT !.audiocut = TRUE, !.start_drift = time - asked.time, !.dropped = time]
        = [passed EXCEPT !.audiocut = flag, !.start_drift = time - asked.time, !.dropped = time]
    BY <2>1
  <2>4. time - asked.time \in Int /\ time \in Int
    BY <1>1, <1>3, <1>11
  <2> HIDE DEF s2, passed, asked, time
  <2>5. s2 = Begun(passed, flag, time - asked.time, time)
    BY <2>2, <2>3, Zenon DEF Begun
  <2>6. /\ s2 \in LoopState /\ s2.audiocut = flag /\ s2.start_drift = time - asked.time
        /\ s2.dropped = time /\ s2.cuts = passed.cuts /\ s2.audio = passed.audio
        /\ s2.asks = passed.asks /\ s2.video = passed.video
    BY <1>5, <2>4, <2>5, BeganIs
  <2>7. Began(s, s2, time, asked)
    BY <1>5, <2>1, <2>6 DEF Began
  <2>8. QED
    BY <1>5, <1>6, <1>11, <2>6, <2>7 DEF Frame, s2, asked, time
<1>12. CASE SoundReadable(flow, j) /\ asked.what = "edge" /\ s.audiocut
  <2>1. PICK flag \in BOOLEAN : flag = FALSE
    OBVIOUS
  <2>2. s2 = [passed EXCEPT
                 !.audiocut = FALSE, !.start_drift = 0, !.undefined = @ \/ s.video = <<>>,
                 !.video = attache_drift_i_frame(@, asked.time, total + Missing(total) * Median),
                 !.audio = Append(@, [holder EXCEPT
                      !.gap = FALSE, !.repaired = TRUE, !.repeat = Missing(total),
                      !.lost = time - s.dropped, !.left = total + Missing(total) * Median])]
    BY <1>4, <1>12
  <2>4. total \in Int
    BY <1>1, <1>3, <1>12
  <2>5. /\ Missing(total) \in Nat /\ total + Missing(total) * Median \in Int
    <3> HIDE DEF total
    <3>1. QED
      BY <2>4, MissingIs
  <2>6. ended \in SoundHolder /\ ended.time = time /\ ended.repeat = Missing(total)
        /\ ended.lost = time - s.dropped /\ ended.left = total + Missing(total) * Median
    <3>1. PICK f \in BOOLEAN, r \in BOOLEAN : f = FALSE /\ r = TRUE
      OBVIOUS
    <3>2. ended = [holder EXCEPT
                       !.gap = f, !.repaired = r, !.repeat = Missing(total),
                       !.lost = time - s.dropped, !.left = total + Missing(total) * Median]
      <4> HIDE DEF holder, total, time
      <4>1. QED
        BY <3>1
    <3>3. ended = Repaired(holder, f, r, Missing(total), time - s.dropped,
                           total + Missing(total) * Median)
      <4> HIDE DEF ended, holder, total, time
      <4>1. QED
        BY <3>2, Zenon DEF Repaired
    <3>4. time - s.dropped \in Int
      BY <1>1
    <3> HIDE DEF ended, holder, total, time
    <3>5. QED
      BY <1>7, <2>5, <3>3, <3>4, RepairedIs
  <2>7. drifted \in Seq(VideoHolder) /\ SameHolders(s.video, drifted)
    <3> HIDE DEF total, asked
    <3>1. QED
      BY <1>1, <2>5, AttacheIs
  <2>8. Append(s.audio, ended) \in Seq(SoundHolder) /\ undefined \in BOOLEAN
    <3> HIDE DEF ended
    <3>1. QED
      BY <1>1, <2>6
  <2>9. s2 = Done(passed, flag, undefined, drifted, Append(s.audio, ended))
    <3> DEFINE moved == attache_drift_i_frame(passed.video, asked.time, total + Missing(total) * Median)
               frames == Append(passed.audio, ended)
    <3>1. moved = drifted /\ frames = Append(s.audio, ended)
      <4> HIDE DEF passed, asked, total, ended, holder
      <4>1. QED
        BY <1>5
    <3>2. passed.undefined = s.undefined
      BY <1>5
    <3>3. s2 = [passed EXCEPT !.audiocut = FALSE, !.start_drift = 0,
                              !.undefined = passed.undefined \/ s.video = <<>>,
                              !.video = moved, !.audio = frames]
      <4> HIDE DEF s2, passed, asked, time, total, holder
      <4>1. QED
        BY <2>2, Zenon
    <3> HIDE DEF s2, passed, asked, time, total, holder, ended, moved, frames, drifted
    <3>4. QED
      BY <2>1, <3>1, <3>2, <3>3, Zenon DEF Done
  <2> HIDE DEF s2, passed, drifted, undefined, ended, asked, total, time
  <2>10. /\ s2 \in LoopState /\ s2.audiocut = flag /\ s2.start_drift = 0
         /\ s2.dropped = passed.dropped /\ s2.cuts = passed.cuts
         /\ s2.audio = Append(s.audio, ended) /\ s2.asks = passed.asks /\ s2.video = drifted
    <3>1. PICK u \in BOOLEAN : u = undefined
      BY <2>8
    <3>2. PICK frames \in Seq(SoundHolder) : frames = Append(s.audio, ended)
      BY <2>8
    <3>3. s2 = Done(passed, flag, u, drifted, frames)
      BY <2>9, <3>1, <3>2
    <3>4. passed \in LoopState /\ drifted \in Seq(VideoHolder) /\ flag \in BOOLEAN
      BY <1>5, <2>1, <2>7
    <3> HIDE DEF holder, open, flagged
    <3>5. /\ s2 \in LoopState /\ s2.audiocut = flag /\ s2.start_drift = 0
          /\ s2.dropped = passed.dropped /\ s2.cuts = passed.cuts
          /\ s2.audio = frames /\ s2.asks = passed.asks /\ s2.video = drifted
      BY <3>3, <3>4, FinishedIs
    <3>6. QED
      BY <3>2, <3>5
  <2>11. Finished(s, s2, time, asked)
    BY <1>5, <2>1, <2>6, <2>10 DEF Finished, total
  <2>12. QED
    BY <1>5, <1>12, <2>7, <2>10, <2>11 DEF Frame, s2, asked, time
<1> HIDE DEF s2, asked, passed, time
<1>13. QED
  BY <1>3, <1>8, <1>9, <1>10, <1>11, <1>12 DEF s2, time

-----------------------------------------------------------------------------
(* The loop over the sound of a chunk.                                     *)
AudioTypes ==
    /\ cuts \in Seq(Cut) /\ audiocut \in BOOLEAN /\ audio_start_drift \in Int
    /\ audio \in Seq(SoundHolder) /\ video \in Seq(VideoHolder) /\ dropped \in Int

LoopStarts(s) ==
    /\ s.cuts = cuts /\ s.audiocut = audiocut /\ s.start_drift = audio_start_drift
    /\ s.audio = audio /\ s.video = video /\ s.dropped = dropped

LoopRuns(list, f) ==
    /\ LoopStarts(f[0]) /\ f[0].asks = list[1].gap
    /\ \A j \in 0..Len(list[1].recs) : f[j] \in LoopState
    /\ \A j \in 1..Len(list[1].recs) :
        f[j] = IF Flow(list)[j].kind = "sound" THEN SoundFrame(Flow(list), f[j - 1], j)
               ELSE f[j - 1]

LEMMA LoopIs ==
    ASSUME AudioTypes, NEW list \in Seq(Chunk), list # <<>>, Rising(list)
    PROVE  LoopRuns(list, LoopOver(list))
<1> DEFINE L == Len(list[1].recs)
           flow == Flow(list)
           own == {j \in DOMAIN list[1].recs : flow[j].kind = "sound"}
           start == [cuts |-> cuts, audiocut |-> audiocut, start_drift |-> audio_start_drift,
                     audio |-> audio, video |-> video, dropped |-> dropped, undefined |-> FALSE,
                     asks |-> list[1].gap, open |-> TRUE]
           Of(j, s) == IF j \in own THEN SoundFrame(flow, s, j) ELSE s
           step == [j \in 1..L |-> [s \in LoopState |-> Of(j, s)]]
           Running(f) == [j \in 0..L |->
                IF j = 0 THEN start
                ELSE IF j \in own THEN SoundFrame(flow, f[j - 1], j) ELSE f[j - 1]]
           h == CHOOSE f : f = Running(f)
<1>1. /\ L \in Nat /\ DOMAIN list[1].recs = 1..L /\ list[1].gap \in BOOLEAN
      /\ flow \in Seq(Located1) /\ L <= Len(flow) /\ Len(flow) \in Nat
  <2>1. list[1] \in Chunk
    OBVIOUS
  <2>2. list[1].recs \in Seq(Record) /\ list[1].gap \in BOOLEAN
    BY <2>1 DEF Chunk
  <2>3. FlowIs(list, flow)
    BY FlowFacts
  <2> HIDE DEF flow
  <2>4. QED
    BY <2>2, <2>3 DEF FlowIs, OwnFirst
<1>2. own = {j \in 1..L : flow[j].kind = "sound"}
  BY <1>1
<1>3. start \in LoopState /\ LoopStarts(start) /\ start.asks = list[1].gap
  <2>1. PICK u \in BOOLEAN, o \in BOOLEAN : u = FALSE /\ o = TRUE
    OBVIOUS
  <2>2. start = [cuts |-> cuts, audiocut |-> audiocut, start_drift |-> audio_start_drift,
                 audio |-> audio, video |-> video, dropped |-> dropped, undefined |-> u,
                 asks |-> list[1].gap, open |-> o]
    BY <2>1
  <2>3. QED
    BY <1>1, <2>1, <2>2 DEF LoopState, LoopStarts, AudioTypes
<1>4. h = LoopOver(list)
  BY DEF LoopOver
<1> HIDE DEF start, L, flow, own
<1>5. ASSUME NEW j \in 1..L, NEW s \in LoopState PROVE Of(j, s) \in LoopState
  <2>1. j \in 1..Len(flow)
    BY <1>1
  <2>2. SoundFrame(flow, s, j) \in LoopState
    BY <1>1, <2>1, FrameIs
  <2>3. QED
    BY <2>2
<1>6. step \in [1..L -> [LoopState -> LoopState]]
  <2> HIDE DEF Of
  <2>1. QED
    BY <1>5
<1>7. PICK f \in [0..L -> LoopState] : Recurses(f, L, start, step)
  <2> HIDE DEF step
  <2>1. QED
    BY <1>1, <1>3, <1>6, Recursion, Zenon
<1>8. f = Running(f)
  <2>1. ASSUME NEW j \in 1..L PROVE f[j] = Of(j, f[j - 1])
    <3>1. j - 1 \in 0..L
      BY <1>1
    <3>2. f[j - 1] \in LoopState
      BY <1>7, <3>1
    <3>3. f[j] = step[j][f[j - 1]]
      <4> HIDE DEF step
      <4>1. QED
        BY <1>7 DEF Recurses
    <3> HIDE DEF Of
    <3>4. QED
      BY <3>2, <3>3
  <2>2. f[0] = start
    <3> HIDE DEF step
    <3>1. QED
      BY <1>7 DEF Recurses
  <2>3. ASSUME NEW j \in 0..L PROVE f[j] = Running(f)[j]
    <3>1. CASE j = 0
      BY <2>2, <3>1, Zenon
    <3>2. CASE j # 0
      <4>1. j \in 1..L
        BY <1>1, <3>2
      <4>2. f[j] = Of(j, f[j - 1])
        BY <2>1, <4>1
      <4>3. QED
        BY <3>2, <4>2
    <3>3. QED
      BY <3>1, <3>2
  <2>4. QED
    BY <2>3
<1>9. h = Running(h)
  BY <1>8
<1> HIDE DEF h
<1>10. h[0] = start
  <2>1. 0 \in 0..L
    BY <1>1
  <2>2. h[0] = Running(h)[0]
    BY <1>9, Zenon
  <2>3. QED
    BY <2>1, <2>2
<1>11. ASSUME NEW j \in 1..L PROVE h[j] = Of(j, h[j - 1])
  <2>1. j \in 0..L /\ j # 0
    BY <1>1
  <2>2. h[j] = Running(h)[j]
    BY <1>9, Zenon
  <2>3. Running(h)[j] = Of(j, h[j - 1])
    BY <2>1
  <2>4. QED
    BY <2>2, <2>3
<1>12. \A j \in 0..L : h[j] \in LoopState
  <2> DEFINE T == {j \in 0..L : h[j] \in LoopState}
  <2>1. 0 \in T
    BY <1>1, <1>3, <1>10
  <2>2. ASSUME NEW j \in 0..(L - 1), j \in T PROVE j + 1 \in T
    <3>1. j + 1 \in 1..L /\ (j + 1) - 1 = j /\ j + 1 \in 0..L
      BY <1>1
    <3> HIDE DEF Of
    <3>2. h[j + 1] = Of(j + 1, h[j])
      BY <1>11, <3>1
    <3>3. QED
      BY <1>5, <2>2, <3>1, <3>2
  <2> HIDE DEF T
  <2>3. \A j \in 0..L : j \in T
    BY <1>1, <2>1, <2>2, Induction
  <2>4. QED
    BY <2>3 DEF T
<1>13. ASSUME NEW j \in 1..L
       PROVE  h[j] = IF flow[j].kind = "sound" THEN SoundFrame(flow, h[j - 1], j) ELSE h[j - 1]
  BY <1>2, <1>11
<1>14. QED
  BY <1>3, <1>4, <1>10, <1>12, <1>13 DEF LoopRuns, L, flow

LEMMA SameHoldersTrans ==
    ASSUME NEW a, NEW b, NEW c, SameHolders(a, b), SameHolders(b, c)
    PROVE  SameHolders(a, c)
BY DEF SameHolders

(* What the loop leaves alone.                                             *)
LEMMA LoopKeeps ==
    ASSUME AudioTypes, NEW list \in Seq(Chunk), list # <<>>, Rising(list)
    PROVE  /\ AudioOf(list) \in LoopState /\ AudioOf(list).asks = list[1].gap
           /\ SameHolders(video, AudioOf(list).video)
<1> DEFINE L == Len(list[1].recs)
           flow == Flow(list)
           f == LoopOver(list)
           T == {j \in 0..L : f[j].asks = list[1].gap /\ SameHolders(video, f[j].video)}
<1>1. L \in Nat /\ flow \in Seq(Located1) /\ L <= Len(flow) /\ Len(flow) \in Nat
  <2>1. list[1] \in Chunk
    OBVIOUS
  <2>2. list[1].recs \in Seq(Record)
    BY <2>1 DEF Chunk
  <2>3. FlowIs(list, flow)
    BY FlowFacts
  <2> HIDE DEF flow
  <2>4. QED
    BY <2>2, <2>3 DEF FlowIs, OwnFirst
<1>2. LoopRuns(list, f)
  BY LoopIs
<1>3. AudioOf(list) = f[L]
  BY DEF AudioOf
<1> HIDE DEF f, flow, L
<1>4. 0 \in T
  <2>1. LoopStarts(f[0]) /\ f[0].asks = list[1].gap
    BY <1>2 DEF LoopRuns
  <2>2. SameHolders(video, f[0].video)
    BY <2>1 DEF LoopStarts, SameHolders
  <2>3. QED
    BY <1>1, <2>1, <2>2
<1>5. ASSUME NEW j \in 0..(L - 1), j \in T PROVE j + 1 \in T
  <2>1. j + 1 \in 1..L /\ (j + 1) - 1 = j /\ j + 1 \in 0..L /\ j \in 0..L /\ j + 1 \in 1..Len(flow)
    BY <1>1
  <2>2. /\ f[j] \in LoopState
        /\ f[j + 1] = IF flow[j + 1].kind = "sound" THEN SoundFrame(flow, f[j], j + 1) ELSE f[j]
    BY <1>2, <2>1 DEF LoopRuns, L, flow
  <2>3. CASE flow[j + 1].kind = "sound"
    <3>1. SameHolders(f[j].video, f[j + 1].video) /\ f[j + 1].asks = f[j].asks
      BY <1>1, <2>1, <2>2, <2>3, FrameIs
    <3>2. SameHolders(video, f[j + 1].video)
      BY <1>5, <3>1, SameHoldersTrans
    <3>3. QED
      BY <1>5, <2>1, <3>1, <3>2
  <2>4. CASE flow[j + 1].kind # "sound"
    BY <1>5, <2>1, <2>2, <2>4
  <2>5. QED
    BY <2>3, <2>4
<1> HIDE DEF T
<1>6. \A j \in 0..L : j \in T
  BY <1>1, <1>4, <1>5, Induction
<1>7. L \in 0..L
  BY <1>1
<1>8. L \in T
  BY <1>6, <1>7
<1>9. f[L] \in LoopState
  BY <1>2, <1>7 DEF LoopRuns, L
<1>10. QED
  BY <1>3, <1>8, <1>9 DEF T

-----------------------------------------------------------------------------
(* What holds of the cuts and the sound in front of each frame.            *)
OutsideOf(c, h) == c.cut_is_start_of_stream \/ ~SoundIn(c, h.time)

SyncOf(c, h) ==
    LET taken == c.cutstop - c.cutstart IN
    /\ h.lost - h.repeat * Median = taken - h.left
    /\ h.lost > taken => h.left \in (1 - Median)..0

Outside(list, frames) ==
    \A k \in 1..Len(frames) : \A n \in 1..Len(list) : OutsideOf(list[n], frames[k])

Synced(list, frames) ==
    \A k \in 1..Len(frames) :
        frames[k].repaired => \E n \in 1..Len(list) : SyncOf(list[n], frames[k])

(* At most one cut is open, and the drift is what its start left.          *)
Marks(list, cut, drift, drop) ==
    /\ \A n \in 1..Len(list) : list[n].audiostop => list[n].audiostart
    /\ cut <=> \E n \in 1..Len(list) : Open(list[n])
    /\ \A n, m \in 1..Len(list) : Open(list[n]) /\ Open(list[m]) => n = m
    /\ \A n \in 1..Len(list) : Open(list[n]) => drift = drop - list[n].cutstart

SoundOk(s) ==
    /\ Marks(s.cuts, s.audiocut, s.start_drift, s.dropped)
    /\ Outside(s.cuts, s.audio) /\ Synced(s.cuts, s.audio)

LEMMA SameCutsKeep ==
    ASSUME NEW list, NEW new, SameCuts(new, list), NEW frames,
           Outside(list, frames), Synced(list, frames)
    PROVE  Outside(new, frames) /\ Synced(new, frames)
<1>1. Len(new) = Len(list) /\ \A n \in 1..Len(list) : SameCut(new[n], list[n])
  BY DEF SameCuts
<1>2. ASSUME NEW n \in 1..Len(list), NEW h
      PROVE  /\ OutsideOf(list[n], h) => OutsideOf(new[n], h)
             /\ SyncOf(list[n], h) => SyncOf(new[n], h)
  BY <1>1 DEF SameCut, OutsideOf, SyncOf, SoundIn
<1>3. Outside(new, frames)
  BY <1>1, <1>2 DEF Outside
<1>4. Synced(new, frames)
  BY <1>1, <1>2 DEF Synced
<1>5. QED
  BY <1>3, <1>4

(* One more frame.                                                         *)
LEMMA AppendKeeps ==
    ASSUME NEW list, NEW frames \in Seq(SoundHolder), NEW h \in SoundHolder,
           Outside(list, frames), Synced(list, frames),
           \A n \in 1..Len(list) : OutsideOf(list[n], h),
           h.repaired => \E n \in 1..Len(list) : SyncOf(list[n], h)
    PROVE  Outside(list, Append(frames, h)) /\ Synced(list, Append(frames, h))
<1> DEFINE new == Append(frames, h)
<1>1. /\ Len(new) = Len(frames) + 1 /\ new[Len(frames) + 1] = h /\ Len(frames) \in Nat
      /\ \A k \in 1..Len(frames) : new[k] = frames[k]
  OBVIOUS
<1> HIDE DEF new
<1>2. ASSUME NEW k \in 1..Len(new) PROVE new[k] = h \/ (k \in 1..Len(frames) /\ new[k] = frames[k])
  <2>1. k \in 1..Len(frames) \/ k = Len(frames) + 1
    BY <1>1
  <2>2. QED
    BY <1>1, <2>1
<1>3. Outside(list, new)
  BY <1>2 DEF Outside
<1>4. Synced(list, new)
  BY <1>2 DEF Synced
<1>5. QED
  BY <1>3, <1>4 DEF new

(* The sound of a cut starts: it is the only open one.                     *)
LEMMA BeganOk ==
    ASSUME NEW list \in Seq(Cut), NEW cut \in BOOLEAN, NEW drift, NEW drop, NEW time \in Int,
           Marks(list, cut, drift, drop), ApartAt(list, time),
           NEW i \in 1..Len(list), SoundIn(list[i], time), ~list[i].audiostart,
           NEW new, Started(new, list, i)
    PROVE  /\ ~cut /\ SameCuts(new, list)
           /\ Marks(new, TRUE, time - list[i].cutstart, time)
<1>1. \A n \in 1..Len(list) : ~Open(list[n])
  <2>1. ~Open(list[i])
    BY DEF Open
  <2>2. ASSUME NEW n \in 1..Len(list), n # i PROVE ~Open(list[n])
    BY <2>2 DEF ApartAt
  <2>3. QED
    BY <2>1, <2>2
<1>2. ~cut
  BY <1>1 DEF Marks
<1>3. /\ Len(new) = Len(list)
      /\ \A n \in 1..Len(list) :
            /\ SameCut(new[n], list[n]) /\ new[n].audiostop = list[n].audiostop
            /\ new[n].audiostart = (n = i \/ list[n].audiostart)
  BY DEF Started
<1>4. SameCuts(new, list)
  BY <1>3 DEF SameCuts
<1>5. \A n \in 1..Len(list) : list[n].audiostop => list[n].audiostart
  BY DEF Marks
<1>6. \A n \in 1..Len(new) : new[n].audiostop => new[n].audiostart
  BY <1>3, <1>5
<1>7. ~list[i].audiostop
  BY <1>5
<1>8. \A n \in 1..Len(new) : Open(new[n]) <=> n = i
  <2>1. ASSUME NEW n \in 1..Len(new) PROVE Open(new[n]) <=> n = i
    <3>1. CASE n = i
      BY <1>3, <1>7, <3>1 DEF Open
    <3>2. CASE n # i
      BY <1>1, <1>3, <3>2 DEF Open
    <3>3. QED
      BY <3>1, <3>2
  <2>2. QED
    BY <2>1
<1>9. new[i].cutstart = list[i].cutstart
  BY <1>3 DEF SameCut
<1>10. Marks(new, TRUE, time - list[i].cutstart, time)
  BY <1>3, <1>6, <1>8, <1>9 DEF Marks
<1>11. QED
  BY <1>2, <1>4, <1>10

Closed(list) ==
    \A n \in 1..Len(list) : ~Open(list[n]) /\ (list[n].audiostop => list[n].audiostart)

(* It ends: none is open.                                                  *)
LEMMA FinishedOk ==
    ASSUME NEW list \in Seq(Cut), NEW cut \in BOOLEAN, NEW drift \in Int, NEW drop \in Int,
           Marks(list, cut, drift, drop),
           NEW i \in 1..Len(list), Open(list[i]),
           NEW new, Ended(new, list, i)
    PROVE  /\ cut /\ SameCuts(new, list) /\ drift = drop - list[i].cutstart
           /\ Closed(new)
<1>1. cut /\ drift = drop - list[i].cutstart /\ \A n \in 1..Len(list) : Open(list[n]) => n = i
  BY DEF Marks
<1>2. /\ Len(new) = Len(list)
      /\ \A n \in 1..Len(list) :
            /\ SameCut(new[n], list[n]) /\ new[n].audiostart = list[n].audiostart
            /\ new[n].audiostop = (n = i \/ list[n].audiostop)
  BY DEF Ended
<1>3. SameCuts(new, list)
  BY <1>2 DEF SameCuts
<1>4. list[i].audiostart /\ \A n \in 1..Len(list) : list[n].audiostop => list[n].audiostart
  BY DEF Marks, Open
<1>5. \A n \in 1..Len(new) : new[n].audiostop => new[n].audiostart
  BY <1>2, <1>4
<1>6. ASSUME NEW n \in 1..Len(new) PROVE ~Open(new[n])
  <2>1. CASE n = i
    BY <1>2, <2>1 DEF Open
  <2>2. CASE n # i
    BY <1>1, <1>2, <2>2 DEF Open
  <2>3. QED
    BY <2>1, <2>2
<1>7. Closed(new)
  BY <1>5, <1>6 DEF Closed
<1>8. QED
  BY <1>1, <1>3, <1>7

(* The arithmetic of the repair at the end of a cut.                       *)
LEMMA RepairKeepsSync ==
    ASSUME NEW c \in Cut, NEW h \in SoundHolder, NEW time \in Int, NEW drop \in Int,
           h.lost = time - drop,
           h.repeat = Missing((drop - c.cutstart) + c.cutstop - time),
           h.left = (drop - c.cutstart) + c.cutstop - time
                        + Missing((drop - c.cutstart) + c.cutstop - time) * Median
    PROVE  SyncOf(c, h)
<1> DEFINE total == (drop - c.cutstart) + c.cutstop - time
           more == Missing(total)
<1>1. c.cutstart \in Int /\ c.cutstop \in Int /\ total \in Int
  BY DEF Cut
<1>2. /\ more \in Nat /\ Median \in Nat
      /\ total < 0 => total + more * Median \in (1 - Median)..0
  <2> HIDE DEF total
  <2>1. QED
    BY <1>1, MissingIs
<1>3. PICK product \in Int : product = more * Median
  BY <1>2
<1>4. h.repeat * Median = product /\ h.left = total + product /\ h.lost = time - drop
  <2>1. h.repeat = more /\ h.left = total + more * Median
    OBVIOUS
  <2> HIDE DEF total, more
  <2>2. QED
    BY <1>3, <2>1
<1>5. total < 0 => h.left \in (1 - Median)..0
  <2> HIDE DEF total, more
  <2>1. QED
    BY <1>2, <1>3, <1>4
<1>6. h.lost > c.cutstop - c.cutstart => total < 0
  BY <1>1
<1>7. h.lost - product = (c.cutstop - c.cutstart) - h.left
  <2> HIDE DEF more
  <2>1. QED
    BY <1>1, <1>3, <1>4
<1> HIDE DEF total, more
<1>8. QED
  BY <1>4, <1>5, <1>6, <1>7 DEF SyncOf

LEMMA FrameOk ==
    ASSUME NEW s \in LoopState, NEW s2 \in LoopState, NEW time \in Int, NEW asked,
           SoundOk(s), ApartAt(s.cuts, time),
           Frame(s, s2, time, asked), Answer(s.cuts, time, asked)
    PROVE  SoundOk(s2) /\ SameCuts(s2.cuts, s.cuts)
<1> DEFINE list == s.cuts
<1>1. /\ list \in Seq(Cut) /\ s.audio \in Seq(SoundHolder) /\ s.audiocut \in BOOLEAN
      /\ s.dropped \in Int /\ s.start_drift \in Int /\ Len(list) \in Nat
      /\ s2.audiocut \in BOOLEAN
  BY DEF LoopState
<1>2. Marks(list, s.audiocut, s.start_drift, s.dropped) /\ Outside(list, s.audio) /\ Synced(list, s.audio)
  BY DEF SoundOk
<1>3. SameCuts(list, list)
  BY DEF SameCuts, SameCut
<1>4. CASE Quiet(s, s2)
  BY <1>2, <1>3, <1>4 DEF Quiet, SoundOk
<1>5. CASE asked.what = "none" /\ Kept(s, s2, time)
  <2>1. NotCut(list, time, asked)
    BY <1>5 DEF Answer, CutStarts, CutEnds, InsideCut
  <2>2. PICK h \in SoundHolder : s2.audio = Append(s.audio, h) /\ h.time = time /\ ~h.repaired
    BY <1>5 DEF Kept
  <2>3. ASSUME NEW n \in 1..Len(list) PROVE OutsideOf(list[n], h)
    <3>1. CASE \A m \in 1..Len(list) : ~SoundIn(list[m], time)
      BY <2>2, <3>1 DEF OutsideOf
    <3>2. ASSUME NEW m \in 1..Len(list), SoundIn(list[m], time), list[m].cut_is_start_of_stream
          PROVE  OutsideOf(list[n], h)
      <4>1. n # m => ~SoundIn(list[n], time)
        BY <1>1, <3>2 DEF ApartAt
      <4>2. QED
        BY <2>2, <3>2, <4>1 DEF OutsideOf
    <3>3. QED
      BY <2>1, <3>1, <3>2 DEF NotCut
  <2>4. Outside(list, Append(s.audio, h)) /\ Synced(list, Append(s.audio, h))
    BY <1>1, <1>2, <2>2, <2>3, AppendKeeps
  <2>5. QED
    BY <1>2, <1>3, <1>5, <2>2, <2>4 DEF Kept, SoundOk
<1>6. ASSUME NEW i \in 1..Len(list), CutStarts(list, time, asked, i), asked.what = "edge",
             \/ ~s.audiocut /\ Began(s, s2, time, asked)
             \/ s.audiocut /\ Finished(s, s2, time, asked)
      PROVE  SoundOk(s2) /\ SameCuts(s2.cuts, list)
  <2>1. /\ asked.time = list[i].cutstart /\ SoundIn(list[i], time) /\ ~list[i].audiostart
        /\ asked.cuts = [list EXCEPT ![i].audiostart = TRUE]
    BY <1>6 DEF CutStarts
  <2>2. Started([list EXCEPT ![i].audiostart = TRUE], list, i)
    BY <1>1, StartedIs
  <2>3. Started(asked.cuts, list, i)
    BY <2>1, <2>2
  <2> HIDE DEF list
  <2>4. /\ ~s.audiocut /\ SameCuts(asked.cuts, list)
        /\ Marks(asked.cuts, TRUE, time - list[i].cutstart, time)
    <3>1. ApartAt(list, time)
      BY DEF list
    <3>2. QED
      BY <1>1, <1>2, <2>1, <2>3, <3>1, BeganOk
  <2>5. /\ s2.cuts = asked.cuts /\ s2.audio = s.audio /\ s2.audiocut
        /\ s2.start_drift = time - asked.time /\ s2.dropped = time
    BY <1>6, <2>4 DEF Began
  <2>6. Outside(asked.cuts, s.audio) /\ Synced(asked.cuts, s.audio)
    BY <1>2, <2>4, SameCutsKeep
  <2>7. Marks(s2.cuts, s2.audiocut, s2.start_drift, s2.dropped)
    BY <2>1, <2>4, <2>5 DEF Marks
  <2>8. QED
    BY <2>4, <2>5, <2>6, <2>7 DEF SoundOk
<1>7. ASSUME NEW i \in 1..Len(list), CutEnds(list, time, asked, i), asked.what = "edge",
             \/ ~s.audiocut /\ Began(s, s2, time, asked)
             \/ s.audiocut /\ Finished(s, s2, time, asked)
      PROVE  SoundOk(s2) /\ SameCuts(s2.cuts, list)
  <2>1. /\ asked.time = list[i].cutstop /\ ~SoundIn(list[i], time) /\ Open(list[i])
        /\ asked.cuts = [list EXCEPT ![i].audiostop = TRUE]
    BY <1>7 DEF CutEnds
  <2>2. Ended([list EXCEPT ![i].audiostop = TRUE], list, i)
    BY <1>1, EndedIs
  <2>3. Ended(asked.cuts, list, i)
    BY <2>1, <2>2
  <2>4. ASSUME NEW n \in 1..Len(list) PROVE ~SoundIn(list[n], time)
    <3>1. n # i /\ SoundIn(list[n], time) => ~Open(list[i])
      BY <1>1 DEF ApartAt
    <3>2. QED
      BY <2>1, <3>1
  <2>5. list[i] \in Cut
    BY <1>1
  <2> HIDE DEF list
  <2>6. /\ s.audiocut /\ SameCuts(asked.cuts, list)
        /\ s.start_drift = s.dropped - list[i].cutstart
        /\ Closed(asked.cuts)
    <3>1. PICK new : new = asked.cuts /\ Ended(new, list, i)
      BY <2>3
    <3>2. PICK drift \in Int, drop \in Int : drift = s.start_drift /\ drop = s.dropped
      BY <1>1
    <3>3. PICK cut \in BOOLEAN : cut = s.audiocut
      BY <1>1
    <3>4. PICK l \in Seq(Cut) : l = list
      BY <1>1
    <3>5. i \in 1..Len(l) /\ Open(l[i]) /\ Marks(l, cut, drift, drop) /\ Ended(new, l, i)
      BY <1>2, <2>1, <3>1, <3>2, <3>3, <3>4
    <3>6. cut /\ SameCuts(new, l) /\ drift = drop - l[i].cutstart
      BY <3>5, FinishedOk
    <3>7. Closed(new)
      BY <3>5, FinishedOk
    <3>8. QED
      BY <3>1, <3>2, <3>3, <3>4, <3>6, <3>7
  <2> DEFINE total == s.start_drift + asked.time - time
  <2>7. PICK h \in SoundHolder :
            /\ s2.audio = Append(s.audio, h) /\ h.time = time
            /\ h.repeat = Missing(total) /\ h.lost = time - s.dropped
            /\ h.left = total + Missing(total) * Median
    BY <1>7, <2>6 DEF Finished
  <2>8. s2.cuts = asked.cuts /\ ~s2.audiocut /\ s2.start_drift = 0 /\ s2.dropped = s.dropped
    BY <1>7, <2>6 DEF Finished
  <2>9. total = (s.dropped - list[i].cutstart) + list[i].cutstop - time
    BY <2>1, <2>6
  <2>10. SyncOf(list[i], h)
    <3> HIDE DEF total
    <3>1. /\ h.repeat = Missing((s.dropped - list[i].cutstart) + list[i].cutstop - time)
          /\ h.left = (s.dropped - list[i].cutstart) + list[i].cutstop - time
                       + Missing((s.dropped - list[i].cutstart) + list[i].cutstop - time) * Median
      BY <2>7, <2>9
    <3>2. QED
      BY <1>1, <2>5, <2>7, <3>1, RepairKeepsSync
  <2>11. \A n \in 1..Len(list) : OutsideOf(list[n], h)
    BY <2>4, <2>7 DEF OutsideOf
  <2>12. Outside(list, Append(s.audio, h)) /\ Synced(list, Append(s.audio, h))
    BY <1>1, <1>2, <2>10, <2>11, AppendKeeps
  <2>13. Outside(s2.cuts, s2.audio) /\ Synced(s2.cuts, s2.audio)
    BY <2>6, <2>7, <2>8, <2>12, SameCutsKeep
  <2>14. Marks(s2.cuts, s2.audiocut, s2.start_drift, s2.dropped)
    BY <2>6, <2>8 DEF Marks, Closed
  <2>15. QED
    BY <2>6, <2>8, <2>13, <2>14 DEF SoundOk
<1>8. CASE asked.what = "edge" /\ (\/ ~s.audiocut /\ Began(s, s2, time, asked)
                                   \/ s.audiocut /\ Finished(s, s2, time, asked))
  BY <1>6, <1>7, <1>8 DEF Answer, NotCut, InsideCut
<1>9. QED
  BY <1>4, <1>5, <1>8 DEF Frame

LEMMA SameCutsTrans ==
    ASSUME NEW a, NEW b, NEW c, SameCuts(a, b), SameCuts(b, c)
    PROVE  SameCuts(a, c)
<1>1. ASSUME NEW n \in 1..Len(a) PROVE SameCut(a[n], c[n])
  BY DEF SameCuts, SameCut
<1>2. QED
  BY <1>1 DEF SameCuts

LEMMA FrameCuts ==
    ASSUME NEW s \in LoopState, NEW s2, NEW time, NEW asked,
           Frame(s, s2, time, asked), Answer(s.cuts, time, asked)
    PROVE  SameCuts(s2.cuts, s.cuts)
<1>1. s.cuts \in Seq(Cut)
  BY DEF LoopState
<1>2. SameCuts(s.cuts, s.cuts)
  BY DEF SameCuts, SameCut
<1>3. SameCuts(asked.cuts, s.cuts)
  <2>1. CASE NotCut(s.cuts, time, asked) \/ InsideCut(s.cuts, asked)
    BY <1>2, <2>1 DEF NotCut, InsideCut
  <2>2. ASSUME NEW i \in 1..Len(s.cuts), CutStarts(s.cuts, time, asked, i)
        PROVE  SameCuts(asked.cuts, s.cuts)
    <3>1. Started([s.cuts EXCEPT ![i].audiostart = TRUE], s.cuts, i)
      BY <1>1, StartedIs
    <3>2. asked.cuts = [s.cuts EXCEPT ![i].audiostart = TRUE]
      BY <2>2 DEF CutStarts
    <3>3. Started(asked.cuts, s.cuts, i)
      BY <3>1, <3>2
    <3>4. QED
      BY <3>3 DEF Started, SameCuts
  <2>3. ASSUME NEW i \in 1..Len(s.cuts), CutEnds(s.cuts, time, asked, i)
        PROVE  SameCuts(asked.cuts, s.cuts)
    <3>1. Ended([s.cuts EXCEPT ![i].audiostop = TRUE], s.cuts, i)
      BY <1>1, EndedIs
    <3>2. asked.cuts = [s.cuts EXCEPT ![i].audiostop = TRUE]
      BY <2>3 DEF CutEnds
    <3>3. Ended(asked.cuts, s.cuts, i)
      BY <3>1, <3>2
    <3>4. QED
      BY <3>3 DEF Ended, SameCuts
  <2>4. QED
    BY <2>1, <2>2, <2>3 DEF Answer
<1>4. s2.cuts = s.cuts \/ s2.cuts = asked.cuts
  BY DEF Frame, Quiet, Kept, Began, Finished
<1>5. QED
  BY <1>2, <1>3, <1>4

(* The cuts stay the same through a chunk; if the cuts lie apart, so does  *)
(* what holds of the sound.                                                *)
SoundNow ==
    /\ Marks(cuts, audiocut, audio_start_drift, dropped)
    /\ Outside(cuts, audio) /\ Synced(cuts, audio)

ChunkApart(list) ==
    \A j \in 1..Len(list[1].recs) :
        (Flow(list)[j].kind = "sound" /\ SoundReadable(Flow(list), j)) =>
            ApartAt(LoopOver(list)[j - 1].cuts, Flow(list)[j].time)

LEMMA LoopOk ==
    ASSUME AudioTypes, NEW list \in Seq(Chunk), list # <<>>, Rising(list)
    PROVE  /\ SameCuts(AudioOf(list).cuts, cuts)
           /\ \A j \in 0..Len(list[1].recs) : SameCuts(LoopOver(list)[j].cuts, cuts)
           /\ SoundNow /\ ChunkApart(list) => SoundOk(AudioOf(list))
<1> DEFINE L == Len(list[1].recs)
           flow == Flow(list)
           f == LoopOver(list)
           good == SoundNow /\ ChunkApart(list)
           T == {j \in 0..L : SameCuts(f[j].cuts, cuts) /\ (good => SoundOk(f[j]))}
<1>1. L \in Nat /\ flow \in Seq(Located1) /\ L <= Len(flow) /\ Len(flow) \in Nat
  <2>1. list[1] \in Chunk
    OBVIOUS
  <2>2. list[1].recs \in Seq(Record)
    BY <2>1 DEF Chunk
  <2>3. FlowIs(list, flow)
    BY FlowFacts
  <2> HIDE DEF flow
  <2>4. QED
    BY <2>2, <2>3 DEF FlowIs, OwnFirst
<1>2. LoopRuns(list, f)
  BY LoopIs
<1>3. AudioOf(list) = f[L]
  BY DEF AudioOf
<1>4. ASSUME good, NEW j \in 1..L, flow[j].kind = "sound", SoundReadable(flow, j)
      PROVE  ApartAt(f[j - 1].cuts, flow[j].time)
  BY <1>4 DEF ChunkApart
<1>5. good => SoundNow
  OBVIOUS
<1> HIDE DEF f, flow, L, good
<1>6. 0 \in T
  <2>1. LoopStarts(f[0])
    BY <1>2 DEF LoopRuns
  <2>2. SameCuts(f[0].cuts, cuts)
    BY <2>1 DEF LoopStarts, SameCuts, SameCut
  <2>3. good => SoundOk(f[0])
    BY <1>5, <2>1 DEF LoopStarts, SoundNow, SoundOk
  <2>4. QED
    BY <1>1, <2>2, <2>3
<1>7. ASSUME NEW j \in 0..(L - 1), j \in T PROVE j + 1 \in T
  <2>1. j + 1 \in 1..L /\ (j + 1) - 1 = j /\ j + 1 \in 0..L /\ j \in 0..L /\ j + 1 \in 1..Len(flow)
    BY <1>1
  <2>2. /\ f[j] \in LoopState
        /\ f[j + 1] = IF flow[j + 1].kind = "sound" THEN SoundFrame(flow, f[j], j + 1) ELSE f[j]
    BY <1>2, <2>1 DEF LoopRuns, L, flow
  <2> DEFINE time == flow[j + 1].time
             asked == cutpoint_incut_ticks_cutpoint(f[j].cuts, time)
  <2>3. CASE flow[j + 1].kind = "sound"
    <3>1. /\ f[j + 1] \in LoopState /\ Frame(f[j], f[j + 1], time, asked)
          /\ ~SoundReadable(flow, j + 1) => Quiet(f[j], f[j + 1])
      BY <1>1, <2>1, <2>2, <2>3, FrameIs
    <3>2. time \in Int /\ f[j].cuts \in Seq(Cut)
      <4>1. flow[j + 1] \in Located1
        BY <1>1, <2>1
      <4>2. QED
        BY <2>2, <4>1 DEF Located1, LoopState
    <3> HIDE DEF time
    <3>3. Answer(f[j].cuts, time, asked)
      BY <3>2, AskedIs
    <3> HIDE DEF asked
    <3>4. SameCuts(f[j + 1].cuts, f[j].cuts)
      BY <2>2, <3>1, <3>3, FrameCuts
    <3>5. SameCuts(f[j].cuts, cuts)
      BY <1>7
    <3>6. SameCuts(f[j + 1].cuts, cuts)
      BY <3>4, <3>5, SameCutsTrans
    <3>7. ASSUME good PROVE SoundOk(f[j + 1])
      <4>1. SoundOk(f[j])
        BY <1>7, <3>7
      <4>2. CASE SoundReadable(flow, j + 1)
        <5>1. ApartAt(f[j].cuts, time)
          <6>1. ApartAt(f[(j + 1) - 1].cuts, flow[j + 1].time)
            BY <1>4, <2>1, <2>3, <3>7, <4>2
          <6>2. QED
            BY <2>1, <6>1 DEF time
        <5>2. QED
          BY <2>2, <3>1, <3>2, <3>3, <4>1, <5>1, FrameOk
      <4>3. CASE ~SoundReadable(flow, j + 1)
        BY <3>1, <4>1, <4>3 DEF Quiet, SoundOk
      <4>4. QED
        BY <4>2, <4>3
    <3>8. QED
      BY <2>1, <3>6, <3>7
  <2>4. CASE flow[j + 1].kind # "sound"
    BY <1>7, <2>1, <2>2, <2>4
  <2>5. QED
    BY <2>3, <2>4
<1> HIDE DEF T
<1>8. \A j \in 0..L : j \in T
  BY <1>1, <1>6, <1>7, Induction
<1>9. L \in 0..L
  BY <1>1
<1>10. L \in T
  BY <1>8, <1>9
<1>11. \A j \in 0..L : SameCuts(f[j].cuts, cuts)
  BY <1>8 DEF T
<1>12. QED
  BY <1>3, <1>10, <1>11 DEF T, good, f, L

-----------------------------------------------------------------------------
(* The parser.  What was read lies in front of all starts that are still   *)
(* to be parsed.                                                           *)
Start(queue, c, i) == [nr |-> queue[c].nr, rec |-> i]

AheadOf(list, queue, first, kinds) ==
    \A k \in 1..Len(list) : \A p \in list[k].places :
        \A c \in first..Len(queue) : \A i \in 1..Len(queue[c].recs) :
            queue[c].recs[i].kind \in kinds => Earlier(p, Start(queue, c, i))

(* No holder reaches over a place where chunks are missing.                *)
Unbroken(list, gone) ==
    \A k \in 1..Len(list) : \A p \in list[k].places :
        \A n \in gone : ~(list[k].nr < n /\ n <= p.nr)

(* A place where chunks are missing is behind the parser, or its chunk     *)
(* says so.                                                                *)
Known(queue, gone) ==
    \A n \in gone :
        \/ n <= queue[1].nr
        \/ \E k \in 2..Len(queue) : queue[k].nr = n /\ queue[k].gap

Before(list, nr) ==
    \A k \in 1..Len(list) : list[k].nr < nr /\ \A p \in list[k].places : p.nr < nr

LEMMA PlaceTypes ==
    ASSUME NEW list \in Seq(VideoHolder), NEW k \in 1..Len(list)
    PROVE  /\ list[k].nr \in Nat /\ list[k].gap \in 0..2 /\ list[k].repaired \in BOOLEAN
           /\ \A p \in list[k].places : p.nr \in Nat /\ p.rec \in Nat
<1>1. list[k] \in VideoHolder
  OBVIOUS
<1>2. QED
  BY <1>1 DEF VideoHolder

LEMMA EarlierTrans ==
    ASSUME NEW p, NEW q, NEW r, p.nr \in Nat, p.rec \in Nat, q.nr \in Nat, q.rec \in Nat,
           r.nr \in Nat, r.rec \in Nat, Earlier(p, q), Earlier(q, r) \/ q = r
    PROVE  Earlier(p, r)
BY DEF Earlier

LEMMA ChunkTypes ==
    ASSUME NEW list \in Seq(Chunk), NEW k \in 1..Len(list)
    PROVE  list[k].nr \in Nat /\ list[k].recs \in Seq(Record) /\ list[k].gap \in BOOLEAN
           /\ Len(list[k].recs) \in Nat
<1>1. list[k] \in Chunk
  OBVIOUS
<1>2. list[k].nr \in Nat /\ list[k].recs \in Seq(Record) /\ list[k].gap \in BOOLEAN
  BY <1>1 DEF Chunk
<1>3. QED
  BY <1>2

(* Where the records of the new holders are.                               *)
LEMMA NewPlaces ==
    ASSUME NEW list \in Seq(Chunk), list # <<>>, Rising(list), NEW made \in Seq(VideoHolder),
           OfChunk(made, list, Flow(list)), NEW k \in 1..Len(made), NEW p \in made[k].places
    PROVE  /\ made[k].nr = list[1].nr
           /\ \E j \in 1..Len(list[1].recs) :
                /\ list[1].recs[j].kind \in Starts
                /\ Start(list, 1, j) = p \/ Earlier(Start(list, 1, j), p)
           /\ \E r \in 1..Reach(list) : p.nr = list[r].nr
           /\ \A c \in 2..Len(list) : \A i \in 1..Len(list[c].recs) :
                list[c].recs[i].kind \in Starts => Earlier(p, Start(list, c, i))
<1> DEFINE flow == Flow(list)
<1>1. FlowIs(list, flow)
  BY FlowFacts
<1> HIDE DEF flow
<1>2. /\ flow \in Seq(Located1) /\ ReadFrom(list, flow) /\ ReadAll(list, flow)
      /\ InOrder(flow) /\ OwnFirst(list, flow) /\ Len(flow) \in Nat
  BY <1>1 DEF FlowIs
<1>3. made[k].nr = list[1].nr /\ Between(p, list, flow)
  BY DEF OfChunk, flow
<1>4. PICK m \in 1..Len(flow) :
        /\ p = Place(flow, m)
        /\ \E j \in 1..Len(list[1].recs) : j <= m /\ flow[j].kind \in Starts
        /\ \A q \in 1..Len(flow) :
            flow[q].nr # list[1].nr /\ flow[q].kind \in Starts => m < q
  BY <1>3 DEF Between
<1>5. PICK j \in 1..Len(list[1].recs) : j <= m /\ flow[j].kind \in Starts
  BY <1>4
<1>6. /\ Reach(list) \in 1..Len(list) /\ Len(list) \in Nat /\ 1 \in 1..Len(list)
      /\ \A c \in 1..Len(list) : list[c].nr \in Nat
      /\ Len(list[1].recs) \in Nat /\ Len(list[1].recs) <= Len(flow)
  <2>1. Reach(list) \in 1..Len(list)
    BY ReachIs
  <2>2. Len(list) \in Nat /\ 1 \in 1..Len(list)
    OBVIOUS
  <2>3. QED
    BY <1>2, <2>1, <2>2, ChunkTypes DEF OwnFirst
<1>7. j \in 1..Len(flow) /\ flow[j].nr = list[1].nr
  BY <1>2, <1>6 DEF OwnFirst
<1>8. /\ flow[j].rec = j /\ flow[j].kind = list[1].recs[j].kind
  <2>1. PICK c \in 1..Reach(list) :
            /\ flow[j].nr = list[c].nr /\ flow[j].rec \in 1..Len(list[c].recs)
            /\ flow[j].kind = list[c].recs[flow[j].rec].kind
            /\ c = 1 => flow[j].rec = j
    BY <1>2, <1>7 DEF ReadFrom
  <2>2. c = 1
    <3>1. c \in 1..Len(list) /\ (1 < c => list[1].nr < list[c].nr)
      BY <1>6 DEF Rising
    <3>2. QED
      BY <1>6, <1>7, <2>1, <3>1
  <2>3. QED
    BY <2>1, <2>2
<1>9. Start(list, 1, j) = p \/ Earlier(Start(list, 1, j), p)
  <2>1. Start(list, 1, j) = Place(flow, j)
    BY <1>7, <1>8 DEF Start, Place
  <2>2. j < m => Earlier(Place(flow, j), Place(flow, m))
    BY <1>2, <1>7, PlaceOrder
  <2>3. QED
    BY <1>4, <1>5, <1>6, <2>1, <2>2
<1>10. PICK r \in 1..Reach(list) : flow[m].nr = list[r].nr
  BY <1>2 DEF ReadFrom
<1>11. p.nr = flow[m].nr /\ p.rec = flow[m].rec
  BY <1>4 DEF Place
<1>12. ASSUME NEW c \in 2..Len(list), NEW i \in 1..Len(list[c].recs),
              list[c].recs[i].kind \in Starts
       PROVE  Earlier(p, Start(list, c, i))
  <2>1. c \in 1..Len(list)
    OBVIOUS
  <2>2. list[1].nr < list[c].nr
    BY <1>6, <2>1 DEF Rising
  <2>3. CASE c <= Reach(list)
    <3>1. c \in 1..Reach(list)
      BY <1>6, <2>1, <2>3
    <3>2. PICK q \in 1..Len(flow) :
            flow[q].nr = list[c].nr /\ flow[q].rec = i /\ flow[q].kind = list[c].recs[i].kind
      BY <1>2, <3>1 DEF ReadAll
    <3>3. m < q
      <4>1. list[1].nr # list[c].nr
        BY <1>6, <2>1, <2>2
      <4>2. flow[q].nr # list[1].nr /\ flow[q].kind \in Starts
        BY <1>12, <3>2, <4>1
      <4>3. QED
        BY <1>4, <4>2
    <3>4. Earlier(Place(flow, m), Place(flow, q))
      BY <1>2, <3>3, PlaceOrder
    <3>5. Place(flow, q) = Start(list, c, i)
      BY <3>2 DEF Place, Start
    <3>6. QED
      BY <1>4, <3>4, <3>5
  <2>4. CASE Reach(list) < c
    <3>1. r \in 1..Len(list) /\ r < c
      BY <1>6, <2>1, <2>4
    <3>2. list[r].nr < list[c].nr
      BY <2>1, <3>1 DEF Rising
    <3>3. QED
      BY <1>10, <1>11, <3>2 DEF Earlier, Start
  <2>5. QED
    BY <1>6, <2>1, <2>3, <2>4
<1>13. QED
  BY <1>3, <1>5, <1>8, <1>9, <1>10, <1>11, <1>12

(* The list of holders with those of one more chunk.                       *)
LEMMA VideoAdded ==
    ASSUME NEW list \in Seq(Chunk), list # <<>>, Rising(list),
           NEW old \in Seq(VideoHolder), NEW made \in Seq(VideoHolder),
           NEW nr \in Nat, \A k \in 1..Len(list) : list[k].nr < nr,
           NEW gone, gone \subseteq Nat, Known(list, gone),
           PlacesInOrder(old), AheadOf(old, list, 1, Starts), Unbroken(old, gone), Before(old, nr),
           PlacesInOrder(made), OfChunk(made, list, Flow(list))
    PROVE  /\ old \o made \in Seq(VideoHolder) /\ PlacesInOrder(old \o made)
           /\ AheadOf(old \o made, list, 2, Starts) /\ Unbroken(old \o made, gone)
           /\ Before(old \o made, nr)
<1> DEFINE new == old \o made
<1>1. /\ new \in Seq(VideoHolder) /\ Len(new) = Len(old) + Len(made)
      /\ Len(old) \in Nat /\ Len(made) \in Nat
      /\ \A k \in 1..Len(old) : new[k] = old[k]
      /\ \A k \in 1..Len(made) : new[Len(old) + k] = made[k]
  BY ConcatProperties
<1>2. Len(list) \in Nat /\ 1 \in 1..Len(list) /\ Reach(list) \in 1..Len(list)
      /\ \A k \in 2..Reach(list) : ~list[k].gap
  BY ReachIs
<1>3. \A c \in 1..Len(list) : list[c].nr \in Nat /\ Len(list[c].recs) \in Nat
  BY ChunkTypes
<1> HIDE DEF new
<1>4. ASSUME NEW k \in 1..Len(new)
      PROVE  \/ k \in 1..Len(old) /\ new[k] = old[k]
             \/ /\ k > Len(old) /\ k - Len(old) \in 1..Len(made) /\ new[k] = made[k - Len(old)]
  <2>1. CASE k \in 1..Len(old)
    BY <1>1, <2>1
  <2>2. CASE k \notin 1..Len(old)
    <3>1. k > Len(old) /\ k - Len(old) \in 1..Len(made) /\ Len(old) + (k - Len(old)) = k
      BY <1>1, <2>2
    <3>2. new[Len(old) + (k - Len(old))] = made[k - Len(old)]
      BY <1>1, <3>1
    <3>3. QED
      BY <3>1, <3>2
  <2>3. QED
    BY <2>1, <2>2
(* A record that was read before, and one that is read now.                *)
<1>5. ASSUME NEW k1 \in 1..Len(old), NEW p \in old[k1].places,
             NEW k2 \in 1..Len(made), NEW q \in made[k2].places
      PROVE  Earlier(p, q)
  <2>1. PICK j \in 1..Len(list[1].recs) :
            /\ list[1].recs[j].kind \in Starts
            /\ Start(list, 1, j) = q \/ Earlier(Start(list, 1, j), q)
    BY NewPlaces
  <2>2. Earlier(p, Start(list, 1, j))
    BY <1>2, <2>1 DEF AheadOf
  <2>3. p.nr \in Nat /\ p.rec \in Nat /\ q.nr \in Nat /\ q.rec \in Nat
    BY PlaceTypes
  <2>4. Start(list, 1, j).nr \in Nat /\ Start(list, 1, j).rec \in Nat
    BY <1>2, <1>3 DEF Start
  <2>5. QED
    BY <2>1, <2>2, <2>3, <2>4, EarlierTrans
<1>6. PlacesInOrder(new)
  <2>1. ASSUME NEW k1 \in 1..Len(new), NEW k2 \in 1..Len(new), k1 < k2,
               NEW p \in new[k1].places, NEW q \in new[k2].places
        PROVE  Earlier(p, q)
    <3>1. CASE k2 \in 1..Len(old)
      <4>1. k1 \in 1..Len(old) /\ new[k1] = old[k1] /\ new[k2] = old[k2]
        BY <1>1, <2>1, <3>1
      <4>2. QED
        BY <2>1, <3>1, <4>1 DEF PlacesInOrder
    <3>2. CASE k1 \in 1..Len(old) /\ k2 \notin 1..Len(old)
      <4>1. new[k1] = old[k1] /\ k2 - Len(old) \in 1..Len(made) /\ new[k2] = made[k2 - Len(old)]
        BY <1>1, <1>4, <3>2
      <4>2. QED
        BY <1>5, <3>2, <4>1
    <3>3. CASE k1 \notin 1..Len(old)
      <4>1. k1 - Len(old) \in 1..Len(made) /\ new[k1] = made[k1 - Len(old)]
        BY <1>4, <3>3
      <4>2. k2 \notin 1..Len(old)
        BY <1>1, <2>1, <3>3
      <4>3. k2 - Len(old) \in 1..Len(made) /\ new[k2] = made[k2 - Len(old)]
        BY <1>4, <4>2
      <4>4. k1 - Len(old) < k2 - Len(old)
        BY <1>1, <2>1
      <4>5. QED
        BY <4>1, <4>3, <4>4 DEF PlacesInOrder
    <3>4. QED
      BY <3>1, <3>2, <3>3
  <2>2. QED
    BY <2>1 DEF PlacesInOrder
<1>7. AheadOf(new, list, 2, Starts)
  <2>1. ASSUME NEW k \in 1..Len(new), NEW p \in new[k].places, NEW c \in 2..Len(list),
               NEW i \in 1..Len(list[c].recs), list[c].recs[i].kind \in Starts
        PROVE  Earlier(p, Start(list, c, i))
    <3>1. c \in 1..Len(list)
      OBVIOUS
    <3>2. CASE k \in 1..Len(old) /\ new[k] = old[k]
      BY <2>1, <3>1, <3>2 DEF AheadOf
    <3>3. CASE k - Len(old) \in 1..Len(made) /\ new[k] = made[k - Len(old)]
      BY <2>1, <3>3, NewPlaces
    <3>4. QED
      BY <1>4, <3>2, <3>3
  <2>2. QED
    BY <2>1 DEF AheadOf
(* The records of a new holder are read up to a gap at most.               *)
<1>8. ASSUME NEW k \in 1..Len(made), NEW p \in made[k].places
      PROVE  /\ made[k].nr = list[1].nr /\ p.nr < nr
             /\ \A n \in gone : ~(made[k].nr < n /\ n <= p.nr)
  <2>1. PICK r \in 1..Reach(list) : p.nr = list[r].nr
    BY NewPlaces
  <2>2. r \in 1..Len(list)
    BY <1>2
  <2>3. made[k].nr = list[1].nr
    BY NewPlaces
  <2>4. ASSUME NEW n \in gone, made[k].nr < n, n <= p.nr PROVE FALSE
    <3>1. n \in Nat
      OBVIOUS
    <3>2. PICK c \in 2..Len(list) : list[c].nr = n /\ list[c].gap
      BY <1>2, <1>3, <2>3, <2>4, <3>1 DEF Known
    <3>3. c \in 1..Len(list) /\ (r < c => list[r].nr < list[c].nr)
      BY <2>2 DEF Rising
    <3>4. c <= r
      BY <1>2, <1>3, <2>1, <2>2, <2>4, <3>1, <3>2, <3>3
    <3>5. c \in 2..Reach(list)
      BY <1>2, <3>3, <3>4
    <3>6. QED
      BY <1>2, <3>2, <3>5
  <2>5. QED
    BY <2>1, <2>2, <2>3, <2>4
<1>9. Unbroken(new, gone)
  <2>1. ASSUME NEW k \in 1..Len(new), NEW p \in new[k].places, NEW n \in gone
        PROVE  ~(new[k].nr < n /\ n <= p.nr)
    <3>1. CASE k \in 1..Len(old) /\ new[k] = old[k]
      BY <2>1, <3>1 DEF Unbroken
    <3>2. CASE k - Len(old) \in 1..Len(made) /\ new[k] = made[k - Len(old)]
      BY <1>8, <3>2
    <3>3. QED
      BY <1>4, <3>1, <3>2
  <2>2. QED
    BY <2>1 DEF Unbroken
<1>10. Before(new, nr)
  <2>1. ASSUME NEW k \in 1..Len(new)
        PROVE  new[k].nr < nr /\ \A p \in new[k].places : p.nr < nr
    <3>1. CASE k \in 1..Len(old) /\ new[k] = old[k]
      BY <3>1 DEF Before
    <3>2. CASE k - Len(old) \in 1..Len(made) /\ new[k] = made[k - Len(old)]
      <4>1. made[k - Len(old)].nr = list[1].nr
        BY <3>2 DEF OfChunk
      <4>2. QED
        BY <1>2, <1>8, <3>2, <4>1
    <3>3. QED
      BY <1>4, <3>1, <3>2
  <2>2. QED
    BY <2>1 DEF Before
<1>11. QED
  BY <1>1, <1>6, <1>7, <1>9, <1>10 DEF new

-----------------------------------------------------------------------------
(* The queue of chunks.                                                    *)
FitsAll(queue, index) ==
    \A k \in 1..Len(queue) : \A n \in DOMAIN index :
        index[n].chunk = queue[k].nr =>
            index[n].rec \in DOMAIN queue[k].recs /\ queue[k].recs[index[n].rec].kind = "seq"

Queue(list, nr, index) ==
    /\ list \in Seq(Chunk) /\ Rising(list) /\ FitsAll(list, index)
    /\ \A k \in 1..Len(list) : list[k].nr < nr

(* A gap is left to a chunk.                                               *)
SameQueue(new, list) ==
    /\ new \in Seq(Chunk) /\ Len(new) = Len(list)
    /\ \A k \in 1..Len(list) :
        new[k].nr = list[k].nr /\ new[k].recs = list[k].recs /\ (list[k].gap => new[k].gap)

GapAt(list, c, left) == [list EXCEPT ![c].gap = @ \/ left]

LEMMA GapLeftTo ==
    ASSUME NEW list \in Seq(Chunk), NEW c \in 1..Len(list), NEW left \in BOOLEAN
    PROVE  /\ SameQueue(GapAt(list, c, left), list)
           /\ GapAt(list, c, left)[c].gap <=> list[c].gap \/ left
           /\ \A k \in 1..Len(list) : k # c => GapAt(list, c, left)[k] = list[k]
<1>1. Len(list) \in Nat /\ \A k \in 1..Len(list) : list[k] \in Chunk
  OBVIOUS
<1>2. list[c].gap \in BOOLEAN
  BY <1>1 DEF Chunk
<1>3. PICK v \in BOOLEAN : v = (list[c].gap \/ left)
  OBVIOUS
<1> DEFINE new == [list EXCEPT ![c].gap = v]
<1>4. GapAt(list, c, left) = new
  BY <1>3 DEF GapAt
<1>5. \A k \in 1..Len(list) : new[k] = IF k = c THEN [list[k] EXCEPT !.gap = v] ELSE list[k]
  OBVIOUS
<1>6. new = [k \in 1..Len(list) |-> new[k]]
  OBVIOUS
<1>7. \A h \in Chunk :
        /\ [h EXCEPT !.gap = v] \in Chunk /\ [h EXCEPT !.gap = v].gap = v
        /\ [h EXCEPT !.gap = v].nr = h.nr /\ [h EXCEPT !.gap = v].recs = h.recs
  BY DEF Chunk
<1> HIDE DEF new
<1>8. ASSUME NEW k \in 1..Len(list)
      PROVE  /\ new[k] \in Chunk /\ new[k].nr = list[k].nr /\ new[k].recs = list[k].recs
             /\ k = c => new[k].gap = v
             /\ k # c => new[k] = list[k]
  BY <1>1, <1>5, <1>7
<1>9. new \in [1..Len(list) -> Chunk]
  BY <1>6, <1>8
<1>10. new \in Seq(Chunk) /\ Len(new) = Len(list)
  BY <1>1, <1>9
<1>11. \A k \in 1..Len(list) : list[k].gap => new[k].gap
  BY <1>3, <1>8
<1>12. SameQueue(new, list)
  BY <1>8, <1>10, <1>11 DEF SameQueue
<1>13. new[c].gap <=> list[c].gap \/ left
  BY <1>3, <1>8
<1>14. QED
  BY <1>4, <1>8, <1>12, <1>13

LEMMA SameQueueKeeps ==
    ASSUME NEW list \in Seq(Chunk), NEW new, SameQueue(new, list), NEW nr, NEW index,
           Queue(list, nr, index), NEW gone, list # <<>>, Known(list, gone),
           NEW held, NEW first \in Nat \ {0}, NEW kinds, AheadOf(held, list, first, kinds)
    PROVE  Queue(new, nr, index) /\ Known(new, gone) /\ AheadOf(held, new, first, kinds) /\ new # <<>>
<1>1. /\ new \in Seq(Chunk) /\ Len(new) = Len(list) /\ Len(list) \in Nat /\ 1 \in 1..Len(list)
      /\ \A k \in 1..Len(list) :
            new[k].nr = list[k].nr /\ new[k].recs = list[k].recs /\ (list[k].gap => new[k].gap)
  BY DEF SameQueue
<1>2. Queue(new, nr, index)
  BY <1>1 DEF Queue, Rising, FitsAll
<1>3. Known(new, gone)
  <2>1. ASSUME NEW n \in gone
        PROVE  n <= new[1].nr \/ \E k \in 2..Len(new) : new[k].nr = n /\ new[k].gap
    <3>1. CASE n <= list[1].nr
      BY <1>1, <3>1
    <3>2. ASSUME NEW k \in 2..Len(list), list[k].nr = n, list[k].gap
          PROVE  new[k].nr = n /\ new[k].gap
      BY <1>1, <3>2
    <3>3. QED
      BY <1>1, <3>1, <3>2 DEF Known
  <2>2. QED
    BY <2>1 DEF Known
<1>4. AheadOf(held, new, first, kinds)
  <2>1. ASSUME NEW k \in 1..Len(held), NEW p \in held[k].places, NEW c \in first..Len(new),
               NEW i \in 1..Len(new[c].recs), new[c].recs[i].kind \in kinds
        PROVE  Earlier(p, Start(new, c, i))
    <3>1. c \in 1..Len(list) /\ c \in first..Len(list)
      BY <1>1
    <3>2. new[c].recs = list[c].recs /\ new[c].nr = list[c].nr
      BY <1>1, <3>1
    <3>3. Earlier(p, Start(list, c, i))
      BY <2>1, <3>1, <3>2 DEF AheadOf
    <3>4. QED
      BY <3>2, <3>3 DEF Start
  <2>2. QED
    BY <2>1 DEF AheadOf
<1>5. QED
  BY <1>1, <1>2, <1>3, <1>4

(* The first chunk is done.                                                *)
LEMMA TailKeeps ==
    ASSUME NEW list \in Seq(Chunk), Len(list) >= 2, NEW nr, NEW index,
           Queue(list, nr, index), NEW gone, gone \subseteq Nat, Known(list, gone),
           NEW held, NEW kinds, AheadOf(held, list, 2, kinds)
    PROVE  /\ Queue(Tail(list), nr, index) /\ Known(Tail(list), gone)
           /\ AheadOf(held, Tail(list), 1, kinds) /\ Tail(list) # <<>>
           /\ Tail(list) \in Seq(Chunk) /\ Len(Tail(list)) = Len(list) - 1
           /\ \A k \in 1..(Len(list) - 1) : Tail(list)[k] = list[k + 1]
<1> DEFINE new == Tail(list)
<1>1. /\ new \in Seq(Chunk) /\ Len(new) = Len(list) - 1 /\ Len(list) \in Nat /\ Len(new) >= 1
      /\ \A k \in 1..Len(new) : new[k] = list[k + 1] /\ k + 1 \in 1..Len(list)
  BY HeadTailProperties
<1> HIDE DEF new
<1>2. Rising(new)
  <2>1. ASSUME NEW k \in 1..Len(new), NEW m \in 1..Len(new), k < m
        PROVE  new[k].nr < new[m].nr
    <3>1. k + 1 < m + 1
      BY <2>1
    <3>2. QED
      BY <1>1, <3>1 DEF Queue, Rising
  <2>2. QED
    BY <2>1 DEF Rising
<1>3. FitsAll(new, index)
  BY <1>1 DEF Queue, FitsAll
<1>4. \A k \in 1..Len(new) : new[k].nr < nr
  BY <1>1 DEF Queue
<1>5. Known(new, gone)
  <2>1. /\ 1 \in 1..Len(list) /\ 2 \in 1..Len(list) /\ list[1].nr \in Nat /\ list[2].nr \in Nat
        /\ list[1].nr < list[2].nr /\ new[1] = list[2]
    <3>1. 1 \in 1..Len(list) /\ 2 \in 1..Len(list) /\ 1 \in 1..Len(new) /\ 1 + 1 = 2
      BY <1>1
    <3>2. QED
      BY <1>1, <3>1, ChunkTypes DEF Queue, Rising
  <2>2. ASSUME NEW n \in gone
        PROVE  n <= new[1].nr \/ \E k \in 2..Len(new) : new[k].nr = n /\ new[k].gap
    <3>1. n \in Nat
      OBVIOUS
    <3>2. CASE n <= list[1].nr
      BY <2>1, <3>1, <3>2
    <3>3. ASSUME NEW k \in 2..Len(list), list[k].nr = n, list[k].gap
          PROVE  n <= new[1].nr \/ \E c \in 2..Len(new) : new[c].nr = n /\ new[c].gap
      <4>1. CASE k = 2
        BY <2>1, <3>1, <3>3, <4>1
      <4>2. CASE k # 2
        <5>1. k - 1 \in 2..Len(new) /\ k - 1 \in 1..Len(new) /\ (k - 1) + 1 = k
          BY <1>1, <4>2
        <5>2. new[k - 1] = list[k]
          BY <1>1, <5>1
        <5>3. QED
          BY <3>3, <5>1, <5>2
      <4>3. QED
        BY <4>1, <4>2
    <3>4. QED
      BY <3>2, <3>3 DEF Known
  <2>3. QED
    BY <2>2 DEF Known
<1>6. AheadOf(held, new, 1, kinds)
  <2>1. ASSUME NEW k \in 1..Len(held), NEW p \in held[k].places, NEW c \in 1..Len(new),
               NEW i \in 1..Len(new[c].recs), new[c].recs[i].kind \in kinds
        PROVE  Earlier(p, Start(new, c, i))
    <3>1. new[c] = list[c + 1] /\ c + 1 \in 2..Len(list)
      BY <1>1
    <3>2. Earlier(p, Start(list, c + 1, i))
      BY <2>1, <3>1 DEF AheadOf
    <3>3. QED
      BY <3>1, <3>2 DEF Start
  <2>2. QED
    BY <2>1 DEF AheadOf
<1>7. new # <<>>
  BY <1>1
<1>8. QED
  BY <1>1, <1>2, <1>3, <1>4, <1>5, <1>6, <1>7 DEF Queue, new

(* One more chunk.                                                         *)
LEMMA AppendChunk ==
    ASSUME NEW list \in Seq(Chunk), NEW nr \in Nat, NEW index, Queue(list, nr, index),
           NEW h \in Chunk, h.nr = nr, FitsAll(<<h>>, index),
           NEW gone, gone \subseteq Nat, \A n \in gone : n < nr,
           list # <<>> => Known(list, gone),
           NEW held \in Seq(VideoHolder), NEW kinds, AheadOf(held, list, 1, kinds), Before(held, nr),
           NEW more, more = IF h.gap THEN gone \cup {nr} ELSE gone
    PROVE  /\ Queue(Append(list, h), nr + 1, index) /\ Known(Append(list, h), more)
           /\ AheadOf(held, Append(list, h), 1, kinds) /\ Append(list, h) # <<>>
           /\ \A k \in 1..Len(list) : Append(list, h)[k] = list[k]
<1> DEFINE new == Append(list, h)
<1>1. /\ new \in Seq(Chunk) /\ Len(new) = Len(list) + 1 /\ Len(list) \in Nat
      /\ new[Len(list) + 1] = h /\ \A k \in 1..Len(list) : new[k] = list[k]
  OBVIOUS
<1> HIDE DEF new
<1>2. ASSUME NEW k \in 1..Len(new)
      PROVE  \/ k \in 1..Len(list) /\ new[k] = list[k]
             \/ k = Len(list) + 1 /\ new[k] = h
  BY <1>1
<1>3. \A k \in 1..Len(list) : list[k].nr \in Nat /\ list[k].nr < nr
  BY ChunkTypes DEF Queue
<1>4. Rising(new)
  <2>1. ASSUME NEW k \in 1..Len(new), NEW m \in 1..Len(new), k < m
        PROVE  new[k].nr < new[m].nr
    <3>1. k \in 1..Len(list) /\ new[k] = list[k]
      BY <1>1, <2>1
    <3>2. CASE m \in 1..Len(list) /\ new[m] = list[m]
      BY <2>1, <3>1, <3>2 DEF Queue, Rising
    <3>3. CASE new[m] = h
      BY <1>3, <3>1, <3>3
    <3>4. QED
      BY <1>2, <3>2, <3>3
  <2>2. QED
    BY <2>1 DEF Rising
<1>5. FitsAll(new, index)
  <2>1. ASSUME NEW k \in 1..Len(new), NEW n \in DOMAIN index, index[n].chunk = new[k].nr
        PROVE  index[n].rec \in DOMAIN new[k].recs /\ new[k].recs[index[n].rec].kind = "seq"
    <3>1. CASE k \in 1..Len(list) /\ new[k] = list[k]
      BY <2>1, <3>1 DEF Queue, FitsAll
    <3>2. CASE new[k] = h
      <4>1. 1 \in 1..Len(<<h>>) /\ <<h>>[1] = h
        OBVIOUS
      <4>2. QED
        BY <2>1, <3>2, <4>1 DEF FitsAll
    <3>3. QED
      BY <1>2, <3>1, <3>2
  <2>2. QED
    BY <2>1 DEF FitsAll
<1>6. \A k \in 1..Len(new) : new[k].nr < nr + 1
  <2>1. ASSUME NEW k \in 1..Len(new) PROVE new[k].nr < nr + 1
    <3>1. CASE k \in 1..Len(list) /\ new[k] = list[k]
      BY <1>3, <3>1
    <3>2. CASE new[k] = h
      BY <3>2
    <3>3. QED
      BY <1>2, <3>1, <3>2
  <2>2. QED
    BY <2>1
<1>7. Known(new, more)
  <2>1. ASSUME NEW n \in more
        PROVE  n <= new[1].nr \/ \E k \in 2..Len(new) : new[k].nr = n /\ new[k].gap
    <3>1. CASE list = <<>>
      <4>1. new[1] = h /\ h.nr = nr
        BY <1>1, <3>1
      <4>2. n <= nr /\ n \in Nat
        BY <2>1
      <4>3. QED
        BY <4>1, <4>2
    <3>2. CASE list # <<>>
      <4>1. 1 \in 1..Len(list) /\ new[1] = list[1]
        BY <1>1, <3>2
      <4>2. CASE n \in gone
        <5>1. CASE n <= list[1].nr
          BY <4>1, <5>1
        <5>2. ASSUME NEW k \in 2..Len(list), list[k].nr = n, list[k].gap
              PROVE  \E c \in 2..Len(new) : new[c].nr = n /\ new[c].gap
          <6>1. k \in 2..Len(new) /\ new[k] = list[k]
            BY <1>1
          <6>2. QED
            BY <5>2, <6>1
        <5>3. QED
          BY <3>2, <4>2, <5>1, <5>2 DEF Known
      <4>3. CASE n \notin gone
        <5>1. n = nr /\ h.gap
          BY <2>1, <4>3
        <5>2. Len(list) + 1 \in 2..Len(new)
          BY <1>1, <4>1
        <5>3. QED
          BY <1>1, <5>1, <5>2
      <4>4. QED
        BY <4>2, <4>3
    <3>3. QED
      BY <3>1, <3>2
  <2>2. QED
    BY <2>1 DEF Known
<1>8. AheadOf(held, new, 1, kinds)
  <2>1. ASSUME NEW k \in 1..Len(held), NEW p \in held[k].places, NEW c \in 1..Len(new),
               NEW i \in 1..Len(new[c].recs), new[c].recs[i].kind \in kinds
        PROVE  Earlier(p, Start(new, c, i))
    <3>1. CASE c \in 1..Len(list) /\ new[c] = list[c]
      BY <2>1, <3>1 DEF AheadOf, Start
    <3>2. CASE new[c] = h
      BY <3>2 DEF Before, Earlier, Start
    <3>3. QED
      BY <1>2, <3>1, <3>2
  <2>2. QED
    BY <2>1 DEF AheadOf
<1>9. new # <<>>
  BY <1>1
<1>10. QED
  BY <1>1, <1>4, <1>5, <1>6, <1>7, <1>8, <1>9 DEF Queue, new

(* What the sound changes in the video is not the places.                  *)
LEMMA SameHoldersKeep ==
    ASSUME NEW list, NEW new, SameHolders(list, new), NEW gone, NEW nr, NEW queue, NEW first,
           NEW kinds, PlacesInOrder(list), Unbroken(list, gone), Before(list, nr),
           AheadOf(list, queue, first, kinds)
    PROVE  /\ PlacesInOrder(new) /\ Unbroken(new, gone) /\ Before(new, nr)
           /\ AheadOf(new, queue, first, kinds)
<1>1. Len(list) = Len(new)
      /\ \A k \in 1..Len(list) : list[k].nr = new[k].nr /\ list[k].places = new[k].places
  BY DEF SameHolders
<1>2. PlacesInOrder(new)
  BY <1>1 DEF PlacesInOrder
<1>3. Unbroken(new, gone)
  BY <1>1 DEF Unbroken
<1>4. Before(new, nr)
  BY <1>1 DEF Before
<1>5. AheadOf(new, queue, first, kinds)
  BY <1>1 DEF AheadOf
<1>6. QED
  BY <1>2, <1>3, <1>4, <1>5

-----------------------------------------------------------------------------
(* The invariant of the parser.                                            *)
QueueInv ==
    /\ chunk_nr \in Nat /\ Queue(chunks, chunk_nr, scenario.index)
    /\ pc = "sound" => Len(chunks) >= 2
    /\ chunks = <<>> => video = <<>>

HolesInv ==
    /\ holes \subseteq Nat /\ \A n \in holes : n < chunk_nr
    /\ chunks # <<>> => Known(chunks, holes)

HoldersInv ==
    /\ PlacesInOrder(video) /\ Unbroken(video, holes) /\ Before(video, chunk_nr)
    /\ pc = "read" => AheadOf(video, chunks, 1, Starts)
    /\ pc = "sound" => AheadOf(video, chunks, 2, Starts)

ParserInv == AudioTypes /\ CutsInv /\ QueueInv /\ HolesInv /\ HoldersInv

LEMMA ParserInit ==
    ASSUME Init
    PROVE  ParserInv
<1>1. scenario \in Scenarios /\ scenario.cuts \in Seq(Cut)
  BY ParseAssumption DEF Init
<1>2. AudioTypes
  <2>1. cuts \in Seq(Cut) /\ audio_start_drift \in Int /\ dropped \in Int
    BY <1>1 DEF Init
  <2>2. audio \in Seq(SoundHolder) /\ video \in Seq(VideoHolder)
    BY DEF Init
  <2>3. audiocut \in BOOLEAN
    BY DEF Init
  <2>4. QED
    BY <2>1, <2>2, <2>3 DEF AudioTypes
<1>3. CutsInv
  BY <1>1 DEF Init, CutsInv, SameCuts, SameCut
<1>4. QueueInv
  BY DEF Init, QueueInv, Queue, Rising, FitsAll
<1>5. HolesInv
  BY DEF Init, HolesInv
<1>6. HoldersInv
  BY DEF Init, HoldersInv, PlacesInOrder, Unbroken, Before, AheadOf
<1>7. QED
  BY <1>2, <1>3, <1>4, <1>5, <1>6 DEF ParserInv

LEMMA ParserUnchanged ==
    ASSUME ParserInv, UNCHANGED vars
    PROVE  ParserInv'
<1>1. Starts' = Starts
  BY DEF vars, Starts, series
<1>2. AudioTypes' /\ CutsInv'
  BY DEF vars, ParserInv, AudioTypes, CutsInv
<1>3. QueueInv' /\ HolesInv'
  BY DEF vars, ParserInv, QueueInv, HolesInv
<1>4. HoldersInv'
  BY <1>1 DEF vars, ParserInv, HoldersInv
<1>5. QED
  BY <1>2, <1>3, <1>4 DEF ParserInv

LEMMA ParserSkip ==
    ASSUME ParserInv, SkipChunk
    PROVE  ParserInv'
<1>1. /\ chunk_nr' = chunk_nr + 1 /\ scenario' = scenario /\ cuts' = cuts /\ chunks' = chunks
      /\ video' = video /\ audio' = audio /\ audiocut' = audiocut
      /\ audio_start_drift' = audio_start_drift /\ pc' = pc /\ holes' = holes /\ dropped' = dropped
  BY DEF SkipChunk
<1>2. Starts' = Starts
  BY <1>1 DEF Starts, series
<1>3. AudioTypes' /\ CutsInv'
  BY <1>1 DEF ParserInv, AudioTypes, CutsInv
<1>4. chunk_nr \in Nat /\ Queue(chunks, chunk_nr, scenario.index) /\ holes \subseteq Nat
  BY DEF ParserInv, QueueInv, HolesInv
<1>5. \A k \in 1..Len(chunks) : chunks[k].nr < chunk_nr + 1
  <2>1. \A k \in 1..Len(chunks) : chunks[k].nr \in Nat /\ chunks[k].nr < chunk_nr
    BY <1>4, ChunkTypes DEF Queue
  <2>2. QED
    BY <1>4, <2>1
<1>6. QueueInv'
  BY <1>1, <1>4, <1>5 DEF ParserInv, QueueInv, Queue
<1>7. HolesInv'
  BY <1>1, <1>4 DEF ParserInv, HolesInv
<1>8. Before(video, chunk_nr + 1)
  <2>1. video \in Seq(VideoHolder) /\ Before(video, chunk_nr)
    BY DEF ParserInv, AudioTypes, HoldersInv
  <2>2. ASSUME NEW k \in 1..Len(video)
        PROVE  video[k].nr < chunk_nr + 1 /\ \A p \in video[k].places : p.nr < chunk_nr + 1
    <3>1. video[k].nr \in Nat /\ \A p \in video[k].places : p.nr \in Nat
      BY <2>1, PlaceTypes
    <3>2. QED
      BY <1>4, <2>1, <3>1 DEF Before
  <2>3. QED
    BY <2>2 DEF Before
<1>9. HoldersInv'
  BY <1>1, <1>2, <1>8 DEF ParserInv, HoldersInv
<1>10. QED
  BY <1>3, <1>6, <1>7, <1>9 DEF ParserInv

LEMMA ParserStop ==
    ASSUME ParserInv, StopReading
    PROVE  ParserInv'
<1>1. /\ chunk_nr' = chunk_nr /\ scenario' = scenario /\ cuts' = cuts /\ chunks' = chunks
      /\ video' = video /\ audio' = audio /\ audiocut' = audiocut
      /\ audio_start_drift' = audio_start_drift /\ pc' = "end" /\ holes' = holes
      /\ dropped' = dropped
  BY DEF StopReading
<1>2. AudioTypes' /\ CutsInv'
  BY <1>1 DEF ParserInv, AudioTypes, CutsInv
<1>3. QueueInv' /\ HolesInv'
  BY <1>1 DEF ParserInv, QueueInv, HolesInv
<1>4. HoldersInv'
  BY <1>1 DEF ParserInv, HoldersInv
<1>5. QED
  BY <1>2, <1>3, <1>4 DEF ParserInv

LEMMA ParserGet ==
    ASSUME ParserInv, NEW shape \in scenario.shapes, NEW gap \in BOOLEAN, GetChunk(shape, gap)
    PROVE  ParserInv'
<1> DEFINE h == [nr |-> chunk_nr, recs |-> shape, gap |-> gap]
<1>1. /\ chunk_nr' = chunk_nr + 1 /\ scenario' = scenario /\ cuts' = cuts
      /\ chunks' = Append(chunks, h)
      /\ video' = video /\ audio' = audio /\ audiocut' = audiocut
      /\ audio_start_drift' = audio_start_drift /\ pc' = pc /\ dropped' = dropped
      /\ holes' = IF gap THEN holes \cup {chunk_nr} ELSE holes
      /\ Fits(shape, chunk_nr) /\ pc = "read"
  BY DEF GetChunk
<1>2. Starts' = Starts
  BY <1>1 DEF Starts, series
<1>3. AudioTypes' /\ CutsInv'
  BY <1>1 DEF ParserInv, AudioTypes, CutsInv
<1>4. /\ chunk_nr \in Nat /\ Queue(chunks, chunk_nr, scenario.index) /\ chunks \in Seq(Chunk)
      /\ holes \subseteq Nat /\ (\A n \in holes : n < chunk_nr)
      /\ (chunks # <<>> => Known(chunks, holes))
      /\ video \in Seq(VideoHolder) /\ Before(video, chunk_nr)
      /\ AheadOf(video, chunks, 1, Starts) /\ Unbroken(video, holes) /\ PlacesInOrder(video)
  BY <1>1 DEF ParserInv, QueueInv, Queue, HolesInv, HoldersInv, AudioTypes
<1>5. h \in Chunk /\ h.nr = chunk_nr /\ h.gap = gap /\ h.recs = shape
  <2>1. shape \in Seq(Record)
    BY ParseAssumption DEF ParserInv, CutsInv
  <2>2. QED
    BY <1>4, <2>1 DEF Chunk
<1>6. FitsAll(<<h>>, scenario.index)
  <2>1. Len(<<h>>) = 1 /\ <<h>>[1] = h
    OBVIOUS
  <2> HIDE DEF h
  <2>2. \A k \in 1..Len(<<h>>) : <<h>>[k] = h
    BY <2>1
  <2>3. QED
    BY <1>1, <1>5, <2>2 DEF Fits, FitsAll
<1>7. holes' = IF h.gap THEN holes \cup {chunk_nr} ELSE holes
  BY <1>1, <1>5
<1> HIDE DEF h
<1>8. /\ Queue(Append(chunks, h), chunk_nr + 1, scenario.index)
      /\ Known(Append(chunks, h), holes')
      /\ AheadOf(video, Append(chunks, h), 1, Starts) /\ Append(chunks, h) # <<>>
  BY <1>4, <1>5, <1>6, <1>7, AppendChunk
<1>9. QueueInv'
  BY <1>1, <1>4, <1>8 DEF QueueInv
<1>10. \A n \in holes' : n \in Nat /\ n < chunk_nr + 1
  <2>1. \A n \in holes : n \in Nat /\ n < chunk_nr + 1
    <3>1. \A n \in holes : n \in Nat /\ n < chunk_nr
      BY <1>4
    <3>2. QED
      BY <1>4, <3>1
  <2>2. chunk_nr \in Nat /\ chunk_nr < chunk_nr + 1
    BY <1>4
  <2>3. \A n \in holes' : n \in holes \/ n = chunk_nr
    BY <1>1
  <2>4. QED
    BY <2>1, <2>2, <2>3
<1>11. HolesInv'
  BY <1>1, <1>8, <1>10 DEF HolesInv
<1>12. \A k \in 1..Len(video) :
          /\ video[k].nr \in Nat /\ video[k].nr < chunk_nr
          /\ \A p \in video[k].places : p.nr \in Nat /\ p.nr < chunk_nr
  BY <1>4, PlaceTypes DEF Before
<1>13. Before(video, chunk_nr + 1)
  <2>1. ASSUME NEW k \in 1..Len(video)
        PROVE  video[k].nr < chunk_nr + 1 /\ \A p \in video[k].places : p.nr < chunk_nr + 1
    BY <1>4, <1>12
  <2>2. QED
    BY <2>1 DEF Before
<1>14. Unbroken(video, holes')
  <2>1. ASSUME NEW k \in 1..Len(video), NEW p \in video[k].places, NEW n \in holes'
        PROVE  ~(video[k].nr < n /\ n <= p.nr)
    <3>1. CASE n \in holes
      BY <1>4, <3>1 DEF Unbroken
    <3>2. CASE n = chunk_nr
      BY <1>4, <1>12, <3>2
    <3>3. QED
      BY <1>1, <3>1, <3>2
  <2>2. QED
    BY <2>1 DEF Unbroken
<1>15. HoldersInv'
  BY <1>1, <1>2, <1>4, <1>8, <1>13, <1>14 DEF HoldersInv
<1>16. QED
  BY <1>3, <1>9, <1>11, <1>15 DEF ParserInv

(* What the video of a chunk adds.                                         *)
LEMMA VideoStep ==
    ASSUME ParserInv, pc = "read", okay_to_parse,
           NEW class, class = cutpoint_incut_chunk(cuts, chunks[1].nr),
           NEW v, v = VideoOf(chunks, class)
    PROVE  /\ chunks \in Seq(Chunk) /\ Len(chunks) >= 2 /\ v.left \in BOOLEAN
           /\ v.holders \in Seq(VideoHolder) /\ OfChunk(v.holders, chunks, Flow(chunks))
           /\ GapGoesOn(v, chunks, class)
           /\ video \o v.holders \in Seq(VideoHolder) /\ PlacesInOrder(video \o v.holders)
           /\ AheadOf(video \o v.holders, chunks, 2, Starts)
           /\ Unbroken(video \o v.holders, holes) /\ Before(video \o v.holders, chunk_nr)
<1>1. /\ chunks \in Seq(Chunk) /\ Rising(chunks) /\ FitsAll(chunks, scenario.index)
      /\ (\A k \in 1..Len(chunks) : chunks[k].nr < chunk_nr) /\ chunk_nr \in Nat
      /\ holes \subseteq Nat /\ (chunks # <<>> => Known(chunks, holes)) /\ CutsInv
      /\ video \in Seq(VideoHolder) /\ PlacesInOrder(video) /\ AheadOf(video, chunks, 1, Starts)
      /\ Unbroken(video, holes) /\ Before(video, chunk_nr)
  BY DEF ParserInv, QueueInv, Queue, HolesInv, HoldersInv, AudioTypes
<1>2. Len(chunks) >= 2 /\ Len(chunks) \in Nat /\ chunks # <<>> /\ 1 \in 1..Len(chunks)
  <2>1. LookAhead \in Nat /\ LookAhead >= 1
    BY ParseAssumption
  <2>2. QED
    BY <1>1, <2>1 DEF okay_to_parse
<1>3. chunks[1] \in Chunk /\ Fits(chunks[1].recs, chunks[1].nr)
  BY <1>1, <1>2 DEF Fits, FitsAll
<1>4. RecordLimit(chunks[1], class) \in 0..Len(chunks[1].recs)
  BY <1>1, <1>3, LimitIs
<1>5. /\ VideoOf(chunks, class).holders \in Seq(VideoHolder)
      /\ PlacesInOrder(VideoOf(chunks, class).holders)
      /\ OfChunk(VideoOf(chunks, class).holders, chunks, Flow(chunks))
      /\ GapGoesOn(VideoOf(chunks, class), chunks, class)
  BY <1>1, <1>2, <1>4, VideoIs
<1>6. /\ v.holders \in Seq(VideoHolder) /\ PlacesInOrder(v.holders)
      /\ OfChunk(v.holders, chunks, Flow(chunks)) /\ GapGoesOn(v, chunks, class)
  BY <1>5
<1>7. v.left \in BOOLEAN
  BY <1>6 DEF GapGoesOn
<1>8. /\ video \o v.holders \in Seq(VideoHolder) /\ PlacesInOrder(video \o v.holders)
      /\ AheadOf(video \o v.holders, chunks, 2, Starts)
      /\ Unbroken(video \o v.holders, holes) /\ Before(video \o v.holders, chunk_nr)
  BY <1>1, <1>2, <1>6, VideoAdded
<1>9. QED
  BY <1>1, <1>2, <1>6, <1>7, <1>8

LEMMA ParserVideo ==
    ASSUME ParserInv, ParseVideo
    PROVE  ParserInv'
<1> DEFINE class == cutpoint_incut_chunk(cuts, chunks[1].nr)
           v == VideoOf(chunks, class)
<1>1. /\ chunk_nr' = chunk_nr /\ scenario' = scenario /\ cuts' = cuts /\ audio' = audio
      /\ audiocut' = audiocut /\ audio_start_drift' = audio_start_drift
      /\ holes' = holes /\ dropped' = dropped /\ pc = "read" /\ okay_to_parse
  BY DEF ParseVideo
<1>2. \/ pc' = "sound" /\ video' = video /\ chunks' = chunks
      \/ /\ pc' \in {"undefined", "sound"} /\ video' = video \o v.holders
         /\ chunks' = GapAt(chunks, 2, v.left)
  BY Zenon DEF ParseVideo, GapAt
<1>3. Starts' = Starts
  BY <1>1 DEF Starts, series
<1> HIDE DEF class, v
<1>4. /\ chunks \in Seq(Chunk) /\ Len(chunks) >= 2 /\ v.left \in BOOLEAN
      /\ video \o v.holders \in Seq(VideoHolder) /\ PlacesInOrder(video \o v.holders)
      /\ AheadOf(video \o v.holders, chunks, 2, Starts)
      /\ Unbroken(video \o v.holders, holes) /\ Before(video \o v.holders, chunk_nr)
  BY <1>1, VideoStep DEF class, v
<1>5. CutsInv'
  BY <1>1 DEF ParserInv, CutsInv
<1>6. /\ chunk_nr \in Nat /\ Queue(chunks, chunk_nr, scenario.index)
      /\ Known(chunks, holes) /\ chunks # <<>> /\ AheadOf(video, chunks, 1, Starts)
      /\ 2 \in 1..Len(chunks) /\ Len(chunks) \in Nat
  <2>1. chunks # <<>> /\ 2 \in 1..Len(chunks) /\ Len(chunks) \in Nat
    BY <1>4
  <2>2. QED
    BY <1>1, <2>1 DEF ParserInv, QueueInv, HolesInv, HoldersInv
<1>7. CASE pc' = "sound" /\ video' = video /\ chunks' = chunks
  <2>1. AudioTypes'
    BY <1>1, <1>7 DEF ParserInv, AudioTypes
  <2>2. QueueInv'
    BY <1>1, <1>4, <1>7 DEF ParserInv, QueueInv
  <2>3. HolesInv'
    BY <1>1, <1>7 DEF ParserInv, HolesInv
  <2>4. AheadOf(video, chunks, 2, Starts)
    <3>1. \A c \in 2..Len(chunks) : c \in 1..Len(chunks)
      BY <1>6
    <3>2. QED
      BY <1>6, <3>1 DEF AheadOf
  <2>5. HoldersInv'
    BY <1>1, <1>3, <1>7, <2>4 DEF ParserInv, HoldersInv
  <2>6. QED
    BY <1>5, <2>1, <2>2, <2>3, <2>5 DEF ParserInv
<1>8. CASE /\ pc' \in {"undefined", "sound"} /\ video' = video \o v.holders
           /\ chunks' = GapAt(chunks, 2, v.left)
  <2>1. SameQueue(chunks', chunks)
    BY <1>4, <1>6, <1>8, GapLeftTo
  <2>2. 2 \in Nat \ {0}
    OBVIOUS
  <2>3. /\ Queue(chunks', chunk_nr, scenario.index) /\ Known(chunks', holes)
        /\ AheadOf(video', chunks', 2, Starts) /\ chunks' # <<>>
    BY <1>4, <1>6, <1>8, <2>1, <2>2, SameQueueKeeps
  <2>4. Len(chunks') >= 2
    BY <1>4, <2>1 DEF SameQueue
  <2>5. AudioTypes'
    BY <1>1, <1>4, <1>8 DEF ParserInv, AudioTypes
  <2>6. QueueInv'
    BY <1>1, <1>6, <2>3, <2>4 DEF QueueInv
  <2>7. HolesInv'
    BY <1>1, <2>3 DEF ParserInv, HolesInv
  <2>8. HoldersInv'
    BY <1>1, <1>3, <1>4, <1>8, <2>3 DEF HoldersInv
  <2>9. QED
    BY <1>5, <2>5, <2>6, <2>7, <2>8 DEF ParserInv
<1>9. QED
  BY <1>2, <1>7, <1>8

LEMMA ParserSound ==
    ASSUME ParserInv, ParseSound
    PROVE  ParserInv'
<1> DEFINE s == AudioOf(chunks)
           left == s.asks /\ s.open
<1>1. /\ pc' \in {"undefined", "read"} /\ cuts' = s.cuts /\ audio' = s.audio /\ video' = s.video
      /\ audiocut' = s.audiocut /\ audio_start_drift' = s.start_drift /\ dropped' = s.dropped
      /\ chunks' = GapAt(Tail(chunks), 1, left)
      /\ scenario' = scenario /\ chunk_nr' = chunk_nr /\ holes' = holes /\ pc = "sound"
  BY Zenon DEF ParseSound, GapAt
<1>2. Starts' = Starts
  BY <1>1 DEF Starts, series
<1>3. /\ chunks \in Seq(Chunk) /\ Len(chunks) >= 2 /\ chunks # <<>> /\ Rising(chunks)
      /\ chunk_nr \in Nat /\ Queue(chunks, chunk_nr, scenario.index)
      /\ holes \subseteq Nat /\ Known(chunks, holes) /\ (\A n \in holes : n < chunk_nr)
      /\ AheadOf(video, chunks, 2, Starts) /\ AudioTypes /\ CutsInv
      /\ PlacesInOrder(video) /\ Unbroken(video, holes) /\ Before(video, chunk_nr)
  <2>1. chunks \in Seq(Chunk) /\ Len(chunks) >= 2
    BY <1>1 DEF ParserInv, QueueInv, Queue
  <2>2. chunks # <<>>
    BY <2>1
  <2>3. QED
    BY <1>1, <2>1, <2>2 DEF ParserInv, QueueInv, Queue, HolesInv, HoldersInv
<1>4. s \in LoopState /\ SameHolders(video, s.video)
  BY <1>3, LoopKeeps
<1>5. SameCuts(s.cuts, cuts)
  BY <1>3, LoopOk
<1>6. left \in BOOLEAN
  OBVIOUS
<1> HIDE DEF s, left
<1>7. AudioTypes'
  BY <1>1, <1>4 DEF AudioTypes, LoopState
<1>8. CutsInv'
  <2>1. SameCuts(cuts, scenario.cuts) /\ scenario \in Scenarios
    BY <1>3 DEF CutsInv
  <2>2. SameCuts(s.cuts, scenario.cuts)
    BY <1>5, <2>1, SameCutsTrans
  <2>3. s.cuts \in Seq(Cut)
    BY <1>4 DEF LoopState
  <2>4. QED
    BY <1>1, <2>1, <2>2, <2>3 DEF CutsInv
<1>9. /\ Queue(Tail(chunks), chunk_nr, scenario.index) /\ Known(Tail(chunks), holes)
      /\ AheadOf(video, Tail(chunks), 1, Starts) /\ Tail(chunks) # <<>>
      /\ Tail(chunks) \in Seq(Chunk) /\ Len(Tail(chunks)) = Len(chunks) - 1
  BY <1>3, TailKeeps
<1>10. 1 \in 1..Len(Tail(chunks)) /\ 1 \in Nat \ {0}
  BY <1>9
<1>11. SameQueue(chunks', Tail(chunks))
  <2>1. SameQueue(GapAt(Tail(chunks), 1, left), Tail(chunks))
    BY <1>6, <1>9, <1>10, GapLeftTo
  <2>2. QED
    BY <1>1, <2>1
<1>12. /\ Queue(chunks', chunk_nr, scenario.index) /\ Known(chunks', holes)
       /\ AheadOf(video, chunks', 1, Starts) /\ chunks' # <<>>
  BY <1>9, <1>10, <1>11, SameQueueKeeps
<1>13. QueueInv'
  BY <1>1, <1>3, <1>12 DEF QueueInv
<1>14. HolesInv'
  BY <1>1, <1>3, <1>12 DEF HolesInv
<1>15. /\ PlacesInOrder(video') /\ Unbroken(video', holes) /\ Before(video', chunk_nr)
       /\ AheadOf(video', chunks', 1, Starts)
  BY <1>1, <1>3, <1>4, <1>12, SameHoldersKeep
<1>16. HoldersInv'
  BY <1>1, <1>2, <1>15 DEF HoldersInv
<1>17. QED
  BY <1>7, <1>8, <1>13, <1>14, <1>16 DEF ParserInv

LEMMA ParserNext ==
    ASSUME ParserInv, [Next]_vars
    PROVE  ParserInv'
<1>1. CASE UNCHANGED vars
  BY <1>1, ParserUnchanged
<1>2. CASE SkipChunk
  BY <1>2, ParserSkip
<1>3. CASE StopReading
  BY <1>3, ParserStop
<1>4. CASE ParseVideo
  BY <1>4, ParserVideo
<1>5. CASE ParseSound
  BY <1>5, ParserSound
<1>6. ASSUME NEW shape \in scenario.shapes, NEW gap \in BOOLEAN, GetChunk(shape, gap)
      PROVE  ParserInv'
  BY <1>6, ParserGet
<1>7. QED
  BY <1>1, <1>2, <1>3, <1>4, <1>5, <1>6 DEF Next

(* What the video list, the chunks not yet parsed and the cuts are like at *)
(* each place of parse_chunk: ParserInv, for every recording.              *)
THEOREM ParserInvariant == Spec => []ParserInv
<1>1. Init => ParserInv
  BY ParserInit
<1>2. ParserInv /\ [Next]_vars => ParserInv'
  BY ParserNext
<1>3. QED
  BY <1>1, <1>2, PTL DEF Spec

(* No picture is made of records from both sides of a gap: HoldersUnbroken *)
(* holds in every behaviour of parse_chunk_video.                          *)
THEOREM ParseHoldersUnbroken == Spec => []HoldersUnbroken
<1>1. ParserInv => HoldersUnbroken
  <2>1. SUFFICES ASSUME ParserInv PROVE HoldersUnbroken
    OBVIOUS
  <2>2. video \in Seq(VideoHolder) /\ Unbroken(video, holes)
    BY <2>1 DEF ParserInv, AudioTypes, HoldersInv
  <2>3. DOMAIN video = 1..Len(video)
    BY <2>2
  <2>4. QED
    BY <2>2, <2>3 DEF Unbroken, HoldersUnbroken
<1>2. QED
  BY <1>1, ParserInvariant, PTL

(* No record becomes part of two holders, and holders are in stream order: *)
(* RecordsOnceInOrder, though each holder reads on into the next chunks.   *)
THEOREM ParseRecordsOnceInOrder == Spec => []RecordsOnceInOrder
<1>1. ParserInv => RecordsOnceInOrder
  <2>1. SUFFICES ASSUME ParserInv PROVE RecordsOnceInOrder
    OBVIOUS
  <2>2. video \in Seq(VideoHolder) /\ PlacesInOrder(video)
    BY <2>1 DEF ParserInv, AudioTypes, HoldersInv
  <2>3. DOMAIN video = 1..Len(video)
    BY <2>2
  <2>4. QED
    BY <2>2, <2>3 DEF PlacesInOrder, RecordsOnceInOrder
<1>2. QED
  BY <1>1, ParserInvariant, PTL

-----------------------------------------------------------------------------
(* Chunks that are missing: the chunk that is parsed knows of those behind *)
(* the last holder, and the next holder is flagged.                        *)
Flagged(list, gone) ==
    \A k \in 2..Len(list) : \A n \in gone :
        list[k - 1].nr < n /\ n <= list[k].nr => list[k].gap # 0 \/ list[k].repaired

GapWaits(list, queue, gone, c) ==
    list # <<>> =>
        \A n \in gone : list[Len(list)].nr < n /\ n <= queue[1].nr => queue[c].gap

GapsInv ==
    series = "S1" =>
        /\ Flagged(video, holes)
        /\ pc = "read" => GapWaits(video, chunks, holes, 1)
        /\ pc = "sound" => GapWaits(video, chunks, holes, 2)

LEMMA GapsGet ==
    ASSUME ParserInv, GapsInv, NEW shape \in scenario.shapes, NEW gap \in BOOLEAN,
           GetChunk(shape, gap)
    PROVE  GapsInv'
<1> DEFINE h == [nr |-> chunk_nr, recs |-> shape, gap |-> gap]
<1>1. /\ series' = series /\ video' = video /\ chunks' = Append(chunks, h) /\ pc = "read"
      /\ pc' = pc /\ holes' = IF gap THEN holes \cup {chunk_nr} ELSE holes
  BY DEF GetChunk, series
<1>2. SUFFICES ASSUME series = "S1" PROVE Flagged(video, holes') /\ GapWaits(video, chunks', holes', 1)
  BY <1>1 DEF GapsInv
<1>3. Flagged(video, holes) /\ GapWaits(video, chunks, holes, 1)
  BY <1>1, <1>2 DEF GapsInv
<1>4. /\ chunks \in Seq(Chunk) /\ chunk_nr \in Nat /\ video \in Seq(VideoHolder)
      /\ (\A k \in 1..Len(chunks) : chunks[k].nr < chunk_nr) /\ (chunks = <<>> => video = <<>>)
      /\ (\A k \in 1..Len(video) : video[k].nr < chunk_nr)
  BY DEF ParserInv, QueueInv, Queue, HoldersInv, Before, AudioTypes
<1>5. \A k \in 1..Len(video) : video[k].nr \in Nat
  BY <1>4, PlaceTypes
<1>6. \A n \in holes' : n \in holes \/ n = chunk_nr
  BY <1>1
<1>7. Flagged(video, holes')
  <2>1. ASSUME NEW k \in 2..Len(video), NEW n \in holes',
               video[k - 1].nr < n, n <= video[k].nr
        PROVE  video[k].gap # 0 \/ video[k].repaired
    <3>1. k \in 1..Len(video)
      BY <1>4
    <3>2. n # chunk_nr
      BY <1>4, <1>5, <2>1, <3>1
    <3>3. QED
      BY <1>3, <1>6, <2>1, <3>2 DEF Flagged
  <2>2. QED
    BY <2>1 DEF Flagged
<1>8. GapWaits(video, chunks', holes', 1)
  <2>1. ASSUME video # <<>>, NEW n \in holes', video[Len(video)].nr < n, n <= chunks'[1].nr
        PROVE  chunks'[1].gap
    <3>1. 1 \in 1..Len(chunks) /\ chunks[1].nr \in Nat /\ chunks[1].nr < chunk_nr
      <4>1. chunks # <<>>
        BY <1>4, <2>1
      <4>2. 1 \in 1..Len(chunks)
        BY <1>4, <4>1
      <4>3. QED
        BY <1>4, <4>2, ChunkTypes
    <3>2. chunks'[1] = chunks[1]
      <4> HIDE DEF h
      <4>1. QED
        BY <1>1, <1>4, <3>1
    <3>3. n # chunk_nr
      BY <1>4, <2>1, <3>1, <3>2
    <3>4. QED
      BY <1>3, <1>6, <2>1, <3>2, <3>3 DEF GapWaits
  <2>2. QED
    BY <2>1 DEF GapWaits
<1>9. QED
  BY <1>7, <1>8

LEMMA GapsVideo ==
    ASSUME ParserInv, GapsInv, ParseVideo, NoGapInCut
    PROVE  GapsInv'
<1> DEFINE class == cutpoint_incut_chunk(cuts, chunks[1].nr)
           v == VideoOf(chunks, class)
           made == v.holders
           new == video \o made
<1>1. series' = series /\ holes' = holes /\ pc = "read" /\ okay_to_parse
  BY DEF ParseVideo, series
<1>2. \/ class = 3 /\ pc' = "sound" /\ video' = video /\ chunks' = chunks
      \/ /\ class # 3 /\ pc' \in {"undefined", "sound"} /\ video' = video \o v.holders
         /\ chunks' = GapAt(chunks, 2, v.left)
  BY Zenon DEF ParseVideo, GapAt
<1>3. chunks[1].gap => class \notin {2, 3}
  BY <1>1 DEF NoGapInCut
<1> HIDE DEF class, v
<1>4. /\ chunks \in Seq(Chunk) /\ Len(chunks) >= 2 /\ v.left \in BOOLEAN
      /\ made \in Seq(VideoHolder) /\ OfChunk(made, chunks, Flow(chunks))
      /\ GapGoesOn(v, chunks, class)
  BY <1>1, VideoStep DEF class, v
<1> HIDE DEF new, made
<1>5. SUFFICES ASSUME series = "S1"
               PROVE  Flagged(video', holes) /\ (pc' = "sound" => GapWaits(video', chunks', holes, 2))
  <2>1. pc' # "read"
    BY <1>2
  <2>2. QED
    BY <1>1, <2>1 DEF GapsInv
<1>6. Flagged(video, holes) /\ GapWaits(video, chunks, holes, 1)
  BY <1>1, <1>5 DEF GapsInv
<1>7. /\ 1 \in 1..Len(chunks) /\ 2 \in 1..Len(chunks) /\ chunks[1].nr \in Nat
      /\ video \in Seq(VideoHolder) /\ holes \subseteq Nat
  <2>1. 1 \in 1..Len(chunks) /\ 2 \in 1..Len(chunks)
    BY <1>4
  <2>2. QED
    BY <1>4, <2>1, ChunkTypes DEF ParserInv, AudioTypes, HolesInv
<1>8. CASE class = 3 /\ video' = video /\ chunks' = chunks
  <2>1. ~chunks[1].gap
    BY <1>3, <1>8
  <2>2. GapWaits(video, chunks, holes, 2)
    BY <1>6, <2>1 DEF GapWaits
  <2>3. QED
    BY <1>6, <1>8, <2>2
<1>9. CASE /\ class # 3 /\ video' = new /\ chunks' = GapAt(chunks, 2, v.left)
  <2>1. /\ (chunks'[2].gap <=> chunks[2].gap \/ v.left) /\ chunks'[1] = chunks[1]
    BY <1>4, <1>7, <1>9, GapLeftTo
  <2>2. CASE made = <<>>
    <3>1. new = video
      BY <1>7, <2>2 DEF new
    <3>2. chunks[1].gap => v.left
      BY <1>3, <1>4, <1>5, <2>2 DEF GapGoesOn, made
    <3>3. GapWaits(video, chunks', holes, 2)
      BY <1>6, <2>1, <3>2 DEF GapWaits
    <3>4. QED
      BY <1>6, <1>9, <3>1, <3>3
  <2>3. CASE made # <<>>
    <3>1. /\ new \in Seq(VideoHolder) /\ Len(new) = Len(video) + Len(made)
          /\ Len(video) \in Nat /\ Len(made) \in Nat /\ Len(made) >= 1
          /\ \A k \in 1..Len(video) : new[k] = video[k]
          /\ \A k \in 1..Len(made) : new[Len(video) + k] = made[k]
      <4>1. Len(made) >= 1
        BY <1>4, <2>3
      <4>2. QED
        BY <1>4, <1>7, <4>1, ConcatProperties DEF new
    <3>2. chunks[1].gap => made[1].gap # 0
      BY <1>3, <1>4, <2>3 DEF GapGoesOn, made
    <3>3. \A k \in 1..Len(made) : made[k].nr = chunks[1].nr
      BY <1>4 DEF OfChunk
    <3>4. ASSUME NEW k \in (Len(video) + 1)..Len(new)
          PROVE  k - Len(video) \in 1..Len(made) /\ new[k] = made[k - Len(video)]
      <4>1. k - Len(video) \in 1..Len(made) /\ Len(video) + (k - Len(video)) = k
        BY <3>1
      <4>2. new[Len(video) + (k - Len(video))] = made[k - Len(video)]
        BY <3>1, <4>1
      <4>3. QED
        BY <4>1, <4>2
    <3>5. GapWaits(new, chunks', holes, 2)
      <4>1. Len(new) \in (Len(video) + 1)..Len(new)
        BY <3>1
      <4>2. new[Len(new)].nr = chunks[1].nr
        BY <3>3, <3>4, <4>1
      <4>3. \A n \in holes : ~(new[Len(new)].nr < n /\ n <= chunks'[1].nr)
        BY <1>7, <2>1, <4>2
      <4>4. QED
        BY <4>3 DEF GapWaits
    <3>6. Flagged(new, holes)
      <4>1. ASSUME NEW k \in 2..Len(new), NEW n \in holes,
                   new[k - 1].nr < n, n <= new[k].nr
            PROVE  new[k].gap # 0 \/ new[k].repaired
        <5>1. CASE k <= Len(video)
          <6>1. k \in 2..Len(video) /\ k \in 1..Len(video) /\ k - 1 \in 1..Len(video)
            BY <3>1, <5>1
          <6>2. new[k] = video[k] /\ new[k - 1] = video[k - 1]
            BY <3>1, <6>1
          <6>3. QED
            BY <1>6, <4>1, <6>1, <6>2 DEF Flagged
        <5>2. CASE k = Len(video) + 1
          <6>1. k \in (Len(video) + 1)..Len(new) /\ k - 1 = Len(video) /\ Len(video) \in 1..Len(video)
                /\ k - Len(video) = 1
            BY <3>1, <5>2
          <6>2. new[k] = made[1] /\ new[k].nr = chunks[1].nr
            <7>1. new[k] = made[k - Len(video)] /\ 1 \in 1..Len(made)
              BY <3>1, <3>4, <6>1
            <7>2. QED
              BY <3>3, <6>1, <7>1
          <6>3. new[k - 1] = video[Len(video)] /\ video # <<>>
            BY <3>1, <6>1
          <6>4. video[Len(video)].nr < n /\ n <= chunks[1].nr
            BY <4>1, <6>2, <6>3
          <6>5. chunks[1].gap
            BY <1>6, <6>3, <6>4 DEF GapWaits
          <6>6. QED
            BY <3>2, <6>2, <6>5
        <5>3. CASE k > Len(video) + 1
          <6>1. k \in (Len(video) + 1)..Len(new) /\ k - 1 \in (Len(video) + 1)..Len(new)
            BY <3>1, <5>3
          <6>2. new[k].nr = chunks[1].nr /\ new[k - 1].nr = chunks[1].nr
            BY <3>3, <3>4, <6>1
          <6>3. n \in Nat
            BY <1>7
          <6>4. FALSE
            BY <1>7, <4>1, <6>2, <6>3
          <6>5. QED
            BY <6>4
        <5>4. QED
          BY <3>1, <5>1, <5>2, <5>3
      <4>2. QED
        BY <4>1 DEF Flagged
    <3>7. QED
      BY <1>9, <3>5, <3>6
  <2>4. QED
    BY <2>2, <2>3
<1>10. QED
  BY <1>2, <1>8, <1>9 DEF new, made

LEMMA GapsSound ==
    ASSUME ParserInv, GapsInv, ParseSound
    PROVE  GapsInv'
<1> DEFINE s == AudioOf(chunks)
           left == s.asks /\ s.open
<1>1. /\ pc' \in {"undefined", "read"} /\ video' = s.video
      /\ chunks' = GapAt(Tail(chunks), 1, left)
      /\ series' = series /\ holes' = holes /\ pc = "sound"
  BY Zenon DEF ParseSound, GapAt, series
<1>2. /\ chunks \in Seq(Chunk) /\ Len(chunks) >= 2 /\ chunks # <<>> /\ Rising(chunks)
      /\ Queue(chunks, chunk_nr, scenario.index)
      /\ holes \subseteq Nat /\ Known(chunks, holes) /\ AudioTypes
      /\ AheadOf(video, chunks, 2, Starts)
  <2>1. chunks \in Seq(Chunk) /\ Len(chunks) >= 2
    BY <1>1 DEF ParserInv, QueueInv, Queue
  <2>2. chunks # <<>>
    BY <2>1
  <2>3. QED
    BY <1>1, <2>1, <2>2 DEF ParserInv, QueueInv, Queue, HolesInv, HoldersInv
<1>3. SameHolders(video, s.video)
  BY <1>2, LoopKeeps
<1>4. left \in BOOLEAN
  <2>1. s \in LoopState
    BY <1>2, LoopKeeps
  <2>2. QED
    BY <2>1 DEF LoopState
<1> HIDE DEF s, left
<1>5. SUFFICES ASSUME series = "S1"
               PROVE  Flagged(video', holes) /\ GapWaits(video', chunks', holes, 1)
  <2>1. pc' # "sound"
    BY <1>1
  <2>2. QED
    BY <1>1, <2>1 DEF GapsInv
<1>6. Flagged(video, holes) /\ GapWaits(video, chunks, holes, 2)
  BY <1>1, <1>5 DEF GapsInv
<1>7. /\ Len(video) = Len(video') /\ Len(video) \in Nat /\ (video' # <<>> => video # <<>>)
      /\ \A k \in 1..Len(video) :
            /\ video[k].nr = video'[k].nr /\ video[k].gap = video'[k].gap
            /\ video[k].repaired = video'[k].repaired
  <2>1. video \in Seq(VideoHolder) /\ s.video \in Seq(VideoHolder)
    <3>1. s \in LoopState
      BY <1>2, LoopKeeps DEF s
    <3>2. QED
      BY <1>2, <3>1 DEF AudioTypes, LoopState
  <2>2. Len(video) = Len(video')
    BY <1>1, <1>3 DEF SameHolders
  <2>3. video' # <<>> => video # <<>>
    BY <1>1, <2>1, <2>2
  <2>4. QED
    BY <1>1, <1>3, <2>1, <2>2, <2>3 DEF SameHolders
<1>8. Flagged(video', holes)
  <2>1. ASSUME NEW k \in 2..Len(video'), NEW n \in holes,
               video'[k - 1].nr < n, n <= video'[k].nr
        PROVE  video'[k].gap # 0 \/ video'[k].repaired
    <3>1. k \in 2..Len(video) /\ k \in 1..Len(video) /\ k - 1 \in 1..Len(video)
      BY <1>7
    <3>2. video[k - 1].nr < n /\ n <= video[k].nr
      BY <1>7, <2>1, <3>1
    <3>3. video[k].gap # 0 \/ video[k].repaired
      BY <1>6, <3>1, <3>2 DEF Flagged
    <3>4. QED
      BY <1>7, <3>1, <3>3
  <2>2. QED
    BY <2>1 DEF Flagged
<1>9. /\ Tail(chunks) \in Seq(Chunk) /\ Len(Tail(chunks)) = Len(chunks) - 1
      /\ \A k \in 1..(Len(chunks) - 1) : Tail(chunks)[k] = chunks[k + 1]
  BY <1>2, TailKeeps
<1>10. 1 \in 1..Len(Tail(chunks)) /\ Tail(chunks)[1] = chunks[2] /\ 2 \in 1..Len(chunks)
  <2>1. 1 \in 1..(Len(chunks) - 1) /\ 1 + 1 = 2 /\ 2 \in 1..Len(chunks)
    BY <1>2
  <2>2. QED
    BY <1>9, <2>1
<1>11. chunks'[1].nr = chunks[2].nr /\ (chunks[2].gap => chunks'[1].gap)
  <2>1. SameQueue(GapAt(Tail(chunks), 1, left), Tail(chunks))
    BY <1>4, <1>9, <1>10, GapLeftTo
  <2>2. QED
    BY <1>1, <1>10, <2>1 DEF SameQueue
<1>12. GapWaits(video', chunks', holes, 1)
  <2>1. ASSUME video' # <<>>, NEW n \in holes, video'[Len(video')].nr < n, n <= chunks'[1].nr
        PROVE  chunks'[1].gap
    <3>1. n \in Nat /\ chunks[1].nr \in Nat /\ chunks[2].nr \in Nat
      BY <1>2, <1>10, ChunkTypes
    <3>2. video # <<>> /\ video[Len(video)].nr < n
      <4>1. video # <<>>
        BY <1>7, <2>1
      <4>2. Len(video) \in 1..Len(video)
        BY <1>2, <1>7, <4>1 DEF AudioTypes
      <4>3. QED
        BY <1>7, <2>1, <4>1, <4>2
    <3>3. CASE n <= chunks[1].nr
      BY <1>6, <1>11, <3>2, <3>3 DEF GapWaits
    <3>4. ASSUME NEW k \in 2..Len(chunks), chunks[k].nr = n, chunks[k].gap
          PROVE  chunks'[1].gap
      <4>1. k \in 1..Len(chunks) /\ (2 < k => chunks[2].nr < chunks[k].nr)
        BY <1>2, <1>10 DEF Rising
      <4>2. k = 2
        BY <1>2, <1>11, <2>1, <3>1, <3>4, <4>1
      <4>3. QED
        BY <1>11, <3>4, <4>2
    <3>5. QED
      BY <1>2, <3>3, <3>4 DEF Known
  <2>2. QED
    BY <2>1 DEF GapWaits
<1>13. QED
  BY <1>8, <1>12

LEMMA GapsNext ==
    ASSUME ParserInv, GapsInv, NoGapInCut, [Next]_vars
    PROVE  GapsInv'
<1>1. CASE UNCHANGED vars
  BY <1>1 DEF vars, GapsInv, series
<1>2. CASE SkipChunk
  BY <1>2 DEF SkipChunk, GapsInv, series
<1>3. CASE StopReading
  BY <1>3 DEF StopReading, GapsInv, series
<1>4. CASE ParseVideo
  BY <1>4, GapsVideo
<1>5. CASE ParseSound
  BY <1>5, GapsSound
<1>6. ASSUME NEW shape \in scenario.shapes, NEW gap \in BOOLEAN, GetChunk(shape, gap)
      PROVE  GapsInv'
  BY <1>6, GapsGet
<1>7. QED
  BY <1>1, <1>2, <1>3, <1>4, <1>5, <1>6 DEF Next

LEMMA GapsAreFlagged ==
    ASSUME ParserInv, GapsInv
    PROVE  GapsReachVideo
<1>1. SUFFICES ASSUME series = "S1" PROVE GapsReachVideo
  BY DEF GapsReachVideo
<1>2. Flagged(video, holes)
  BY <1>1 DEF GapsInv
<1>3. QED
  BY <1>2 DEF Flagged, GapsReachVideo

(* On S1 the first holder behind a place where chunks are missing is       *)
(* flagged or starts afresh, as long as no such place is parsed inside a   *)
(* cut or where one ends: parse_chunk does not look at the gap there.      *)
THEOREM ParseGapsReachVideo == Spec /\ []NoGapInCut => []GapsReachVideo
<1>1. Init => GapsInv
  <2>1. ASSUME Init PROVE Flagged(video, holes) /\ \A c : GapWaits(video, chunks, holes, c)
    BY <2>1 DEF Init, Flagged, GapWaits
  <2>2. QED
    BY <2>1 DEF GapsInv
<1>2. ParserInv /\ GapsInv /\ NoGapInCut /\ [Next]_vars => GapsInv'
  BY GapsNext
<1>3. ParserInv /\ GapsInv => GapsReachVideo
  BY GapsAreFlagged
<1>4. QED
  BY <1>1, <1>2, <1>3, ParserInvariant, PTL DEF Spec

(* A stream without cuts, or one where nothing is missing, is such a one.  *)
GapsAllowed == \A k \in 1..Len(chunks) : chunks[k].gap => scenario.gaps

LEMMA GapsAllowedNext ==
    ASSUME ParserInv, GapsAllowed, [Next]_vars
    PROVE  GapsAllowed'
<1>1. chunks \in Seq(Chunk) /\ chunk_nr \in Nat
  BY DEF ParserInv, QueueInv, Queue
<1>2. CASE UNCHANGED vars
  BY <1>2 DEF vars, GapsAllowed
<1>3. CASE SkipChunk
  BY <1>3 DEF SkipChunk, GapsAllowed
<1>4. CASE StopReading
  BY <1>4 DEF StopReading, GapsAllowed
<1>5. CASE ParseVideo
  <2> DEFINE class == cutpoint_incut_chunk(cuts, chunks[1].nr)
             v == VideoOf(chunks, class)
  <2>1. /\ chunks' = chunks \/ chunks' = GapAt(chunks, 2, v.left)
        /\ pc = "read" /\ okay_to_parse /\ scenario' = scenario
    BY <1>5, Zenon DEF ParseVideo, GapAt
  <2> HIDE DEF class, v
  <2>2. v.left \in BOOLEAN /\ GapGoesOn(v, chunks, class) /\ Len(chunks) >= 2
    BY <2>1, VideoStep DEF class, v
  <2>3. v.left => chunks[1].gap
    BY <2>2 DEF GapGoesOn
  <2>4. 1 \in 1..Len(chunks) /\ 2 \in 1..Len(chunks)
    BY <1>1, <2>2
  <2>5. CASE chunks' = GapAt(chunks, 2, v.left)
    <3>1. /\ SameQueue(chunks', chunks) /\ (chunks'[2].gap <=> chunks[2].gap \/ v.left)
          /\ \A k \in 1..Len(chunks) : k # 2 => chunks'[k] = chunks[k]
      BY <1>1, <2>2, <2>4, <2>5, GapLeftTo
    <3>2. ASSUME NEW k \in 1..Len(chunks'), chunks'[k].gap PROVE scenario.gaps
      <4>1. k \in 1..Len(chunks)
        BY <3>1 DEF SameQueue
      <4>2. CASE k = 2
        BY <2>3, <2>4, <3>1, <3>2, <4>2 DEF GapsAllowed
      <4>3. CASE k # 2
        BY <3>1, <3>2, <4>1, <4>3 DEF GapsAllowed
      <4>4. QED
        BY <4>2, <4>3
    <3>3. QED
      BY <2>1, <3>2 DEF GapsAllowed
  <2>6. CASE chunks' = chunks
    BY <2>1, <2>6 DEF GapsAllowed
  <2>7. QED
    BY <2>1, <2>5, <2>6
<1>6. CASE ParseSound
  <2> DEFINE s == AudioOf(chunks)
             left == s.asks /\ s.open
  <2>1. chunks' = GapAt(Tail(chunks), 1, left) /\ scenario' = scenario /\ pc = "sound"
    BY <1>6, Zenon DEF ParseSound, GapAt
  <2>2. /\ Len(chunks) >= 2 /\ chunks # <<>> /\ Rising(chunks) /\ AudioTypes
    BY <1>1, <2>1 DEF ParserInv, QueueInv, Queue
  <2>3. s \in LoopState /\ s.asks = chunks[1].gap
    BY <1>1, <2>2, LoopKeeps
  <2>4. left \in BOOLEAN /\ (left => chunks[1].gap)
    BY <2>3 DEF LoopState
  <2> HIDE DEF s, left
  <2>5. /\ Tail(chunks) \in Seq(Chunk) /\ Len(Tail(chunks)) = Len(chunks) - 1
        /\ \A k \in 1..(Len(chunks) - 1) : Tail(chunks)[k] = chunks[k + 1]
    BY <1>1, <2>2, HeadTailProperties
  <2>6. 1 \in 1..Len(Tail(chunks)) /\ 1 \in 1..Len(chunks) /\ Len(chunks) \in Nat
    BY <1>1, <2>2, <2>5
  <2>7. /\ SameQueue(chunks', Tail(chunks)) /\ (chunks'[1].gap <=> Tail(chunks)[1].gap \/ left)
        /\ \A k \in 1..Len(Tail(chunks)) : k # 1 => chunks'[k] = Tail(chunks)[k]
    BY <2>1, <2>4, <2>5, <2>6, GapLeftTo
  <2>8. ASSUME NEW k \in 1..Len(chunks'), chunks'[k].gap PROVE scenario.gaps
    <3>1. k \in 1..Len(Tail(chunks)) /\ Tail(chunks)[k] = chunks[k + 1] /\ k + 1 \in 1..Len(chunks)
      <4>1. k \in 1..Len(Tail(chunks))
        BY <2>7 DEF SameQueue
      <4>2. QED
        BY <2>5, <2>6, <4>1
    <3>2. CASE Tail(chunks)[k].gap
      BY <3>1, <3>2 DEF GapsAllowed
    <3>3. CASE ~Tail(chunks)[k].gap
      <4>1. k = 1 /\ left
        BY <2>7, <2>8, <3>1, <3>3
      <4>2. QED
        BY <2>4, <2>6, <4>1 DEF GapsAllowed
    <3>4. QED
      BY <3>2, <3>3
  <2>9. QED
    BY <2>1, <2>8 DEF GapsAllowed
<1>7. ASSUME NEW shape \in scenario.shapes, NEW gap \in BOOLEAN, GetChunk(shape, gap)
      PROVE  GapsAllowed'
  <2> DEFINE h == [nr |-> chunk_nr, recs |-> shape, gap |-> gap]
  <2>1. chunks' = Append(chunks, h) /\ scenario' = scenario /\ (gap => scenario.gaps)
    BY <1>7 DEF GetChunk
  <2>2. h.gap = gap
    OBVIOUS
  <2> HIDE DEF h
  <2>3. /\ Len(chunks') = Len(chunks) + 1 /\ chunks'[Len(chunks) + 1] = h /\ Len(chunks) \in Nat
        /\ \A k \in 1..Len(chunks) : chunks'[k] = chunks[k]
    BY <1>1, <2>1, AppendProperties
  <2>4. ASSUME NEW k \in 1..Len(chunks'), chunks'[k].gap PROVE scenario.gaps
    <3>1. CASE k \in 1..Len(chunks)
      BY <2>3, <2>4, <3>1 DEF GapsAllowed
    <3>2. CASE k \notin 1..Len(chunks)
      <4>1. k = Len(chunks) + 1
        BY <2>3, <3>2
      <4>2. QED
        BY <2>1, <2>2, <2>3, <2>4, <4>1
    <3>3. QED
      BY <3>1, <3>2
  <2>5. QED
    BY <2>1, <2>4 DEF GapsAllowed
<1>8. QED
  BY <1>2, <1>3, <1>4, <1>5, <1>6, <1>7 DEF Next

LEMMA NoCutsNoGapInCut ==
    ASSUME \A s \in Scenarios : s.gaps => s.cuts = <<>>, ParserInv, GapsAllowed
    PROVE  NoGapInCut
<1>1. SUFFICES ASSUME pc = "read", okay_to_parse, chunks[1].gap
               PROVE  cutpoint_incut_chunk(cuts, chunks[1].nr) \notin {2, 3}
  BY DEF NoGapInCut
<1>2. /\ chunks \in Seq(Chunk) /\ scenario \in Scenarios /\ cuts \in Seq(Cut)
      /\ Len(cuts) = Len(scenario.cuts)
  BY DEF ParserInv, QueueInv, Queue, CutsInv, SameCuts
<1>3. 1 \in 1..Len(chunks)
  <2>1. LookAhead \in Nat /\ LookAhead >= 1
    BY ParseAssumption
  <2>2. QED
    BY <1>1, <1>2, <2>1 DEF okay_to_parse
<1>4. scenario.gaps
  BY <1>1, <1>3 DEF GapsAllowed
<1>5. scenario.cuts = <<>>
  BY <1>2, <1>4
<1>6. Len(cuts) = 0
  BY <1>2, <1>5
<1>7. cuts = <<>>
  BY <1>2, <1>6
<1>8. cutpoint_incut_chunk(cuts, chunks[1].nr) = 0
  BY <1>7, NoCutClass
<1>9. QED
  BY <1>8

(* A recording with chunks missing that is not cut: GapsReachVideo holds   *)
(* in every behaviour.                                                     *)
THEOREM ParseGapsReachVideoUncut ==
    ASSUME \A s \in Scenarios : s.gaps => s.cuts = <<>>
    PROVE  Spec => []GapsReachVideo
<1>1. Init => GapsAllowed
  BY DEF Init, GapsAllowed
<1>2. ParserInv /\ GapsAllowed /\ [Next]_vars => GapsAllowed'
  BY GapsAllowedNext
<1>3. ParserInv /\ GapsAllowed => NoGapInCut
  BY NoCutsNoGapInCut
<1>4. QED
  BY <1>1, <1>2, <1>3, ParserInvariant, ParseGapsReachVideo, PTL DEF Spec

-----------------------------------------------------------------------------
(* The sound and the cuts.                                                 *)
LEMMA SoundInit ==
    ASSUME Init
    PROVE  SoundNow
<1>1. /\ scenario \in Scenarios /\ cuts = scenario.cuts /\ audio = <<>> /\ ~audiocut
  BY DEF Init
<1>2. ASSUME NEW n \in 1..Len(cuts) PROVE ~cuts[n].audiostart /\ ~cuts[n].audiostop
  <2>1. scenario.cuts \in Seq(Cut) /\ n \in DOMAIN scenario.cuts
    BY <1>1, ParseAssumption
  <2>2. CutOfIndex(cuts[n], scenario.index)
    BY <1>1, <2>1, ParseAssumption
  <2>3. QED
    BY <2>2 DEF CutOfIndex, CutBetween
<1>3. Marks(cuts, audiocut, audio_start_drift, dropped)
  BY <1>1, <1>2 DEF Marks, Open
<1>4. Len(audio) = 0
  BY <1>1
<1>5. Outside(cuts, audio) /\ Synced(cuts, audio)
  BY <1>4 DEF Outside, Synced
<1>6. QED
  BY <1>3, <1>5 DEF SoundNow

LEMMA SoundNext ==
    ASSUME ParserInv, SoundNow, CutsApart, [Next]_vars
    PROVE  SoundNow'
<1>1. CASE /\ cuts' = cuts /\ audio' = audio /\ audiocut' = audiocut
           /\ audio_start_drift' = audio_start_drift /\ dropped' = dropped
  BY <1>1 DEF SoundNow
<1>2. CASE UNCHANGED vars
  BY <1>1, <1>2 DEF vars
<1>3. CASE SkipChunk
  BY <1>1, <1>3 DEF SkipChunk
<1>4. CASE StopReading
  BY <1>1, <1>4 DEF StopReading
<1>5. CASE ParseVideo
  BY <1>1, <1>5 DEF ParseVideo
<1>6. CASE ParseSound
  <2> DEFINE s == AudioOf(chunks)
  <2>1. /\ pc = "sound" /\ cuts' = s.cuts /\ audio' = s.audio /\ audiocut' = s.audiocut
        /\ audio_start_drift' = s.start_drift /\ dropped' = s.dropped
    BY <1>6 DEF ParseSound
  <2>2. chunks \in Seq(Chunk) /\ Len(chunks) >= 2 /\ Rising(chunks) /\ AudioTypes
    BY <2>1 DEF ParserInv, QueueInv, Queue
  <2>3. chunks # <<>> /\ 1 \in 1..Len(chunks)
    BY <2>2
  <2>4. DOMAIN chunks[1].recs = 1..Len(chunks[1].recs)
    BY <2>2, <2>3, ChunkTypes
  <2>5. ChunkApart(chunks)
    BY <2>1, <2>4 DEF CutsApart, ChunkApart
  <2>6. SoundOk(s)
    BY <2>2, <2>3, <2>5, LoopOk
  <2> HIDE DEF s
  <2>7. QED
    BY <2>1, <2>6 DEF SoundOk, SoundNow
<1>7. ASSUME NEW shape \in scenario.shapes, NEW gap \in BOOLEAN, GetChunk(shape, gap)
      PROVE  SoundNow'
  BY <1>1, <1>7 DEF GetChunk
<1>8. QED
  BY <1>2, <1>3, <1>4, <1>5, <1>6, <1>7 DEF Next

(* The marks of the cuts, audiocut and audio_start_drift tell the same, as *)
(* long as sound lies between two cuts.                                    *)
THEOREM SoundInvariant == Spec /\ []CutsApart => []SoundNow
<1>1. Init => SoundNow
  BY SoundInit
<1>2. ParserInv /\ SoundNow /\ CutsApart /\ [Next]_vars => SoundNow'
  BY SoundNext
<1>3. QED
  BY <1>1, <1>2, ParserInvariant, PTL DEF Spec

LEMMA SoundTypes ==
    ASSUME ParserInv
    PROVE  /\ DOMAIN audio = 1..Len(audio) /\ DOMAIN cuts = 1..Len(cuts)
           /\ \A n \in 1..Len(cuts) : cuts[n].cutstart \in Int /\ cuts[n].cutstop \in Int
           /\ \A k \in 1..Len(audio) : audio[k].time \in Int
<1>1. audio \in Seq(SoundHolder) /\ cuts \in Seq(Cut)
  BY DEF ParserInv, AudioTypes
<1>2. ASSUME NEW n \in 1..Len(cuts) PROVE cuts[n].cutstart \in Int /\ cuts[n].cutstop \in Int
  <2>1. cuts[n] \in Cut
    BY <1>1
  <2>2. QED
    BY <2>1 DEF Cut
<1>3. ASSUME NEW k \in 1..Len(audio) PROVE audio[k].time \in Int
  <2>1. audio[k] \in SoundHolder
    BY <1>1
  <2>2. QED
    BY <2>1 DEF SoundHolder
<1>4. QED
  BY <1>1, <1>2, <1>3

(* The sound of a cut is left out and no other, and the flag audiocut says *)
(* whether one is open: SoundCut, where sound lies between two cuts.       *)
THEOREM ParseSoundCut == Spec /\ []CutsApart => []SoundCut
<1>1. ParserInv /\ SoundNow => SoundCut
  <2>1. SUFFICES ASSUME ParserInv, SoundNow PROVE SoundCut
    OBVIOUS
  <2>2. /\ DOMAIN audio = 1..Len(audio) /\ DOMAIN cuts = 1..Len(cuts)
        /\ \A n \in 1..Len(cuts) : cuts[n].cutstart \in Int /\ cuts[n].cutstop \in Int
        /\ \A k \in 1..Len(audio) : audio[k].time \in Int
    BY <2>1, SoundTypes
  <2>3. SoundOutsideCuts
    <3>1. ASSUME NEW k \in 1..Len(audio), NEW n \in 1..Len(cuts)
          PROVE  \/ cuts[n].cut_is_start_of_stream
                 \/ audio[k].time \notin cuts[n].cutstart..(cuts[n].cutstop - 1)
      <4>1. OutsideOf(cuts[n], audio[k])
        BY <2>1 DEF SoundNow, Outside
      <4>2. QED
        BY <2>2, <4>1 DEF OutsideOf, SoundIn
    <3>2. QED
      BY <2>2, <3>1 DEF SoundOutsideCuts
  <2>4. AudioCutOpen
    BY <2>1, <2>2 DEF SoundNow, Marks, AudioCutOpen
  <2>5. QED
    BY <2>3, <2>4 DEF SoundCut
<1>2. QED
  BY <1>1, ParserInvariant, SoundInvariant, PTL

(* Sound and video stay together over a cut: CutKeepsSync, from the drift  *)
(* that the start of the open cut left.                                    *)
THEOREM ParseCutKeepsSync == Spec /\ []CutsApart => []CutKeepsSync
<1>1. ParserInv /\ SoundNow => CutKeepsSync
  <2>1. SUFFICES ASSUME ParserInv, SoundNow PROVE CutKeepsSync
    OBVIOUS
  <2>2. DOMAIN audio = 1..Len(audio) /\ DOMAIN cuts = 1..Len(cuts)
    BY <2>1, SoundTypes
  <2>3. Synced(cuts, audio)
    BY <2>1 DEF SoundNow
  <2>4. QED
    BY <2>2, <2>3 DEF Synced, SyncOf, CutKeepsSync
<1>2. QED
  BY <1>1, ParserInvariant, SoundInvariant, PTL

-----------------------------------------------------------------------------
(* Cuts between which there is a chunk lie apart.                          *)

(* The time of the records of a chunk.                                     *)
From(q) == TicksPerChunk * q

LEMMA TimeRuns ==
    ASSUME NEW q \in Nat, NEW c \in Nat
    PROVE  /\ From(q) \in Nat /\ From(q + 1) = From(q) + TicksPerChunk
           /\ q <= c => From(q) <= From(c)
           /\ q < c => From(q + 1) <= From(c)
<1>1. TicksPerChunk \in Nat
  BY ParseAssumption
<1>2. \A a, b \in Nat : TicksPerChunk * a \in Nat /\ TicksPerChunk * (a + b) = TicksPerChunk * a + TicksPerChunk * b
  BY <1>1
<1>3. ASSUME NEW a \in Nat, NEW b \in Nat, a <= b PROVE From(a) <= From(b)
  <2>1. b - a \in Nat /\ b = a + (b - a)
    BY <1>3
  <2>2. TicksPerChunk * b = TicksPerChunk * a + TicksPerChunk * (b - a)
    BY <1>2, <2>1
  <2>3. TicksPerChunk * (b - a) \in Nat /\ TicksPerChunk * a \in Nat
    BY <1>2, <2>1
  <2>4. QED
    BY <2>2, <2>3 DEF From
<1>4. From(q) \in Nat /\ From(q + 1) = From(q) + TicksPerChunk
  BY <1>1 DEF From
<1>5. q < c => q + 1 <= c /\ q + 1 \in Nat
  OBVIOUS
<1>6. QED
  BY <1>3, <1>4, <1>5

LEMMA FreeIs ==
    ASSUME scenario \in Scenarios, NEW list \in Seq(Cut), SameCuts(list, scenario.cuts),
           NEW n \in 1..Len(list), NEW m \in 1..Len(list), NEW c \in FreeChunks(scenario, n, m)
    PROVE  /\ c \in 0..scenario.length /\ c \in Nat
           /\ cutpoint_incut_chunk(scenario.cuts, c) # 4
           /\ list[n].cutstop <= From(c) /\ From(c + 1) < list[m].cutstart
<1>1. scenario.length \in Nat
  BY ParseAssumption
<1>2. SameCut(list[n], scenario.cuts[n]) /\ SameCut(list[m], scenario.cuts[m])
  BY DEF SameCuts
<1>3. QED
  BY <1>1, <1>2 DEF FreeChunks, SameCut, From

(* Two cuts have a chunk between them, and the sound can be read.          *)
LEMMA PairSpaced ==
    ASSUME scenario \in Scenarios, CutsSpaced(scenario),
           NEW list \in Seq(Cut), SameCuts(list, scenario.cuts),
           NEW n \in 1..Len(list), NEW m \in 1..Len(list), n # m
    PROVE  /\ Sounding(scenario)
           /\ \/ \E c \in FreeChunks(scenario, n, m) : TRUE
              \/ \E c \in FreeChunks(scenario, m, n) : TRUE
<1>1. scenario.cuts \in Seq(Cut) /\ Len(scenario.cuts) = Len(list)
  BY ParseAssumption DEF SameCuts
<1>2. n \in DOMAIN scenario.cuts /\ m \in DOMAIN scenario.cuts
  BY <1>1
<1>3. QED
  BY <1>2 DEF CutsSpaced

(* An open cut was begun in front of the record j of the chunk q, and no   *)
(* sound came from a chunk behind it.                                      *)
Waits(list, q, j, recs) ==
    \A n, m \in 1..Len(list) : n # m /\ Open(list[n]) =>
        /\ list[n].cutstart <= From(q) + j
        /\ \A c \in FreeChunks(scenario, n, m) :
            q <= c /\ (q = c => \A i \in 1..j : recs[i].kind # "sound")

CutTypes(list) ==
    \A n \in 1..Len(list) : list[n] \in Cut /\ list[n].cutstart \in Nat /\ list[n].cutstop \in Nat

LEMMA CutTypesAre ==
    ASSUME NEW list \in Seq(Cut)
    PROVE  CutTypes(list) /\ Len(list) \in Nat
<1>1. \A c \in Cut : c.cutstart \in Nat /\ c.cutstop \in Nat
  BY DEF Cut
<1>2. QED
  BY <1>1 DEF CutTypes

LEMMA WaitsApart ==
    ASSUME scenario \in Scenarios, CutsSpaced(scenario),
           NEW list \in Seq(Cut), SameCuts(list, scenario.cuts),
           NEW q \in Nat, NEW recs \in scenario.shapes, NEW j \in 1..Len(recs), recs \in Seq(Record),
           Waits(list, q, j - 1, recs)
    PROVE  ApartAt(list, From(q) + j)
<1> DEFINE ticks == From(q) + j
<1>1. CutTypes(list) /\ DOMAIN list = 1..Len(list) /\ j \in Nat /\ j >= 1
  BY CutTypesAre
<1>2. From(q) \in Nat /\ From(q + 1) = From(q) + TicksPerChunk /\ TicksPerChunk \in Nat
  BY TimeRuns, ParseAssumption
<1>3. SUFFICES ASSUME NEW n \in 1..Len(list), NEW m \in 1..Len(list), n # m,
                      SoundIn(list[m], ticks)
               PROVE  ~SoundIn(list[n], ticks) /\ ~Open(list[n])
  BY <1>1 DEF ApartAt
<1>4. /\ list[m].cutstart <= ticks /\ ticks < list[m].cutstop
      /\ list[n].cutstart \in Nat /\ list[n].cutstop \in Nat
      /\ list[m].cutstart \in Nat /\ list[m].cutstop \in Nat
  BY <1>1, <1>3 DEF SoundIn, CutTypes
<1>5. j <= TicksPerChunk
  <2>1. Sounding(scenario)
    BY <1>3, PairSpaced
  <2>2. Len(recs) <= TicksPerChunk /\ Len(recs) \in Nat
    BY <2>1 DEF Sounding
  <2>3. QED
    BY <1>2, <2>2
<1>6. ticks <= From(q + 1) /\ ticks \in Nat
  BY <1>1, <1>2, <1>5
<1> HIDE DEF ticks
<1>7. ASSUME NEW c \in FreeChunks(scenario, n, m)
      PROVE  ~SoundIn(list[n], ticks) /\ ~Open(list[n])
  <2>1. /\ c \in Nat /\ list[n].cutstop <= From(c) /\ From(c + 1) < list[m].cutstart
        /\ From(c) <= From(c + 1) /\ From(c) \in Nat /\ From(c + 1) \in Nat /\ c + 1 \in Nat
    <3>1. c \in Nat /\ list[n].cutstop <= From(c) /\ From(c + 1) < list[m].cutstart
      BY FreeIs
    <3>2. From(c) \in Nat /\ From(c + 1) = From(c) + TicksPerChunk
      BY <3>1, TimeRuns
    <3>3. TicksPerChunk \in Nat
      BY <1>2
    <3>4. From(c) <= From(c + 1) /\ From(c + 1) \in Nat
      BY <3>2, <3>3
    <3>5. c + 1 \in Nat
      BY <3>1
    <3>6. QED
      BY <3>1, <3>2, <3>4, <3>5
  <2>2. ~SoundIn(list[n], ticks)
    BY <1>4, <1>6, <2>1 DEF SoundIn
  <2>3. ~(q <= c)
    <3>1. q <= c => From(q + 1) <= From(c + 1)
      BY <2>1, TimeRuns
    <3>2. From(q + 1) \in Nat
      BY TimeRuns
    <3>3. QED
      BY <1>4, <1>6, <2>1, <3>1, <3>2
  <2>4. QED
    BY <1>3, <2>2, <2>3 DEF Waits
<1>8. ASSUME NEW c \in FreeChunks(scenario, m, n)
      PROVE  ~SoundIn(list[n], ticks) /\ ~Open(list[n])
  <2>1. /\ c \in Nat /\ list[m].cutstop <= From(c) /\ From(c + 1) < list[n].cutstart
        /\ From(c) <= From(c + 1) /\ From(c) \in Nat /\ From(c + 1) \in Nat /\ c + 1 \in Nat
    <3>1. c \in Nat /\ list[m].cutstop <= From(c) /\ From(c + 1) < list[n].cutstart
      BY FreeIs
    <3>2. From(c) \in Nat /\ From(c + 1) = From(c) + TicksPerChunk
      BY <3>1, TimeRuns
    <3>3. TicksPerChunk \in Nat
      BY <1>2
    <3>4. From(c) <= From(c + 1) /\ From(c + 1) \in Nat
      BY <3>2, <3>3
    <3>5. c + 1 \in Nat
      BY <3>1
    <3>6. QED
      BY <3>1, <3>2, <3>4, <3>5
  <2>2. ticks < list[n].cutstart
    BY <1>4, <1>6, <2>1
  <2>3. ~SoundIn(list[n], ticks)
    BY <1>4, <1>6, <2>2 DEF SoundIn
  <2>4. Open(list[n]) => list[n].cutstart <= From(q) + (j - 1)
    BY <1>3 DEF Waits
  <2>5. QED
    BY <1>1, <1>2, <1>4, <2>2, <2>3, <2>4 DEF ticks
<1>9. QED
  BY <1>3, <1>7, <1>8, PairSpaced

(* The first frame behind an open cut is taken for its end.                *)
LEMMA CutIsClosed ==
    ASSUME NEW list \in Seq(Cut), NEW ticks \in Int, NEW n \in 1..Len(list),
           Open(list[n]), list[n].cutstop < ticks,
           \A k \in 1..Len(list) : ~SoundIn(list[k], ticks),
           \A k \in 1..Len(list) : Open(list[k]) => k = n
    PROVE  CutEnds(list, ticks, cutpoint_incut_ticks_cutpoint(list, ticks), n)
<1> DEFINE Concerned(c) == SoundIn(c, ticks) \/ SoundAfter(c, ticks)
           I == {k \in 1..Len(list) : Concerned(list[k])}
           i == IF I # {} THEN Min(I) ELSE 0
           asked == cutpoint_incut_ticks_cutpoint(list, ticks)
<1>1. asked =
        IF i = 0 \/ (SoundIn(list[i], ticks) /\ list[i].cut_is_start_of_stream)
        THEN [what |-> "none", time |-> 0, cuts |-> list]
        ELSE IF ~SoundIn(list[i], ticks)
        THEN [what |-> "edge", time |-> list[i].cutstop, cuts |-> [list EXCEPT ![i].audiostop = TRUE]]
        ELSE IF ~list[i].audiostart
        THEN [what |-> "edge", time |-> list[i].cutstart, cuts |-> [list EXCEPT ![i].audiostart = TRUE]]
        ELSE [what |-> "inside", time |-> -1, cuts |-> list]
  BY DEF cutpoint_incut_ticks_cutpoint, SelectInSeq
<1>2. \A k \in I : k = n
  BY DEF SoundAfter, Open
<1>3. n \in I
  BY DEF SoundAfter, Open
<1>4. I \subseteq Nat /\ I # {}
  BY <1>3
<1>5. i = n
  <2> HIDE DEF I
  <2>1. Min(I) \in I
    BY <1>4, MinIs
  <2>2. QED
    BY <1>2, <1>4, <2>1
<1> HIDE DEF i, asked
<1>6. n # 0
  OBVIOUS
<1>7. asked = [what |-> "edge", time |-> list[n].cutstop,
               cuts |-> [list EXCEPT ![n].audiostop = TRUE]]
  BY <1>1, <1>5, <1>6
<1>8. CutEnds(list, ticks, asked, n)
  BY <1>7 DEF CutEnds
<1>9. QED
  BY <1>8 DEF asked

(* What a readable frame does to an open cut.                              *)
LEMMA FrameWaits ==
    ASSUME scenario \in Scenarios, CutsSpaced(scenario),
           NEW list \in Seq(Cut), SameCuts(list, scenario.cuts),
           NEW q \in Nat, NEW recs \in scenario.shapes, NEW j \in 1..Len(recs), recs \in Seq(Record),
           Waits(list, q, j - 1, recs),
           NEW cut, NEW drift, NEW drop, Marks(list, cut, drift, drop),
           NEW new, new = cutpoint_incut_ticks_cutpoint(list, From(q) + j).cuts
    PROVE  Waits(new, q, j, recs)
<1> DEFINE ticks == From(q) + j
           asked == cutpoint_incut_ticks_cutpoint(list, ticks)
<1>1. CutTypes(list) /\ DOMAIN list = 1..Len(list) /\ j \in Nat /\ j >= 1
  BY CutTypesAre
<1>2. From(q) \in Nat /\ ticks \in Nat /\ ticks > From(q) /\ ticks \in Int
  <2>1. From(q) \in Nat
    BY TimeRuns
  <2>2. QED
    BY <1>1, <2>1
<1>3. ApartAt(list, ticks)
  BY WaitsApart
<1>4. new = asked.cuts
  OBVIOUS
<1> HIDE DEF ticks
<1>5. Answer(list, ticks, asked)
  BY <1>2, AskedIs
<1> HIDE DEF asked
<1>6. ASSUME NEW n \in 1..Len(list), NEW m \in 1..Len(list), n # m, Open(list[n]),
             NEW c \in FreeChunks(scenario, n, m), q = c, Open(new[n])
      PROVE  FALSE
  <2>1. list[n].cutstop <= From(c) /\ list[n].cutstop \in Nat /\ list[n].cutstart \in Nat
    BY <1>1, FreeIs DEF CutTypes
  <2>2. list[n].cutstop < ticks
    BY <1>2, <1>6, <2>1
  <2>3. ASSUME NEW k \in 1..Len(list) PROVE ~SoundIn(list[k], ticks)
    <3>1. ~SoundIn(list[n], ticks)
      BY <1>2, <2>1, <2>2 DEF SoundIn
    <3>2. k # n /\ SoundIn(list[k], ticks) => ~Open(list[n])
      BY <1>1, <1>3 DEF ApartAt
    <3>3. QED
      BY <1>6, <3>1, <3>2
  <2>4. \A k \in 1..Len(list) : Open(list[k]) => k = n
    BY <1>6 DEF Marks
  <2>5. CutEnds(list, ticks, asked, n)
    BY <1>2, <1>6, <2>2, <2>3, <2>4, CutIsClosed DEF asked
  <2>6. asked.cuts = [list EXCEPT ![n].audiostop = TRUE]
    BY <2>5 DEF CutEnds
  <2>7. Ended([list EXCEPT ![n].audiostop = TRUE], list, n)
    BY EndedIs
  <2>8. Ended(new, list, n)
    BY <1>4, <2>6, <2>7
  <2>9. new[n].audiostop
    BY <2>8 DEF Ended
  <2>10. QED
    BY <1>6, <2>9 DEF Open
<1>7. /\ Len(new) = Len(list)
      /\ \A n \in 1..Len(list) :
            /\ new[n].cutstart = list[n].cutstart
            /\ Open(new[n]) /\ ~Open(list[n]) => SoundIn(list[n], ticks)
  <2>1. CASE new = list
    BY <2>1
  <2>2. ASSUME NEW i \in 1..Len(list), CutStarts(list, ticks, asked, i)
        PROVE  /\ Len(new) = Len(list)
               /\ \A n \in 1..Len(list) :
                    /\ new[n].cutstart = list[n].cutstart
                    /\ Open(new[n]) /\ ~Open(list[n]) => SoundIn(list[n], ticks)
    <3>1. Started([list EXCEPT ![i].audiostart = TRUE], list, i)
      BY StartedIs
    <3>2. asked.cuts = [list EXCEPT ![i].audiostart = TRUE] /\ SoundIn(list[i], ticks)
      BY <2>2 DEF CutStarts
    <3>3. Started(new, list, i)
      BY <1>4, <3>1, <3>2
    <3>4. QED
      BY <3>2, <3>3 DEF Started, SameCut, Open
  <2>3. ASSUME NEW i \in 1..Len(list), CutEnds(list, ticks, asked, i)
        PROVE  /\ Len(new) = Len(list)
               /\ \A n \in 1..Len(list) :
                    /\ new[n].cutstart = list[n].cutstart
                    /\ Open(new[n]) /\ ~Open(list[n]) => SoundIn(list[n], ticks)
    <3>1. Ended([list EXCEPT ![i].audiostop = TRUE], list, i)
      BY EndedIs
    <3>2. asked.cuts = [list EXCEPT ![i].audiostop = TRUE]
      BY <2>3 DEF CutEnds
    <3>3. Ended(new, list, i)
      BY <1>4, <3>1, <3>2
    <3>4. QED
      BY <3>3 DEF Ended, SameCut, Open
  <2>4. QED
    BY <1>4, <1>5, <2>1, <2>2, <2>3 DEF Answer, NotCut, InsideCut
<1>8. SUFFICES ASSUME NEW n \in 1..Len(new), NEW m \in 1..Len(new), n # m, Open(new[n])
               PROVE  /\ new[n].cutstart <= From(q) + j
                      /\ \A c \in FreeChunks(scenario, n, m) :
                            q <= c /\ (q = c => \A i \in 1..j : recs[i].kind # "sound")
  BY DEF Waits
<1>9. /\ n \in 1..Len(list) /\ m \in 1..Len(list) /\ new[n].cutstart = list[n].cutstart
      /\ list[n].cutstart \in Nat /\ list[n].cutstop \in Nat
  BY <1>1, <1>7, <1>8 DEF CutTypes
<1>10. CASE Open(list[n])
  <2>1. /\ list[n].cutstart <= From(q) + (j - 1)
        /\ \A c \in FreeChunks(scenario, n, m) : q <= c
    BY <1>8, <1>9, <1>10 DEF Waits
  <2>2. \A c \in FreeChunks(scenario, n, m) : q # c
    BY <1>6, <1>8, <1>9, <1>10
  <2>3. new[n].cutstart <= From(q) + j
    BY <1>1, <1>2, <1>9, <2>1
  <2>4. QED
    BY <2>1, <2>2, <2>3
<1>11. CASE ~Open(list[n])
  <2>1. list[n].cutstart <= ticks /\ ticks < list[n].cutstop
    BY <1>7, <1>8, <1>9, <1>11 DEF SoundIn
  <2>2. ASSUME NEW c \in FreeChunks(scenario, n, m) PROVE q < c
    <3>1. c \in Nat /\ list[n].cutstop <= From(c) /\ From(c) \in Nat
      BY <1>9, FreeIs, TimeRuns
    <3>2. From(q) < From(c)
      BY <1>2, <1>9, <2>1, <3>1
    <3>3. c <= q => From(c) <= From(q)
      BY <3>1, TimeRuns
    <3>4. QED
      BY <1>2, <3>1, <3>2, <3>3
  <2>3. \A c \in FreeChunks(scenario, n, m) : c \in Nat
    BY <1>9, FreeIs
  <2>4. QED
    BY <1>9, <2>1, <2>2, <2>3 DEF ticks
<1>12. QED
  BY <1>10, <1>11

(* When a record that can be read comes, and is it found?                  *)
FlowTimed(list, flow) ==
    \A m \in 1..Len(flow) : \E k \in 1..Reach(list) :
        /\ flow[m].nr = list[k].nr /\ flow[m].rec \in 1..Len(list[k].recs)
        /\ flow[m].kind = list[k].recs[flow[m].rec].kind
        /\ flow[m].ok = list[k].recs[flow[m].rec].ok
        /\ flow[m].time = From(list[k].nr) + flow[m].rec

LEMMA FlowTimes ==
    ASSUME NEW list \in Seq(Chunk), list # <<>>
    PROVE  FlowTimed(list, Flow(list))
<1> DEFINE R == Reach(list)
           seqs == [k \in 1..R |-> Located(list[k])]
           flow == Flow(list)
<1>1. R \in 1..Len(list) /\ Len(list) \in Nat /\ R \in Nat
  BY ReachIs
<1> HIDE DEF R
<1>2. ASSUME NEW k \in 1..R
      PROVE  /\ seqs[k] \in Seq(Located1) /\ Len(seqs[k]) = Len(list[k].recs)
             /\ \A i \in 1..Len(list[k].recs) :
                  seqs[k][i] = [kind |-> list[k].recs[i].kind, ok |-> list[k].recs[i].ok,
                                nr |-> list[k].nr, rec |-> i, time |-> TicksPerChunk * list[k].nr + i]
  <2>1. list[k] \in Chunk
    BY <1>1
  <2>2. seqs[k] = Located(list[k])
    OBVIOUS
  <2>3. DOMAIN list[k].recs = 1..Len(list[k].recs)
    BY <2>1 DEF Chunk
  <2>4. QED
    BY <2>1, <2>2, <2>3, LocatedIs DEF Located
<1>3. seqs \in Seq(Seq(Located1)) /\ Len(seqs) = R
  <2>1. seqs \in [1..R -> Seq(Located1)]
    BY <1>2
  <2>2. QED
    BY <1>1, <2>1
<1>4. flow = FlattenSeq(seqs)
  BY DEF Flow, R
<1> HIDE DEF seqs, flow
<1>5. PICK at, pos \in [1..Len(flow) -> Nat] : Spots(flow, seqs, R, at, pos)
  <2>1. \E at, pos \in [1..Len(FlattenSeq(seqs)) -> Nat] :
                Spots(FlattenSeq(seqs), seqs, Len(seqs), at, pos)
    BY <1>3, FlattenSpots
  <2>2. QED
    BY <1>3, <1>4, <2>1
<1>6. ASSUME NEW m \in 1..Len(flow)
      PROVE  \E k \in 1..R :
                /\ flow[m].nr = list[k].nr /\ flow[m].rec \in 1..Len(list[k].recs)
                /\ flow[m].kind = list[k].recs[flow[m].rec].kind
                /\ flow[m].ok = list[k].recs[flow[m].rec].ok
                /\ flow[m].time = From(list[k].nr) + flow[m].rec
  <2>1. at[m] \in 1..R /\ pos[m] \in 1..Len(seqs[at[m]]) /\ flow[m] = seqs[at[m]][pos[m]]
    BY <1>5 DEF Spots
  <2>2. PICK k \in 1..R : k = at[m]
    BY <2>1
  <2>3. PICK i \in 1..Len(list[k].recs) : i = pos[m]
    BY <1>2, <2>1, <2>2
  <2>4. flow[m] = [kind |-> list[k].recs[i].kind, ok |-> list[k].recs[i].ok,
                   nr |-> list[k].nr, rec |-> i, time |-> TicksPerChunk * list[k].nr + i]
    BY <1>2, <2>1, <2>2, <2>3
  <2>5. QED
    BY <2>4 DEF From
<1>7. QED
  BY <1>6 DEF FlowTimed, R, flow

(* The records of the first chunk, in particular.                          *)
LEMMA OwnTimes ==
    ASSUME NEW list \in Seq(Chunk), list # <<>>, Rising(list), NEW j \in 1..Len(list[1].recs)
    PROVE  /\ j \in 1..Len(Flow(list)) /\ Flow(list)[j].kind = list[1].recs[j].kind
           /\ Flow(list)[j].ok = list[1].recs[j].ok
           /\ Flow(list)[j].time = From(list[1].nr) + j
<1> DEFINE flow == Flow(list)
<1>1. FlowIs(list, flow) /\ FlowTimed(list, flow)
  BY FlowFacts, FlowTimes
<1>2. 1 \in 1..Len(list) /\ Len(list[1].recs) \in Nat /\ Reach(list) \in 1..Len(list)
  BY ReachIs, ChunkTypes
<1> HIDE DEF flow
<1>3. j \in 1..Len(flow) /\ flow[j].nr = list[1].nr
  BY <1>1, <1>2 DEF FlowIs, OwnFirst
<1>4. PICK k0 \in 1..Reach(list) :
        /\ flow[j].nr = list[k0].nr /\ flow[j].rec \in 1..Len(list[k0].recs)
        /\ flow[j].kind = list[k0].recs[flow[j].rec].kind
        /\ (k0 = 1 => flow[j].rec = j)
  BY <1>1, <1>3 DEF FlowIs, ReadFrom
<1>5. PICK k \in 1..Reach(list) :
        /\ flow[j].nr = list[k].nr /\ flow[j].rec \in 1..Len(list[k].recs)
        /\ flow[j].kind = list[k].recs[flow[j].rec].kind
        /\ flow[j].ok = list[k].recs[flow[j].rec].ok
        /\ flow[j].time = From(list[k].nr) + flow[j].rec
  BY <1>1, <1>3 DEF FlowTimed
<1>6. ASSUME NEW c \in 1..Reach(list), list[c].nr = list[1].nr PROVE c = 1
  <2>1. c \in 1..Len(list)
    BY <1>2
  <2>2. list[c].nr \in Nat
    BY <2>1, ChunkTypes
  <2>3. 1 < c => list[1].nr < list[c].nr
    BY <1>2, <2>1 DEF Rising
  <2>4. QED
    BY <1>6, <2>1, <2>2, <2>3
<1>7. k0 = 1 /\ k = 1
  BY <1>3, <1>4, <1>5, <1>6
<1>8. QED
  BY <1>3, <1>4, <1>5, <1>7 DEF flow

(* Where every chunk has sound, each frame of it can be read: the chunk    *)
(* behind it has the next one.                                             *)
Whole(list) == \A k \in 1..Len(list) : list[k].recs \in scenario.shapes /\ ~list[k].gap

LEMMA SoundsRead ==
    ASSUME NEW list \in Seq(Chunk), Len(list) >= 2, Rising(list), Whole(list), Sounding(scenario),
           NEW j \in 1..Len(list[1].recs), list[1].recs[j].kind = "sound"
    PROVE  SoundReadable(Flow(list), j)
<1> DEFINE flow == Flow(list)
           next == NextOf(flow, {"sound"}, j, DOMAIN flow)
<1>1. list # <<>> /\ 1 \in 1..Len(list) /\ 2 \in 1..Len(list) /\ Len(list) \in Nat
  OBVIOUS
<1>2. FlowIs(list, flow) /\ FlowTimed(list, flow)
  BY <1>1, FlowFacts, FlowTimes
<1>3. Reach(list) = Len(list)
  <2>1. {k \in 2..Len(list) : list[k].gap} = {}
    BY DEF Whole
  <2>2. QED
    BY <2>1 DEF Reach
<1>4. \A k \in 1..Len(list) : DOMAIN list[k].recs = 1..Len(list[k].recs)
  BY ChunkTypes
<1>5. flow[j].ok
  <2>1. flow[j].ok = list[1].recs[j].ok
    BY <1>1, OwnTimes
  <2>2. list[1].recs \in scenario.shapes /\ j \in DOMAIN list[1].recs
    BY <1>1, <1>4 DEF Whole
  <2>3. QED
    BY <2>1, <2>2 DEF Sounding
<1> HIDE DEF flow
<1>6. flow \in Seq(Located1) /\ DOMAIN flow = 1..Len(flow) /\ Len(flow) \in Nat
  BY <1>2 DEF FlowIs
<1>7. PICK m \in 1..Len(flow) : m > j /\ flow[m].kind = "sound"
  <2>1. list[2].recs \in scenario.shapes
    BY <1>1 DEF Whole
  <2>2. PICK i \in DOMAIN list[2].recs : list[2].recs[i].kind = "sound"
    BY <2>1 DEF Sounding
  <2>3. i \in 1..Len(list[2].recs)
    BY <1>1, <1>4, <2>2
  <2>4. PICK m \in 1..Len(flow) :
            /\ flow[m].nr = list[2].nr /\ flow[m].rec = i
            /\ flow[m].kind = list[2].recs[i].kind
    BY <1>1, <1>2, <1>3, <2>3 DEF FlowIs, ReadAll
  <2>5. list[1].nr < list[2].nr /\ list[1].nr \in Nat /\ list[2].nr \in Nat
    BY <1>1, ChunkTypes DEF Rising
  <2>6. ~(m <= Len(list[1].recs))
    BY <1>2, <2>4, <2>5 DEF FlowIs, OwnFirst
  <2>7. Len(list[1].recs) \in Nat
    BY <1>1, ChunkTypes
  <2>8. m > j
    BY <2>6, <2>7
  <2>9. QED
    BY <2>2, <2>4, <2>8
<1>8. /\ DOMAIN flow \subseteq Nat /\ j \in Nat
  BY <1>6
<1>9. \/ next = 0 /\ \A k \in DOMAIN flow : k > j => flow[k].kind \notin {"sound"}
      \/ next \in DOMAIN flow /\ next > j /\ flow[next].kind \in {"sound"}
  BY <1>8, NextOfIs
<1> HIDE DEF next
<1>10. next \in 1..Len(flow) /\ next > j /\ flow[next].kind = "sound"
  BY <1>6, <1>7, <1>9
<1>11. flow[next].ok
  <2>1. PICK k \in 1..Reach(list) :
            /\ flow[next].rec \in 1..Len(list[k].recs)
            /\ flow[next].kind = list[k].recs[flow[next].rec].kind
            /\ flow[next].ok = list[k].recs[flow[next].rec].ok
    BY <1>2, <1>10 DEF FlowTimed
  <2>2. k \in 1..Len(list)
    BY <1>3
  <2>3. list[k].recs \in scenario.shapes /\ flow[next].rec \in DOMAIN list[k].recs
    BY <1>4, <2>1, <2>2 DEF Whole
  <2>4. QED
    BY <1>10, <2>1, <2>3 DEF Sounding
<1>12. next # 0
  BY <1>8, <1>10
<1>13. EndsAt(flow, j, next)
  BY <1>5, <1>11, <1>12 DEF EndsAt
<1>14. QED
  BY <1>13 DEF SoundReadable, NextSound, next, flow

(* A cut that is alone is apart from all others.                           *)
LEMMA LoneCut ==
    ASSUME scenario \in Scenarios, CutsSpaced(scenario), ~Sounding(scenario),
           NEW list \in Seq(Cut), SameCuts(list, scenario.cuts), NEW q, NEW j, NEW recs, NEW ticks
    PROVE  Waits(list, q, j, recs) /\ ApartAt(list, ticks)
<1>1. \A n, m \in 1..Len(list) : n = m
  BY PairSpaced
<1>2. DOMAIN list = 1..Len(list)
  OBVIOUS
<1>3. QED
  BY <1>1, <1>2 DEF Waits, ApartAt

(* A record that is no sound.                                              *)
LEMMA WaitsOn ==
    ASSUME NEW list \in Seq(Cut), NEW q \in Nat, NEW recs, NEW j \in Nat \ {0},
           Waits(list, q, j - 1, recs), recs[j].kind # "sound"
    PROVE  Waits(list, q, j, recs)
<1>1. From(q) \in Nat /\ CutTypes(list)
  BY TimeRuns, CutTypesAre
<1>2. SUFFICES ASSUME NEW n \in 1..Len(list), NEW m \in 1..Len(list), n # m, Open(list[n])
               PROVE  /\ list[n].cutstart <= From(q) + j
                      /\ \A c \in FreeChunks(scenario, n, m) :
                            q <= c /\ (q = c => \A i \in 1..j : recs[i].kind # "sound")
  BY DEF Waits
<1>3. /\ list[n].cutstart <= From(q) + (j - 1)
      /\ \A c \in FreeChunks(scenario, n, m) :
            q <= c /\ (q = c => \A i \in 1..(j - 1) : recs[i].kind # "sound")
  BY <1>2 DEF Waits
<1>4. \A i \in 1..j : i \in 1..(j - 1) \/ i = j
  OBVIOUS
<1>5. list[n].cutstart \in Nat
  BY <1>1 DEF CutTypes
<1>6. QED
  BY <1>1, <1>3, <1>4, <1>5

(* All through the sound of a chunk.                                       *)
LoopHolds(list, f, j) ==
    /\ SameCuts(f[j].cuts, scenario.cuts) /\ SoundOk(f[j])
    /\ Waits(f[j].cuts, list[1].nr, j, list[1].recs)

LEMMA LoopHoldsAll ==
    ASSUME AudioTypes, scenario \in Scenarios, CutsSpaced(scenario), Sounding(scenario),
           SameCuts(cuts, scenario.cuts), SoundNow,
           NEW list \in Seq(Chunk), Len(list) >= 2, Rising(list), Whole(list),
           Waits(cuts, list[1].nr, 0, list[1].recs)
    PROVE  \A j \in 0..Len(list[1].recs) : LoopHolds(list, LoopOver(list), j)
<1> DEFINE L == Len(list[1].recs)
           recs == list[1].recs
           q == list[1].nr
           flow == Flow(list)
           f == LoopOver(list)
           T == {j \in 0..L : LoopHolds(list, f, j)}
<1>1. /\ list # <<>> /\ 1 \in 1..Len(list) /\ L \in Nat /\ recs \in Seq(Record)
      /\ q \in Nat /\ recs \in scenario.shapes
  <2>1. list # <<>> /\ 1 \in 1..Len(list)
    OBVIOUS
  <2>2. QED
    BY <2>1, ChunkTypes DEF Whole
<1>2. LoopRuns(list, f)
  BY <1>1, LoopIs
<1>3. flow \in Seq(Located1)
  BY <1>1, FlowFacts DEF FlowIs
<1>4. \A j \in 1..L : /\ j \in 1..Len(flow) /\ flow[j].kind = recs[j].kind
                      /\ flow[j].time = From(q) + j
  BY <1>1, OwnTimes
<1>5. \A j \in 1..L : recs[j].kind = "sound" => SoundReadable(flow, j)
  BY SoundsRead
<1>6. \A j \in 1..L :
        f[j] = IF flow[j].kind = "sound" THEN SoundFrame(flow, f[j - 1], j) ELSE f[j - 1]
  BY <1>2 DEF LoopRuns
<1>7. LoopStarts(f[0]) /\ \A j \in 0..L : f[j] \in LoopState
  BY <1>2 DEF LoopRuns
<1> HIDE DEF f, flow
<1>8. 0 \in T
  <2>1. f[0].cuts = cuts /\ SoundOk(f[0])
    BY <1>7 DEF LoopStarts, SoundNow, SoundOk
  <2>2. LoopHolds(list, f, 0)
    BY <2>1 DEF LoopHolds
  <2>3. QED
    BY <1>1, <2>2
<1>9. ASSUME NEW j \in 0..(L - 1), j \in T PROVE j + 1 \in T
  <2> DEFINE n == j + 1
             list1 == f[j].cuts
             time == From(q) + n
             asked == cutpoint_incut_ticks_cutpoint(list1, time)
  <2>1. n \in 1..L /\ n - 1 = j /\ n \in 0..L /\ j \in 0..L /\ n \in Nat \ {0}
    BY <1>1
  <2>2. f[j] \in LoopState /\ list1 \in Seq(Cut)
    BY <1>7 DEF LoopState
  <2>3. SameCuts(list1, scenario.cuts) /\ SoundOk(f[j]) /\ Waits(list1, q, j, recs)
    BY <1>9 DEF LoopHolds
  <2>4. f[n] = IF flow[n].kind = "sound" THEN SoundFrame(flow, f[j], n) ELSE f[j]
    BY <1>6, <2>1
  <2> HIDE DEF n
  <2>5. Waits(list1, q, n - 1, recs)
    BY <2>1, <2>3
  <2>6. flow[n].kind = recs[n].kind /\ flow[n].time = time /\ n \in 1..Len(flow) /\ f[n] \in LoopState
    BY <1>4, <1>7, <2>1
  <2>7. CASE recs[n].kind = "sound"
    <3>1. f[n] = SoundFrame(flow, f[j], n) /\ SoundReadable(flow, n)
      BY <1>5, <2>1, <2>4, <2>6, <2>7
    <3>2. Frame(f[j], f[n], time, asked) /\ f[n].cuts = asked.cuts
      BY <1>3, <2>2, <2>6, <3>1, FrameIs
    <3>3. ApartAt(list1, time)
      BY <1>1, <2>1, <2>2, <2>3, <2>5, WaitsApart
    <3>4. time \in Int
      <4>1. From(q) \in Nat
        BY <1>1, TimeRuns
      <4>2. QED
        BY <2>1, <4>1
    <3>5. Marks(list1, f[j].audiocut, f[j].start_drift, f[j].dropped)
      BY <2>3 DEF SoundOk
    <3>6. Waits(f[n].cuts, q, n, recs)
      BY <1>1, <2>1, <2>2, <2>3, <2>5, <3>2, <3>5, FrameWaits
    <3> HIDE DEF time
    <3>7. Answer(list1, time, asked)
      BY <2>2, <3>4, AskedIs
    <3> HIDE DEF asked
    <3>8. SoundOk(f[n]) /\ SameCuts(f[n].cuts, list1)
      BY <2>2, <2>3, <2>6, <3>2, <3>3, <3>4, <3>7, FrameOk
    <3>9. SameCuts(f[n].cuts, scenario.cuts)
      BY <2>3, <3>8, SameCutsTrans
    <3>10. LoopHolds(list, f, n)
      BY <3>6, <3>8, <3>9 DEF LoopHolds
    <3>11. QED
      BY <2>1, <3>10 DEF n
  <2>8. CASE recs[n].kind # "sound"
    <3>1. f[n] = f[j]
      BY <2>4, <2>6, <2>8
    <3>2. Waits(list1, q, n, recs)
      BY <1>1, <2>1, <2>2, <2>5, <2>8, WaitsOn
    <3>3. LoopHolds(list, f, n)
      BY <2>3, <3>1, <3>2 DEF LoopHolds
    <3>4. QED
      BY <2>1, <3>3 DEF n
  <2>9. QED
    BY <2>7, <2>8
<1> HIDE DEF T
<1>10. \A j \in 0..L : j \in T
  <2> HIDE DEF L
  <2>1. QED
    BY <1>1, <1>8, <1>9, Induction
<1>11. QED
  BY <1>10 DEF T, f

LEMMA LoopWaits ==
    ASSUME AudioTypes, scenario \in Scenarios, CutsSpaced(scenario),
           SameCuts(cuts, scenario.cuts), SoundNow,
           NEW list \in Seq(Chunk), Len(list) >= 2, Rising(list), Sounding(scenario) => Whole(list),
           Waits(cuts, list[1].nr, 0, list[1].recs)
    PROVE  ChunkApart(list) /\ Waits(AudioOf(list).cuts, list[1].nr, Len(list[1].recs), list[1].recs)
<1> DEFINE L == Len(list[1].recs)
           recs == list[1].recs
           q == list[1].nr
           f == LoopOver(list)
<1>1. /\ list # <<>> /\ 1 \in 1..Len(list) /\ L \in Nat /\ recs \in Seq(Record) /\ q \in Nat
  <2>1. list # <<>> /\ 1 \in 1..Len(list)
    OBVIOUS
  <2>2. QED
    BY <2>1, ChunkTypes
<1>2. LoopRuns(list, f) /\ \A j \in 0..L : SameCuts(f[j].cuts, cuts)
  BY <1>1, LoopIs, LoopOk
<1>3. \A j \in 0..L : f[j].cuts \in Seq(Cut)
  BY <1>2 DEF LoopRuns, LoopState
<1>4. AudioOf(list).cuts = f[L].cuts
  BY DEF AudioOf
<1>5. \A j \in 1..L : j - 1 \in 0..L
  BY <1>1
<1>6. L \in 0..L
  BY <1>1
<1>7. CASE Sounding(scenario)
  <2>1. recs \in scenario.shapes /\ Whole(list)
    BY <1>1, <1>7 DEF Whole
  <2>2. \A j \in 0..L : LoopHolds(list, f, j)
    BY <1>7, <2>1, LoopHoldsAll
  <2> HIDE DEF f
  <2>3. Waits(AudioOf(list).cuts, q, L, recs)
    BY <1>4, <1>6, <2>2 DEF LoopHolds
  <2>4. ASSUME NEW j \in 1..L PROVE ApartAt(f[j - 1].cuts, Flow(list)[j].time)
    <3>1. SameCuts(f[j - 1].cuts, scenario.cuts) /\ Waits(f[j - 1].cuts, q, j - 1, recs)
      BY <1>5, <2>2 DEF LoopHolds
    <3>2. f[j - 1].cuts \in Seq(Cut)
      BY <1>3, <1>5
    <3>3. ApartAt(f[j - 1].cuts, From(q) + j)
      BY <1>1, <2>1, <3>1, <3>2, WaitsApart
    <3>4. Flow(list)[j].time = From(q) + j
      BY <1>1, OwnTimes
    <3>5. QED
      BY <3>3, <3>4
  <2>5. QED
    BY <2>3, <2>4 DEF ChunkApart, f
<1>8. CASE ~Sounding(scenario)
  <2>1. \A j \in 0..L : SameCuts(f[j].cuts, scenario.cuts)
    BY <1>2, SameCutsTrans
  <2>2. Waits(f[L].cuts, q, L, recs)
    BY <1>3, <1>6, <1>8, <2>1, LoneCut
  <2>3. \A j \in 1..L : ApartAt(f[j - 1].cuts, Flow(list)[j].time)
    BY <1>3, <1>5, <1>8, <2>1, LoneCut
  <2>4. QED
    BY <1>4, <2>2, <2>3 DEF ChunkApart
<1>9. QED
  BY <1>7, <1>8

(* What a chunk is to the cuts does not change with their marks.           *)
LEMMA ClassSame ==
    ASSUME NEW list, NEW other, SameCuts(list, other), NEW nr
    PROVE  cutpoint_incut_chunk(list, nr) = cutpoint_incut_chunk(other, nr)
<1> DEFINE Concerned(c) == \/ c.cut_is_start_of_stream /\ nr <= c.chunkstop
                           \/ c.cut_is_end_of_stream /\ nr > c.chunkstart
                           \/ c.chunkstart <= nr /\ nr <= c.chunkstop
           I == {k \in 1..Len(list) : Concerned(list[k])}
           J == {k \in 1..Len(other) : Concerned(other[k])}
           i == IF I # {} THEN Min(I) ELSE 0
           j == IF J # {} THEN Min(J) ELSE 0
<1>1. Len(list) = Len(other) /\ \A k \in 1..Len(list) : SameCut(list[k], other[k])
  BY DEF SameCuts
<1>2. \A k \in 1..Len(list) : Concerned(list[k]) <=> Concerned(other[k])
  BY <1>1 DEF SameCut
<1>3. I = J
  BY <1>1, <1>2
<1>4. /\ cutpoint_incut_chunk(list, nr) = IF i = 0 THEN 0 ELSE ClassOf(list[i], nr)
      /\ cutpoint_incut_chunk(other, nr) = IF j = 0 THEN 0 ELSE ClassOf(other[j], nr)
  BY DEF cutpoint_incut_chunk, SelectInSeq
<1>5. i = j
  BY <1>3
<1>6. i = 0 \/ i \in 1..Len(list)
  <2>1. CASE I # {}
    <3>1. I \subseteq Nat /\ I \subseteq 1..Len(list)
      OBVIOUS
    <3>2. i = Min(I)
      BY <2>1
    <3> HIDE DEF I
    <3>3. Min(I) \in I
      BY <2>1, <3>1, MinIs
    <3> HIDE DEF i
    <3>4. QED
      BY <3>1, <3>2, <3>3
  <2>2. CASE I = {}
    BY <2>2
  <2>3. QED
    BY <2>1, <2>2
<1> HIDE DEF i, j
<1>7. i # 0 => ClassOf(list[i], nr) = ClassOf(other[i], nr)
  BY <1>1, <1>6 DEF SameCut, ClassOf
<1>8. QED
  BY <1>4, <1>5, <1>7

-----------------------------------------------------------------------------
(* Chunks come one behind the other, but for those in front of the first   *)
(* cut, and a cut that is open waits for the first sound behind it.        *)
ShapesInv == \A k \in 1..Len(chunks) : chunks[k].recs \in scenario.shapes

ChunksKept ==
    chunks # <<>> =>
        \A c \in 0..scenario.length :
            (cutpoint_incut_chunk(scenario.cuts, c) # 4 /\ chunks[1].nr <= c /\ c < chunk_nr) =>
                \E k \in 1..Len(chunks) : chunks[k].nr = c

WaitsInv ==
    /\ chunks = <<>> => \A n \in 1..Len(cuts) : ~Open(cuts[n])
    /\ chunks # <<>> => Waits(cuts, chunks[1].nr, 0, chunks[1].recs)

SpacedInv == GapsAllowed /\ ShapesInv /\ ChunksKept /\ SoundNow /\ WaitsInv

LEMMA SpacedInit ==
    ASSUME Init
    PROVE  SpacedInv
<1>1. chunks = <<>> /\ SoundNow /\ ~audiocut
  BY SoundInit DEF Init
<1>2. \A n \in 1..Len(cuts) : ~Open(cuts[n])
  BY <1>1 DEF SoundNow, Marks
<1>3. Len(chunks) = 0
  BY <1>1
<1>4. GapsAllowed /\ ShapesInv
  BY <1>3 DEF GapsAllowed, ShapesInv
<1>5. QED
  BY <1>1, <1>2, <1>4 DEF SpacedInv, ChunksKept, WaitsInv

LEMMA SpacedWhole ==
    ASSUME GapsAllowed, ShapesInv
    PROVE  Sounding(scenario) => Whole(chunks)
BY DEF GapsAllowed, ShapesInv, Sounding, Whole

LEMMA SpacedApart ==
    ASSUME CutsSpaced(scenario), ParserInv, SpacedInv
    PROVE  CutsApart
<1>1. SUFFICES ASSUME pc = "sound" PROVE ChunkApart(chunks) /\ DOMAIN chunks[1].recs = 1..Len(chunks[1].recs)
  BY DEF CutsApart, ChunkApart
<1>2. /\ AudioTypes /\ scenario \in Scenarios /\ SameCuts(cuts, scenario.cuts)
      /\ chunks \in Seq(Chunk) /\ Len(chunks) >= 2 /\ Rising(chunks)
  BY <1>1 DEF ParserInv, CutsInv, QueueInv, Queue
<1>3. chunks # <<>> /\ 1 \in 1..Len(chunks)
  BY <1>2
<1>4. Waits(cuts, chunks[1].nr, 0, chunks[1].recs) /\ SoundNow
  BY <1>3 DEF SpacedInv, WaitsInv
<1>5. Sounding(scenario) => Whole(chunks)
  BY SpacedWhole DEF SpacedInv
<1>6. ChunkApart(chunks)
  BY <1>2, <1>4, <1>5, LoopWaits
<1>7. QED
  BY <1>2, <1>3, <1>6, ChunkTypes

LEMMA SpacedSkip ==
    ASSUME ParserInv, SpacedInv, SkipChunk
    PROVE  ShapesInv' /\ ChunksKept' /\ WaitsInv'
<1>1. /\ chunk_nr' = chunk_nr + 1 /\ scenario' = scenario /\ cuts' = cuts /\ chunks' = chunks
      /\ cutpoint_incut_chunk(cuts, chunk_nr) = 4
  BY DEF SkipChunk
<1>2. ShapesInv' /\ WaitsInv'
  BY <1>1 DEF SpacedInv, ShapesInv, WaitsInv, Waits
<1>3. chunk_nr \in Nat /\ SameCuts(cuts, scenario.cuts) /\ scenario.length \in Nat
  BY ParseAssumption DEF ParserInv, QueueInv, CutsInv
<1>4. cutpoint_incut_chunk(scenario.cuts, chunk_nr) = 4
  BY <1>1, <1>3, ClassSame
<1>5. \A c \in 0..scenario.length : c < chunk_nr + 1 => c < chunk_nr \/ c = chunk_nr
  BY <1>3
<1>6. ChunksKept'
  BY <1>1, <1>4, <1>5 DEF SpacedInv, ChunksKept
<1>7. QED
  BY <1>2, <1>6

LEMMA SpacedGet ==
    ASSUME ParserInv, SpacedInv, NEW shape \in scenario.shapes, NEW gap \in BOOLEAN, GetChunk(shape, gap)
    PROVE  ShapesInv' /\ ChunksKept' /\ WaitsInv'
<1> DEFINE h == [nr |-> chunk_nr, recs |-> shape, gap |-> gap]
           L == Len(chunks)
<1>1. chunk_nr' = chunk_nr + 1 /\ scenario' = scenario /\ cuts' = cuts /\ chunks' = Append(chunks, h)
  BY DEF GetChunk
<1>2. h.nr = chunk_nr /\ h.recs = shape
  OBVIOUS
<1>3. chunks \in Seq(Chunk) /\ chunk_nr \in Nat /\ L \in Nat /\ scenario.length \in Nat
  BY ParseAssumption DEF ParserInv, CutsInv, QueueInv, Queue
<1> HIDE DEF h
<1>4. /\ Len(chunks') = L + 1 /\ chunks'[L + 1] = h /\ \A k \in 1..L : chunks'[k] = chunks[k]
      /\ L + 1 \in 1..Len(chunks') /\ chunks' # <<>>
      /\ \A k \in 1..L : k \in 1..Len(chunks')
      /\ \A k \in 1..Len(chunks') : k \in 1..L \/ k = L + 1
  BY <1>1, <1>3, AppendProperties
<1>5. ShapesInv'
  BY <1>1, <1>2, <1>4 DEF SpacedInv, ShapesInv
<1>6. chunks # <<>> => 1 \in 1..L /\ chunks'[1] = chunks[1]
  BY <1>3, <1>4
<1>7. ASSUME NEW c \in 0..scenario.length, cutpoint_incut_chunk(scenario.cuts, c) # 4,
             chunks'[1].nr <= c, c < chunk_nr + 1
      PROVE  \E k \in 1..Len(chunks') : chunks'[k].nr = c
  <2>1. CASE c = chunk_nr
    BY <1>2, <1>4, <2>1
  <2>2. CASE c # chunk_nr /\ chunks # <<>>
    <3>1. c < chunk_nr /\ chunks[1].nr <= c
      BY <1>3, <1>6, <1>7, <2>2
    <3>2. PICK k \in 1..L : chunks[k].nr = c
      BY <1>7, <2>2, <3>1 DEF SpacedInv, ChunksKept
    <3>3. QED
      BY <1>4, <3>2
  <2>3. CASE c # chunk_nr /\ chunks = <<>>
    <3>1. L = 0
      BY <2>3
    <3>2. chunks'[1] = h
      BY <1>4, <3>1
    <3>3. QED
      BY <1>2, <1>3, <1>7, <2>3, <3>2
  <2>4. QED
    BY <2>1, <2>2, <2>3
<1>8. ChunksKept'
  BY <1>1, <1>7 DEF ChunksKept
<1>9. Waits(cuts, chunks'[1].nr, 0, chunks'[1].recs)
  <2>1. CASE chunks = <<>>
    BY <2>1 DEF SpacedInv, WaitsInv, Waits
  <2>2. CASE chunks # <<>>
    BY <1>6, <2>2 DEF SpacedInv, WaitsInv
  <2>3. QED
    BY <2>1, <2>2
<1>10. WaitsInv'
  BY <1>1, <1>4, <1>9 DEF WaitsInv, Waits
<1>11. QED
  BY <1>5, <1>8, <1>10

(* What was true of the queue stays so if gaps are left to its chunks.     *)
LEMMA SpacedQueue ==
    ASSUME ShapesInv, ChunksKept, WaitsInv, chunks # <<>>, chunks' # <<>>,
           SameQueue(chunks', chunks), scenario' = scenario, cuts' = cuts, chunk_nr' = chunk_nr,
           chunks \in Seq(Chunk)
    PROVE  ShapesInv' /\ ChunksKept' /\ WaitsInv'
<1>1. /\ Len(chunks') = Len(chunks) /\ 1 \in 1..Len(chunks)
      /\ \A k \in 1..Len(chunks) : chunks'[k].nr = chunks[k].nr /\ chunks'[k].recs = chunks[k].recs
  BY DEF SameQueue
<1>2. ShapesInv'
  BY <1>1 DEF ShapesInv
<1>3. ChunksKept'
  BY <1>1 DEF ChunksKept
<1>4. WaitsInv'
  BY <1>1 DEF WaitsInv, Waits
<1>5. QED
  BY <1>2, <1>3, <1>4

LEMMA SpacedVideo ==
    ASSUME ParserInv, SpacedInv, ParseVideo
    PROVE  ShapesInv' /\ ChunksKept' /\ WaitsInv'
<1> DEFINE class == cutpoint_incut_chunk(cuts, chunks[1].nr)
           v == VideoOf(chunks, class)
<1>1. /\ chunks' = chunks \/ chunks' = GapAt(chunks, 2, v.left)
      /\ pc = "read" /\ okay_to_parse /\ scenario' = scenario /\ cuts' = cuts /\ chunk_nr' = chunk_nr
  BY Zenon DEF ParseVideo, GapAt
<1> HIDE DEF class, v
<1>2. chunks \in Seq(Chunk) /\ v.left \in BOOLEAN /\ Len(chunks) >= 2
  BY <1>1, VideoStep DEF class, v
<1>3. 2 \in 1..Len(chunks) /\ chunks # <<>>
  BY <1>2
<1>4. SameQueue(chunks', chunks)
  <2>1. SameQueue(GapAt(chunks, 2, v.left), chunks)
    BY <1>2, <1>3, GapLeftTo
  <2>2. SameQueue(chunks, chunks)
    BY <1>2 DEF SameQueue
  <2>3. QED
    BY <1>1, <2>1, <2>2
<1>5. chunks' # <<>>
  BY <1>2, <1>4 DEF SameQueue
<1>6. QED
  BY <1>1, <1>2, <1>3, <1>4, <1>5, SpacedQueue DEF SpacedInv

(* The step to the next chunk: if a cut is open behind the sound of a      *)
(* chunk, the chunk that closes it is still to come.                       *)
LEMMA WaitsNext ==
    ASSUME CutsSpaced(scenario), scenario \in Scenarios,
           NEW list \in Seq(Cut), SameCuts(list, scenario.cuts),
           NEW q \in Nat, NEW recs \in scenario.shapes, recs \in Seq(Record),
           Waits(list, q, Len(recs), recs),
           NEW q2 \in Nat, q < q2, NEW recs2,
           \A c \in 0..scenario.length :
               (cutpoint_incut_chunk(scenario.cuts, c) # 4 /\ q < c) => q2 <= c
    PROVE  Waits(list, q2, 0, recs2)
<1>1. CutTypes(list) /\ Len(recs) \in Nat /\ DOMAIN recs = 1..Len(recs)
  BY CutTypesAre
<1>2. SUFFICES ASSUME NEW n \in 1..Len(list), NEW m \in 1..Len(list), n # m, Open(list[n])
               PROVE  /\ list[n].cutstart <= From(q2)
                      /\ \A c \in FreeChunks(scenario, n, m) : q2 <= c
  <2>1. From(q2) \in Nat
    BY TimeRuns
  <2>2. From(q2) + 0 = From(q2) /\ \A i \in 1..0 : FALSE
    BY <2>1
  <2>3. QED
    BY <1>2, <2>2 DEF Waits
<1>3. Sounding(scenario)
  BY <1>2, PairSpaced
<1>4. Len(recs) <= TicksPerChunk /\ \E i \in 1..Len(recs) : recs[i].kind = "sound"
  BY <1>1, <1>3 DEF Sounding
<1>5. /\ list[n].cutstart <= From(q) + Len(recs)
      /\ \A c \in FreeChunks(scenario, n, m) :
            q <= c /\ (q = c => \A i \in 1..Len(recs) : recs[i].kind # "sound")
  BY <1>2 DEF Waits
<1>6. list[n].cutstart <= From(q2)
  <2>1. From(q) \in Nat /\ From(q + 1) = From(q) + TicksPerChunk /\ From(q + 1) <= From(q2)
        /\ From(q2) \in Nat
    BY TimeRuns
  <2>2. list[n].cutstart \in Nat /\ TicksPerChunk \in Nat
    BY <1>1, ParseAssumption DEF CutTypes
  <2>3. QED
    BY <1>1, <1>4, <1>5, <2>1, <2>2
<1>7. ASSUME NEW c \in FreeChunks(scenario, n, m) PROVE q2 <= c
  <2>1. c \in 0..scenario.length /\ c \in Nat /\ cutpoint_incut_chunk(scenario.cuts, c) # 4
    BY FreeIs
  <2>2. q <= c /\ q # c
    BY <1>4, <1>5
  <2>3. q < c
    BY <2>1, <2>2
  <2>4. QED
    BY <2>1, <2>3
<1>8. QED
  BY <1>6, <1>7

LEMMA SpacedSound ==
    ASSUME CutsSpaced(scenario), ParserInv, SpacedInv, ParseSound
    PROVE  ShapesInv' /\ ChunksKept' /\ WaitsInv'
<1> DEFINE s == AudioOf(chunks)
           left == s.asks /\ s.open
           rest == Tail(chunks)
<1>1. /\ cuts' = s.cuts /\ chunks' = GapAt(rest, 1, left) /\ pc = "sound"
      /\ scenario' = scenario /\ chunk_nr' = chunk_nr
  BY Zenon DEF ParseSound, GapAt
<1>2. /\ chunks \in Seq(Chunk) /\ Len(chunks) >= 2 /\ Rising(chunks) /\ AudioTypes
      /\ chunk_nr \in Nat /\ (\A k \in 1..Len(chunks) : chunks[k].nr < chunk_nr)
      /\ scenario \in Scenarios /\ SameCuts(cuts, scenario.cuts) /\ scenario.length \in Nat
  BY <1>1, ParseAssumption DEF ParserInv, CutsInv, QueueInv, Queue
<1>3. chunks # <<>> /\ 1 \in 1..Len(chunks) /\ 2 \in 1..Len(chunks) /\ Len(chunks) \in Nat
  BY <1>2
<1>4. s \in LoopState /\ SameCuts(s.cuts, cuts)
  BY <1>2, <1>3, LoopKeeps, LoopOk
<1>5. left \in BOOLEAN
  OBVIOUS
<1>6. Waits(s.cuts, chunks[1].nr, Len(chunks[1].recs), chunks[1].recs)
  <2>1. Waits(cuts, chunks[1].nr, 0, chunks[1].recs) /\ SoundNow
    BY <1>3 DEF SpacedInv, WaitsInv
  <2>2. Sounding(scenario) => Whole(chunks)
    BY SpacedWhole DEF SpacedInv
  <2>3. QED
    BY <1>2, <2>1, <2>2, LoopWaits
<1> HIDE DEF s, left
<1>7. /\ rest \in Seq(Chunk) /\ Len(rest) = Len(chunks) - 1
      /\ \A k \in 1..(Len(chunks) - 1) : rest[k] = chunks[k + 1]
  BY <1>2, <1>3, HeadTailProperties
<1> HIDE DEF rest
<1>8. 1 \in 1..Len(rest)
  BY <1>2, <1>3, <1>7
<1>9. SameQueue(chunks', rest)
  BY <1>1, <1>5, <1>7, <1>8, GapLeftTo
<1>10. /\ Len(chunks') = Len(chunks) - 1 /\ chunks' # <<>>
       /\ \A k \in 1..(Len(chunks) - 1) :
            /\ chunks'[k].nr = chunks[k + 1].nr /\ chunks'[k].recs = chunks[k + 1].recs
            /\ k + 1 \in 1..Len(chunks)
  BY <1>3, <1>7, <1>8, <1>9 DEF SameQueue
<1>11. 1 \in 1..(Len(chunks) - 1) /\ 1 + 1 = 2
  BY <1>2, <1>3
<1>12. ShapesInv'
  BY <1>1, <1>10 DEF SpacedInv, ShapesInv
<1>13. /\ chunks[1].nr \in Nat /\ chunks[2].nr \in Nat /\ chunks[1].nr < chunks[2].nr
       /\ chunks[2].nr < chunk_nr /\ chunks[1].recs \in Seq(Record)
       /\ chunks'[1].nr = chunks[2].nr /\ chunks'[1].recs = chunks[2].recs
  BY <1>2, <1>3, <1>10, <1>11, ChunkTypes DEF Rising
<1>14. ASSUME NEW c \in 0..scenario.length, cutpoint_incut_chunk(scenario.cuts, c) # 4,
              chunks[1].nr < c, c < chunk_nr
       PROVE  \E k \in 1..(Len(chunks) - 1) : chunks[k + 1].nr = c
  <2>1. chunks[1].nr <= c
    BY <1>2, <1>13, <1>14
  <2>2. PICK k \in 1..Len(chunks) : chunks[k].nr = c
    BY <1>3, <1>14, <2>1 DEF SpacedInv, ChunksKept
  <2>3. k # 1
    BY <1>13, <1>14, <2>2
  <2>4. k - 1 \in 1..(Len(chunks) - 1) /\ (k - 1) + 1 = k
    BY <1>3, <2>3
  <2>5. QED
    BY <2>2, <2>4
<1>15. ChunksKept'
  <2>1. ASSUME NEW c \in 0..scenario.length, cutpoint_incut_chunk(scenario.cuts, c) # 4,
               chunks'[1].nr <= c, c < chunk_nr
        PROVE  \E k \in 1..Len(chunks') : chunks'[k].nr = c
    <3>1. chunks[1].nr < c
      BY <1>2, <1>13, <2>1
    <3>2. PICK k \in 1..(Len(chunks) - 1) : chunks[k + 1].nr = c
      BY <1>14, <2>1, <3>1
    <3>3. QED
      BY <1>10, <3>2
  <2>2. QED
    BY <1>1, <2>1 DEF ChunksKept
<1>16. ASSUME NEW c \in 0..scenario.length, cutpoint_incut_chunk(scenario.cuts, c) # 4,
              chunks[1].nr < c
       PROVE  chunks[2].nr <= c
  <2>1. CASE c < chunk_nr
    <3>1. PICK k \in 1..(Len(chunks) - 1) : chunks[k + 1].nr = c
      BY <1>14, <1>16, <2>1
    <3>2. k + 1 \in 1..Len(chunks) /\ (k + 1 = 2 \/ 2 < k + 1)
      BY <1>3
    <3>3. 2 < k + 1 => chunks[2].nr < chunks[k + 1].nr
      BY <1>2, <1>3, <3>2 DEF Rising
    <3>4. k + 1 = 2 => chunks[2].nr = c
      BY <3>1
    <3>5. QED
      BY <1>2, <1>13, <3>1, <3>2, <3>3, <3>4
  <2>2. CASE ~(c < chunk_nr)
    BY <1>2, <1>13, <2>2
  <2>3. QED
    BY <2>1, <2>2
<1>17. Waits(cuts', chunks'[1].nr, 0, chunks'[1].recs)
  <2>1. SameCuts(s.cuts, scenario.cuts)
    BY <1>2, <1>4, SameCutsTrans
  <2>2. s.cuts \in Seq(Cut)
    BY <1>4 DEF LoopState
  <2>3. chunks[1].recs \in scenario.shapes
    BY <1>3 DEF SpacedInv, ShapesInv
  <2>4. Waits(s.cuts, chunks[2].nr, 0, chunks[2].recs)
    BY <1>2, <1>6, <1>13, <1>16, <2>1, <2>2, <2>3, WaitsNext
  <2>5. QED
    BY <1>1, <1>13, <2>4
<1>18. WaitsInv'
  BY <1>1, <1>10, <1>17 DEF WaitsInv, Waits
<1>19. QED
  BY <1>12, <1>15, <1>18

LEMMA SpacedNext ==
    ASSUME CutsSpaced(scenario), ParserInv, SpacedInv, [Next]_vars
    PROVE  SpacedInv'
<1>1. GapsAllowed'
  BY GapsAllowedNext DEF SpacedInv
<1>2. SoundNow'
  BY SpacedApart, SoundNext DEF SpacedInv
<1>3. ShapesInv' /\ ChunksKept' /\ WaitsInv'
  <2>1. CASE /\ scenario' = scenario /\ cuts' = cuts /\ chunks' = chunks /\ chunk_nr' = chunk_nr
    BY <2>1 DEF SpacedInv, ShapesInv, ChunksKept, WaitsInv, Waits
  <2>2. CASE UNCHANGED vars
    BY <2>1, <2>2 DEF vars
  <2>3. CASE SkipChunk
    BY <2>3, SpacedSkip
  <2>4. CASE StopReading
    BY <2>1, <2>4 DEF StopReading
  <2>5. CASE ParseVideo
    BY <2>5, SpacedVideo
  <2>6. CASE ParseSound
    BY <2>6, SpacedSound
  <2>7. ASSUME NEW shape \in scenario.shapes, NEW gap \in BOOLEAN, GetChunk(shape, gap)
        PROVE  ShapesInv' /\ ChunksKept' /\ WaitsInv'
    BY <2>7, SpacedGet
  <2>8. QED
    BY <2>2, <2>3, <2>4, <2>5, <2>6, <2>7 DEF Next
<1>4. QED
  BY <1>1, <1>2, <1>3 DEF SpacedInv

(* Sound that can be read lies between any two cuts wherever a whole chunk *)
(* does, if every chunk has sound: CutsApart, from the cuts alone.         *)
THEOREM ParseCutsApart ==
    ASSUME \A s \in Scenarios : CutsSpaced(s)
    PROVE  Spec => []CutsApart
<1>1. Init => SpacedInv
  BY SpacedInit
<1>2. ParserInv => CutsSpaced(scenario)
  BY DEF ParserInv, CutsInv
<1>3. ParserInv /\ SpacedInv /\ [Next]_vars => SpacedInv'
  BY <1>2, SpacedNext
<1>4. ParserInv /\ SpacedInv => CutsApart
  BY <1>2, SpacedApart
<1>5. QED
  BY <1>1, <1>3, <1>4, ParserInvariant, PTL DEF Spec

(* The sound of a cut is left out and no other, and the flag audiocut says *)
(* whether one is open: SoundCut, in every behaviour.                      *)
THEOREM ParseSoundCutSpaced ==
    ASSUME \A s \in Scenarios : CutsSpaced(s)
    PROVE  Spec => []SoundCut
<1>1. QED
  BY ParseCutsApart, ParseSoundCut, PTL

(* Sound and video stay together over every cut: CutKeepsSync.             *)
THEOREM ParseCutKeepsSyncSpaced ==
    ASSUME \A s \in Scenarios : CutsSpaced(s)
    PROVE  Spec => []CutKeepsSync
<1>1. QED
  BY ParseCutsApart, ParseCutKeepsSync, PTL
=============================================================================

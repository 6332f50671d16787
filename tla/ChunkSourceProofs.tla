-------------------------- MODULE ChunkSourceProofs --------------------------
(***************************************************************************)
(* What the list of extents of an open recording says, for every recording *)
(* and every number of parts: the running total of open_input numbers the  *)
(* chunks of all parts one after the other, and the two pread functions    *)
(* find a number in the part that holds it.                                *)
(*                                                                         *)
(* FirstNumber, FlattenSeq and the chain of calls are defined by           *)
(* recursion.  Induction takes the form of a set of numbers that contains  *)
(* 0 and every successor (Induction), so that the provers need no operator *)
(* as a parameter.                                                         *)
(***************************************************************************)
EXTENDS ChunkSource, WellFoundedInduction, TLAPS

-----------------------------------------------------------------------------
(* Induction and recursion up to N.                                        *)
LEMMA LeastNumber ==
    ASSUME NEW T, T \subseteq Nat, T # {}
    PROVE  \E x \in T : \A y \in T : x <= y
<1>1. IsWellFoundedOn(OpToRel(<, Nat), Nat)
  BY NatLessThanWellFounded
<1>2. PICK x \in T : \A y \in T : ~ (<<y, x>> \in OpToRel(<, Nat))
  BY <1>1, WFMin
<1>3. \A y \in T : ~(y < x)
  BY <1>2 DEF OpToRel
<1>4. QED
  BY <1>3

(* What holds of 0 and passes to every successor holds up to N.            *)
LEMMA Induction ==
    ASSUME NEW N \in Nat, NEW T, 0 \in T,
           \A i \in 0..(N - 1) : i \in T => i + 1 \in T
    PROVE  \A i \in 0..N : i \in T
<1> DEFINE U == {i \in 0..N : i \notin T}
<1>1. SUFFICES ASSUME U # {} PROVE FALSE
  OBVIOUS
<1>2. PICK x \in U : \A y \in U : x <= y
  <2>1. U \subseteq Nat
    OBVIOUS
  <2>2. QED
    BY <1>1, <2>1, LeastNumber
<1>3. x \in 0..N /\ x # 0
  BY <1>2
<1>4. x - 1 \in 0..(N - 1) /\ x - 1 \in T
  BY <1>2, <1>3
<1>5. QED
  BY <1>2, <1>3, <1>4

(* A recursive definition over 0..N has a function.                        *)
Recurses(f, N, a, step) ==
    f[0] = a /\ \A i \in 1..N : f[i] = step[i][f[i - 1]]

LEMMA Recursion ==
    ASSUME NEW N \in Nat, NEW S, NEW a \in S, NEW step \in [1..N -> [S -> S]]
    PROVE  \E f \in [0..N -> S] : Recurses(f, N, a, step)
<1> DEFINE T == {n \in 0..N : \E f \in [0..n -> S] : Recurses(f, n, a, step)}
<1>1. 0 \in T
  <2>1. [i \in 0..0 |-> a] \in [0..0 -> S] /\ Recurses([i \in 0..0 |-> a], 0, a, step)
    BY DEF Recurses
  <2>2. QED
    BY <2>1
<1>2. ASSUME NEW n \in 0..(N - 1), n \in T
      PROVE  n + 1 \in T
  <2>1. PICK f \in [0..n -> S] : Recurses(f, n, a, step)
    BY <1>2
  <2> DEFINE g == [i \in 0..(n + 1) |-> IF i = n + 1 THEN step[n + 1][f[n]] ELSE f[i]]
  <2>2. f[n] \in S /\ step[n + 1][f[n]] \in S
    BY <2>1
  <2>3. g \in [0..(n + 1) -> S]
    BY <2>1, <2>2
  <2>4. g[0] = a /\ \A i \in 1..(n + 1) : g[i] = step[i][g[i - 1]]
    BY <2>1 DEF Recurses
  <2>5. Recurses(g, n + 1, a, step)
    BY <2>4 DEF Recurses
  <2> HIDE DEF g
  <2>6. n + 1 \in 0..N
    OBVIOUS
  <2>7. QED
    BY <2>3, <2>5, <2>6
<1>3. N \in T
  <2> HIDE DEF T
  <2>1. \A n \in 0..(N - 1) : n \in T => n + 1 \in T
    BY <1>2
  <2>2. \A n \in 0..N : n \in T
    BY <1>1, <2>1, Induction
  <2>3. QED
    BY <2>2
<1>4. QED
  BY <1>3

-----------------------------------------------------------------------------
(* The running total.                                                      *)
LEMMA PartsType ==
    ASSUME NEW r \in DOMAIN Recordings
    PROVE  /\ Parts(r) \in Seq(Nat \ 0..2)
           /\ Len(Parts(r)) \in Nat /\ Len(Parts(r)) < MaxFsidList
           /\ \A i \in 1..Len(Parts(r)) : Parts(r)[i] \in Nat /\ Parts(r)[i] > 2
<1>1. Parts(r) \in Seq(Nat \ 0..2) /\ Len(Parts(r)) < MaxFsidList
  BY RecordingsAssumption DEF Parts
<1>2. \A i \in 1..Len(Parts(r)) : Parts(r)[i] \in Nat \ 0..2
  BY <1>1
<1>3. QED
  BY <1>1, <1>2

(* FirstNumber is the running value of totalchunks in open_input.          *)
LEMMA FirstNumbers ==
    ASSUME NEW r \in DOMAIN Recordings
    PROVE  /\ FirstNumber(r) \in [1..(Len(Parts(r)) + 1) -> Int]
           /\ FirstNumber(r)[1] = 0
           /\ \A i \in 1..Len(Parts(r)) :
                FirstNumber(r)[i + 1] = FirstNumber(r)[i] + Parts(r)[i] - 2
<1> DEFINE N == Len(Parts(r))
           p == Parts(r)
           step == [i \in 1..N |-> [m \in Int |-> m + p[i] - 2]]
           Body(f) == [i \in 1..(N + 1) |-> IF i = 1 THEN 0 ELSE f[i - 1] + p[i - 1] - 2]
<1>1. N \in Nat /\ \A i \in 1..N : p[i] \in Nat
  BY PartsType
<1> HIDE DEF N, p
<1>2. step \in [1..N -> [Int -> Int]]
  BY <1>1
<1>3. PICK f \in [0..N -> Int] : Recurses(f, N, 0, step)
  <2> HIDE DEF step
  <2>1. 0 \in Int
    OBVIOUS
  <2>2. QED
    BY <1>1, <1>2, <2>1, Recursion, Zenon
<1> DEFINE g == [i \in 1..(N + 1) |-> f[i - 1]]
<1>4. \A i \in 1..N : f[i] = f[i - 1] + p[i] - 2
  <2>1. \A i \in 1..N : f[i] = step[i][f[i - 1]]
    <3> HIDE DEF step
    <3>1. QED
      BY <1>3 DEF Recurses
  <2>2. \A i \in 1..N : f[i - 1] \in Int
    BY <1>1, <1>3
  <2>3. QED
    BY <2>1, <2>2
<1>5. g = Body(g)
  <2>1. \A i \in 1..(N + 1) : g[i] = Body(g)[i]
    <3>1. SUFFICES ASSUME NEW i \in 1..(N + 1) PROVE g[i] = Body(g)[i]
      OBVIOUS
    <3>2. CASE i = 1
      BY <3>2, <1>3 DEF Recurses
    <3>3. CASE i # 1
      <4>1. i - 1 \in 1..N /\ g[i] = f[i - 1] /\ g[i - 1] = f[i - 2]
        BY <1>1, <3>3
      <4>2. f[i - 1] = f[i - 2] + p[i - 1] - 2
        BY <1>4, <4>1
      <4>3. QED
        BY <3>3, <4>1, <4>2
    <3>4. QED
      BY <3>2, <3>3
  <2>2. QED
    BY <2>1
<1> HIDE DEF g
<1>6. FirstNumber(r) = CHOOSE h : h = Body(h)
  BY DEF FirstNumber, N, p
<1>7. FirstNumber(r) = Body(FirstNumber(r))
  BY <1>5, <1>6
<1> DEFINE n == FirstNumber(r)
<1> HIDE DEF n
<1>8. n = Body(n)
  BY <1>7 DEF n
<1>9. n[1] = 0 /\ \A i \in 1..N : n[i + 1] = n[i] + p[i] - 2
  <2>1. n[1] = 0
    BY <1>8, <1>1
  <2>2. ASSUME NEW i \in 1..N PROVE n[i + 1] = n[i] + p[i] - 2
    <3>1. i + 1 \in 1..(N + 1) /\ i + 1 # 1 /\ (i + 1) - 1 = i
      BY <1>1
    <3>2. n[i + 1] = n[(i + 1) - 1] + p[(i + 1) - 1] - 2
      BY <1>8, <3>1
    <3>3. QED
      BY <3>1, <3>2
  <2>3. QED
    BY <2>1, <2>2
<1>10. \A i \in 1..(N + 1) : n[i] \in Int
  <2> DEFINE T == {i \in 0..N : n[i + 1] \in Int}
  <2>1. 0 \in T
    BY <1>9, <1>1
  <2>2. ASSUME NEW i \in 0..(N - 1), i \in T PROVE i + 1 \in T
    <3>1. i + 1 \in 1..N /\ n[i + 1] \in Int /\ p[i + 1] \in Nat
      BY <1>1, <2>2
    <3>2. n[(i + 1) + 1] = n[i + 1] + p[i + 1] - 2
      BY <1>9, <3>1
    <3>3. QED
      BY <3>1, <3>2
  <2> HIDE DEF T
  <2>3. \A i \in 0..N : i \in T
    <3>1. \A i \in 0..(N - 1) : i \in T => i + 1 \in T
      BY <2>2
    <3>2. QED
      BY <1>1, <2>1, <3>1, Induction
  <2>4. ASSUME NEW i \in 1..(N + 1) PROVE n[i] \in Int
    <3>1. i - 1 \in 0..N /\ (i - 1) + 1 = i
      BY <1>1
    <3>2. QED
      BY <2>3, <3>1 DEF T
  <2>5. QED
    BY <2>4
<1>11. n \in [1..(N + 1) -> Int]
  BY <1>8, <1>10
<1>12. QED
  BY <1>9, <1>11 DEF n, N, p

(* No part is empty of numbers, so that they grow from part to part.       *)
LEMMA NumbersGrow ==
    ASSUME NEW r \in DOMAIN Recordings,
           NEW i \in 1..(Len(Parts(r)) + 1), NEW j \in 1..(Len(Parts(r)) + 1), i < j
    PROVE  FirstNumber(r)[i] < FirstNumber(r)[j]
<1> DEFINE N == Len(Parts(r))
           n == FirstNumber(r)
           T == {d \in 0..N : \A k \in 1..(N + 1) : k + d <= N + 1 => n[k] + d <= n[k + d]}
<1>1. /\ N \in Nat /\ n \in [1..(N + 1) -> Int]
      /\ \A k \in 1..N : n[k] + 1 <= n[k + 1]
  <2>1. N \in Nat /\ n \in [1..(N + 1) -> Int]
    BY FirstNumbers, PartsType
  <2>2. ASSUME NEW k \in 1..N PROVE n[k] + 1 <= n[k + 1]
    <3>1. n[k + 1] = n[k] + Parts(r)[k] - 2 /\ Parts(r)[k] \in Nat /\ Parts(r)[k] > 2
      BY FirstNumbers, PartsType
    <3>2. n[k] \in Int
      BY <2>1
    <3> HIDE DEF n
    <3>3. QED
      BY <3>1, <3>2
  <2>3. QED
    BY <2>1, <2>2
<1> HIDE DEF N, n
<1>2. 0 \in T
  BY <1>1
<1>3. ASSUME NEW d \in 0..(N - 1), d \in T PROVE d + 1 \in T
  <2>1. ASSUME NEW k \in 1..(N + 1), k + (d + 1) <= N + 1
        PROVE  n[k] + (d + 1) <= n[k + (d + 1)]
    <3>1. n[k] + d <= n[k + d]
      BY <1>1, <1>3, <2>1
    <3>2. k + d \in 1..N /\ k + (d + 1) = (k + d) + 1
      BY <1>1, <2>1
    <3>3. n[k + d] + 1 <= n[(k + d) + 1]
      BY <1>1, <3>2
    <3>4. n[k] \in Int /\ n[k + d] \in Int /\ n[(k + d) + 1] \in Int
      BY <1>1, <3>2
    <3>5. QED
      BY <3>1, <3>2, <3>3, <3>4
  <2>2. QED
    BY <1>1, <2>1
<1>4. \A d \in 0..N : d \in T
  <2> HIDE DEF T
  <2>1. \A d \in 0..(N - 1) : d \in T => d + 1 \in T
    BY <1>3
  <2>2. QED
    BY <1>1, <1>2, <2>1, Induction
<1>5. i \in 1..(N + 1) /\ j \in 1..(N + 1) /\ j - i \in 0..N /\ i + (j - i) = j
  BY <1>1 DEF N
<1>6. n[i] + (j - i) <= n[j]
  BY <1>4, <1>5
<1>7. QED
  BY <1>1, <1>5, <1>6 DEF n

(* Every number below the total lies in one part.                          *)
LEMMA NumberInPart ==
    ASSUME NEW r \in DOMAIN Recordings, NEW m \in Nat, m < Chunks(r)
    PROVE  \E i \in 1..Len(Parts(r)) : FirstNumber(r)[i] <= m /\ m < FirstNumber(r)[i + 1]
<1> DEFINE N == Len(Parts(r))
           n == FirstNumber(r)
           T == {i \in 1..(N + 1) : m < n[i]}
<1>1. N \in Nat /\ n \in [1..(N + 1) -> Int] /\ n[1] = 0 /\ m < n[N + 1]
  BY FirstNumbers, PartsType DEF Chunks
<1> HIDE DEF N, n
<1>2. T \subseteq Nat /\ N + 1 \in T
  BY <1>1
<1>3. PICK j \in T : \A k \in T : j <= k
  <2> HIDE DEF T
  <2>1. QED
    BY <1>2, LeastNumber
<1>4. j \in 1..(N + 1) /\ m < n[j] /\ j # 1
  BY <1>1, <1>3
<1>5. j - 1 \in 1..N /\ ~(m < n[j - 1]) /\ (j - 1) + 1 = j
  BY <1>1, <1>3, <1>4
<1>6. n[j - 1] <= m /\ m < n[(j - 1) + 1]
  BY <1>1, <1>4, <1>5
<1>7. QED
  BY <1>5, <1>6 DEF N, n

-----------------------------------------------------------------------------
(* A sequence of sequences, one after the other.                           *)
Flattens(f, seqs) ==
    f[0] = <<>> /\ \A i \in 1..Len(seqs) : f[i] = f[i - 1] \o seqs[i]

(* FlattenSeq as a running concatenation.                                  *)
LEMMA FlattenSteps ==
    ASSUME NEW S, NEW seqs \in Seq(Seq(S))
    PROVE  \E f \in [0..Len(seqs) -> Seq(S)] :
              Flattens(f, seqs) /\ FlattenSeq(seqs) = f[Len(seqs)]
<1> DEFINE L == Len(seqs)
           step == [i \in 1..L |-> [s \in Seq(S) |-> s \o seqs[i]]]
           Body(h) == [i \in 1..L |-> IF i = 1 THEN seqs[i] ELSE h[i - 1] \o seqs[i]]
<1>1. L \in Nat /\ <<>> \in Seq(S) /\ \A i \in 1..L : seqs[i] \in Seq(S)
  OBVIOUS
<1>2. step \in [1..L -> [Seq(S) -> Seq(S)]]
  BY <1>1
<1>3. PICK f \in [0..L -> Seq(S)] : Recurses(f, L, <<>>, step)
  <2> HIDE DEF step, L
  <2>1. QED
    BY <1>1, <1>2, Recursion, Zenon
<1>4. \A i \in 1..L : f[i] = f[i - 1] \o seqs[i] /\ f[i] \in Seq(S) /\ f[i - 1] \in Seq(S)
  <2>1. \A i \in 1..L : f[i] = step[i][f[i - 1]]
    <3> HIDE DEF step, L
    <3>1. QED
      BY <1>3 DEF Recurses
  <2>2. ASSUME NEW i \in 1..L PROVE f[i - 1] \in Seq(S) /\ f[i] \in Seq(S)
    <3>1. i - 1 \in 0..L /\ i \in 0..L
      BY <1>1
    <3> HIDE DEF L
    <3>2. QED
      BY <1>3, <3>1
  <2>3. ASSUME NEW i \in 1..L PROVE step[i][f[i - 1]] = f[i - 1] \o seqs[i]
    BY <2>2
  <2>4. QED
    BY <2>1, <2>2, <2>3
<1>5. f[0] = <<>>
  <2> HIDE DEF step, L
  <2>1. QED
    BY <1>3 DEF Recurses
<1>6. f[1] = seqs[1] \/ L = 0
  <2>1. CASE L # 0
    <3>1. 1 \in 1..L
      BY <1>1, <2>1
    <3>2. f[1] = f[1 - 1] \o seqs[1] /\ seqs[1] \in Seq(S)
      BY <1>1, <1>4, <3>1
    <3>3. 1 - 1 = 0
      OBVIOUS
    <3>4. f[1] = <<>> \o seqs[1]
      BY <1>5, <3>2, <3>3, Zenon
    <3>5. QED
      BY <3>2, <3>4
  <2>2. QED
    BY <2>1
<1> DEFINE g == [i \in 1..L |-> f[i]]
<1> HIDE DEF L
<1>7. g = Body(g)
  <2>1. ASSUME NEW i \in 1..L PROVE g[i] = Body(g)[i]
    <3>1. CASE i = 1
      BY <1>1, <1>6, <3>1
    <3>2. CASE i # 1
      <4>1. i - 1 \in 1..L /\ g[i - 1] = f[i - 1] /\ g[i] = f[i]
        BY <1>1, <3>2
      <4>2. QED
        BY <1>4, <3>2, <4>1
    <3>3. QED
      BY <3>1, <3>2
  <2>2. QED
    BY <2>1
<1> DEFINE h == CHOOSE k : k = Body(k)
<1>8. h = Body(h)
  <2> HIDE DEF g
  <2>1. QED
    BY <1>7
<1>9. FlattenSeq(seqs) = IF L = 0 THEN seqs ELSE h[L]
  BY DEF FlattenSeq, L
<1> HIDE DEF h
<1>10. \A i \in 1..L : h[i] = f[i]
  <2> DEFINE T == {i \in 0..L : i = 0 \/ h[i] = f[i]}
  <2>1. 0 \in T
    BY <1>1
  <2>2. ASSUME NEW i \in 0..(L - 1), i \in T PROVE i + 1 \in T
    <3>1. i + 1 \in 1..L /\ (i + 1) - 1 = i
      BY <1>1
    <3>2. h[i + 1] = IF i + 1 = 1 THEN seqs[i + 1] ELSE h[(i + 1) - 1] \o seqs[i + 1]
      BY <1>8, <3>1
    <3>3. f[i + 1] = f[(i + 1) - 1] \o seqs[i + 1]
      BY <1>4, <3>1
    <3>4. CASE i = 0
      BY <1>1, <1>6, <3>1, <3>2, <3>4
    <3>5. CASE i # 0
      <4>1. h[i] = f[i] /\ i + 1 # 1
        BY <2>2, <3>5
      <4>2. h[i + 1] = f[i] \o seqs[i + 1]
        BY <3>1, <3>2, <4>1
      <4>3. f[i + 1] = f[i] \o seqs[i + 1]
        BY <3>1, <3>3
      <4>4. h[i + 1] = f[i + 1]
        BY <4>2, <4>3, Zenon
      <4>5. QED
        BY <3>1, <4>4
    <3>6. QED
      BY <3>4, <3>5
  <2> HIDE DEF T
  <2>3. \A i \in 0..L : i \in T
    <3>1. \A i \in 0..(L - 1) : i \in T => i + 1 \in T
      BY <2>2
    <3>2. QED
      BY <1>1, <2>1, <3>1, Induction
  <2>4. QED
    BY <1>1, <2>3 DEF T
<1>11. FlattenSeq(seqs) = f[L]
  <2>1. CASE L = 0
    BY <1>5, <1>9, <2>1 DEF L
  <2>2. CASE L # 0
    BY <1>1, <1>9, <1>10, <2>2
  <2>3. QED
    BY <2>1, <2>2
<1>12. Flattens(f, seqs)
  BY <1>4, <1>5 DEF Flattens, L
<1>13. QED
  BY <1>3, <1>11, <1>12 DEF L

LEMMA FlattenType ==
    ASSUME NEW S, NEW seqs \in Seq(Seq(S))
    PROVE  FlattenSeq(seqs) \in Seq(S)
<1>1. PICK f \in [0..Len(seqs) -> Seq(S)] : FlattenSeq(seqs) = f[Len(seqs)]
  BY FlattenSteps
<1>2. Len(seqs) \in 0..Len(seqs)
  OBVIOUS
<1>3. QED
  BY <1>1, <1>2

(* c is s followed by u.                                                   *)
Joined(c, s, u) ==
    /\ Len(s) \in Nat /\ Len(u) \in Nat /\ Len(c) = Len(s) + Len(u)
    /\ \A j \in 1..Len(s) : c[j] = s[j]
    /\ \A j \in 1..Len(u) : c[Len(s) + j] = u[j]

LEMMA ConcatPlaces ==
    ASSUME NEW S, NEW s \in Seq(S), NEW u \in Seq(S)
    PROVE  s \o u \in Seq(S) /\ Joined(s \o u, s, u)
BY DEF Joined

(* Where the j-th element of seqs[i] is found, if n counts what lies       *)
(* before it.                                                              *)
LEMMA FlattenPlaces ==
    ASSUME NEW S, NEW seqs \in Seq(Seq(S)), NEW n \in [1..(Len(seqs) + 1) -> Int],
           n[1] = 0, \A i \in 1..Len(seqs) : n[i + 1] = n[i] + Len(seqs[i])
    PROVE  /\ FlattenSeq(seqs) \in Seq(S)
           /\ Len(FlattenSeq(seqs)) = n[Len(seqs) + 1]
           /\ \A i \in 1..Len(seqs) : \A j \in 1..Len(seqs[i]) :
                FlattenSeq(seqs)[n[i] + j] = seqs[i][j]
<1> DEFINE L == Len(seqs)
<1>1. PICK f \in [0..L -> Seq(S)] : Flattens(f, seqs) /\ FlattenSeq(seqs) = f[L]
  BY FlattenSteps
<1> DEFINE Placed(k) ==
             /\ Len(f[k]) = n[k + 1]
             /\ \A i \in 1..k : n[i] \in Nat /\ n[i] + Len(seqs[i]) <= n[k + 1]
             /\ \A i \in 1..k : \A j \in 1..Len(seqs[i]) : f[k][n[i] + j] = seqs[i][j]
           T == {k \in 0..L : Placed(k)}
<1>2. /\ L \in Nat /\ \A i \in 1..L : seqs[i] \in Seq(S) /\ Len(seqs[i]) \in Nat
      /\ n \in [1..(L + 1) -> Int]
      /\ \A i \in 1..L : n[i + 1] = n[i] + Len(seqs[i])
  OBVIOUS
<1>3. f[0] = <<>> /\ \A i \in 1..L : f[i] = f[i - 1] \o seqs[i]
  BY <1>1 DEF Flattens
<1> HIDE DEF L
<1>4. 0 \in T
  <2>1. Len(f[0]) = 0
    BY <1>3
  <2>2. QED
    BY <1>2, <2>1
<1>5. ASSUME NEW k \in 0..(L - 1), k \in T PROVE k + 1 \in T
  <2> DEFINE s == f[k]
             u == seqs[k + 1]
             m == n[k + 1]
  <2>1. k \in 0..L /\ k + 1 \in 1..L /\ (k + 1) - 1 = k
    BY <1>2
  <2>2. /\ s \in Seq(S) /\ u \in Seq(S) /\ Len(s) = m /\ m \in Int
        /\ \A i \in 1..k : n[i] \in Nat /\ n[i] + Len(seqs[i]) <= m
        /\ \A i \in 1..k : \A j \in 1..Len(seqs[i]) : s[n[i] + j] = seqs[i][j]
    BY <1>2, <1>5, <2>1
  <2>3. f[k + 1] = s \o u
    <3>1. f[k + 1] = f[(k + 1) - 1] \o u
      BY <1>3, <2>1
    <3>2. QED
      BY <2>1, <3>1, Zenon
  <2>4. n[(k + 1) + 1] = m + Len(u)
    BY <1>2, <2>1
  <2> HIDE DEF s, u, m
  <2>5. /\ m \in Nat /\ Len(u) \in Nat /\ Len(f[k + 1]) = m + Len(u)
        /\ \A j \in 1..m : f[k + 1][j] = s[j]
        /\ \A j \in 1..Len(u) : f[k + 1][m + j] = u[j]
    <3>1. Joined(s \o u, s, u)
      <4>1. s \in Seq(S) /\ u \in Seq(S)
        BY <2>2
      <4>2. QED
        BY <4>1, ConcatPlaces
    <3>2. Len(s) = m
      BY <2>2
    <3>3. QED
      BY <2>2, <2>3, <3>1, <3>2 DEF Joined
  <2>6. ASSUME NEW i \in 1..(k + 1)
        PROVE  /\ n[i] \in Nat /\ n[i] + Len(seqs[i]) <= n[(k + 1) + 1]
               /\ \A j \in 1..Len(seqs[i]) : f[k + 1][n[i] + j] = seqs[i][j]
    <3>1. CASE i = k + 1
      BY <2>4, <2>5, <3>1 DEF u, m
    <3>2. CASE i # k + 1
      <4>1. i \in 1..k /\ i \in 1..L
        BY <1>2, <3>2
      <4>2. n[i] \in Nat /\ n[i] + Len(seqs[i]) <= m /\ Len(seqs[i]) \in Nat
        BY <1>2, <2>2, <4>1
      <4>3. n[i] + Len(seqs[i]) <= n[(k + 1) + 1]
        BY <2>4, <2>5, <4>2
      <4>4. ASSUME NEW j \in 1..Len(seqs[i]) PROVE f[k + 1][n[i] + j] = seqs[i][j]
        <5>1. n[i] + j \in 1..m
          <6>1. \A a, b, t \in Nat : \A x \in 1..b : a + b <= t => a + x \in 1..t
            OBVIOUS
          <6>2. QED
            BY <2>5, <4>2, <6>1
        <5>2. f[k + 1][n[i] + j] = s[n[i] + j]
          BY <2>5, <5>1
        <5>3. s[n[i] + j] = seqs[i][j]
          BY <2>2, <4>1
        <5>4. QED
          BY <5>2, <5>3
      <4>5. QED
        BY <4>2, <4>3, <4>4
    <3>3. QED
      BY <3>1, <3>2
  <2>7. Placed(k + 1)
    BY <2>4, <2>5, <2>6
  <2> HIDE DEF Placed
  <2>8. QED
    BY <2>1, <2>7
<1>6. L \in T
  <2> HIDE DEF T
  <2>1. \A k \in 0..(L - 1) : k \in T => k + 1 \in T
    BY <1>5
  <2>2. \A k \in 0..L : k \in T
    BY <1>2, <1>4, <2>1, Induction
  <2>3. QED
    BY <1>2, <2>2
<1>7. Placed(L) /\ f[L] \in Seq(S)
  BY <1>2, <1>6
<1>8. QED
  BY <1>1, <1>7 DEF L

-----------------------------------------------------------------------------
(* The stream of a recording.                                              *)
DiskChunk(r, i, k) == [fsid |-> <<r, i>>, nr |-> k]

(* The chunk at each place of the stream.                                  *)
LEMMA StreamPlaces ==
    ASSUME NEW r \in DOMAIN Recordings
    PROVE  /\ Len(Stream(r)) = Chunks(r) /\ Chunks(r) \in Nat
           /\ DOMAIN Stream(r) = 1..Chunks(r)
           /\ \A i \in 1..Len(Parts(r)) : \A m \in Nat :
                FirstNumber(r)[i] <= m /\ m < FirstNumber(r)[i + 1] =>
                  Stream(r)[m + 1] = DiskChunk(r, i, m + 1 - FirstNumber(r)[i])
<1> DEFINE N == Len(Parts(r))
           n == FirstNumber(r)
           p == Parts(r)
           S == {<<r, i>> : i \in 1..N}
           D == [fsid : S, nr : Int]
           seqs == [i \in 1..N |-> OnDisk(<<r, i>>, 1, p[i] - 2)]
<1>1. /\ N \in Nat /\ \A i \in 1..N : p[i] \in Nat /\ p[i] > 2
      /\ n \in [1..(N + 1) -> Int] /\ n[1] = 0
      /\ \A i \in 1..N : n[i + 1] = n[i] + p[i] - 2
  BY FirstNumbers, PartsType
<1> HIDE DEF N, n, p
<1>2. ASSUME NEW i \in 1..N
      PROVE  /\ seqs[i] \in Seq(D) /\ Len(seqs[i]) = p[i] - 2
             /\ \A j \in 1..(p[i] - 2) : seqs[i][j] = DiskChunk(r, i, j)
  <2>1. p[i] - 2 \in Nat
    <3> HIDE DEF seqs
    <3>1. p[i] \in Nat /\ p[i] > 2
      BY <1>1
    <3>2. QED
      BY <3>1
  <2>0. <<r, i>> \in S
    OBVIOUS
  <2> HIDE DEF S
  <2>2. seqs[i] = [j \in 1..(p[i] - 2) |-> [fsid |-> <<r, i>>, nr |-> 1 + j - 1]]
    BY DEF OnDisk
  <2> HIDE DEF seqs
  <2>3. \A j \in 1..(p[i] - 2) : [fsid |-> <<r, i>>, nr |-> 1 + j - 1] \in D
    BY <2>0, <2>1
  <2> HIDE DEF D
  <2>4. QED
    BY <2>1, <2>2, <2>3 DEF DiskChunk
<1>3. seqs \in Seq(Seq(D)) /\ Len(seqs) = N
  <2>1. \A i \in 1..N : seqs[i] \in Seq(D)
    BY <1>2
  <2> HIDE DEF D
  <2>2. QED
    BY <1>1, <2>1
<1>4. Stream(r) = FlattenSeq(seqs)
  BY DEF Stream, N, p
<1>5. \A i \in 1..N : n[i + 1] = n[i] + Len(seqs[i])
  <2> HIDE DEF seqs
  <2>1. QED
    BY <1>1, <1>2
<1> HIDE DEF seqs, D
<1>6. /\ FlattenSeq(seqs) \in Seq(D)
      /\ Len(FlattenSeq(seqs)) = n[N + 1]
      /\ \A i \in 1..N : \A j \in 1..Len(seqs[i]) :
           FlattenSeq(seqs)[n[i] + j] = seqs[i][j]
  <2>1. /\ n \in [1..(Len(seqs) + 1) -> Int] /\ n[1] = 0
        /\ \A i \in 1..Len(seqs) : n[i + 1] = n[i] + Len(seqs[i])
    BY <1>1, <1>3, <1>5
  <2>2. /\ FlattenSeq(seqs) \in Seq(D)
        /\ Len(FlattenSeq(seqs)) = n[Len(seqs) + 1]
        /\ \A i \in 1..Len(seqs) : \A j \in 1..Len(seqs[i]) :
             FlattenSeq(seqs)[n[i] + j] = seqs[i][j]
    BY <1>3, <2>1, FlattenPlaces
  <2>3. QED
    BY <1>3, <2>2
<1>7. ASSUME NEW i \in 1..N, NEW m \in Nat, n[i] <= m, m < n[i + 1]
      PROVE  Stream(r)[m + 1] = DiskChunk(r, i, m + 1 - n[i])
  <2>1. n[i] \in Int /\ n[i + 1] = n[i] + p[i] - 2 /\ p[i] \in Nat
    BY <1>1
  <2>2. m + 1 - n[i] \in 1..(p[i] - 2) /\ n[i] + (m + 1 - n[i]) = m + 1
    BY <1>7, <2>1
  <2>3. m + 1 - n[i] \in 1..Len(seqs[i])
    BY <1>2, <2>2
  <2>4. FlattenSeq(seqs)[n[i] + (m + 1 - n[i])] = seqs[i][m + 1 - n[i]]
    BY <1>6, <2>3
  <2>5. seqs[i][m + 1 - n[i]] = DiskChunk(r, i, m + 1 - n[i])
    BY <1>2, <2>2
  <2>6. QED
    BY <1>4, <2>2, <2>4, <2>5, Zenon
<1>8. Len(Stream(r)) = Chunks(r) /\ Stream(r) \in Seq(D)
  BY <1>4, <1>6 DEF Chunks, n, N
<1>9. Chunks(r) \in Nat /\ DOMAIN Stream(r) = 1..Chunks(r)
  BY <1>8
<1>10. QED
  BY <1>7, <1>8, <1>9 DEF n, N

-----------------------------------------------------------------------------
(* The list of extents of an open recording.                               *)
Numbered(r) ==
    /\ Fsid_list_count = Len(Parts(r)) /\ totalchunks = Chunks(r)
    /\ \A i \in 0..(Len(Parts(r)) - 1) :
         /\ Fsid_list[i].fsid = <<r, i + 1>>
         /\ Fsid_list[i].start_chunk = FirstNumber(r)[i + 1]
         /\ Fsid_list[i].end_chunk = EndChunk(r, i + 1)
    /\ \A i \in 0..(MaxFsidList - 1) : Fsid_list[i].start_chunk \in Int

(* open_input leaves the list of the recording it was called for.          *)
LEMMA OpenNumbers ==
    ASSUME NEW r \in DOMAIN Recordings, open_input(r)
    PROVE  Numbered(r)' /\ DOMAIN Fsid_list' = 0..(MaxFsidList - 1)
<1> DEFINE new(i) == [fsid |-> <<r, i + 1>>, start_chunk |-> FirstNumber(r)[i + 1],
                      end_chunk |-> EndChunk(r, i + 1)]
           old(g, i) == IF Fsid_list = <<>>
                        THEN [fsid |-> <<>>, start_chunk |-> g, end_chunk |-> g]
                        ELSE [fsid |-> <<>>, start_chunk |-> 0,
                              end_chunk |-> Fsid_list[i].end_chunk]
<1>1. PICK g \in Garbage :
        /\ Fsid_list' = [i \in 0..(MaxFsidList - 1) |->
                           IF i < Len(Parts(r)) THEN new(i) ELSE old(g, i)]
        /\ Fsid_list_count' = Len(Parts(r))
        /\ totalchunks' = Chunks(r)
  BY DEF open_input
<1>2. g \in Int
  BY GarbageAssumption
<1>3. Len(Parts(r)) \in Nat /\ Len(Parts(r)) < MaxFsidList /\ MaxFsidList \in Nat
  BY PartsType, ListAssumption
<1>4. ASSUME NEW i \in 0..(Len(Parts(r)) - 1) PROVE Fsid_list'[i] = new(i)
  <2>1. i \in 0..(MaxFsidList - 1) /\ i < Len(Parts(r))
    BY <1>3
  <2> HIDE DEF new, old
  <2>2. QED
    BY <1>1, <2>1
<1>5. ASSUME NEW i \in 0..(MaxFsidList - 1) PROVE Fsid_list'[i].start_chunk \in Int
  <2>1. CASE i < Len(Parts(r))
    <3>1. i + 1 \in 1..(Len(Parts(r)) + 1) /\ i \in 0..(Len(Parts(r)) - 1)
      BY <1>3, <2>1
    <3>2. FirstNumber(r)[i + 1] \in Int
      BY <3>1, FirstNumbers
    <3>3. new(i).start_chunk = FirstNumber(r)[i + 1]
      OBVIOUS
    <3> HIDE DEF new
    <3>4. QED
      BY <1>4, <3>1, <3>2, <3>3
  <2>2. CASE ~(i < Len(Parts(r)))
    <3>1. Fsid_list'[i] = old(g, i)
      <4> HIDE DEF new, old
      <4>1. QED
        BY <1>1, <2>2
    <3>2. old(g, i).start_chunk \in Int
      BY <1>2
    <3> HIDE DEF old
    <3>3. QED
      BY <3>1, <3>2
  <2>3. QED
    BY <2>1, <2>2
<1>6. DOMAIN Fsid_list' = 0..(MaxFsidList - 1)
  <2> HIDE DEF new, old
  <2>1. QED
    BY <1>1
<1>7. \A i \in 0..(Len(Parts(r)) - 1) :
         /\ Fsid_list'[i].fsid = <<r, i + 1>>
         /\ Fsid_list'[i].start_chunk = FirstNumber(r)[i + 1]
         /\ Fsid_list'[i].end_chunk = EndChunk(r, i + 1)
  <2>1. ASSUME NEW i \in Int
        PROVE  /\ new(i).fsid = <<r, i + 1>>
               /\ new(i).start_chunk = FirstNumber(r)[i + 1]
               /\ new(i).end_chunk = EndChunk(r, i + 1)
    OBVIOUS
  <2> HIDE DEF new
  <2>2. \A i \in 0..(Len(Parts(r)) - 1) : i \in Int
    BY <1>3
  <2>3. QED
    BY <1>4, <2>1, <2>2
<1>8. QED
  BY <1>1, <1>5, <1>6, <1>7 DEF Numbered

(* A number of a part is held by the entry of that part only.              *)
LEMMA HoldingOne ==
    ASSUME NEW r \in DOMAIN Recordings, Numbered(r),
           NEW i \in 0..(Len(Parts(r)) - 1), NEW m \in Int,
           FirstNumber(r)[i + 1] <= m, m < FirstNumber(r)[(i + 1) + 1]
    PROVE  Holding(m) = {i} /\ Min(Holding(m)) = i
<1> DEFINE N == Len(Parts(r))
           n == FirstNumber(r)
<1>1. N \in Nat /\ n \in [1..(N + 1) -> Int]
  BY PartsType, FirstNumbers
<1>2. \A a, b \in 1..(N + 1) : a < b => n[a] < n[b]
  BY NumbersGrow
<1>3. Holding(m) = {j \in 0..(N - 1) : n[j + 1] <= m /\ m <= n[(j + 1) + 1] - 1}
  BY DEF Holding, Numbered, EndChunk
<1> HIDE DEF N, n
<1>4. i \in 0..(N - 1) /\ n[i + 1] <= m /\ m < n[(i + 1) + 1]
  BY DEF N, n
<1>5. ASSUME NEW j \in 0..(N - 1), n[j + 1] <= m, m <= n[(j + 1) + 1] - 1
      PROVE  j = i
  <2>1. /\ i + 1 \in 1..(N + 1) /\ (i + 1) + 1 \in 1..(N + 1)
        /\ j + 1 \in 1..(N + 1) /\ (j + 1) + 1 \in 1..(N + 1)
    BY <1>1, <1>4
  <2>2. \A a, b \in 1..(N + 1) : a <= b => n[a] <= n[b]
    BY <1>1, <1>2
  <2>3. /\ n[i + 1] \in Int /\ n[(i + 1) + 1] \in Int
        /\ n[j + 1] \in Int /\ n[(j + 1) + 1] \in Int
    BY <1>1, <2>1
  <2>4. CASE j < i
    <3>1. n[(j + 1) + 1] <= n[i + 1]
      BY <1>4, <2>1, <2>2, <2>4
    <3>2. QED
      BY <1>4, <1>5, <2>3, <3>1
  <2>5. CASE i < j
    <3>1. n[(i + 1) + 1] <= n[j + 1]
      BY <1>4, <2>1, <2>2, <2>5
    <3>2. QED
      BY <1>4, <1>5, <2>3, <3>1
  <2>6. QED
    BY <1>4, <2>4, <2>5
<1>6. n[(i + 1) + 1] \in Int /\ m <= n[(i + 1) + 1] - 1
  <2>1. (i + 1) + 1 \in 1..(N + 1)
    BY <1>1, <1>4
  <2>2. n[(i + 1) + 1] \in Int
    BY <1>1, <2>1
  <2>3. QED
    BY <1>4, <2>2
<1>7. Holding(m) = {i}
  BY <1>3, <1>4, <1>5, <1>6
<1>8. Min({i}) = i
  BY DEF Min
<1>9. QED
  BY <1>7, <1>8

(* What a number below the total reads, and that nothing else is read.     *)
LEMMA ReadOne ==
    ASSUME NEW r \in DOMAIN Recordings, Numbered(r)
    PROVE  /\ \A m \in 0..(totalchunks - 1) :
                mfs_multifsid_pread(m) = <<Stream(r)[m + 1]>>
           /\ \A m \in Int : m >= totalchunks => mfs_multifsid_pread(m) = <<>>
<1> DEFINE N == Len(Parts(r))
           n == FirstNumber(r)
<1>1. /\ N \in Nat /\ n \in [1..(N + 1) -> Int]
      /\ totalchunks = Chunks(r) /\ Chunks(r) = n[N + 1] /\ Chunks(r) \in Nat
  BY PartsType, FirstNumbers, StreamPlaces DEF Numbered, Chunks
<1>2. ASSUME NEW m \in 0..(totalchunks - 1)
      PROVE  mfs_multifsid_pread(m) = <<Stream(r)[m + 1]>>
  <2>1. m \in Nat /\ m < Chunks(r)
    BY <1>1
  <2>2. PICK i \in 1..N : n[i] <= m /\ m < n[i + 1]
    BY <2>1, NumberInPart
  <2>3. i - 1 \in 0..(N - 1) /\ (i - 1) + 1 = i
    BY <1>1
  <2>4. Holding(m) = {i - 1} /\ Min(Holding(m)) = i - 1
    <3>1. n[(i - 1) + 1] <= m /\ m < n[((i - 1) + 1) + 1]
      BY <2>2, <2>3
    <3>2. QED
      BY <2>1, <2>3, <3>1, HoldingOne
  <2> DEFINE e == Fsid_list[i - 1]
  <2>5. e.fsid = <<r, i>> /\ e.start_chunk = n[i] /\ n[i] \in Int
    BY <1>1, <2>3 DEF Numbered
  <2>6. mfs_multifsid_pread(m) = OnDisk(e.fsid, 1 + m - e.start_chunk, 1)
    BY <2>4 DEF mfs_multifsid_pread
  <2> HIDE DEF e
  <2>7. OnDisk(<<r, i>>, 1 + m - n[i], 1) = <<DiskChunk(r, i, m + 1 - n[i])>>
    <3>1. OnDisk(<<r, i>>, 1 + m - n[i], 1) =
            [j \in 1..1 |-> [fsid |-> <<r, i>>, nr |-> (1 + m - n[i]) + j - 1]]
      BY DEF OnDisk
    <3>2. \A j \in 1..1 : (1 + m - n[i]) + j - 1 = m + 1 - n[i]
      BY <2>1, <2>5
    <3>3. \A j \in 1..1 : [fsid |-> <<r, i>>, nr |-> (1 + m - n[i]) + j - 1] =
                             DiskChunk(r, i, m + 1 - n[i])
      BY <3>2 DEF DiskChunk
    <3>4. OnDisk(<<r, i>>, 1 + m - n[i], 1) = [j \in 1..1 |-> DiskChunk(r, i, m + 1 - n[i])]
      BY <3>1, <3>3
    <3>5. QED
      BY <3>4
  <2>8. Stream(r)[m + 1] = DiskChunk(r, i, m + 1 - n[i])
    BY <2>1, <2>2, StreamPlaces
  <2>9. QED
    BY <2>5, <2>6, <2>7, <2>8
<1>3. ASSUME NEW m \in Int, m >= totalchunks PROVE mfs_multifsid_pread(m) = <<>>
  <2>1. ASSUME NEW i \in 0..(N - 1) PROVE Fsid_list[i].end_chunk < m
    <3>1. (i + 1) + 1 \in 1..(N + 1) /\ N + 1 \in 1..(N + 1)
      BY <1>1
    <3>2. n[(i + 1) + 1] <= n[N + 1]
      <4>1. CASE (i + 1) + 1 = N + 1
        BY <1>1, <3>1, <4>1
      <4>2. CASE (i + 1) + 1 < N + 1
        BY <1>1, <3>1, <4>2, NumbersGrow
      <4>3. QED
        BY <3>1, <1>1, <4>1, <4>2
    <3>3. Fsid_list[i].end_chunk = n[(i + 1) + 1] - 1
      BY DEF Numbered, EndChunk
    <3>4. n[(i + 1) + 1] \in Int /\ n[N + 1] \in Int
      BY <1>1, <3>1
    <3> HIDE DEF n, N
    <3>5. QED
      BY <1>1, <1>3, <3>2, <3>3, <3>4
  <2>2. Fsid_list_count = N /\ \A i \in 0..(N - 1) : Fsid_list[i].end_chunk \in Int
    <3>1. ASSUME NEW i \in 0..(N - 1) PROVE Fsid_list[i].end_chunk \in Int
      <4>1. (i + 1) + 1 \in 1..(N + 1)
        BY <1>1
      <4>2. n[(i + 1) + 1] \in Int
        BY <1>1, <4>1
      <4>3. Fsid_list[i].end_chunk = n[(i + 1) + 1] - 1
        BY DEF Numbered, EndChunk
      <4> HIDE DEF n
      <4>4. QED
        BY <4>2, <4>3
    <3>2. QED
      BY <3>1 DEF Numbered
  <2> HIDE DEF N
  <2>3. Holding(m) = {}
    BY <2>1, <2>2 DEF Holding
  <2>4. QED
    BY <2>3 DEF mfs_multifsid_pread
<1>4. QED
  BY <1>2, <1>3

-----------------------------------------------------------------------------
(* The chain of calls that reads a block.                                  *)
Result(c) == [ok |-> c.state = "done", read |-> c.read]

(* The calls stay in a set that is closed under NextCall.                  *)
LEMMA ChainOfCalls ==
    ASSUME NEW m, NEW k, NEW C, FirstCall(m, k) \in C, \A c \in C : NextCall(c) \in C
    PROVE  \E f \in [0..MaxCalls -> C] :
             /\ f[0] = FirstCall(m, k)
             /\ \A i \in 1..MaxCalls : f[i] = NextCall(f[i - 1])
             /\ mfs_multifsid_pread_X(m, k) = Result(f[MaxCalls])
<1> DEFINE M == MaxCalls
           first == FirstCall(m, k)
           step == [i \in 1..M |-> [c \in C |-> NextCall(c)]]
           Body(h) == [i \in 0..M |->
                         IF i = 0 THEN {first} ELSE {NextCall(c) : c \in h[i - 1]}]
<1>1. M \in Nat
  BY ListAssumption DEF MaxCalls
<1> HIDE DEF M, first
<1>2. first \in C /\ step \in [1..M -> [C -> C]]
  BY <1>1 DEF first
<1>3. PICK f \in [0..M -> C] : Recurses(f, M, first, step)
  <2> HIDE DEF step
  <2>1. QED
    BY <1>1, <1>2, Recursion
<1>4. f[0] = first /\ \A i \in 1..M : f[i] = NextCall(f[i - 1])
  <2>1. f[0] = first /\ \A i \in 1..M : f[i] = step[i][f[i - 1]]
    <3> HIDE DEF step
    <3>1. QED
      BY <1>3 DEF Recurses
  <2>2. ASSUME NEW i \in 1..M PROVE step[i][f[i - 1]] = NextCall(f[i - 1])
    <3>1. i - 1 \in 0..M
      BY <1>1
    <3>2. f[i - 1] \in C
      BY <1>3, <3>1
    <3>3. QED
      BY <3>2
  <2> HIDE DEF step
  <2>3. QED
    BY <2>1, <2>2
<1> DEFINE g == [i \in 0..M |-> {f[i]}]
<1>5. g = Body(g)
  <2>1. ASSUME NEW i \in 0..M PROVE g[i] = Body(g)[i]
    <3>1. CASE i = 0
      BY <1>4, <3>1
    <3>2. CASE i # 0
      <4>1. i \in 1..M /\ i - 1 \in 0..M
        BY <1>1, <3>2
      <4>2. g[i - 1] = {f[i - 1]} /\ f[i] = NextCall(f[i - 1])
        BY <1>4, <4>1
      <4>3. {NextCall(c) : c \in g[i - 1]} = {NextCall(f[i - 1])}
        BY <4>2
      <4>4. QED
        BY <3>2, <4>2, <4>3
    <3>3. QED
      BY <3>1, <3>2
  <2>2. QED
    BY <2>1
<1> DEFINE h == CHOOSE x : x = Body(x)
<1>6. h = Body(h)
  <2> HIDE DEF g
  <2>1. QED
    BY <1>5
<1> DEFINE last == CHOOSE c \in h[M] : TRUE
<1>7. mfs_multifsid_pread_X(m, k) = [ok |-> last.state = "done", read |-> last.read]
  BY DEF mfs_multifsid_pread_X, M, first
<1> HIDE DEF h, g
<1>8. \A i \in 0..M : h[i] = {f[i]}
  <2> DEFINE T == {i \in 0..M : h[i] = {f[i]}}
  <2>1. 0 \in T
    BY <1>1, <1>4, <1>6
  <2>2. ASSUME NEW i \in 0..(M - 1), i \in T PROVE i + 1 \in T
    <3>1. i + 1 \in 1..M /\ i + 1 \in 0..M /\ (i + 1) - 1 = i /\ i + 1 # 0
      BY <1>1
    <3>2. h[i + 1] = {NextCall(c) : c \in h[(i + 1) - 1]}
      BY <1>6, <3>1
    <3>3. h[(i + 1) - 1] = {f[i]}
      BY <2>2, <3>1
    <3>4. h[i + 1] = {NextCall(f[i])}
      BY <3>2, <3>3
    <3>5. f[i + 1] = NextCall(f[(i + 1) - 1])
      BY <1>4, <3>1
    <3>6. f[i + 1] = NextCall(f[i])
      BY <3>1, <3>5
    <3>7. QED
      BY <3>1, <3>4, <3>6
  <2> HIDE DEF T
  <2>3. \A i \in 0..M : i \in T
    <3>1. \A i \in 0..(M - 1) : i \in T => i + 1 \in T
      BY <2>2
    <3>2. QED
      BY <1>1, <2>1, <3>1, Induction
  <2>4. QED
    BY <2>3 DEF T
<1>9. last = f[M]
  BY <1>1, <1>8
<1> HIDE DEF last
<1>10. mfs_multifsid_pread_X(m, k) = Result(f[M])
  BY <1>7, <1>9 DEF Result
<1>11. QED
  BY <1>3, <1>4, <1>10 DEF M, first

(* Where the chunks come from, and how many have been copied.              *)
OnSomeDisk == [fsid : {<<r, i>> : r \in DOMAIN Recordings, i \in 1..MaxFsidList},
               nr : Nat]

Chain(k) ==
    {c \in [from : Int, left : Nat, read : Seq(OnSomeDisk),
            state : {"reading", "done", "failed"}] :
       /\ Len(c.read) <= k
       /\ c.state = "reading" => Len(c.read) + c.left = k
       /\ c.state = "done" => Len(c.read) = k}

LEMMA CallStays ==
    ASSUME NEW r \in DOMAIN Recordings, Numbered(r), NEW k \in Nat, NEW c \in Chain(k)
    PROVE  NextCall(c) \in Chain(k)
<1> DEFINE Records == [from : Int, left : Nat, read : Seq(OnSomeDisk),
                       state : {"reading", "done", "failed"}]
<1>1. c \in Records /\ Len(c.read) <= k
  BY DEF Chain
<1>2. CASE c.state # "reading"
  BY <1>2 DEF NextCall
<1>3. CASE c.state = "reading" /\ Holding(c.from) = {}
  <2> DEFINE d == [c EXCEPT !.state = "failed"]
  <2>1. d \in Records /\ d.read = c.read /\ d.state = "failed"
    BY <1>1
  <2> HIDE DEF d
  <2>2. d \in Chain(k)
    BY <1>1, <2>1 DEF Chain
  <2>3. QED
    BY <1>3, <2>2 DEF NextCall, d
<1>4. CASE c.state = "reading" /\ Holding(c.from) # {}
  <2>1. Len(c.read) + c.left = k /\ c.from \in Int /\ c.left \in Nat
        /\ c.read \in Seq(OnSomeDisk)
    BY <1>1, <1>4 DEF Chain
  <2> DEFINE i == Min(Holding(c.from))
  <2>2. Fsid_list_count = Len(Parts(r)) /\ Len(Parts(r)) \in Nat
        /\ Len(Parts(r)) < MaxFsidList /\ MaxFsidList \in Nat
    BY PartsType, ListAssumption DEF Numbered
  <2>3. i \in Holding(c.from)
    <3>1. Holding(c.from) \subseteq Nat
      BY <2>2 DEF Holding
    <3>2. \E x \in Holding(c.from) : \A y \in Holding(c.from) : x <= y
      BY <1>4, <3>1, LeastNumber
    <3>3. QED
      BY <3>2 DEF Min
  <2>4. i \in 0..(Len(Parts(r)) - 1) /\ Fsid_list[i].start_chunk <= c.from
        /\ c.from <= Fsid_list[i].end_chunk
    BY <2>2, <2>3 DEF Holding
  <2> HIDE DEF i
  <2> DEFINE e == Fsid_list[i]
             end == c.from + c.left
             copied(l) == c.read \o OnDisk(e.fsid, 1 + c.from - e.start_chunk, l)
  <2>5. /\ e.fsid = <<r, i + 1>> /\ e.start_chunk \in Int /\ e.end_chunk \in Int
        /\ Fsid_list[i + 1].start_chunk \in Int
        /\ e.start_chunk <= c.from /\ c.from <= e.end_chunk
    <3>1. i + 1 \in 1..(Len(Parts(r)) + 1) /\ (i + 1) + 1 \in 1..(Len(Parts(r)) + 1)
          /\ i + 1 \in 0..(MaxFsidList - 1)
      BY <2>2, <2>4
    <3>2. FirstNumber(r)[i + 1] \in Int /\ FirstNumber(r)[(i + 1) + 1] \in Int
      BY <3>1, FirstNumbers
    <3>3. /\ e.fsid = <<r, i + 1>> /\ e.start_chunk = FirstNumber(r)[i + 1]
          /\ e.end_chunk = FirstNumber(r)[(i + 1) + 1] - 1
          /\ Fsid_list[i + 1].start_chunk \in Int
      BY <2>4, <3>1 DEF Numbered, EndChunk
    <3> HIDE DEF e
    <3>4. e.start_chunk <= c.from /\ c.from <= e.end_chunk
      BY <2>4 DEF e
    <3>5. QED
      BY <3>2, <3>3, <3>4
  <2> HIDE DEF e
  <2>6. ASSUME NEW l \in Nat
        PROVE  copied(l) \in Seq(OnSomeDisk) /\ Len(copied(l)) = Len(c.read) + l
    <3> DEFINE from == 1 + c.from - e.start_chunk
               read == [j \in 1..l |-> [fsid |-> e.fsid, nr |-> from + j - 1]]
    <3>1. from \in Nat
      BY <2>1, <2>5
    <3> HIDE DEF from
    <3>2. e.fsid \in {<<s, j>> : s \in DOMAIN Recordings, j \in 1..MaxFsidList}
      BY <2>2, <2>4, <2>5
    <3>3. \A j \in 1..l : [fsid |-> e.fsid, nr |-> from + j - 1] \in OnSomeDisk
      BY <3>1, <3>2 DEF OnSomeDisk
    <3>4. read \in Seq(OnSomeDisk) /\ Len(read) = l
      BY <3>3
    <3>5. OnDisk(e.fsid, from, l) = read
      BY DEF OnDisk
    <3> HIDE DEF read
    <3>6. c.read \o read \in Seq(OnSomeDisk) /\ Joined(c.read \o read, c.read, read)
      BY <2>1, <3>4, ConcatPlaces
    <3>7. QED
      BY <3>4, <3>5, <3>6 DEF Joined, from
  <2> HIDE DEF copied
  <2>7. NextCall(c) = ReadFrom(i, c)
    BY <1>4 DEF NextCall, i
  <2>8. CASE end <= e.end_chunk
    <3> DEFINE d == [c EXCEPT !.read = copied(c.left), !.state = "done"]
    <3>1. copied(c.left) \in Seq(OnSomeDisk) /\ Len(copied(c.left)) = k
      BY <2>1, <2>6
    <3>2. d \in Records /\ d.read = copied(c.left) /\ d.state = "done"
      BY <1>1, <3>1
    <3> HIDE DEF d
    <3>3. d \in Chain(k)
      BY <3>1, <3>2 DEF Chain
    <3>4. ~(e.end_chunk < end)
      BY <2>1, <2>5, <2>8
    <3>5. ReadFrom(i, c) = d
      BY <2>8, <3>4 DEF ReadFrom, d, e, copied
    <3>6. QED
      BY <2>7, <3>3, <3>5
  <2>9. CASE e.end_chunk < end /\ end > totalchunks
    <3> DEFINE d == [c EXCEPT !.state = "failed"]
    <3>1. d \in Records /\ d.read = c.read /\ d.state = "failed"
      BY <1>1
    <3> HIDE DEF d
    <3>2. d \in Chain(k)
      BY <1>1, <3>1 DEF Chain
    <3>3. ~(end <= e.end_chunk)
      BY <2>1, <2>5, <2>9
    <3>4. QED
      BY <2>7, <2>9, <3>2, <3>3 DEF ReadFrom, d, e
  <2>10. CASE e.end_chunk < end /\ ~(end > totalchunks)
    <3> DEFINE l == e.end_chunk - c.from
               d == [from |-> Fsid_list[i + 1].start_chunk, left |-> end - e.end_chunk,
                     read |-> copied(l), state |-> "reading"]
    <3>1. l \in Nat /\ end - e.end_chunk \in Nat /\ l + (end - e.end_chunk) = c.left
      BY <2>1, <2>5, <2>10
    <3>2. copied(l) \in Seq(OnSomeDisk) /\ Len(copied(l)) = Len(c.read) + l
      BY <2>6, <3>1
    <3> HIDE DEF l
    <3>3. Len(copied(l)) + (end - e.end_chunk) = k /\ Len(copied(l)) <= k
      <4>1. Len(c.read) \in Nat
        BY <2>1
      <4> HIDE DEF end
      <4>2. end \in Int
        BY <2>1 DEF end
      <4>3. \A a, b, x, y, z \in Int : x = y + a /\ a + b = z /\ y + z = k /\ b >= 0
               => x + b = k /\ x <= k
        OBVIOUS
      <4>4. Len(copied(l)) = Len(c.read) + l /\ l \in Int /\ end - e.end_chunk \in Nat
            /\ Len(copied(l)) \in Int /\ c.left \in Int /\ Len(c.read) + c.left = k
            /\ l + (end - e.end_chunk) = c.left
        BY <2>1, <3>1, <3>2
      <4>5. QED
        BY <4>1, <4>3, <4>4
    <3>4. /\ d \in Records /\ d.read = copied(l) /\ d.left = end - e.end_chunk
          /\ d.state = "reading"
      BY <2>5, <3>1, <3>2
    <3> HIDE DEF d
    <3>5. d \in Chain(k)
      BY <3>3, <3>4 DEF Chain
    <3>6. ~(end <= e.end_chunk)
      BY <2>1, <2>5, <2>10
    <3>7. QED
      BY <2>7, <2>10, <3>5, <3>6 DEF ReadFrom, d, e, l, copied
  <2>11. QED
    BY <2>1, <2>5, <2>8, <2>9, <2>10
<1>5. QED
  BY <1>2, <1>3, <1>4

(* A block is read whole, or at most a part of it.                         *)
LEMMA BlockType ==
    ASSUME NEW r \in DOMAIN Recordings, Numbered(r), NEW m \in Int, NEW k \in Nat
    PROVE  LET b == mfs_multifsid_pread_X(m, k) IN
           /\ b.ok \in BOOLEAN /\ b.read \in Seq(OnSomeDisk) /\ Len(b.read) <= k
           /\ b.ok => Len(b.read) = k
<1>1. FirstCall(m, k) \in Chain(k)
  BY DEF FirstCall, Chain
<1>2. \A c \in Chain(k) : NextCall(c) \in Chain(k)
  BY CallStays
<1>3. PICK f \in [0..MaxCalls -> Chain(k)] :
         mfs_multifsid_pread_X(m, k) = Result(f[MaxCalls])
  BY <1>1, <1>2, ChainOfCalls
<1>4. MaxCalls \in 0..MaxCalls
  BY ListAssumption DEF MaxCalls
<1>5. f[MaxCalls] \in Chain(k)
  BY <1>3, <1>4
<1> DEFINE c == f[MaxCalls]
<1> HIDE DEF c
<1>6. /\ c.read \in Seq(OnSomeDisk) /\ Len(c.read) <= k
      /\ c.state = "done" => Len(c.read) = k
  BY <1>5 DEF Chain, c
<1>7. Result(c).ok = (c.state = "done") /\ Result(c).read = c.read
  BY DEF Result
<1>8. mfs_multifsid_pread_X(m, k) = Result(c)
  BY <1>3 DEF c
<1>9. QED
  BY <1>6, <1>7, <1>8

(* A chain of one or two calls.                                            *)
LEMMA ShortChain ==
    ASSUME NEW m, NEW k, NextCall(NextCall(FirstCall(m, k))).state = "done"
    PROVE  mfs_multifsid_pread_X(m, k) = Result(NextCall(NextCall(FirstCall(m, k))))
<1> DEFINE c == FirstCall(m, k)
           d == NextCall(c)
           e == NextCall(d)
           C == {c, d, e}
<1>1. NextCall(e) = e
  BY DEF NextCall
<1>2. c \in C /\ \A x \in C : NextCall(x) \in C
  BY <1>1
<1>3. PICK f \in [0..MaxCalls -> C] :
         /\ f[0] = c
         /\ \A i \in 1..MaxCalls : f[i] = NextCall(f[i - 1])
         /\ mfs_multifsid_pread_X(m, k) = Result(f[MaxCalls])
  <2> HIDE DEF C
  <2>1. QED
    BY <1>2, ChainOfCalls
<1>4. MaxCalls \in Nat /\ MaxCalls >= 2
  BY ListAssumption DEF MaxCalls
<1> HIDE DEF c
<1>5. f[1] = d
  <2>1. 1 \in 1..MaxCalls /\ 1 - 1 = 0
    BY <1>4
  <2>2. f[1] = NextCall(f[1 - 1])
    BY <1>3, <2>1
  <2>3. QED
    BY <1>3, <2>1, <2>2, Zenon
<1> HIDE DEF d
<1>6. f[2] = e
  <2>1. 2 \in 1..MaxCalls /\ 2 - 1 = 1
    BY <1>4
  <2>2. f[2] = NextCall(f[2 - 1])
    BY <1>3, <2>1
  <2>3. QED
    BY <1>5, <2>1, <2>2, Zenon
<1> HIDE DEF e, C
<1> DEFINE T == {i \in 0..MaxCalls : i >= 2 => f[i] = e}
<1>7. \A i \in 0..MaxCalls : i \in T
  <2>1. 0 \in T
    BY <1>4
  <2>2. ASSUME NEW i \in 0..(MaxCalls - 1), i \in T PROVE i + 1 \in T
    <3>1. i + 1 \in 1..MaxCalls /\ (i + 1) - 1 = i
      BY <1>4
    <3>2. CASE i + 1 = 2
      BY <1>6, <3>1, <3>2
    <3>3. CASE i + 1 > 2
      <4>1. f[i] = e
        BY <2>2, <3>1, <3>3
      <4>2. f[i + 1] = NextCall(f[(i + 1) - 1])
        BY <1>3, <3>1
      <4>3. f[i + 1] = e
        BY <1>1, <3>1, <4>1, <4>2
      <4>4. QED
        BY <3>1, <4>3
    <3>4. CASE i + 1 < 2
      BY <3>1, <3>4
    <3>5. QED
      BY <3>1, <3>2, <3>3, <3>4
  <2> HIDE DEF T
  <2>3. \A i \in 0..(MaxCalls - 1) : i \in T => i + 1 \in T
    BY <2>2
  <2>4. QED
    BY <1>4, <2>1, <2>3, Induction
<1>8. f[MaxCalls] = e
  BY <1>4, <1>7
<1>9. QED
  BY <1>3, <1>8 DEF e, d, c

(* A call that finds its block before the last chunk of a part is the last *)
(* one.                                                                    *)
LEMMA LastCall ==
    ASSUME NEW r \in DOMAIN Recordings, Numbered(r),
           NEW i \in 0..(Len(Parts(r)) - 1), NEW m \in Int, NEW k \in Nat, NEW read,
           FirstNumber(r)[i + 1] <= m, m + k <= EndChunk(r, i + 1)
    PROVE  NextCall([from |-> m, left |-> k, read |-> read, state |-> "reading"]) =
             [from |-> m, left |-> k, state |-> "done",
              read |-> read \o OnDisk(<<r, i + 1>>, 1 + m - FirstNumber(r)[i + 1], k)]
<1> DEFINE c == [from |-> m, left |-> k, read |-> read, state |-> "reading"]
           e == Fsid_list[i]
           first == FirstNumber(r)[i + 1]
           end == FirstNumber(r)[(i + 1) + 1]
<1>1. first \in Int /\ end \in Int /\ EndChunk(r, i + 1) = end - 1
  <2>1. Len(Parts(r)) \in Nat
    BY PartsType
  <2>2. i + 1 \in 1..(Len(Parts(r)) + 1) /\ (i + 1) + 1 \in 1..(Len(Parts(r)) + 1)
    BY <2>1
  <2>3. QED
    BY <2>2, FirstNumbers DEF EndChunk
<1>2. e.fsid = <<r, i + 1>> /\ e.start_chunk = first /\ e.end_chunk = end - 1
  BY <1>1 DEF Numbered
<1>3. Min(Holding(m)) = i /\ Holding(m) # {}
  <2>1. FirstNumber(r)[i + 1] <= m /\ m < FirstNumber(r)[(i + 1) + 1]
    BY <1>1
  <2>2. Holding(m) = {i} /\ Min(Holding(m)) = i
    BY <2>1, HoldingOne, Zenon
  <2>3. QED
    BY <2>2
<1> HIDE DEF e, first, end
<1>4. c.from = m /\ c.left = k /\ c.read = read /\ c.state = "reading"
  OBVIOUS
<1>5. NextCall(c) = ReadFrom(i, c)
  <2> HIDE DEF c
  <2>1. QED
    BY <1>3, <1>4 DEF NextCall
<1>6. m + k <= e.end_chunk /\ ~(e.end_chunk < m + k)
  BY <1>1, <1>2
<1>7. ReadFrom(i, c) = [c EXCEPT !.read = read \o OnDisk(e.fsid, 1 + m - e.start_chunk, k),
                                 !.state = "done"]
  <2> HIDE DEF c
  <2>1. QED
    BY <1>4, <1>6 DEF ReadFrom, e
<1>8. QED
  BY <1>2, <1>5, <1>7 DEF first

(* A block that ends before the last chunk of its part is read as it is.   *)
LEMMA BlockInPart ==
    ASSUME NEW r \in DOMAIN Recordings, Numbered(r),
           NEW i \in 0..(Len(Parts(r)) - 1), NEW m \in Nat, NEW k \in Nat,
           FirstNumber(r)[i + 1] <= m, m + k <= EndChunk(r, i + 1)
    PROVE  mfs_multifsid_pread_X(m, k) = [ok |-> TRUE, read |-> Block(r, m, k)]
<1> DEFINE first == FirstNumber(r)[i + 1]
           end == FirstNumber(r)[(i + 1) + 1]
           d == [from |-> m, left |-> k, state |-> "done",
                 read |-> <<>> \o OnDisk(<<r, i + 1>>, 1 + m - first, k)]
<1>1. first \in Int /\ end \in Int /\ EndChunk(r, i + 1) = end - 1 /\ end <= Chunks(r)
      /\ Chunks(r) \in Nat /\ i + 1 \in 1..Len(Parts(r))
  <2>1. Len(Parts(r)) \in Nat
    BY PartsType
  <2>2. i + 1 \in 1..(Len(Parts(r)) + 1) /\ (i + 1) + 1 \in 1..(Len(Parts(r)) + 1)
        /\ Len(Parts(r)) + 1 \in 1..(Len(Parts(r)) + 1)
    BY <2>1
  <2>3. first \in Int /\ end \in Int /\ Chunks(r) = FirstNumber(r)[Len(Parts(r)) + 1]
        /\ Chunks(r) \in Int
    BY <2>2, FirstNumbers DEF Chunks
  <2>4. end <= Chunks(r)
    <3>1. CASE (i + 1) + 1 = Len(Parts(r)) + 1
      BY <2>3, <3>1
    <3>2. CASE (i + 1) + 1 < Len(Parts(r)) + 1
      BY <2>2, <2>3, <3>2, NumbersGrow
    <3>3. QED
      BY <2>1, <3>1, <3>2
  <2>5. QED
    BY <2>1, <2>2, <2>3, <2>4, StreamPlaces DEF EndChunk
<1>2. NextCall(FirstCall(m, k)) = d
  <2>1. m \in Int
    OBVIOUS
  <2>2. \A read : NextCall([from |-> m, left |-> k, read |-> read, state |-> "reading"]) =
          [from |-> m, left |-> k, state |-> "done",
           read |-> read \o OnDisk(<<r, i + 1>>, 1 + m - FirstNumber(r)[i + 1], k)]
    BY <2>1, LastCall, Zenon
  <2>3. FirstCall(m, k) = [from |-> m, left |-> k, read |-> <<>>, state |-> "reading"]
    BY DEF FirstCall
  <2>4. QED
    BY <2>2, <2>3, Zenon
<1>3. d.state = "done" /\ d.read = <<>> \o OnDisk(<<r, i + 1>>, 1 + m - first, k)
  OBVIOUS
<1> HIDE DEF d
<1>4. NextCall(d) = d
  BY <1>3 DEF NextCall
<1>5. mfs_multifsid_pread_X(m, k) = Result(d)
  BY <1>2, <1>3, <1>4, ShortChain
<1> DEFINE read == [j \in 1..k |-> DiskChunk(r, i + 1, (1 + m - first) + j - 1)]
<1>6. OnDisk(<<r, i + 1>>, 1 + m - first, k) = read
  BY DEF OnDisk, DiskChunk
<1>7. Block(r, m, k) = read
  <2>1. Block(r, m, k) = [j \in 1..k |-> Stream(r)[(m + 1) + j - 1]]
    <3>1. Block(r, m, k) = SubSeq(Stream(r), m + 1, m + k)
      BY DEF Block
    <3>2. SubSeq(Stream(r), m + 1, m + k) =
            [j \in 1..((m + k) - (m + 1) + 1) |-> Stream(r)[(m + 1) + j - 1]]
      BY DEF SubSeq
    <3>3. (m + k) - (m + 1) + 1 = k
      OBVIOUS
    <3>4. QED
      BY <3>1, <3>2, <3>3
  <2>2. ASSUME NEW j \in 1..k
        PROVE  Stream(r)[(m + 1) + j - 1] = DiskChunk(r, i + 1, (1 + m - first) + j - 1)
    <3> DEFINE x == m + j - 1
    <3>1. x \in Nat /\ first <= x /\ x < end /\ x + 1 = (m + 1) + j - 1
          /\ x + 1 - first = (1 + m - first) + j - 1
      BY <1>1
    <3> HIDE DEF x
    <3>2. Stream(r)[x + 1] = DiskChunk(r, i + 1, x + 1 - first)
      BY <1>1, <3>1, StreamPlaces
    <3>3. QED
      BY <3>1, <3>2
  <2>3. QED
    BY <2>1, <2>2
<1>8. <<>> \o read = read
  <2>1. read \in Seq({DiskChunk(r, i + 1, (1 + m - first) + j - 1) : j \in 1..k})
    <3> DEFINE g(j) == DiskChunk(r, i + 1, (1 + m - first) + j - 1)
    <3> HIDE DEF g
    <3>1. [j \in 1..k |-> g(j)] \in Seq({g(j) : j \in 1..k})
      OBVIOUS
    <3>2. QED
      BY <3>1 DEF g
  <2> HIDE DEF read
  <2>2. QED
    BY <2>1
<1> HIDE DEF read
<1>9. d.read = Block(r, m, k)
  BY <1>3, <1>6, <1>7, <1>8
<1>10. QED
  BY <1>3, <1>5, <1>9 DEF Result

(* A block that ends before the recording does is read, over the end of a  *)
(* part too, if the part that it ends in is longer than a block.           *)
LEMMA BlockReadable ==
    ASSUME NEW r \in DOMAIN Recordings, Numbered(r), NEW m \in Nat, NEW k \in Nat,
           m + k < totalchunks,
           \A j \in 2..Len(Parts(r)) : Parts(r)[j] > k + 2
    PROVE  mfs_multifsid_pread_X(m, k).ok
<1> DEFINE N == Len(Parts(r))
           n == FirstNumber(r)
<1>1. /\ N \in Nat /\ n \in [1..(N + 1) -> Int] /\ totalchunks = Chunks(r)
      /\ Chunks(r) = n[N + 1]
  BY PartsType, FirstNumbers DEF Numbered, Chunks
<1>2. m < Chunks(r)
  BY <1>1
<1>3. PICK i \in 1..N : n[i] <= m /\ m < n[i + 1]
  BY <1>2, NumberInPart
<1>4. i - 1 \in 0..(N - 1) /\ (i - 1) + 1 = i /\ n[i] \in Int /\ n[i + 1] \in Int
  BY <1>1
<1>5. CASE m + k <= n[i + 1] - 1
  <2>1. m + k <= EndChunk(r, (i - 1) + 1) /\ n[(i - 1) + 1] <= m
    BY <1>3, <1>4, <1>5 DEF EndChunk
  <2>2. mfs_multifsid_pread_X(m, k) = [ok |-> TRUE, read |-> Block(r, m, k)]
    BY <1>4, <2>1, BlockInPart
  <2>3. QED
    BY <2>2
<1>6. CASE m + k > n[i + 1] - 1
  <2> DEFINE e == Fsid_list[i - 1]
             b == n[i + 1]
             c == n[(i + 1) + 1]
             left == m + k - (b - 1)
             read == <<>> \o OnDisk(e.fsid, 1 + m - e.start_chunk, e.end_chunk - m)
             d == [from |-> b, left |-> left, read |-> read, state |-> "reading"]
             next == NextCall(d)
  <2>1. i \in 0..(N - 1) /\ i + 1 \in 2..N
    <3>1. i # N
      BY <1>1, <1>4, <1>6
    <3>2. QED
      BY <1>1, <3>1
  <2>2. b \in Int /\ c \in Int /\ c = b + Parts(r)[i + 1] - 2
    <3>1. i + 1 \in 1..(N + 1) /\ (i + 1) + 1 \in 1..(N + 1) /\ i + 1 \in 1..N
      BY <1>1, <2>1
    <3>2. QED
      BY <1>1, <3>1, FirstNumbers
  <2>3. Parts(r)[i + 1] \in Nat /\ Parts(r)[i + 1] > k + 2
    <3>1. i + 1 \in 1..Len(Parts(r))
      BY <1>1, <2>1
    <3>2. QED
      BY <2>1, <3>1, PartsType
  <2>4. m < b /\ m + k > b - 1
    BY <1>3, <1>6
  <2>5. EndChunk(r, i) = b - 1 /\ EndChunk(r, i + 1) = c - 1
    BY DEF EndChunk
  <2>6. e.end_chunk = b - 1
    BY <1>4, <2>5 DEF Numbered
  <2>7. Fsid_list[(i - 1) + 1].start_chunk = b
    BY <1>4, <2>1 DEF Numbered
  <2>8. n[i + 1] = b
    OBVIOUS
  <2> HIDE DEF e, b, c
  <2>9. left \in Nat /\ b + left <= c - 1
    <3>1. \A x \in Nat : x > k + 2 /\ c = b + x - 2 => b + left <= c - 1
      BY <2>2, <2>4
    <3>2. QED
      BY <2>2, <2>3, <2>4, <3>1
  <2>10. NextCall(FirstCall(m, k)) = d
    <3>1. Holding(m) = {i - 1} /\ Min(Holding(m)) = i - 1
      <4>1. m \in Int /\ n[(i - 1) + 1] <= m /\ m < n[((i - 1) + 1) + 1]
        BY <1>3, <1>4
      <4>2. QED
        BY <1>4, <4>1, HoldingOne, Zenon
    <3> DEFINE call == FirstCall(m, k)
    <3>2. call.from = m /\ call.left = k /\ call.read = <<>> /\ call.state = "reading"
      BY DEF FirstCall
    <3> HIDE DEF call
    <3>3. NextCall(call) = ReadFrom(i - 1, call)
      BY <3>1, <3>2 DEF NextCall
    <3>4. ~(m + k <= e.end_chunk) /\ ~(m + k > totalchunks) /\ e.end_chunk < m + k
      <4>1. totalchunks \in Int
        BY <1>1
      <4>2. QED
        BY <2>2, <2>4, <2>6, <4>1
    <3>5. ReadFrom(i - 1, call) = [from |-> Fsid_list[(i - 1) + 1].start_chunk,
                                   left |-> left,
                                   read |-> read, state |-> "reading"]
      <4> DEFINE end == call.from + call.left
      <4>1. ~(end <= e.end_chunk) /\ ~(end > totalchunks) /\ e.end_chunk < end
        BY <3>2, <3>4
      <4>2. ReadFrom(i - 1, call) =
              [from |-> Fsid_list[(i - 1) + 1].start_chunk, left |-> end - e.end_chunk,
               read |-> call.read \o OnDisk(e.fsid, 1 + call.from - e.start_chunk,
                                             e.end_chunk - call.from),
               state |-> "reading"]
        BY <4>1 DEF ReadFrom, e
      <4>3. end = m + k
        BY <3>2
      <4> DEFINE rest == end - e.end_chunk
      <4>4. rest = left
        BY <2>2, <2>6, <4>3
      <4> HIDE DEF rest, left, e
      <4>5. ReadFrom(i - 1, call) =
              [from |-> Fsid_list[(i - 1) + 1].start_chunk, left |-> rest,
               read |-> <<>> \o OnDisk(e.fsid, 1 + m - e.start_chunk, e.end_chunk - m),
               state |-> "reading"]
        BY <3>2, <4>2 DEF rest
      <4>6. QED
        BY <4>4, <4>5
    <3>6. QED
      BY <2>6, <2>7, <3>3, <3>5 DEF call
  <2> HIDE DEF left, read
  <2>11. next.state = "done"
    <3>1. /\ i \in 0..(Len(Parts(r)) - 1) /\ b \in Int /\ left \in Nat
          /\ FirstNumber(r)[i + 1] <= b /\ b + left <= EndChunk(r, i + 1)
      BY <2>1, <2>2, <2>5, <2>8, <2>9
    <3>2. NextCall([from |-> b, left |-> left, read |-> read, state |-> "reading"]) =
            [from |-> b, left |-> left, state |-> "done",
             read |-> read \o OnDisk(<<r, i + 1>>, 1 + b - FirstNumber(r)[i + 1], left)]
      BY <3>1, LastCall, Zenon
    <3>3. QED
      BY <3>2
  <2> HIDE DEF next, d
  <2>12. mfs_multifsid_pread_X(m, k) = Result(next)
    BY <2>10, <2>11, ShortChain DEF next
  <2>13. Result(next).ok = (next.state = "done")
    BY DEF Result
  <2>14. QED
    BY <2>11, <2>12, <2>13
<1>7. QED
  BY <1>1, <1>4, <1>5, <1>6
=============================================================================

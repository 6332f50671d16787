------------------------- MODULE VideoPassesProofs -------------------------
(***************************************************************************)
(* Proofs about VideoPasses, the main loop of tydemux around the list of   *)
(* video holders: for every recorder, every way in which holders arrive,   *)
(* every limit and any number of rounds, gaps and repairs.                 *)
(*                                                                         *)
(* Nothing in the program says where a frontier may be.  What holds is     *)
(* said here list by list (Walkable): every frontier in it is at a         *)
(* sequence header, those of later passes are behind those of earlier      *)
(* ones, and all sequences up to a frontier have been through the passes   *)
(* up to that one.  The passes add, drop and turn holders, the repair cuts *)
(* lists in two, the writer drops their front: each is an edit of a list   *)
(* (Edit) that says where every holder was before, and one lemma shows     *)
(* which edits keep a list walkable (EditedList), another one where a      *)
(* frontier may go (Advanced).                                             *)
(***************************************************************************)
EXTENDS VideoPasses, FiniteSetTheorems, SequenceTheorems, WellFoundedInduction, TLAPS

(* The order of the passes.                                                *)
Rank == [seq |-> 1, p_frame |-> 2, tmp_ref |-> 3, field |-> 4, av_drift |-> 5,
         gop_counter |-> 6]

(* The passes that check and renumber the pictures of a GOP.               *)
Renumbering == {"tmp_ref", "field", "av_drift", "gop_counter"}

(* Which of them has a GOP been through when p is done with it?            *)
Seen(p) == {q \in Renumbering : Rank[q] <= Rank[p]}

(* Does the frontier of p bound the passes behind it?                      *)
Bounds(p, s) == p # "seq" \/ s = "S1"

(* The ids used so far.                                                    *)
UsedIds(n, r) == (-n)..r

(* Every holder has an id of its own.                                      *)
WellFormed(l, b) ==
    /\ l \in Seq(Holder)
    /\ \A i \in DOMAIN l : l[i].id \in b \ {0}
    /\ \A i, j \in DOMAIN l : l[i].id = l[j].id => i = j

(* What the passes rely on in each list that a frontier can be in.         *)
Walkable(l, F, s) ==
    /\ \A p \in Passes, i \in DOMAIN l : l[i].id = F[p] => l[i].seq
    /\ \A p, q \in Passes, i, j \in DOMAIN l :
         l[i].id = F[p] /\ l[j].id = F[q] /\ Rank[p] < Rank[q] /\ Bounds(p, s) => j < i
    /\ \A p \in Renumbering, i, j \in DOMAIN l :
         l[j].id = F[p] /\ i <= j /\ l[i].seq => Seen(p) \subseteq l[i].done
    /\ \A i \in DOMAIN l : s = "S1" /\ l[i].id = F["seq"] => l[i].frame \notin {"B", "P"}

(* The lists share no holder.                                              *)
Disjoint(l, m) == Ids(l) \cap Ids(m) = {}

Separate(v, k, js) ==
    /\ \A l \in js : Disjoint(v, l)
    /\ \A l, m \in js : l = m \/ Disjoint(l, m)
    /\ \A l \in {v} \cup js : Disjoint(k, l)

(* A frontier moves only after the one before it has.                      *)
Frontiers(v, js, F, s, b) ==
    /\ F \in [Passes -> b]
    /\ \A p \in Passes \ {"seq"} : F[p] # 0 => F[Before(p)] # 0
    /\ \A p \in Passes :
         F[p] # 0 /\ Bounds(p, s) => \E l \in {v} \cup js : F[p] \in Ids(l)

ListsOK(v, k, js, F, s, b) ==
    /\ \A l \in {v} \cup js : WellFormed(l, b) /\ Walkable(l, F, s)
    /\ WellFormed(k, b) /\ Len(k) <= 1
    /\ Separate(v, k, js)
    /\ Frontiers(v, js, F, s, b)

(* S1: up to the first pass every sequence header is where it belongs.     *)
InPlace(l, F) ==
    \A i, j \in DOMAIN l :
        l[j].id = F["seq"] /\ i <= j /\ l[i].seq => l[i].frame \notin {"B", "P"}

NoGap(l) == \A i \in DOMAIN l : ~l[i].gap

(* S1: up to the sequence at i, where the first pass is.                   *)
Forward(v, F, l, i) ==
    /\ l[i].seq
    /\ F["seq"] # 0 => \E j \in 1..i : l[j].id = F["seq"]
    /\ l = v => \A k \in 1..(i - 1) : l[k].seq => l[k].frame \notin {"B", "P"}

TmpSound ==
    /\ pc = "seq" /\ series = "S1"
    /\ \E l \in {video} \cup junk : \E i \in DOMAIN l :
         l[i].id = tmp /\ Forward(video, lf, l, i)

(* The variables that hold no list, and what they say about it in each     *)
(* phase of the main loop.                                                 *)
Scalars ==
    /\ series \in Series /\ std_alone \in Modes
    /\ tmp \in Int /\ repair \in BOOLEAN /\ find_seq \in BOOLEAN
    /\ counter \in 0..(CloseTries + 1)
    /\ pc \in Passes \cup {"read", "init", "repair", "write", "stopped", "exited", "undefined"}
    /\ nr \in Nat /\ new \in Nat /\ rounds \in 0..MaxRounds /\ odd \in 0..MaxOdd

Phases ==
    /\ ~find_seq => lf = [p \in Passes |-> 0] /\ junk = {} /\ kept = <<>>
    /\ pc = "init" => ~find_seq
    /\ pc \in Passes \cup {"write"} => find_seq /\ ~repair
    /\ counter > CloseTries => pc = "exited"

(* The inductive invariant.  On S2 a pass may start at the first holder    *)
(* without asking where the first pass is: it must be a sequence.          *)
IInv ==
    /\ Scalars /\ Phases
    /\ ListsOK(video, kept, junk, lf, series, UsedIds(new, nr))
    /\ series = "S1" => InPlace(video, lf)
    /\ ~repair => NoGap(video)
    /\ tmp # 0 => TmpSound
    /\ find_seq /\ series = "S2" /\ lf["p_frame"] = 0 => video # <<>> /\ video[1].seq
-----------------------------------------------------------------------------
(* The least and the greatest number of a set.                             *)
LEMMA LeastNumber ==
    ASSUME NEW T, T \subseteq Nat, T # {}
    PROVE  \E x \in T : \A y \in T : x <= y
<1>1. IsWellFoundedOn(OpToRel(<, Nat), Nat)
  BY NatLessThanWellFounded
<1>2. PICK x \in T : \A y \in T : ~ (<<y, x>> \in OpToRel(<, Nat))
  BY <1>1, WFMin
<1>3. \A y \in T : ~(y < x)
  BY <1>2 DEF OpToRel
<1>4. QED
  BY <1>3

LEMMA GreatestNumber ==
    ASSUME NEW n \in Nat, NEW T, T \subseteq 0..n, T # {}
    PROVE  \E x \in T : \A y \in T : y <= x
<1> DEFINE U == {n - y : y \in T}
<1>1. U \subseteq Nat /\ U # {}
  <2>1. PICK y \in T : TRUE
    OBVIOUS
  <2>2. n - y \in U
    OBVIOUS
  <2>3. U \subseteq Nat
    OBVIOUS
  <2>4. QED
    BY <2>2, <2>3
<1>2. PICK u \in U : \A y \in U : u <= y
  BY <1>1, LeastNumber
<1>3. PICK x \in T : u = n - x
  BY <1>2
<1>4. \A y \in T : n - y \in U
  OBVIOUS
<1>5. \A y \in T : n - x <= n - y
  BY <1>2, <1>3, <1>4
<1>6. QED
  BY <1>3, <1>5

LEMMA LeastFacts ==
    ASSUME NEW S, S \subseteq Nat, NEW d
    PROVE  /\ S = {} => Least(S, d) = d
           /\ S # {} => Least(S, d) \in S /\ \A m \in S : Least(S, d) <= m
  BY LeastNumber DEF Least

(* Which sequence is the next one?                                         *)
LEMMA NextSeqFacts ==
    ASSUME NEW l \in Seq(Holder), NEW i \in DOMAIN l
    PROVE  /\ NextSeq(l, i) \in {0} \cup (i + 1)..Len(l)
           /\ NextSeq(l, i) # 0 => l[NextSeq(l, i)].seq
           /\ NextSeq(l, i) = 0 => \A k \in (i + 1)..Len(l) : ~l[k].seq
           /\ NextSeq(l, i) # 0 => \A k \in (i + 1)..(NextSeq(l, i) - 1) : ~l[k].seq
<1> DEFINE S == SeqsIn(l, i + 1, Len(l))
<1>1. S \subseteq Nat /\ S \subseteq (i + 1)..Len(l) /\ 0 \notin S
  BY DEF SeqsIn
<1>2. \A k \in (i + 1)..Len(l) : k \in S <=> l[k].seq
  BY DEF SeqsIn
<1>3. NextSeq(l, i) = Least(S, 0)
  BY DEF NextSeq
<1> HIDE DEF S
<1>4. CASE S = {}
  <2>1. NextSeq(l, i) = 0
    BY <1>1, <1>3, <1>4, LeastFacts
  <2>2. QED
    BY <1>2, <1>4, <2>1
<1>5. CASE S # {}
  <2> DEFINE n == NextSeq(l, i)
  <2> HIDE DEF n
  <2>1. n \in S /\ \A m \in S : n <= m
    <3>1. Least(S, 0) \in S /\ \A m \in S : Least(S, 0) <= m
      BY <1>1, <1>5, LeastFacts
    <3>2. QED
      BY <1>3, <3>1 DEF n
  <2>2. n \in (i + 1)..Len(l) /\ n # 0 /\ l[n].seq
    BY <1>1, <1>2, <2>1
  <2>3. \A k \in (i + 1)..(n - 1) : ~l[k].seq
    BY <1>2, <2>1, <2>2
  <2>4. QED
    BY <2>2, <2>3 DEF n
<1>6. QED
  BY <1>4, <1>5

(* A holder is found in its list.                                          *)
LEMMA Located ==
    ASSUME NEW b, Separate(video, kept, junk), NEW l \in {video} \cup junk,
           WellFormed(l, b), NEW i \in DOMAIN l
    PROVE  ListOf(l[i].id) = l /\ Index(l, l[i].id) = i /\ l[i].id \in Ids(l)
<1>1. l[i].id \in Ids(l)
  BY DEF Ids
<1>2. \A m \in {video} \cup junk : l[i].id \in Ids(m) => m = l
  BY <1>1 DEF Separate, Disjoint
<1>3. \A j \in DOMAIN l : l[j].id = l[i].id => j = i
  BY DEF WellFormed
<1>4. ListOf(l[i].id) = l
  BY <1>1, <1>2 DEF ListOf
<1>5. QED
  BY <1>1, <1>3, <1>4 DEF Index

-----------------------------------------------------------------------------
(* An edit of a list: g says where each holder was before, and 0 of a new  *)
(* one, whose id comes from b2.                                            *)
Edit(l, m, g, b, b2) ==
    /\ m \in Seq(Holder) /\ g \in [DOMAIN m -> {0} \cup DOMAIN l]
    /\ \A k \in DOMAIN m : g[k] = 0 => m[k].id \in b2 \ b
    /\ \A k \in DOMAIN m : g[k] # 0 =>
         /\ m[k].id = l[g[k]].id /\ m[k].gap = l[g[k]].gap
         /\ m[k].frame \in {l[g[k]].frame, "none"} /\ l[g[k]].done \subseteq m[k].done
    /\ \A j, k \in DOMAIN m : g[j] = 0 /\ g[k] = 0 /\ m[j].id = m[k].id => j = k
    /\ \A j, k \in DOMAIN m : j < k /\ g[j] # 0 /\ g[k] # 0 => g[j] < g[k]

(* It leaves the frontiers alone, and starts a GOP only behind them.       *)
Keeps(l, m, g, F) ==
    /\ \A p \in Passes, k \in DOMAIN m : g[k] # 0 /\ l[g[k]].id = F[p] => m[k].seq
    /\ \A k \in DOMAIN m : m[k].seq =>
         \/ g[k] # 0 /\ l[g[k]].seq
         \/ \A p \in Renumbering, j \in DOMAIN m : g[j] # 0 /\ l[g[j]].id = F[p] => j < k

(* Such an edit keeps the list walkable.                                   *)
LEMMA EditedList ==
    ASSUME NEW b, NEW b2, NEW l, NEW m, NEW g, NEW F \in [Passes -> b], NEW s,
           0 \in b, b \subseteq b2, WellFormed(l, b), Walkable(l, F, s),
           Edit(l, m, g, b, b2), Keeps(l, m, g, F)
    PROVE  /\ WellFormed(m, b2) /\ Walkable(m, F, s)
           /\ \A x \in Ids(m) : x \in Ids(l) \/ x \notin b
<1>1. l \in Seq(Holder) /\ m \in Seq(Holder) /\ g \in [DOMAIN m -> {0} \cup DOMAIN l]
  BY DEF WellFormed, Edit
<1>2. \A k \in DOMAIN m : m[k].id \in b => g[k] # 0 /\ g[k] \in DOMAIN l
  BY <1>1 DEF Edit
<1>3. \A k \in DOMAIN m : g[k] # 0 =>
        /\ m[k].id = l[g[k]].id /\ m[k].id \in b \ {0}
        /\ m[k].frame \in {l[g[k]].frame, "none"} /\ l[g[k]].done \subseteq m[k].done
  BY <1>1 DEF Edit, WellFormed
<1>4. \A j, k \in DOMAIN m : j < k /\ g[j] # 0 /\ g[k] # 0 => g[j] < g[k]
  BY DEF Edit
<1>5. \A j, k \in DOMAIN m : g[j] # 0 /\ g[k] # 0 /\ g[j] < g[k] => j < k
  BY <1>1, <1>4
<1>6. \A j, k \in DOMAIN m : g[j] # 0 /\ g[k] # 0 /\ j <= k => g[j] <= g[k]
  BY <1>1, <1>4
<1>7. WellFormed(m, b2)
  <2>1. \A k \in DOMAIN m : m[k].id \in b2 \ {0}
    BY <1>3 DEF Edit
  <2>2. ASSUME NEW j \in DOMAIN m, NEW k \in DOMAIN m, m[j].id = m[k].id
        PROVE  j = k
    <3>1. CASE g[j] = 0 /\ g[k] = 0
      BY <2>2, <3>1 DEF Edit
    <3>2. CASE g[j] # 0 /\ g[k] # 0
      <4>1. g[j] = g[k]
        BY <1>1, <1>3, <2>2, <3>2 DEF WellFormed
      <4>2. QED
        BY <1>1, <1>4, <3>2, <4>1
    <3>3. QED
      BY <1>3, <2>2, <3>1, <3>2 DEF Edit
  <2>3. QED
    BY <1>1, <2>1, <2>2 DEF WellFormed
<1>8. \A p \in Passes, k \in DOMAIN m : m[k].id = F[p] => g[k] # 0 /\ l[g[k]].id = F[p]
  BY <1>2, <1>3
<1>9. Walkable(m, F, s)
  <2>1. \A p \in Passes, k \in DOMAIN m : m[k].id = F[p] => m[k].seq
    BY <1>8 DEF Keeps
  <2>2. ASSUME NEW p \in Passes, NEW q \in Passes, NEW i \in DOMAIN m, NEW j \in DOMAIN m,
               m[i].id = F[p], m[j].id = F[q], Rank[p] < Rank[q], Bounds(p, s)
        PROVE  j < i
    <3>1. g[j] < g[i]
      BY <1>1, <1>8, <2>2 DEF Walkable
    <3>2. QED
      BY <1>5, <1>8, <2>2, <3>1
  <2>3. ASSUME NEW p \in Renumbering, NEW i \in DOMAIN m, NEW j \in DOMAIN m,
               m[j].id = F[p], i <= j, m[i].seq
        PROVE  Seen(p) \subseteq m[i].done
    <3>1. p \in Passes
      BY DEF Renumbering, Passes
    <3>2. g[j] # 0 /\ l[g[j]].id = F[p]
      BY <1>8, <2>3, <3>1
    <3>3. g[i] # 0 /\ l[g[i]].seq
      BY <1>1, <2>3, <3>2 DEF Keeps
    <3>4. g[i] <= g[j]
      BY <1>6, <2>3, <3>2, <3>3
    <3>5. Seen(p) \subseteq l[g[i]].done
      BY <1>1, <2>3, <3>2, <3>3, <3>4 DEF Walkable
    <3>6. QED
      BY <1>3, <3>3, <3>5
  <2>4. ASSUME NEW i \in DOMAIN m, s = "S1", m[i].id = F["seq"]
        PROVE  m[i].frame \notin {"B", "P"}
    <3>1. g[i] # 0 /\ g[i] \in DOMAIN l /\ l[g[i]].id = F["seq"]
      BY <1>1, <1>8, <2>4 DEF Passes
    <3>2. l[g[i]].frame \notin {"B", "P"}
      BY <2>4, <3>1 DEF Walkable
    <3>3. QED
      BY <1>3, <3>1, <3>2
  <2>5. QED
    BY <2>1, <2>2, <2>3, <2>4 DEF Walkable
<1>10. \A x \in Ids(m) : x \in Ids(l) \/ x \notin b
  BY <1>1, <1>2, <1>3 DEF Ids
<1>11. QED
  BY <1>7, <1>9, <1>10

-----------------------------------------------------------------------------
(* The lists as a whole, when one of them is edited and when a frontier    *)
(* moves on.                                                               *)
Replaces(v, js, l, m, v2, js2) ==
    \/ l = v /\ v2 = m /\ js2 = js
    \/ l # v /\ v2 = v /\ js2 = (js \ {l}) \cup {m}

KeepsAll(l, m, g, F, b, b2) ==
    /\ 0 \in b /\ b \subseteq b2
    /\ Edit(l, m, g, b, b2) /\ Keeps(l, m, g, F)
    /\ \A p \in Passes : F[p] # 0 /\ F[p] \in Ids(l) => F[p] \in Ids(m)

LEMMA Replaced ==
    ASSUME NEW b, NEW b2, NEW v, NEW k, NEW js, NEW v2, NEW js2, NEW F, NEW s,
           NEW l, NEW m, NEW g,
           ListsOK(v, k, js, F, s, b), KeepsAll(l, m, g, F, b, b2),
           l \in {v} \cup js, Replaces(v, js, l, m, v2, js2)
    PROVE  ListsOK(v2, k, js2, F, s, b2) /\ m \in {v2} \cup js2
<1> USE DEF KeepsAll
<1>1. F \in [Passes -> b] /\ F \in [Passes -> b2]
  BY DEF ListsOK, Frontiers
<1>2. \A x \in {v} \cup js : WellFormed(x, b) /\ Walkable(x, F, s)
  BY DEF ListsOK
<1>3. /\ WellFormed(m, b2) /\ Walkable(m, F, s)
      /\ \A x \in Ids(m) : x \in Ids(l) \/ x \notin b
  BY <1>1, <1>2, EditedList
<1>4. \A x : WellFormed(x, b) => WellFormed(x, b2) /\ Ids(x) \subseteq b
  BY DEF WellFormed, Ids
<1>5. \A x \in {v2} \cup js2 : x = m \/ (x \in {v} \cup js /\ x # l)
                                 \/ (x = v /\ x \in js /\ l = v)
  BY DEF Replaces
<1>6. m \in {v2} \cup js2
  BY DEF Replaces
<1>7. \A x \in {v2} \cup js2 : WellFormed(x, b2) /\ Walkable(x, F, s)
  BY <1>2, <1>3, <1>4, <1>5
<1>8. \A x : WellFormed(x, b) /\ Disjoint(l, x) => Disjoint(m, x) /\ Disjoint(x, m)
  BY <1>3, <1>4 DEF Disjoint
<1>9. WellFormed(k, b2) /\ Len(k) <= 1 /\ Disjoint(k, l) /\ WellFormed(k, b)
  BY <1>4 DEF ListsOK, Separate
<1>10. Separate(v2, k, js2)
  <2>1. Separate(v, k, js)
    BY DEF ListsOK
  <2>2. \A x \in js : x # l => Disjoint(l, x)
    BY <2>1 DEF Separate, Disjoint
  <2>3. CASE l = v /\ v2 = m /\ js2 = js
    <3>1. \A x \in js2 : Disjoint(v2, x)
      BY <1>2, <1>8, <2>1, <2>3 DEF Separate
    <3>2. Disjoint(k, m)
      BY <1>8, <1>9 DEF Disjoint
    <3>3. QED
      BY <2>1, <2>3, <3>1, <3>2 DEF Separate
  <2>4. CASE l # v /\ v2 = v /\ js2 = (js \ {l}) \cup {m}
    <3>1. l \in js /\ Disjoint(l, v)
      BY <2>1, <2>4 DEF Separate, Disjoint
    <3>2. Disjoint(v, m) /\ Disjoint(k, m)
      BY <1>2, <1>8, <1>9, <3>1 DEF Disjoint
    <3>3. \A x \in js \ {l} : Disjoint(m, x) /\ Disjoint(x, m)
      BY <1>2, <1>8, <2>2
    <3>4. QED
      BY <2>1, <2>4, <3>2, <3>3 DEF Separate
  <2>5. QED
    BY <2>3, <2>4 DEF Replaces
<1>11. Frontiers(v2, js2, F, s, b2)
  <2>1. ASSUME NEW p \in Passes, F[p] # 0, Bounds(p, s)
        PROVE  \E x \in {v2} \cup js2 : F[p] \in Ids(x)
    <3>1. PICK x \in {v} \cup js : F[p] \in Ids(x)
      BY <2>1 DEF ListsOK, Frontiers
    <3>2. CASE x = l
      BY <1>6, <2>1, <3>1, <3>2
    <3>3. CASE x # l
      BY <3>1, <3>3 DEF Replaces
    <3>4. QED
      BY <3>2, <3>3
  <2>2. QED
    BY <1>1, <2>1 DEF ListsOK, Frontiers
<1>12. QED
  BY <1>6, <1>7, <1>9, <1>10, <1>11 DEF ListsOK

(* What the holder at i must be for the frontier of p to move there.       *)
Reachable(l, i, p, F, s) ==
    /\ l[i].seq
    /\ p # "seq" => F[Before(p)] # 0
    /\ \A q \in Passes, j \in DOMAIN l :
         l[j].id = F[q] =>
           /\ Rank[q] < Rank[p] /\ Bounds(q, s) => i < j
           /\ Rank[p] < Rank[q] /\ Bounds(p, s) => j < i
    /\ p \in Renumbering => \A j \in 1..i : l[j].seq => Seen(p) \subseteq l[j].done
    /\ p = "seq" /\ s = "S1" => l[i].frame \notin {"B", "P"}

LEMMA Advanced ==
    ASSUME NEW b, NEW v, NEW k, NEW js, NEW F, NEW s,
           NEW l \in {v} \cup js, NEW i \in DOMAIN l, NEW p \in Passes,
           ListsOK(v, k, js, F, s, b), Reachable(l, i, p, F, s)
    PROVE  ListsOK(v, k, js, [F EXCEPT ![p] = l[i].id], s, b)
<1> DEFINE G == [F EXCEPT ![p] = l[i].id]
<1>1. F \in [Passes -> b]
  BY DEF ListsOK, Frontiers
<1>2. \A x \in {v} \cup js : WellFormed(x, b) /\ Walkable(x, F, s)
  BY DEF ListsOK
<1>3. G \in [Passes -> b] /\ G[p] = l[i].id /\ \A q \in Passes : q # p => G[q] = F[q]
  BY <1>1, <1>2 DEF WellFormed
<1>4. l[i].id # 0 /\ l[i].id \in Ids(l) /\ l \in Seq(Holder)
  BY <1>2 DEF WellFormed, Ids
<1>5. \A x \in {v} \cup js : \A j \in DOMAIN x : x[j].id = l[i].id => x = l /\ j = i
  <2>1. ASSUME NEW x \in {v} \cup js, NEW j \in DOMAIN x, x[j].id = l[i].id
        PROVE  x = l
    <3>1. l[i].id \in Ids(x)
      BY <2>1 DEF Ids
    <3>2. QED
      BY <1>4, <3>1 DEF ListsOK, Separate, Disjoint
  <2>2. \A j \in DOMAIN l : l[j].id = l[i].id => j = i
    BY <1>2 DEF WellFormed
  <2>3. QED
    BY <2>1, <2>2
<1> HIDE DEF G
<1>6. ASSUME NEW x \in {v} \cup js
      PROVE  Walkable(x, G, s)
  <2>1. \A q \in Passes, j \in DOMAIN x : x[j].id = G[q] => x[j].seq
    BY <1>2, <1>3, <1>5, <1>6 DEF Walkable, Reachable
  <2>2. ASSUME NEW q \in Passes, NEW r \in Passes, NEW c \in DOMAIN x, NEW d \in DOMAIN x,
               x[c].id = G[q], x[d].id = G[r], Rank[q] < Rank[r], Bounds(q, s)
        PROVE  d < c
    <3>1. CASE q # p /\ r # p
      BY <1>2, <1>3, <1>6, <2>2, <3>1 DEF Walkable
    <3>2. CASE q = p /\ r # p
      BY <1>3, <1>5, <1>6, <2>2, <3>2 DEF Reachable
    <3>3. CASE q # p /\ r = p
      BY <1>3, <1>5, <1>6, <2>2, <3>3 DEF Reachable
    <3>4. CASE q = p /\ r = p
      BY <2>2, <3>4 DEF Rank, Passes
    <3>5. QED
      BY <3>1, <3>2, <3>3, <3>4
  <2>3. ASSUME NEW q \in Renumbering, NEW c \in DOMAIN x, NEW d \in DOMAIN x,
               x[d].id = G[q], c <= d, x[c].seq
        PROVE  Seen(q) \subseteq x[c].done
    <3>1. q \in Passes
      BY DEF Renumbering, Passes
    <3>2. CASE q = p
      <4>1. x = l /\ d = i /\ c \in 1..i
        BY <1>3, <1>4, <1>5, <1>6, <2>3, <3>2
      <4>2. QED
        BY <2>3, <3>2, <4>1 DEF Reachable
    <3>3. CASE q # p
      BY <1>2, <1>3, <1>6, <2>3, <3>1, <3>3 DEF Walkable
    <3>4. QED
      BY <3>2, <3>3
  <2>4. \A j \in DOMAIN x : s = "S1" /\ x[j].id = G["seq"] => x[j].frame \notin {"B", "P"}
    <3>1. CASE p = "seq"
      BY <1>3, <1>5, <1>6, <3>1 DEF Reachable
    <3>2. CASE p # "seq"
      <4>1. G["seq"] = F["seq"]
        BY <1>3, <3>2 DEF Passes
      <4>2. QED
        BY <1>2, <1>6, <4>1 DEF Walkable
    <3>3. QED
      BY <3>1, <3>2
  <2>5. QED
    BY <2>1, <2>2, <2>3, <2>4 DEF Walkable
<1>7. Frontiers(v, js, G, s, b)
  <2>1. \A q \in Passes \ {"seq"} : G[q] # 0 => G[Before(q)] # 0
    <3>1. \A q \in Passes \ {"seq"} : F[q] # 0 => F[Before(q)] # 0
      BY DEF ListsOK, Frontiers
    <3>2. \A q \in Passes \ {"seq"} : Before(q) \in Passes
      BY DEF Before, Passes
    <3>3. \A q \in Passes : F[q] # 0 => G[q] # 0
      BY <1>3, <1>4
    <3>4. QED
      BY <1>3, <3>1, <3>2, <3>3 DEF Reachable
  <2>2. ASSUME NEW q \in Passes, G[q] # 0, Bounds(q, s)
        PROVE  \E x \in {v} \cup js : G[q] \in Ids(x)
    BY <1>3, <1>4, <2>2 DEF ListsOK, Frontiers
  <2>3. QED
    BY <1>3, <2>1, <2>2 DEF Frontiers
<1>8. ListsOK(v, k, js, G, s, b)
  BY <1>2, <1>6, <1>7 DEF ListsOK
<1>9. QED
  BY <1>8 DEF G

(* S1: the sequence headers stay in place.                                 *)
LEMMA EditedInPlace ==
    ASSUME NEW b, NEW b2, NEW l, NEW m, NEW g, NEW F \in [Passes -> b],
           WellFormed(l, b), Edit(l, m, g, b, b2), InPlace(l, F),
           \A k \in DOMAIN m : m[k].seq =>
             \/ g[k] # 0 /\ l[g[k]].seq
             \/ m[k].frame \notin {"B", "P"}
             \/ \A j \in DOMAIN m : g[j] # 0 /\ l[g[j]].id = F["seq"] => j < k
    PROVE  InPlace(m, F)
<1>1. l \in Seq(Holder) /\ m \in Seq(Holder) /\ g \in [DOMAIN m -> {0} \cup DOMAIN l]
  BY DEF WellFormed, Edit
<1>2. F["seq"] \in b
  BY DEF Passes
<1>3. ASSUME NEW i \in DOMAIN m, NEW j \in DOMAIN m, m[j].id = F["seq"], i <= j, m[i].seq
      PROVE  m[i].frame \notin {"B", "P"}
  <2>1. g[j] # 0 /\ g[j] \in DOMAIN l /\ l[g[j]].id = F["seq"]
    BY <1>1, <1>2, <1>3 DEF Edit
  <2>2. CASE g[i] # 0 /\ l[g[i]].seq
    <3>1. g[i] <= g[j] /\ g[i] \in DOMAIN l
      <4>1. CASE i = j
        BY <1>1, <2>1, <4>1
      <4>2. CASE i < j
        BY <1>1, <2>1, <2>2, <4>2 DEF Edit
      <4>3. QED
        BY <1>1, <1>3, <4>1, <4>2
    <3>2. l[g[i]].frame \notin {"B", "P"}
      BY <2>1, <2>2, <3>1 DEF InPlace
    <3>3. QED
      BY <2>2, <3>2 DEF Edit
  <2>3. CASE \A c \in DOMAIN m : g[c] # 0 /\ l[g[c]].id = F["seq"] => c < i
    BY <1>1, <1>3, <2>1, <2>3
  <2>4. QED
    BY <1>3, <2>2, <2>3
<1>4. QED
  BY <1>3 DEF InPlace

(* No gap comes in.                                                        *)
LEMMA EditedNoGap ==
    ASSUME NEW b, NEW b2, NEW l, NEW m, NEW g, l \in Seq(Holder),
           Edit(l, m, g, b, b2), NoGap(l), \A k \in DOMAIN m : g[k] = 0 => ~m[k].gap
    PROVE  NoGap(m)
<1>1. \A k \in DOMAIN m : g[k] # 0 => g[k] \in DOMAIN l /\ m[k].gap = l[g[k]].gap
  BY DEF Edit
<1>2. QED
  BY <1>1 DEF NoGap

-----------------------------------------------------------------------------
(* Where a pass that is ready goes on: behind its own frontier and those   *)
(* of the passes after it, before those of the passes ahead of it.         *)
LEMMA IsOkayFacts ==
    ASSUME NEW b, Separate(video, kept, junk), NEW l \in {video} \cup junk,
           WellFormed(l, b), NEW i \in DOMAIN l, NEW to_check,
           is_okay(l[i].id, to_check) # 0
    PROVE  l[i].seq /\ \E j \in DOMAIN l : l[j].id = to_check /\ i < j
<1>1. ListOf(l[i].id) = l /\ Index(l, l[i].id) = i
  BY Located
<1>2. /\ l[i].seq /\ to_check \in Ids(l)
      /\ Cardinality(SeqsIn(l, i, Index(l, to_check) - 1)) # 0
  BY <1>1 DEF is_okay
<1>3. PICK j \in DOMAIN l : l[j].id = to_check
  BY <1>2 DEF Ids
<1>4. Index(l, to_check) = j
  BY <1>3, Located
<1>5. SeqsIn(l, i, j - 1) # {}
  BY <1>2, <1>4, FS_EmptySet
<1>6. i < j
  BY <1>5 DEF SeqsIn, WellFormed
<1>7. QED
  BY <1>2, <1>3, <1>6

(* What the holder at i is when p is ready for the GOP there.              *)
Startable(l, i, p, F, s) ==
    /\ l[i].seq
    /\ F[Before(p)] # 0
    /\ \A q \in Passes, j \in DOMAIN l :
         l[j].id = F[q] =>
           /\ Rank[q] < Rank[p] /\ Bounds(q, s) => i < j
           /\ Rank[p] <= Rank[q] => j < i
    /\ p \in Renumbering =>
         \A j \in 1..i : l[j].seq =>
            Seen(p) \subseteq l[j].done \cup (IF j = i THEN {p} ELSE {})

LEMMA RankFacts ==
    ASSUME NEW p \in Passes \ {"seq"}
    PROVE  /\ Before(p) \in Passes /\ Rank[Before(p)] = Rank[p] - 1
           /\ Rank[p] \in 2..6
           /\ \A q \in Passes : /\ Rank[q] \in 1..6
                                /\ Rank[q] < Rank[p] => q = Before(p) \/ Rank[q] < Rank[Before(p)]
                                /\ Rank[p] <= Rank[q] => q = p \/ Rank[p] < Rank[q]
           /\ p \in Renumbering => Before(p) = "p_frame" \/ Before(p) \in Renumbering
           /\ p = "tmp_ref" <=> Before(p) = "p_frame"
           /\ p = "p_frame" <=> Before(p) = "seq"
  BY DEF Passes, Before, Rank, Renumbering

LEMMA SeenFacts ==
    ASSUME NEW p \in Renumbering
    PROVE  /\ p = "tmp_ref" => Seen(p) = {p}
           /\ p # "tmp_ref" => Before(p) \in Renumbering /\ Seen(p) = Seen(Before(p)) \cup {p}
<1>1. CASE p = "tmp_ref"
  BY <1>1 DEF Renumbering, Rank, Seen, Before
<1>2. CASE p = "field"
  BY <1>2 DEF Renumbering, Rank, Seen, Before
<1>3. CASE p = "av_drift"
  BY <1>3 DEF Renumbering, Rank, Seen, Before
<1>4. CASE p = "gop_counter"
  BY <1>4 DEF Renumbering, Rank, Seen, Before
<1>5. QED
  BY <1>1, <1>2, <1>3, <1>4 DEF Renumbering

(* No frontier of p or of a pass after it is set before the first call.    *)
LEMMA NoneBehind ==
    ASSUME NEW b, NEW F, NEW v, NEW js, NEW s, Frontiers(v, js, F, s, b),
           NEW p \in Passes, F[p] = 0
    PROVE  \A q \in Passes : Rank[p] <= Rank[q] => F[q] = 0
<1>1. \A q \in Passes \ {"seq"} : F[q] # 0 => F[Before(q)] # 0
  BY DEF Frontiers
<1>2. /\ F["seq"] = 0 => F["p_frame"] = 0
      /\ F["p_frame"] = 0 => F["tmp_ref"] = 0
      /\ F["tmp_ref"] = 0 => F["field"] = 0
      /\ F["field"] = 0 => F["av_drift"] = 0
      /\ F["av_drift"] = 0 => F["gop_counter"] = 0
  BY <1>1 DEF Passes, Before
<1>3. QED
  BY <1>2 DEF Passes, Rank

LEMMA ReadyFacts ==
    ASSUME IInv, find_seq, NEW p \in Passes \ {"seq"}, Ready(p)
    PROVE  \E l \in {video} \cup junk : \E i \in DOMAIN l :
             /\ StartOf(p) = l[i].id /\ ListOf(StartOf(p)) = l /\ Index(l, StartOf(p)) = i
             /\ NextSeq(l, i) # 0
             /\ Startable(l, i, p, lf, series)
<1> DEFINE b == UsedIds(new, nr)
           B == Before(p)
<1>1. /\ ListsOK(video, kept, junk, lf, series, b)
      /\ Separate(video, kept, junk) /\ Frontiers(video, junk, lf, series, b)
      /\ \A x \in {video} \cup junk : WellFormed(x, b) /\ Walkable(x, lf, series)
  BY DEF IInv, ListsOK
<1> HIDE DEF b
<1>2. /\ lf[B] # 0 /\ StartOf(p) # 0
      /\ (p = "p_frame" /\ series = "S2") \/ is_okay(StartOf(p), lf[B]) # 0
      /\ NextSeq(ListOf(StartOf(p)), Index(ListOf(StartOf(p)), StartOf(p))) # 0
  BY DEF Ready
(* Where it starts, and that no sequence lies between it and the frontier. *)
<1>3. \E l \in {video} \cup junk : \E i \in DOMAIN l :
        /\ StartOf(p) = l[i].id
        /\ p = "p_frame" /\ series = "S2" => l[i].seq
        /\ \A q \in Passes, j \in DOMAIN l : l[j].id = lf[q] /\ Rank[p] <= Rank[q] => j < i
        /\ \A j \in 1..(i - 1) : l[j].seq =>
             \E c \in DOMAIN l : l[c].id = lf[p] /\ j <= c
  <2>1. CASE lf[p] = 0
    <3>1. video # <<>> /\ StartOf(p) = video[1].id
      BY <1>2, <2>1 DEF StartOf, FirstId
    <3>2. 1 \in DOMAIN video /\ WellFormed(video, b)
      BY <1>1, <3>1 DEF WellFormed
    <3>3. p = "p_frame" /\ series = "S2" => video[1].seq
      BY <2>1 DEF IInv
    <3>4. \A q \in Passes : Rank[p] <= Rank[q] => lf[q] = 0
      BY <1>1, <2>1, NoneBehind
    <3>5. \A j \in DOMAIN video : video[j].id # 0
      BY <3>2 DEF WellFormed
    <3>6. QED
      BY <3>1, <3>2, <3>3, <3>4, <3>5
  <2>2. CASE lf[p] # 0
    <3>1. PICK l \in {video} \cup junk : lf[p] \in Ids(l)
      BY <1>1, <2>2 DEF Frontiers, Bounds
    <3>2. PICK c \in DOMAIN l : l[c].id = lf[p]
      BY <3>1 DEF Ids
    <3>3. WellFormed(l, b) /\ Walkable(l, lf, series)
      BY <1>1
    <3>4. ListOf(lf[p]) = l /\ Index(l, lf[p]) = c
      BY <1>1, <3>2, <3>3, Located
    <3>5. StartOf(p) = IdAt(l, NextSeq(l, c))
      BY <2>2, <3>4 DEF StartOf, next_seq_holder
    <3> DEFINE i == NextSeq(l, c)
    <3>6. i # 0 /\ StartOf(p) = l[i].id
      BY <1>2, <3>5 DEF IdAt
    <3>7. l \in Seq(Holder)
      BY <3>3 DEF WellFormed
    <3>8. i \in (c + 1)..Len(l) /\ l[i].seq /\ \A k \in (c + 1)..(i - 1) : ~l[k].seq
      BY <3>6, <3>7, NextSeqFacts
    <3> HIDE DEF i
    <3>9. ASSUME NEW q \in Passes, NEW j \in DOMAIN l, l[j].id = lf[q], Rank[p] <= Rank[q]
          PROVE  j < i
      <4>1. CASE q = p
        BY <3>2, <3>3, <3>7, <3>8, <3>9, <4>1 DEF WellFormed
      <4>2. CASE q # p
        <5>1. Rank[p] < Rank[q]
          BY <3>9, <4>2, RankFacts
        <5>2. j < c
          BY <3>2, <3>3, <3>9, <5>1 DEF Walkable, Bounds
        <5>3. QED
          BY <3>7, <3>8, <5>2
      <4>3. QED
        BY <4>1, <4>2
    <3>10. \A j \in 1..(i - 1) : l[j].seq => j <= c
      BY <3>7, <3>8
    <3>11. QED
      BY <3>2, <3>6, <3>7, <3>8, <3>9, <3>10
  <2>3. QED
    BY <2>1, <2>2
<1>4. PICK l \in {video} \cup junk : \E i \in DOMAIN l :
        /\ StartOf(p) = l[i].id
        /\ p = "p_frame" /\ series = "S2" => l[i].seq
        /\ \A q \in Passes, j \in DOMAIN l : l[j].id = lf[q] /\ Rank[p] <= Rank[q] => j < i
        /\ \A j \in 1..(i - 1) : l[j].seq =>
             \E c \in DOMAIN l : l[c].id = lf[p] /\ j <= c
  BY <1>3
<1>5. PICK i \in DOMAIN l :
        /\ StartOf(p) = l[i].id
        /\ p = "p_frame" /\ series = "S2" => l[i].seq
        /\ \A q \in Passes, j \in DOMAIN l : l[j].id = lf[q] /\ Rank[p] <= Rank[q] => j < i
        /\ \A j \in 1..(i - 1) : l[j].seq =>
             \E c \in DOMAIN l : l[c].id = lf[p] /\ j <= c
  BY <1>4
<1>6. WellFormed(l, b) /\ Walkable(l, lf, series) /\ l \in Seq(Holder)
  BY <1>1 DEF WellFormed
<1>7. ListOf(StartOf(p)) = l /\ Index(l, StartOf(p)) = i /\ NextSeq(l, i) # 0
  <2>1. ListOf(l[i].id) = l /\ Index(l, l[i].id) = i
    BY <1>1, <1>6, Located
  <2>2. QED
    BY <1>2, <1>5, <2>1
<1>8. \/ p = "p_frame" /\ series = "S2" /\ l[i].seq
      \/ l[i].seq /\ \E j \in DOMAIN l : l[j].id = lf[B] /\ i < j
  <2>1. CASE p = "p_frame" /\ series = "S2"
    BY <1>5, <2>1
  <2>2. CASE is_okay(StartOf(p), lf[B]) # 0
    <3>1. is_okay(l[i].id, lf[B]) # 0
      BY <1>5, <2>2
    <3>2. QED
      BY <1>1, <1>6, <3>1, IsOkayFacts
  <2>3. QED
    BY <1>2, <2>1, <2>2
<1>9. ASSUME NEW q \in Passes, NEW j \in DOMAIN l, l[j].id = lf[q], Rank[q] < Rank[p],
             Bounds(q, series)
      PROVE  i < j
  <2>1. CASE p = "p_frame" /\ series = "S2"
    BY <1>9, <2>1 DEF Rank, Passes, Bounds
  <2>2. CASE \E c \in DOMAIN l : l[c].id = lf[B] /\ i < c
    <3>1. PICK c \in DOMAIN l : l[c].id = lf[B] /\ i < c
      BY <2>2
    <3>2. CASE q = B
      BY <1>6, <1>9, <3>1, <3>2 DEF WellFormed
    <3>3. CASE q # B
      <4>1. Rank[q] < Rank[B] /\ B \in Passes
        BY <1>9, <3>3, RankFacts
      <4>2. c < j
        BY <1>6, <1>9, <3>1, <4>1 DEF Walkable
      <4>3. QED
        BY <1>6, <3>1, <4>2
    <3>4. QED
      BY <3>2, <3>3
  <2>3. QED
    BY <1>8, <2>1, <2>2
<1>10. ASSUME p \in Renumbering, NEW j \in 1..i, l[j].seq
       PROVE  Seen(p) \subseteq l[j].done \cup (IF j = i THEN {p} ELSE {})
  <2>1. j \in DOMAIN l
    BY <1>6
  <2>2. CASE j # i
    <3>1. PICK c \in DOMAIN l : l[c].id = lf[p] /\ j <= c
      BY <1>5, <1>6, <1>10, <2>2
    <3>2. Seen(p) \subseteq l[j].done
      BY <1>6, <1>10, <2>1, <3>1 DEF Walkable
    <3>3. QED
      BY <3>2
  <2>3. CASE j = i /\ p = "tmp_ref"
    BY <1>10, <2>3, SeenFacts
  <2>4. CASE j = i /\ p # "tmp_ref"
    <3>1. B \in Renumbering /\ Seen(p) = Seen(B) \cup {p}
      BY <1>10, <2>4, SeenFacts
    <3>2. PICK c \in DOMAIN l : l[c].id = lf[B] /\ i < c
      BY <1>8, <1>10 DEF Renumbering
    <3>3. Seen(B) \subseteq l[i].done
      BY <1>6, <1>8, <3>1, <3>2 DEF Walkable
    <3>4. QED
      BY <2>4, <3>1, <3>3
  <2>5. QED
    BY <2>2, <2>3, <2>4
<1>11. Startable(l, i, p, lf, series)
  BY <1>2, <1>5, <1>8, <1>9, <1>10 DEF Startable
<1>12. QED
  BY <1>5, <1>7, <1>11

-----------------------------------------------------------------------------
(* What a pass may do to the GOP at i: only behind i, and it keeps every   *)
(* sequence header.                                                        *)
Touch(l, m, g, i, b, b2) ==
    /\ Edit(l, m, g, b, b2)
    /\ i \in DOMAIN m /\ \A k \in 1..i : g[k] = k
    /\ \A k \in DOMAIN m : g[k] # 0 /\ l[g[k]].seq => m[k].seq
    /\ \A x \in DOMAIN l : l[x].seq => \E k \in DOMAIN m : g[k] = x
    /\ \A k \in DOMAIN m : m[k].seq =>
         (g[k] # 0 /\ l[g[k]].seq) \/ (i < k /\ m[k].frame \in {"I", l[i].frame})
    /\ \A k \in DOMAIN m : g[k] = 0 => ~m[k].gap

(* Only correct_overflow_in_frames makes a sequence.                       *)
NoNewSeq(l, m, g) == \A k \in DOMAIN m : m[k].seq => g[k] # 0 /\ l[g[k]].seq

(* InsertAt and RemoveAt, holder by holder.                                *)
Inserts(l, k, h, m) ==
    /\ m \in Seq(Holder) /\ Len(m) = Len(l) + 1
    /\ \A x \in 1..(Len(l) + 1) : m[x] = IF x < k THEN l[x] ELSE IF x = k THEN h ELSE l[x - 1]

LEMMA Inserted ==
    ASSUME NEW l \in Seq(Holder), NEW k \in 1..(Len(l) + 1), NEW h \in Holder
    PROVE  Inserts(l, k, h, InsertAt(l, k, h))
<1> DEFINE front == SubSeq(l, 1, k - 1)
           back == SubSeq(l, k, Len(l))
<1>1. front \in Seq(Holder) /\ Len(front) = k - 1 /\ \A x \in 1..(k - 1) : front[x] = l[x]
  OBVIOUS
<1>2. /\ back \in Seq(Holder) /\ Len(back) = Len(l) - k + 1
      /\ \A x \in 1..(Len(l) - k + 1) : back[x] = l[k + x - 1]
  OBVIOUS
<1> HIDE DEF front, back
<1>3. /\ front \o <<h>> \in Seq(Holder) /\ Len(front \o <<h>>) = k
      /\ \A x \in 1..k : (front \o <<h>>)[x] = IF x < k THEN l[x] ELSE h
  BY <1>1
<1> DEFINE start == front \o <<h>>
<1>4. /\ start \in Seq(Holder) /\ Len(start) = k
      /\ \A x \in 1..k : start[x] = IF x < k THEN l[x] ELSE h
  BY <1>3
<1> HIDE DEF start
<1>5. /\ start \o back \in Seq(Holder) /\ Len(start \o back) = Len(start) + Len(back)
      /\ \A x \in 1..(Len(start) + Len(back)) :
           (start \o back)[x] = IF x <= Len(start) THEN start[x] ELSE back[x - Len(start)]
  BY <1>2, <1>4, ConcatProperties
<1> DEFINE all == start \o back
<1>6. all \in Seq(Holder) /\ Len(all) = Len(l) + 1 /\ \A x \in 1..(Len(l) + 1) :
        all[x] = IF x < k THEN l[x] ELSE IF x = k THEN h ELSE l[x - 1]
  <2>1. k \in Nat /\ Len(l) \in Nat /\ k >= 1 /\ k <= Len(l) + 1
    OBVIOUS
  <2>2. /\ all \in Seq(Holder) /\ Len(all) = Len(l) + 1
        /\ \A x \in 1..(Len(l) + 1) : all[x] = IF x <= k THEN start[x] ELSE back[x - k]
    BY <1>2, <1>4, <1>5, <2>1
  <2> HIDE DEF all
  <2>3. \A x \in 1..(Len(l) + 1) : x > k => x - k \in 1..(Len(l) - k + 1) /\ k + (x - k) - 1 = x - 1
    BY <2>1
  <2>4. \A x \in 1..(Len(l) + 1) : x > k => all[x] = l[x - 1]
    BY <1>2, <2>1, <2>2, <2>3
  <2>5. \A x \in 1..(Len(l) + 1) : x <= k => all[x] = IF x < k THEN l[x] ELSE h
    BY <1>4, <2>1, <2>2
  <2>6. QED
    BY <2>1, <2>2, <2>4, <2>5
<1>7. InsertAt(l, k, h) = all
  BY DEF InsertAt, front, back, start
<1> HIDE DEF all
<1>8. QED
  BY <1>6, <1>7 DEF Inserts

LEMMA Removed ==
    ASSUME NEW l \in Seq(Holder), NEW k \in 1..Len(l)
    PROVE  /\ RemoveAt(l, k) \in Seq(Holder) /\ Len(RemoveAt(l, k)) = Len(l) - 1
           /\ \A x \in 1..(Len(l) - 1) :
                RemoveAt(l, k)[x] = IF x < k THEN l[x] ELSE l[x + 1]
<1> DEFINE front == SubSeq(l, 1, k - 1)
           back == SubSeq(l, k + 1, Len(l))
<1>1. front \in Seq(Holder) /\ Len(front) = k - 1 /\ \A x \in 1..(k - 1) : front[x] = l[x]
  OBVIOUS
<1>2. /\ back \in Seq(Holder) /\ Len(back) = Len(l) - k
      /\ \A x \in 1..(Len(l) - k) : back[x] = l[k + x]
  OBVIOUS
<1> HIDE DEF front, back
<1>3. front \o back \in Seq(Holder) /\ Len(front \o back) = Len(l) - 1
  BY <1>1, <1>2
<1>4. ASSUME NEW x \in 1..(Len(l) - 1)
      PROVE  (front \o back)[x] = IF x < k THEN l[x] ELSE l[x + 1]
  <2>1. CASE x < k
    BY <1>1, <1>2, <1>4, <2>1
  <2>2. CASE ~(x < k)
    <3>1. x - (k - 1) \in 1..(Len(l) - k) /\ (front \o back)[x] = back[x - (k - 1)]
      BY <1>1, <1>2, <1>4, <2>2
    <3>2. back[x - (k - 1)] = l[x + 1]
      BY <1>2, <3>1
    <3>3. QED
      BY <2>2, <3>1, <3>2
  <2>3. QED
    BY <2>1, <2>2
<1>5. QED
  BY <1>3, <1>4 DEF RemoveAt, front, back

(* A holder made by a pass has an id that no other one had.                *)
LEMMA FreshId ==
    ASSUME NEW n \in Nat, NEW r \in Nat
    PROVE  /\ -(n + 1) \in UsedIds(n + 1, r) \ UsedIds(n, r)
           /\ 0 \in UsedIds(n, r) /\ UsedIds(n, r) \subseteq UsedIds(n + 1, r)
  BY DEF UsedIds

(* A holder is put in at k.                                                *)
Shift(l, k) ==
    [x \in 1..(Len(l) + 1) |-> IF x < k THEN x ELSE IF x = k THEN 0 ELSE x - 1]

Shifted(l, m, g, k, h) ==
    /\ DOMAIN m = 1..(Len(l) + 1) /\ m[k] = h
    /\ \A x \in 1..(Len(l) + 1) : g[x] = IF x < k THEN x ELSE IF x = k THEN 0 ELSE x - 1
    /\ \A x \in 1..(Len(l) + 1) : x # k => g[x] # 0 /\ m[x] = l[g[x]]
    /\ \A x \in 1..Len(l) : \E y \in 1..(Len(l) + 1) : g[y] = x

LEMMA InsertIsEdit ==
    ASSUME NEW l \in Seq(Holder), NEW k \in 1..(Len(l) + 1), NEW h \in Holder,
           NEW b, NEW b2, h.id \in b2 \ b
    PROVE  /\ Edit(l, InsertAt(l, k, h), Shift(l, k), b, b2)
           /\ Shifted(l, InsertAt(l, k, h), Shift(l, k), k, h)
<1> DEFINE g == Shift(l, k)
           m == InsertAt(l, k, h)
<1>1. Inserts(l, k, h, m)
  BY Inserted
<1> HIDE DEF m
<1>2. DOMAIN m = 1..(Len(l) + 1) /\ DOMAIN l = 1..Len(l) /\ Len(l) \in Nat
  BY <1>1 DEF Inserts
<1>3. \A x \in 1..(Len(l) + 1) : g[x] = IF x < k THEN x ELSE IF x = k THEN 0 ELSE x - 1
  BY DEF Shift
<1>4. g \in [DOMAIN m -> {0} \cup DOMAIN l]
  BY <1>2 DEF Shift
<1> HIDE DEF g
<1>5. \A x \in DOMAIN m : g[x] = 0 <=> x = k
  BY <1>2, <1>3
<1>6. m[k] = h /\ \A x \in DOMAIN m : x # k => m[x] = l[g[x]]
  BY <1>1, <1>2, <1>3 DEF Inserts
<1>7. \A x, y \in DOMAIN m : x < y /\ g[x] # 0 /\ g[y] # 0 => g[x] < g[y]
  BY <1>2, <1>3
<1>8. Edit(l, m, g, b, b2)
  <2>1. \A x \in DOMAIN m : g[x] # 0 =>
          /\ m[x].id = l[g[x]].id /\ m[x].gap = l[g[x]].gap
          /\ m[x].frame \in {l[g[x]].frame, "none"} /\ l[g[x]].done \subseteq m[x].done
    BY <1>5, <1>6
  <2>2. QED
    BY <1>1, <1>4, <1>5, <1>6, <1>7, <2>1 DEF Edit, Inserts
<1>9. ASSUME NEW x \in 1..Len(l)
      PROVE  \E y \in 1..(Len(l) + 1) : g[y] = x
  <2>1. CASE x < k
    BY <1>2, <1>3, <2>1
  <2>2. CASE ~(x < k)
    <3>1. x + 1 \in 1..(Len(l) + 1) /\ g[x + 1] = x
      BY <1>2, <1>3, <2>2
    <3>2. QED
      BY <3>1
  <2>3. QED
    BY <2>1, <2>2
<1>10. QED
  BY <1>2, <1>3, <1>5, <1>6, <1>8, <1>9 DEF g, m, Shifted

LEMMA InsertTouches ==
    ASSUME NEW l \in Seq(Holder), NEW i \in DOMAIN l, NEW k \in (i + 1)..(Len(l) + 1),
           NEW h \in Holder, NEW b, NEW b2, h.id \in b2 \ b,
           ~h.gap, h.seq => h.frame = l[i].frame
    PROVE  \E g : /\ Touch(l, InsertAt(l, k, h), g, i, b, b2)
                  /\ ~h.seq => NoNewSeq(l, InsertAt(l, k, h), g)
<1> DEFINE m == InsertAt(l, k, h)
           g == Shift(l, k)
<1>1. k \in 1..(Len(l) + 1)
  OBVIOUS
<1>2. Edit(l, m, g, b, b2) /\ Shifted(l, m, g, k, h)
  BY <1>1, InsertIsEdit
<1> HIDE DEF m, g
<1>3. /\ DOMAIN m = 1..(Len(l) + 1) /\ DOMAIN l = 1..Len(l) /\ i \in 1..Len(l) /\ i < k
      /\ m[k] = h
  BY <1>2 DEF Shifted
<1>4. \A x \in DOMAIN m : g[x] = IF x < k THEN x ELSE IF x = k THEN 0 ELSE x - 1
  BY <1>2, <1>3 DEF Shifted
<1>5. /\ \A x \in DOMAIN m : x # k => g[x] # 0 /\ m[x] = l[g[x]]
      /\ \A x \in DOMAIN l : \E y \in DOMAIN m : g[y] = x
  BY <1>2, <1>3 DEF Shifted
<1>6. i \in DOMAIN m /\ \A x \in 1..i : g[x] = x
  BY <1>3, <1>4
<1>7. Touch(l, m, g, i, b, b2)
  <2>1. \A x \in DOMAIN m : g[x] # 0 /\ l[g[x]].seq => m[x].seq
    BY <1>4, <1>5
  <2>2. \A x \in DOMAIN m : m[x].seq =>
          (g[x] # 0 /\ l[g[x]].seq) \/ (i < x /\ m[x].frame \in {"I", l[i].frame})
    BY <1>3, <1>5
  <2>3. \A x \in DOMAIN m : g[x] = 0 => ~m[x].gap
    BY <1>3, <1>5
  <2>4. QED
    BY <1>2, <1>5, <1>6, <2>1, <2>2, <2>3 DEF Touch
<1>8. ~h.seq => NoNewSeq(l, m, g)
  BY <1>3, <1>5 DEF NoNewSeq
<1>9. QED
  BY <1>7, <1>8 DEF m, g

LEMMA RemoveTouches ==
    ASSUME NEW l \in Seq(Holder), NEW i \in DOMAIN l, NEW k \in (i + 1)..Len(l),
           NEW b, NEW b2, ~l[k].seq
    PROVE  \E g : Touch(l, RemoveAt(l, k), g, i, b, b2) /\ NoNewSeq(l, RemoveAt(l, k), g)
<1> DEFINE m == RemoveAt(l, k)
           g == [x \in 1..(Len(l) - 1) |-> IF x < k THEN x ELSE x + 1]
<1>1. /\ m \in Seq(Holder) /\ Len(m) = Len(l) - 1
      /\ \A x \in 1..(Len(l) - 1) : m[x] = IF x < k THEN l[x] ELSE l[x + 1]
  <2>1. k \in 1..Len(l)
    OBVIOUS
  <2>2. QED
    BY <2>1, Removed
<1> HIDE DEF m
<1>2. DOMAIN m = 1..(Len(l) - 1) /\ DOMAIN l = 1..Len(l) /\ i \in 1..Len(l) /\ i < k
  BY <1>1
<1>3. \A x \in DOMAIN m : g[x] = IF x < k THEN x ELSE x + 1
  BY <1>2
<1>4. g \in [DOMAIN m -> {0} \cup DOMAIN l]
  BY <1>2
<1> HIDE DEF g
<1>5. \A x \in DOMAIN m : g[x] # 0
  BY <1>2, <1>3
<1>6. \A x \in DOMAIN m : m[x] = l[g[x]]
  BY <1>1, <1>2, <1>3
<1>7. \A x, y \in DOMAIN m : x < y => g[x] < g[y]
  BY <1>2, <1>3
<1>8. Edit(l, m, g, b, b2)
  <2>1. \A x \in DOMAIN m :
          /\ m[x].id = l[g[x]].id /\ m[x].gap = l[g[x]].gap
          /\ m[x].frame \in {l[g[x]].frame, "none"} /\ l[g[x]].done \subseteq m[x].done
    BY <1>6
  <2>2. QED
    BY <1>1, <1>4, <1>5, <1>7, <2>1 DEF Edit
<1>9. i \in DOMAIN m /\ \A x \in 1..i : g[x] = x
  BY <1>2, <1>3
<1>10. \A x \in DOMAIN l : x # k => \E y \in DOMAIN m : g[y] = x
  <2>1. ASSUME NEW x \in DOMAIN l, x # k
        PROVE  \E y \in DOMAIN m : g[y] = x
    <3>1. CASE x < k
      BY <1>2, <1>3, <3>1
    <3>2. CASE ~(x < k)
      <4>1. x - 1 \in DOMAIN m /\ g[x - 1] = x
        BY <1>2, <1>3, <2>1, <3>2
      <4>2. QED
        BY <4>1
    <3>3. QED
      BY <3>1, <3>2
  <2>2. QED
    BY <2>1
<1>11. Touch(l, m, g, i, b, b2)
  BY <1>5, <1>6, <1>8, <1>9, <1>10 DEF Touch
<1>12. NoNewSeq(l, m, g)
  BY <1>5, <1>6 DEF NoNewSeq
<1>13. QED
  BY <1>11, <1>12 DEF m

(* A list whose holders only change in themselves.                         *)
Ident(m) == [k \in DOMAIN m |-> k]

Retouched(l, m) ==
    /\ m \in Seq(Holder) /\ Len(m) = Len(l)
    /\ \A k \in 1..Len(l) :
         /\ m[k].id = l[k].id /\ m[k].gap = l[k].gap
         /\ m[k].frame \in {l[k].frame, "none"} /\ l[k].done \subseteq m[k].done

LEMMA RetouchedIsEdit ==
    ASSUME NEW l \in Seq(Holder), NEW m, Retouched(l, m), NEW b, NEW b2
    PROVE  /\ Edit(l, m, Ident(m), b, b2)
           /\ DOMAIN m = 1..Len(l) /\ DOMAIN l = 1..Len(l)
           /\ \A k \in 1..Len(l) : Ident(m)[k] = k /\ k # 0
<1>1. m \in Seq(Holder) /\ DOMAIN m = 1..Len(l) /\ DOMAIN l = 1..Len(l)
  BY DEF Retouched
<1>2. \A k \in 1..Len(l) : Ident(m)[k] = k /\ k # 0
  BY <1>1 DEF Ident
<1>3. Ident(m) \in [DOMAIN m -> {0} \cup DOMAIN l]
  BY <1>1 DEF Ident
<1>4. Edit(l, m, Ident(m), b, b2)
  BY <1>1, <1>2, <1>3 DEF Edit, Retouched
<1>5. QED
  BY <1>1, <1>2, <1>4

LEMMA EditRetouched ==
    ASSUME NEW l, NEW m, NEW g, NEW b, NEW b2, Edit(l, m, g, b, b2),
           NEW n, Retouched(m, n)
    PROVE  Edit(l, n, g, b, b2)
<1>1. m \in Seq(Holder) /\ n \in Seq(Holder) /\ DOMAIN n = DOMAIN m
  BY DEF Edit, Retouched
<1>2. \A k \in DOMAIN m :
        /\ n[k].id = m[k].id /\ n[k].gap = m[k].gap
        /\ n[k].frame \in {m[k].frame, "none"} /\ m[k].done \subseteq n[k].done
  BY <1>1 DEF Retouched
<1>3. QED
  BY <1>1, <1>2 DEF Edit

LEMMA SetTouches ==
    ASSUME NEW l \in Seq(Holder), NEW i \in DOMAIN l, NEW k \in (i + 1)..Len(l),
           NEW b, NEW b2, l[k].frame = "I"
    PROVE  \E g : Touch(l, [l EXCEPT ![k].seq = TRUE], g, i, b, b2)
<1> DEFINE m == [l EXCEPT ![k].seq = TRUE]
<1>1. Retouched(l, m) /\ m[k].seq /\ m[k].frame = "I" /\ \A x \in 1..Len(l) : x # k => m[x] = l[x]
  <2>1. l[k] \in Holder /\ [l[k] EXCEPT !.seq = TRUE] \in Holder
    <3>1. l[k] \in Holder
      OBVIOUS
    <3>2. QED
      BY <3>1 DEF Holder
  <2>2. m = [l EXCEPT ![k] = [l[k] EXCEPT !.seq = TRUE]]
    OBVIOUS
  <2>3. m \in Seq(Holder) /\ Len(m) = Len(l)
    BY <2>1, <2>2
  <2>4. \A x \in 1..Len(l) : m[x] = IF x = k THEN [l[k] EXCEPT !.seq = TRUE] ELSE l[x]
    BY <2>2
  <2>5. /\ m[k].id = l[k].id /\ m[k].gap = l[k].gap /\ m[k].frame = l[k].frame
        /\ m[k].done = l[k].done /\ m[k].seq = TRUE
    BY <2>1, <2>4 DEF Holder
  <2> HIDE DEF m
  <2>6. QED
    BY <2>3, <2>4, <2>5 DEF Retouched
<1> HIDE DEF m
<1>2. /\ Edit(l, m, Ident(m), b, b2)
      /\ DOMAIN m = 1..Len(l) /\ DOMAIN l = 1..Len(l)
      /\ \A x \in 1..Len(l) : Ident(m)[x] = x /\ x # 0
  BY <1>1, RetouchedIsEdit
<1>3. Touch(l, m, Ident(m), i, b, b2)
  BY <1>1, <1>2 DEF Touch
<1>4. QED
  BY <1>3 DEF m

LEMMA SameTouches ==
    ASSUME NEW l \in Seq(Holder), NEW i \in DOMAIN l, NEW b, NEW b2
    PROVE  \E g : Touch(l, l, g, i, b, b2) /\ NoNewSeq(l, l, g)
<1>1. Retouched(l, l)
  BY DEF Retouched
<1>2. /\ Edit(l, l, Ident(l), b, b2)
      /\ DOMAIN l = 1..Len(l)
      /\ \A x \in 1..Len(l) : Ident(l)[x] = x /\ x # 0
  BY <1>1, RetouchedIsEdit
<1>3. Touch(l, l, Ident(l), i, b, b2) /\ NoNewSeq(l, l, Ident(l))
  BY <1>2 DEF Touch, NoNewSeq
<1>4. QED
  BY <1>3

(* The pass notes that it has been there.                                  *)
LEMMA DoneTouches ==
    ASSUME NEW l, NEW m, NEW g, NEW i, NEW b, NEW b2, NEW p \in Passes,
           Touch(l, m, g, i, b, b2)
    PROVE  /\ Touch(l, [m EXCEPT ![i].done = @ \cup {p}], g, i, b, b2)
           /\ p \in [m EXCEPT ![i].done = @ \cup {p}][i].done
           /\ NoNewSeq(l, m, g) => NoNewSeq(l, [m EXCEPT ![i].done = @ \cup {p}], g)
<1> DEFINE d == [m EXCEPT ![i].done = @ \cup {p}]
<1>1. m \in Seq(Holder) /\ i \in DOMAIN m
  BY DEF Touch, Edit
<1>2. m[i] \in Holder /\ [m[i] EXCEPT !.done = @ \cup {p}] \in Holder
  <2>1. m[i] \in Holder
    BY <1>1
  <2>2. QED
    BY <2>1 DEF Holder
<1>3. d = [m EXCEPT ![i] = [m[i] EXCEPT !.done = @ \cup {p}]]
  BY <1>1
<1>4. d \in Seq(Holder) /\ DOMAIN d = DOMAIN m /\ Len(d) = Len(m)
  BY <1>1, <1>2, <1>3
<1>5. \A x \in DOMAIN m :
        /\ d[x].id = m[x].id /\ d[x].gap = m[x].gap /\ d[x].frame = m[x].frame
        /\ d[x].seq = m[x].seq /\ m[x].done \subseteq d[x].done
  BY <1>1, <1>2, <1>3 DEF Holder
<1>6. p \in d[i].done
  BY <1>1, <1>2, <1>3 DEF Holder
<1> HIDE DEF d
<1>7. Edit(l, d, g, b, b2)
  <2>1. Edit(l, m, g, b, b2)
    BY DEF Touch
  <2>2. QED
    BY <1>4, <1>5, <2>1 DEF Edit
<1>8. Touch(l, d, g, i, b, b2)
  BY <1>4, <1>5, <1>7 DEF Touch
<1>9. NoNewSeq(l, m, g) => NoNewSeq(l, d, g)
  BY <1>4, <1>5 DEF NoNewSeq
<1>10. QED
  BY <1>6, <1>8, <1>9 DEF d

(* Everything that correct_underflow_in_frames, correct_overflow_in_frames *)
(* and fix_drift do to a GOP.                                              *)
LEMMA FixedTouches ==
    ASSUME new \in Nat, nr \in Nat, NEW l \in Seq(Holder), NEW i \in DOMAIN l,
           NextSeq(l, i) # 0, NEW p \in Passes, NEW m \in {l} \cup Fixed(p, l, i)
    PROVE  \E g : /\ Touch(l, m, g, i, UsedIds(new, nr),
                           UsedIds(IF Len(m) > Len(l) THEN new + 1 ELSE new, nr))
                  /\ p # "tmp_ref" => NoNewSeq(l, m, g)
<1> DEFINE b == UsedIds(new, nr)
           more == UsedIds(new + 1, nr)
<1>1. NextSeq(l, i) \in (i + 1)..Len(l) /\ \A k \in Inner(l, i) : ~l[k].seq
  BY NextSeqFacts DEF Inner
<1>2. \A k \in Inner(l, i) : k \in (i + 1)..Len(l) /\ k + 1 \in (i + 1)..(Len(l) + 1)
                               /\ k \in (i + 1)..(Len(l) + 1) /\ k \in 1..Len(l)
                               /\ k \in 1..(Len(l) + 1) /\ k + 1 \in 1..(Len(l) + 1)
  BY <1>1 DEF Inner
<1>3. \A f \in Frames, q \in BOOLEAN :
        /\ NewHolder(f, q) \in Holder /\ NewHolder(f, q).id \in more \ b
        /\ ~NewHolder(f, q).gap /\ NewHolder(f, q).seq = q /\ NewHolder(f, q).frame = f
  <2>1. -(new + 1) \in more \ b /\ -(new + 1) \in Int
    BY DEF UsedIds
  <2> HIDE DEF b, more
  <2>2. QED
    BY <2>1 DEF NewHolder, Holder
<1>4. \A k \in DOMAIN l : l[k].frame \in Frames
  <2>1. \A k \in DOMAIN l : l[k] \in Holder
    OBVIOUS
  <2>2. QED
    BY <2>1 DEF Holder
<1>5. b = UsedIds(new, nr) /\ more = UsedIds(new + 1, nr)
  OBVIOUS
<1> HIDE DEF b, more
<1>6. CASE m = l
  BY <1>5, <1>6, SameTouches
<1>7. CASE \E k \in Inner(l, i) : m = Copied(l, k)
  <2>1. PICK k \in Inner(l, i) : m = Copied(l, k)
    BY <1>7
  <2>2. m = InsertAt(l, k + 1, NewHolder(l[k].frame, FALSE))
    BY <2>1 DEF Copied
  <2>3. k \in DOMAIN l
    BY <1>2, <2>1
  <2> DEFINE h == NewHolder(l[k].frame, FALSE)
  <2>4. h \in Holder /\ h.id \in more \ b /\ ~h.gap /\ h.seq = FALSE
    BY <1>3, <1>4, <2>3
  <2>5. m = InsertAt(l, k + 1, h)
    BY <2>2
  <2> HIDE DEF h
  <2>6. k + 1 \in (i + 1)..(Len(l) + 1) /\ k + 1 \in 1..(Len(l) + 1)
    BY <1>2, <2>1
  <2>7. Len(m) = Len(l) + 1
    BY <2>4, <2>5, <2>6, Inserted DEF Inserts
  <2>8. \E g : Touch(l, m, g, i, b, more) /\ NoNewSeq(l, m, g)
    BY <2>4, <2>5, <2>6, InsertTouches
  <2>9. QED
    BY <1>5, <2>7, <2>8
<1>8. CASE \E k \in Inner(l, i) : m = RemoveAt(l, k)
  <2>1. PICK k \in Inner(l, i) : m = RemoveAt(l, k)
    BY <1>8
  <2>2. Len(m) = Len(l) - 1
    BY <1>2, <2>1, Removed
  <2>3. \E g : Touch(l, m, g, i, b, b) /\ NoNewSeq(l, m, g)
    BY <1>1, <1>2, <2>1, RemoveTouches
  <2>4. QED
    BY <1>5, <2>2, <2>3
<1>9. CASE m \in WithSeq(l, i) /\ p = "tmp_ref"
  <2>1. PICK k \in Inner(l, i) :
          m = IF l[k].frame = "I" THEN [l EXCEPT ![k].seq = TRUE]
              ELSE InsertAt(l, k, NewHolder(l[i].frame, TRUE))
    BY <1>9 DEF WithSeq
  <2>2. CASE l[k].frame = "I"
    <3>1. m = [l EXCEPT ![k].seq = TRUE]
      BY <2>1, <2>2
    <3>2. k \in (i + 1)..Len(l)
      BY <1>2, <2>1
    <3>3. \E g : Touch(l, m, g, i, b, b)
      BY <2>2, <3>1, <3>2, SetTouches
    <3>4. Len(m) = Len(l)
      BY <3>1
    <3>5. QED
      BY <1>5, <1>9, <3>3, <3>4
  <2>3. CASE l[k].frame # "I"
    <3> DEFINE h == NewHolder(l[i].frame, TRUE)
    <3>1. h \in Holder /\ h.id \in more \ b /\ ~h.gap /\ h.frame = l[i].frame
      BY <1>3, <1>4
    <3>2. m = InsertAt(l, k, h)
      BY <2>1, <2>3
    <3> HIDE DEF h
    <3>3. k \in (i + 1)..(Len(l) + 1) /\ k \in 1..(Len(l) + 1)
      BY <1>2, <2>1
    <3>4. Len(m) = Len(l) + 1
      BY <3>1, <3>2, <3>3, Inserted DEF Inserts
    <3>5. \E g : Touch(l, m, g, i, b, more)
      BY <3>1, <3>2, <3>3, InsertTouches
    <3>6. QED
      BY <1>5, <1>9, <3>4, <3>5
  <2>4. QED
    BY <2>2, <2>3
<1>10. QED
  BY <1>6, <1>7, <1>8, <1>9 DEF Fixed, WithCopy, WithoutOne

-----------------------------------------------------------------------------
(* The steps.                                                              *)
LEMMA Consts == /\ MaxRounds \in Nat /\ MaxOdd \in Nat /\ CloseTries \in Nat
                /\ KeepFrames \in Nat /\ Series \subseteq {"S1", "S2"}
  BY VideoAssumption

LEMMA ListFacts ==
    ASSUME IInv
    PROVE  /\ ListsOK(video, kept, junk, lf, series, UsedIds(new, nr))
           /\ Separate(video, kept, junk)
           /\ Frontiers(video, junk, lf, series, UsedIds(new, nr))
           /\ lf \in [Passes -> UsedIds(new, nr)]
           /\ \A l \in {video} \cup junk : /\ WellFormed(l, UsedIds(new, nr))
                                            /\ Walkable(l, lf, series)
                                            /\ l \in Seq(Holder)
           /\ new \in Nat /\ nr \in Nat
           /\ 0 \in UsedIds(new, nr)
           /\ UsedIds(new, nr) \subseteq UsedIds(new + 1, nr)
  BY FreshId DEF IInv, ListsOK, Frontiers, WellFormed, Scalars

LEMMA SameFirstFrontier ==
    ASSUME NEW l, NEW F, NEW G, F["seq"] = G["seq"], InPlace(l, F)
    PROVE  InPlace(l, G)
  BY DEF InPlace

(* A pass works on a GOP: what it does to the list ...                     *)
LEMMA TouchKeeps ==
    ASSUME IInv, NEW p \in Passes \ {"seq"}, NEW l \in {video} \cup junk, NEW i \in DOMAIN l,
           Startable(l, i, p, lf, series), NEW m, NEW g, NEW b2,
           Touch(l, m, g, i, UsedIds(new, nr), b2),
           p # "tmp_ref" => NoNewSeq(l, m, g), p \in m[i].done
    PROVE  /\ Edit(l, m, g, UsedIds(new, nr), b2) /\ Keeps(l, m, g, lf)
           /\ \A q \in Passes : lf[q] # 0 /\ lf[q] \in Ids(l) => lf[q] \in Ids(m)
           /\ i \in DOMAIN m /\ m[i].id = l[i].id /\ Reachable(m, i, p, lf, series)
           /\ series = "S1" /\ l = video => InPlace(m, lf)
           /\ NoGap(l) => NoGap(m)
           /\ l[1].seq => m # <<>> /\ m[1].seq
<1> DEFINE b == UsedIds(new, nr)
<1>1. /\ WellFormed(l, b) /\ Walkable(l, lf, series) /\ l \in Seq(Holder)
      /\ lf \in [Passes -> b]
  BY ListFacts
<1>2. Edit(l, m, g, b, b2) /\ i \in DOMAIN m /\ \A k \in 1..i : g[k] = k
  BY DEF Touch
<1>3. m \in Seq(Holder) /\ g \in [DOMAIN m -> {0} \cup DOMAIN l]
  BY <1>2 DEF Edit
<1>4. \A k \in DOMAIN m : g[k] # 0 =>
        m[k].id = l[g[k]].id /\ g[k] \in DOMAIN l /\ l[g[k]].done \subseteq m[k].done
  BY <1>2, <1>3 DEF Edit
<1>5. i # 0 /\ g[i] = i /\ 1..i \subseteq DOMAIN m /\ 1..i \subseteq DOMAIN l
  BY <1>1, <1>2, <1>3
<1>6. \A k \in DOMAIN m : g[k] # 0 => /\ i < g[k] => i < k
                                      /\ g[k] < i => k < i
  <2>1. \A j, k \in DOMAIN m : j < k /\ g[j] # 0 /\ g[k] # 0 => g[j] < g[k]
    BY <1>2 DEF Edit
  <2>2. ASSUME NEW k \in DOMAIN m, g[k] # 0
        PROVE  (i < g[k] => i < k) /\ (g[k] < i => k < i)
    <3>1. k \in Nat /\ i \in Nat /\ g[k] \in Nat
      BY <1>1, <1>2, <1>3, <2>2
    <3>2. CASE k < i
      <4>1. g[k] = k
        BY <1>2, <1>3, <2>2, <3>1, <3>2
      <4>2. QED
        BY <3>1, <3>2, <4>1
    <3>3. CASE k = i
      BY <1>5, <3>1, <3>3
    <3>4. CASE i < k
      <4>1. i < g[k]
        BY <1>2, <1>5, <2>1, <2>2, <3>4
      <4>2. QED
        BY <3>1, <3>4, <4>1
    <3>5. QED
      BY <3>1, <3>2, <3>3, <3>4
  <2>3. QED
    BY <2>2
<1>7. \A q \in Passes, k \in DOMAIN m : m[k].id = lf[q] => g[k] # 0
  BY <1>1, <1>2, <1>3 DEF Edit
<1>8. Keeps(l, m, g, lf)
  <2>1. \A q \in Passes, k \in DOMAIN m : g[k] # 0 /\ l[g[k]].id = lf[q] => m[k].seq
    BY <1>1, <1>4 DEF Touch, Walkable
  <2>2. ASSUME NEW k \in DOMAIN m, m[k].seq, ~(g[k] # 0 /\ l[g[k]].seq),
               NEW q \in Renumbering, NEW j \in DOMAIN m, g[j] # 0, l[g[j]].id = lf[q]
        PROVE  j < k
    <3>1. p = "tmp_ref" /\ i < k
      BY <2>2 DEF Touch, NoNewSeq
    <3>2. Rank[p] <= Rank[q] /\ q \in Passes
      BY <3>1 DEF Rank, Renumbering, Passes
    <3>3. g[j] < i
      BY <1>4, <2>2, <3>2 DEF Startable
    <3>4. QED
      BY <1>1, <1>3, <1>6, <2>2, <3>1, <3>3
  <2>3. QED
    BY <2>1, <2>2 DEF Keeps
<1>9. ASSUME NEW q \in Passes, lf[q] # 0, lf[q] \in Ids(l)
      PROVE  lf[q] \in Ids(m)
  <2>1. PICK x \in DOMAIN l : l[x].id = lf[q]
    BY <1>9 DEF Ids
  <2>2. l[x].seq
    BY <1>1, <2>1 DEF Walkable
  <2>3. PICK k \in DOMAIN m : g[k] = x
    BY <2>2 DEF Touch
  <2>4. x # 0
    BY <1>1
  <2>5. m[k].id = lf[q]
    BY <1>4, <2>1, <2>3, <2>4
  <2>6. QED
    BY <2>5 DEF Ids
<1>10. m[i].id = l[i].id
  BY <1>2, <1>4, <1>5
<1>11. \A j \in 1..i : m[j].seq => l[j].seq
  BY <1>1, <1>2, <1>5 DEF Touch
<1>12. Reachable(m, i, p, lf, series)
  <2>1. m[i].seq
    BY <1>2, <1>5 DEF Touch, Startable
  <2>2. p # "seq" => lf[Before(p)] # 0
    BY DEF Startable
  <2>3. ASSUME NEW q \in Passes, NEW j \in DOMAIN m, m[j].id = lf[q]
        PROVE  /\ Rank[q] < Rank[p] /\ Bounds(q, series) => i < j
               /\ Rank[p] < Rank[q] /\ Bounds(p, series) => j < i
    <3>1. g[j] # 0 /\ g[j] \in DOMAIN l /\ l[g[j]].id = lf[q]
      BY <1>4, <1>7, <2>3
    <3>2. Rank[p] < Rank[q] => Rank[p] <= Rank[q]
      BY DEF Rank, Passes
    <3>3. QED
      BY <1>6, <2>3, <3>1, <3>2 DEF Startable
  <2>4. ASSUME p \in Renumbering, NEW j \in 1..i, m[j].seq
        PROVE  Seen(p) \subseteq m[j].done
    <3>1. l[j].seq /\ j \in DOMAIN m /\ g[j] = j /\ j # 0
      BY <1>2, <1>5, <1>11, <2>4
    <3>2. Seen(p) \subseteq l[j].done \cup (IF j = i THEN {p} ELSE {})
      BY <2>4, <3>1 DEF Startable
    <3>3. l[j].done \subseteq m[j].done
      BY <1>4, <3>1
    <3>4. QED
      BY <3>2, <3>3
  <2>5. QED
    BY <2>1, <2>2, <2>3, <2>4 DEF Reachable
<1>13. ASSUME series = "S1", l = video
       PROVE  InPlace(m, lf)
  <2>1. InPlace(video, lf)
    BY <1>13 DEF IInv
  <2>2. ASSUME NEW k \in DOMAIN m, m[k].seq, ~(g[k] # 0 /\ l[g[k]].seq),
               m[k].frame \in {"B", "P"}, NEW j \in DOMAIN m, g[j] # 0, l[g[j]].id = lf["seq"]
        PROVE  FALSE
    <3>1. m[k].frame = l[i].frame
      BY <2>2 DEF Touch
    <3>2. Rank["seq"] < Rank[p] /\ Bounds("seq", series) /\ "seq" \in Passes
      BY <1>13 DEF Rank, Passes, Bounds
    <3>3. i < g[j] /\ g[j] \in DOMAIN l
      BY <1>4, <2>2, <3>2 DEF Startable
    <3>4. l[i].frame \notin {"B", "P"}
      BY <1>1, <1>3, <1>13, <2>1, <2>2, <3>3 DEF InPlace, Startable
    <3>5. QED
      BY <2>2, <3>1, <3>4
  <2>3. \A k \in DOMAIN m : m[k].seq =>
          \/ g[k] # 0 /\ l[g[k]].seq
          \/ m[k].frame \notin {"B", "P"}
          \/ \A j \in DOMAIN m : g[j] # 0 /\ l[g[j]].id = lf["seq"] => j < k
    BY <2>2
  <2> HIDE DEF b
  <2>4. QED
    BY <1>1, <1>2, <1>13, <2>1, <2>3, EditedInPlace
<1>14. NoGap(l) => NoGap(m)
  <2>1. \A k \in DOMAIN m : g[k] = 0 => ~m[k].gap
    BY DEF Touch
  <2>2. QED
    BY <1>1, <1>2, <2>1, EditedNoGap
<1>15. l[1].seq => m # <<>> /\ m[1].seq
  <2>1. 1 \in 1..i /\ 1 \in DOMAIN m /\ g[1] = 1
    BY <1>1, <1>2, <1>3
  <2>2. l[1].seq => m[1].seq
    BY <2>1 DEF Touch
  <2>3. m # <<>>
    BY <2>1
  <2>4. QED
    BY <2>2, <2>3
<1>16. QED
  BY <1>2, <1>8, <1>9, <1>10, <1>12, <1>13, <1>14, <1>15

(* ... as CheckFix does it to one of the lists, ...                        *)
Fixes(p, l, i, m, g, b, b2) ==
    /\ l \in {video} \cup junk /\ i \in DOMAIN l /\ Startable(l, i, p, lf, series)
    /\ Touch(l, m, g, i, b, b2) /\ p \in m[i].done
    /\ p # "tmp_ref" => NoNewSeq(l, m, g)
    /\ Replaces(video, junk, l, m, video', junk') /\ kept' = kept
    /\ lf' = [lf EXCEPT ![p] = l[i].id]

LEMMA CheckFixes ==
    ASSUME IInv, pc \in Passes \ {"seq"}, NEW p \in Passes \ {"seq"}, Ready(p), CheckFix(p),
           UNCHANGED <<mode, repair, find_seq, counter, tmp, input>>
    PROVE  /\ \E l, i, m, g : Fixes(p, l, i, m, g, UsedIds(new, nr), UsedIds(new', nr'))
           /\ nr' = nr /\ new' \in Nat /\ UsedIds(new, nr) \subseteq UsedIds(new', nr')
           /\ odd' \in {odd, odd + 1} /\ (odd < MaxOdd \/ odd' = odd)
<1> DEFINE b == UsedIds(new, nr)
<1>1. find_seq /\ ~repair /\ tmp = 0
  BY DEF IInv, Phases, TmpSound
<1>2. PICK l \in {video} \cup junk : \E i \in DOMAIN l :
        /\ StartOf(p) = l[i].id /\ ListOf(StartOf(p)) = l /\ Index(l, StartOf(p)) = i
        /\ NextSeq(l, i) # 0
        /\ Startable(l, i, p, lf, series)
  BY <1>1, ReadyFacts
<1>3. PICK i \in DOMAIN l :
        /\ StartOf(p) = l[i].id /\ ListOf(StartOf(p)) = l /\ Index(l, StartOf(p)) = i
        /\ NextSeq(l, i) # 0
        /\ Startable(l, i, p, lf, series)
  BY <1>2
<1>4. PICK fixed \in {l} \cup (IF odd < MaxOdd THEN Fixed(p, l, i) ELSE {}) :
        /\ Replace(l, [fixed EXCEPT ![i].done = @ \cup {p}])
        /\ odd' = IF fixed = l THEN odd ELSE odd + 1
        /\ new' = IF Len(fixed) > Len(l) THEN new + 1 ELSE new
        /\ lf' = [lf EXCEPT ![p] = l[i].id]
  BY <1>3 DEF CheckFix
<1> DEFINE m == [fixed EXCEPT ![i].done = @ \cup {p}]
           b2 == UsedIds(new', nr')
<1>5. /\ l \in Seq(Holder)
      /\ new \in Nat /\ nr \in Nat /\ 0 \in b /\ b \subseteq UsedIds(new + 1, nr)
  BY ListFacts
<1>6. /\ nr' = nr /\ new' \in Nat /\ b \subseteq b2
      /\ b2 = UsedIds(IF Len(fixed) > Len(l) THEN new + 1 ELSE new, nr)
  BY <1>4, <1>5 DEF input
<1>7. \E g : /\ Touch(l, fixed, g, i, b, b2)
             /\ p # "tmp_ref" => NoNewSeq(l, fixed, g)
  <2>1. fixed \in {l} \cup Fixed(p, l, i)
    BY <1>4
  <2> HIDE DEF b2
  <2>2. QED
    BY <1>3, <1>5, <1>6, <2>1, FixedTouches
<1> HIDE DEF b, b2
<1>8. PICK g : /\ Touch(l, fixed, g, i, b, b2)
               /\ p # "tmp_ref" => NoNewSeq(l, fixed, g)
  BY <1>7
<1>9. /\ Touch(l, m, g, i, b, b2) /\ p \in m[i].done
      /\ p # "tmp_ref" => NoNewSeq(l, m, g)
  BY <1>8, DoneTouches
<1>10. Replace(l, m)
  BY <1>4
<1> HIDE DEF m
<1>11. Replaces(video, junk, l, m, video', junk') /\ kept' = kept
  BY <1>2, <1>10 DEF Replace, Replaces
<1>12. Fixes(p, l, i, m, g, b, b2)
  BY <1>3, <1>4, <1>9, <1>11 DEF Fixes
<1>13. odd' \in {odd, odd + 1} /\ (odd < MaxOdd \/ odd' = odd)
  BY <1>4
<1>14. QED
  BY <1>6, <1>12, <1>13 DEF b, b2

(* ... and the whole step.                                                 *)
LEMMA CheckFixKeeps ==
    ASSUME IInv, pc \in Passes \ {"seq"}, NEW p \in Passes \ {"seq"}, Ready(p), CheckFix(p),
           UNCHANGED <<mode, repair, find_seq, counter, tmp, input>>
    PROVE  IInv'
<1> DEFINE b == UsedIds(new, nr)
           b2 == UsedIds(new', nr')
<1>1. find_seq /\ ~repair /\ tmp = 0
  BY DEF IInv, Phases, TmpSound
<1>2. PICK l, i, m, g : Fixes(p, l, i, m, g, b, b2)
  BY CheckFixes
<1>3. /\ nr' = nr /\ new' \in Nat /\ b \subseteq b2
      /\ odd' \in {odd, odd + 1} /\ (odd < MaxOdd \/ odd' = odd)
  BY CheckFixes
<1>4. /\ l \in {video} \cup junk /\ i \in DOMAIN l /\ Startable(l, i, p, lf, series)
      /\ Touch(l, m, g, i, b, b2) /\ p \in m[i].done
      /\ p # "tmp_ref" => NoNewSeq(l, m, g)
      /\ lf' = [lf EXCEPT ![p] = l[i].id]
  BY <1>2 DEF Fixes
<1>5. /\ ListsOK(video, kept, junk, lf, series, b) /\ l \in Seq(Holder) /\ 0 \in b
      /\ lf \in [Passes -> b]
  BY <1>4, ListFacts
<1> HIDE DEF b, b2
<1>6. /\ Edit(l, m, g, b, b2) /\ Keeps(l, m, g, lf)
      /\ \A q \in Passes : lf[q] # 0 /\ lf[q] \in Ids(l) => lf[q] \in Ids(m)
      /\ i \in DOMAIN m /\ m[i].id = l[i].id /\ Reachable(m, i, p, lf, series)
      /\ series = "S1" /\ l = video => InPlace(m, lf)
      /\ NoGap(l) => NoGap(m)
      /\ l[1].seq => m # <<>> /\ m[1].seq
  BY <1>4, TouchKeeps DEF b
<1>7. Replaces(video, junk, l, m, video', junk') /\ kept' = kept
  BY <1>2 DEF Fixes
<1>8. ListsOK(video', kept, junk', lf, series, b2) /\ m \in {video'} \cup junk'
  <2>1. KeepsAll(l, m, g, lf, b, b2)
    BY <1>3, <1>5, <1>6 DEF KeepsAll
  <2>2. QED
    BY <1>4, <1>5, <1>7, <2>1, Replaced
<1>9. ListsOK(video', kept, junk', lf', series, b2)
  <2>1. ListsOK(video', kept, junk', [lf EXCEPT ![p] = m[i].id], series, b2)
    BY <1>6, <1>8, Advanced
  <2>2. QED
    BY <1>4, <1>6, <2>1
<1>10. lf'["seq"] = lf["seq"] /\ lf' \in [Passes -> b]
       /\ (lf'["p_frame"] = 0 => lf["p_frame"] = 0)
  <2>1. l[i].id \in b \ {0}
    BY <1>4, <1>5 DEF ListsOK, WellFormed
  <2>2. QED
    BY <1>4, <1>5, <2>1 DEF Passes
<1>11. series = "S1" => InPlace(video', lf')
  <2>1. series = "S1" => InPlace(video', lf)
    BY <1>6, <1>7 DEF IInv, Replaces
  <2>2. QED
    BY <1>10, <2>1, SameFirstFrontier
<1>12. NoGap(video')
  BY <1>1, <1>6, <1>7 DEF IInv, Replaces
<1>13. series = "S2" /\ lf'["p_frame"] = 0 => video' # <<>> /\ video'[1].seq
  BY <1>1, <1>6, <1>7, <1>10 DEF IInv, Replaces
<1>14. Scalars' /\ Phases'
  <2>1. pc' = p /\ UNCHANGED <<series, std_alone, repair, find_seq, counter, tmp, nr, rounds>>
    BY DEF CheckFix, mode, input
  <2>2. odd' \in 0..MaxOdd
    <3>1. odd \in 0..MaxOdd
      BY DEF IInv, Scalars
    <3>2. QED
      BY <1>3, <3>1, Consts
  <2>3. Scalars'
    BY <1>3, <2>1, <2>2 DEF IInv, Scalars
  <2>4. Phases'
    BY <1>1, <2>1 DEF IInv, Phases, Passes
  <2>5. QED
    BY <2>3, <2>4
<1>15. QED
  BY <1>1, <1>7, <1>9, <1>11, <1>12, <1>13, <1>14 DEF IInv, mode, b2

-----------------------------------------------------------------------------
(* A list whose sequence headers all stay: what gop_make_closed does.      *)
SameSeqs(l, m) == Retouched(l, m) /\ \A k \in 1..Len(l) : m[k].seq = l[k].seq

LEMMA SameSeqsTransitive ==
    ASSUME NEW l, NEW m, NEW n, SameSeqs(l, m), SameSeqs(m, n)
    PROVE  SameSeqs(l, n)
<1>1. n \in Seq(Holder) /\ Len(n) = Len(l) /\ Len(m) = Len(l)
  BY DEF SameSeqs, Retouched
<1>2. \A k \in 1..Len(l) :
        /\ n[k].id = l[k].id /\ n[k].gap = l[k].gap /\ n[k].seq = l[k].seq
        /\ n[k].frame \in {l[k].frame, "none"} /\ l[k].done \subseteq n[k].done
  BY <1>1 DEF SameSeqs, Retouched
<1>3. QED
  BY <1>1, <1>2 DEF SameSeqs, Retouched

LEMMA SameSeqsSelf == ASSUME NEW l \in Seq(Holder) PROVE SameSeqs(l, l)
  BY DEF SameSeqs, Retouched

LEMMA ClosedFacts ==
    ASSUME NEW l \in Seq(Holder), NEW i
    PROVE  SameSeqs(l, Closed(l, i))
<1> DEFINE kill(k) == k \in i..(ClosedUpTo(l, i) - 1) /\ k # FirstI(l, i)
           m == [k \in 1..Len(l) |-> IF kill(k) THEN [l[k] EXCEPT !.frame = "none"] ELSE l[k]]
<1>1. Closed(l, i) = m
  BY DEF Closed
<1> HIDE DEF kill
<1>2. \A k \in 1..Len(l) : l[k] \in Holder
  OBVIOUS
<1>3. \A k \in 1..Len(l) : m[k] = IF kill(k) THEN [l[k] EXCEPT !.frame = "none"] ELSE l[k]
  OBVIOUS
<1>4. \A h \in Holder : /\ [h EXCEPT !.frame = "none"] \in Holder
                        /\ [h EXCEPT !.frame = "none"].id = h.id
                        /\ [h EXCEPT !.frame = "none"].gap = h.gap
                        /\ [h EXCEPT !.frame = "none"].seq = h.seq
                        /\ [h EXCEPT !.frame = "none"].done = h.done
                        /\ [h EXCEPT !.frame = "none"].frame = "none"
  BY DEF Holder, Frames
<1>5. \A k \in 1..Len(l) : m[k] \in Holder
  BY <1>2, <1>3, <1>4
<1>6. m \in [1..Len(l) -> Holder]
  BY <1>5
<1>7. m \in Seq(Holder) /\ Len(m) = Len(l)
  BY <1>6
<1> HIDE DEF m
<1>8. \A k \in 1..Len(l) :
        /\ m[k].id = l[k].id /\ m[k].gap = l[k].gap /\ m[k].seq = l[k].seq
        /\ m[k].frame \in {l[k].frame, "none"} /\ l[k].done \subseteq m[k].done
  BY <1>2, <1>3, <1>4
<1>9. QED
  BY <1>1, <1>7, <1>8 DEF SameSeqs, Retouched

(* And so do all the ways out of it.                                       *)
LEMMA CloseResultsFacts ==
    ASSUME NEW l \in Seq(Holder), NEW i, NEW r \in CloseResults(l, i)
    PROVE  SameSeqs(l, r.list) /\ r.ok \in BOOLEAN
<1>1. \/ r = [ok |-> TRUE, list |-> Closed(l, i)]
      \/ r = [ok |-> FALSE, list |-> l]
      \/ r = [ok |-> FALSE, list |-> Closed(l, i)]
  BY Zenon DEF CloseResults
<1>2. SameSeqs(l, l) /\ SameSeqs(l, Closed(l, i))
  BY ClosedFacts, SameSeqsSelf
<1>3. (r.list = l \/ r.list = Closed(l, i)) /\ r.ok \in BOOLEAN
  <2>1. CASE r = [ok |-> TRUE, list |-> Closed(l, i)]
    BY <2>1
  <2>2. CASE r = [ok |-> FALSE, list |-> l]
    BY <2>2
  <2>3. CASE r = [ok |-> FALSE, list |-> Closed(l, i)]
    BY <2>3
  <2>4. QED
    BY <1>1, <2>1, <2>2, <2>3
<1>4. QED
  BY <1>2, <1>3

LEMMA SameSeqsKeeps ==
    ASSUME NEW b, NEW l, NEW m, NEW F \in [Passes -> b], NEW s, 0 \in b,
           WellFormed(l, b), Walkable(l, F, s), SameSeqs(l, m)
    PROVE  /\ KeepsAll(l, m, Ident(m), F, b, b)
           /\ WellFormed(m, b) /\ Walkable(m, F, s) /\ Ids(m) = Ids(l)
           /\ InPlace(l, F) => InPlace(m, F)
           /\ NoGap(l) => NoGap(m)
           /\ l # <<>> /\ l[1].seq => m # <<>> /\ m[1].seq
<1>1. l \in Seq(Holder) /\ Retouched(l, m)
  BY DEF WellFormed, SameSeqs
<1>2. /\ Edit(l, m, Ident(m), b, b)
      /\ DOMAIN m = 1..Len(l) /\ DOMAIN l = 1..Len(l)
      /\ \A k \in 1..Len(l) : Ident(m)[k] = k /\ k # 0
  BY <1>1, RetouchedIsEdit
<1>3. \A k \in 1..Len(l) : m[k].seq = l[k].seq /\ m[k].id = l[k].id
  BY DEF SameSeqs, Retouched
<1>4. Keeps(l, m, Ident(m), F)
  BY <1>2, <1>3 DEF Keeps, Walkable
<1>5. Ids(m) = Ids(l)
  BY <1>2, <1>3 DEF Ids
<1>6. KeepsAll(l, m, Ident(m), F, b, b)
  BY <1>2, <1>4, <1>5 DEF KeepsAll
<1>7. WellFormed(m, b) /\ Walkable(m, F, s)
  BY <1>2, <1>4, EditedList
<1>8. InPlace(l, F) => InPlace(m, F)
  BY <1>2, <1>3, EditedInPlace
<1>9. NoGap(l) => NoGap(m)
  BY <1>1, <1>2, EditedNoGap
<1>10. l # <<>> /\ l[1].seq => m # <<>> /\ m[1].seq
  <2>1. ASSUME l # <<>>
        PROVE  m # <<>> /\ m[1].seq = l[1].seq
    <3>1. 1 \in 1..Len(l)
      BY <1>1, <2>1
    <3>2. QED
      BY <1>2, <1>3, <3>1
  <2>2. QED
    BY <2>1
<1>11. QED
  BY <1>5, <1>6, <1>7, <1>8, <1>9, <1>10

(* A part of a list.                                                       *)
Slice(l, c, d, m) == c \in 1..(Len(l) + 1) /\ d \in (c - 1)..Len(l) /\ m = SubSeq(l, c, d)

IdsFrom(l, c, d) == {l[k].id : k \in c..d}

LEMMA SliceFacts ==
    ASSUME NEW l \in Seq(Holder), NEW c, NEW d, NEW m, Slice(l, c, d, m)
    PROVE  /\ m \in Seq(Holder) /\ Len(m) = d - c + 1
           /\ \A k \in 1..(d - c + 1) : m[k] = l[k + c - 1]
  BY DEF Slice

LEMMA SliceIds ==
    ASSUME NEW l \in Seq(Holder), NEW c, NEW d, NEW m, Slice(l, c, d, m)
    PROVE  Ids(m) = IdsFrom(l, c, d)
<1>1. c \in Int /\ d \in Int
  BY DEF Slice
<1>2. /\ m \in Seq(Holder) /\ Len(m) = d - c + 1 /\ DOMAIN m = 1..(d - c + 1)
      /\ \A k \in 1..(d - c + 1) : m[k] = l[k + c - 1]
  BY SliceFacts
<1>3. ASSUME NEW k \in c..d
      PROVE  l[k].id \in Ids(m)
  <2>1. k - c + 1 \in DOMAIN m /\ (k - c + 1) + c - 1 = k
    BY <1>1, <1>2
  <2>2. m[k - c + 1] = l[k]
    BY <1>2, <2>1
  <2>3. QED
    BY <2>1, <2>2 DEF Ids
<1>4. ASSUME NEW k \in DOMAIN m
      PROVE  m[k].id \in IdsFrom(l, c, d)
  <2>1. k + c - 1 \in c..d /\ m[k] = l[k + c - 1]
    BY <1>1, <1>2
  <2>2. QED
    BY <2>1 DEF IdsFrom
<1>5. QED
  BY <1>3, <1>4 DEF Ids, IdsFrom

LEMMA SliceKeeps ==
    ASSUME NEW b, NEW l, NEW F \in [Passes -> b], NEW s, 0 \in b,
           WellFormed(l, b), Walkable(l, F, s),
           NEW c, NEW d, NEW m, Slice(l, c, d, m)
    PROVE  /\ WellFormed(m, b) /\ Walkable(m, F, s)
           /\ InPlace(l, F) => InPlace(m, F)
           /\ NoGap(l) => NoGap(m)
<1> DEFINE g == [k \in 1..(d - c + 1) |-> k + c - 1]
<1> USE DEF Slice
<1>1. l \in Seq(Holder) /\ c \in Int /\ d \in Int
  BY DEF WellFormed
<1>2. /\ m \in Seq(Holder) /\ Len(m) = d - c + 1
      /\ \A k \in 1..(d - c + 1) : m[k] = l[k + c - 1]
  BY <1>1
<1>3. DOMAIN m = 1..(d - c + 1) /\ DOMAIN l = 1..Len(l)
  BY <1>1, <1>2
<1>4. \A k \in DOMAIN m : g[k] = k + c - 1 /\ g[k] \in DOMAIN l /\ g[k] # 0 /\ g[k] \in c..d
  BY <1>1, <1>3
<1>5. g \in [DOMAIN m -> {0} \cup DOMAIN l]
  BY <1>3, <1>4
<1> HIDE DEF g
<1>6. \A k \in DOMAIN m : m[k] = l[g[k]]
  BY <1>2, <1>3, <1>4
<1>7. \A j, k \in DOMAIN m : j < k => g[j] < g[k]
  BY <1>1, <1>3, <1>4
<1>8. Edit(l, m, g, b, b)
  <2>1. \A k \in DOMAIN m :
          /\ m[k].id = l[g[k]].id /\ m[k].gap = l[g[k]].gap
          /\ m[k].frame \in {l[g[k]].frame, "none"} /\ l[g[k]].done \subseteq m[k].done
    BY <1>6
  <2>2. QED
    BY <1>2, <1>4, <1>5, <1>7, <2>1 DEF Edit
<1>9. Keeps(l, m, g, F)
  BY <1>4, <1>6 DEF Keeps, Walkable
<1>10. WellFormed(m, b) /\ Walkable(m, F, s)
  BY <1>8, <1>9, EditedList
<1>11. InPlace(l, F) => InPlace(m, F)
  <2>1. \A k \in DOMAIN m : m[k].seq => g[k] # 0 /\ l[g[k]].seq
    BY <1>4, <1>6
  <2>2. QED
    BY <1>8, <2>1, EditedInPlace
<1>12. NoGap(l) => NoGap(m)
  <2>1. \A k \in DOMAIN m : g[k] = 0 => ~m[k].gap
    BY <1>4
  <2>2. QED
    BY <1>1, <1>8, <2>1, EditedNoGap
<1>13. QED
  BY <1>10, <1>11, <1>12

(* Before the first call of the passes.                                    *)
LEMMA Unvisited ==
    ASSUME NEW b, NEW l, WellFormed(l, b), NEW F, NEW s, \A p \in Passes : F[p] = 0
    PROVE  Walkable(l, F, s) /\ InPlace(l, F)
<1>1. \A i \in DOMAIN l, p \in Passes : l[i].id # F[p]
  BY DEF WellFormed
<1>2. "seq" \in Passes /\ Renumbering \subseteq Passes
  BY DEF Passes, Renumbering
<1>3. QED
  BY <1>1, <1>2 DEF Walkable, InPlace

(* tystream_init: where the stream starts.                                 *)
LEMMA InitTriesFacts ==
    ASSUME video \in Seq(Holder), NEW t \in InitTries
    PROVE  /\ SameSeqs(video, t.list)
           /\ t.ok => t.at \in 1..Len(video) /\ t.list[t.at].seq
<1> DEFINE i == InitSeq(video)
<1>1. i # 0
  BY DEF InitTries
<1>2. i \in 1..Len(video) /\ video[i].seq
  <2> DEFINE usable == {k \in DOMAIN video :
                          video[k].seq /\ ((k < Len(video) /\ video[k + 1].frame = "I")
                                             \/ video[k].frame = "I")}
  <2>1. usable \subseteq Nat /\ usable \subseteq 1..Len(video) /\ \A k \in usable : video[k].seq
    OBVIOUS
  <2>2. i # 0 => i = Least(usable, 0)
    BY DEF InitSeq
  <2> HIDE DEF usable, i
  <2>3. QED
    BY <1>1, <2>1, <2>2, LeastFacts
<1> HIDE DEF i
<1>3. PICK r \in CloseResults(video, i) :
        t \in IF r.ok THEN {[ok |-> TRUE, list |-> r.list, at |-> i]}
              ELSE IF NextSeq(r.list, i) = 0
                   THEN {[ok |-> FALSE, list |-> r.list, at |-> 0]}
              ELSE {[ok |-> s.ok, list |-> s.list, at |-> NextSeq(r.list, i)] :
                       s \in CloseResults(r.list, NextSeq(r.list, i))}
  BY DEF InitTries, i
<1>4. SameSeqs(video, r.list)
  BY CloseResultsFacts
<1>5. r.list \in Seq(Holder) /\ Len(r.list) = Len(video) /\ i \in DOMAIN r.list
      /\ \A k \in 1..Len(video) : r.list[k].seq = video[k].seq
  BY <1>2, <1>4 DEF SameSeqs, Retouched
<1>6. CASE r.ok
  <2>1. t.list = r.list /\ t.at = i
    BY <1>3, <1>6
  <2>2. QED
    BY <1>2, <1>4, <1>5, <2>1
<1>7. CASE ~r.ok /\ NextSeq(r.list, i) = 0
  <2>1. t.list = r.list /\ t.ok = FALSE
    BY <1>3, <1>7
  <2>2. QED
    BY <1>4, <2>1
<1>8. CASE ~r.ok /\ NextSeq(r.list, i) # 0
  <2> DEFINE n == NextSeq(r.list, i)
  <2>1. n \in (i + 1)..Len(r.list) /\ r.list[n].seq
    BY <1>5, <1>8, NextSeqFacts
  <2>2. PICK s \in CloseResults(r.list, n) : t = [ok |-> s.ok, list |-> s.list, at |-> n]
    BY <1>3, <1>8
  <2> HIDE DEF n
  <2>3. t.list = s.list /\ t.at = n
    BY <2>2
  <2>4. SameSeqs(r.list, s.list)
    BY <1>5, CloseResultsFacts
  <2>5. SameSeqs(video, s.list)
    BY <1>4, <2>4, SameSeqsTransitive
  <2>6. n \in 1..Len(video) /\ s.list[n].seq
    BY <1>2, <1>5, <2>1, <2>4 DEF SameSeqs
  <2>7. QED
    BY <2>3, <2>5, <2>6
<1>9. QED
  BY <1>6, <1>7, <1>8

(* Before the stream has started.                                          *)
LEMMA NotStarted ==
    ASSUME IInv, pc = "init"
    PROVE  /\ ~find_seq /\ tmp = 0 /\ kept = <<>> /\ junk = {}
           /\ lf = [p \in Passes |-> 0]
  BY DEF IInv, Phases, TmpSound

LEMMA StartFailedKeeps == IInv /\ StartFailed => IInv'
<1> SUFFICES ASSUME IInv, StartFailed PROVE IInv'
  OBVIOUS
<1> DEFINE b == UsedIds(new, nr)
<1>1. PICK t \in InitTries :
        /\ video' = t.list
        /\ odd' = IF \E u \in InitTries : u.ok THEN odd + 1 ELSE odd
  BY DEF StartFailed
<1>2. pc = "init" /\ pc' = AfterInit(repair, FALSE) /\ odd' <= MaxOdd
      /\ UNCHANGED <<mode, kept, junk, lf, repair, find_seq, counter, tmp, input, new>>
  BY DEF StartFailed
<1>3. /\ ListsOK(video, kept, junk, lf, series, b) /\ lf \in [Passes -> b] /\ 0 \in b
      /\ WellFormed(video, b) /\ Walkable(video, lf, series) /\ video \in Seq(Holder)
  BY ListFacts
<1> HIDE DEF b
<1>4. SameSeqs(video, video')
  BY <1>1, <1>3, InitTriesFacts
<1>5. /\ KeepsAll(video, video', Ident(video'), lf, b, b)
      /\ InPlace(video, lf) => InPlace(video', lf)
      /\ NoGap(video) => NoGap(video')
  BY <1>3, <1>4, SameSeqsKeeps
<1>6. ListsOK(video', kept, junk, lf, series, b)
  <2>1. Replaces(video, junk, video, video', video', junk)
    BY DEF Replaces
  <2>2. QED
    BY <1>3, <1>5, <2>1, Replaced
<1>7. odd' \in 0..MaxOdd
  <2>1. odd \in Nat
    BY DEF IInv, Scalars
  <2>2. odd' \in Nat
    BY <1>1, <2>1
  <2>3. QED
    BY <1>2, <2>2, Consts
<1>8. pc' \in {"repair", "read"} /\ ~find_seq /\ tmp = 0
  BY <1>2, NotStarted DEF AfterInit
<1>9. Scalars' /\ Phases'
  <2>1. UNCHANGED <<series, std_alone, kept, junk, lf, repair, find_seq, counter, tmp, nr,
                    rounds, new>>
    BY <1>2 DEF mode, input
  <2>2. Scalars'
    BY <1>7, <1>8, <2>1 DEF IInv, Scalars
  <2>3. Phases'
    <3>1. lf = [p \in Passes |-> 0] /\ junk = {} /\ kept = <<>> /\ ~(counter > CloseTries)
      BY <1>2, NotStarted DEF IInv, Phases
    <3>2. QED
      BY <1>8, <2>1, <3>1 DEF Phases, Passes
  <2>4. QED
    BY <2>2, <2>3
<1>10. QED
  BY <1>2, <1>5, <1>6, <1>8, <1>9 DEF IInv, mode, input, b

(* move_seq_to_i_frame, holder by holder.                                  *)
LEMMA MoveSeqFacts ==
    ASSUME NEW l \in Seq(Holder), NEW i \in DOMAIN l, CanMove(l, i)
    PROVE  /\ Retouched(l, MoveSeq(l, i)) /\ i + 1 \in DOMAIN l
           /\ ~MoveSeq(l, i)[i].seq /\ MoveSeq(l, i)[i + 1].seq
           /\ MoveSeq(l, i)[i + 1].frame = "I"
           /\ \A k \in DOMAIN l \ {i, i + 1} : MoveSeq(l, i)[k] = l[k]
<1> DEFINE h == [l[i] EXCEPT !.seq = FALSE]
           c == [[l[i + 1] EXCEPT !.seq = TRUE] EXCEPT !.fixed = TRUE]
           m == [[l EXCEPT ![i] = h] EXCEPT ![i + 1] = c]
<1>1. i \in 1..Len(l) /\ i + 1 \in 1..Len(l) /\ l[i + 1].frame = "I"
  BY DEF CanMove
<1>2. l[i] \in Holder /\ l[i + 1] \in Holder
  BY <1>1
<1>3. /\ h \in Holder /\ h.id = l[i].id /\ h.gap = l[i].gap /\ h.frame = l[i].frame
      /\ h.done = l[i].done /\ h.seq = FALSE
  BY <1>2 DEF Holder
<1>4. /\ c \in Holder /\ c.id = l[i + 1].id /\ c.gap = l[i + 1].gap
      /\ c.frame = l[i + 1].frame /\ c.done = l[i + 1].done /\ c.seq = TRUE
  BY <1>2 DEF Holder
<1>5. MoveSeq(l, i) = m
  <2>1. i # i + 1 /\ i \in DOMAIN l /\ i + 1 \in DOMAIN l
    BY <1>1
  <2>2. QED
    BY <2>1 DEF MoveSeq
<1> HIDE DEF h, c
<1>6. m \in Seq(Holder) /\ Len(m) = Len(l)
  BY <1>1, <1>3, <1>4
<1>7. \A k \in 1..Len(l) : m[k] = IF k = i + 1 THEN c ELSE IF k = i THEN h ELSE l[k]
  BY <1>1
<1> HIDE DEF m
<1>8. m[i] = h /\ m[i + 1] = c
  BY <1>1, <1>7
<1>9. \A k \in 1..Len(l) : /\ m[k].id = l[k].id /\ m[k].gap = l[k].gap
                           /\ m[k].frame = l[k].frame /\ m[k].done = l[k].done
  BY <1>1, <1>3, <1>4, <1>7
<1>10. Retouched(l, m)
  BY <1>6, <1>9 DEF Retouched
<1>11. \A k \in DOMAIN l \ {i, i + 1} : m[k] = l[k]
  BY <1>7
<1>12. QED
  BY <1>1, <1>3, <1>4, <1>5, <1>8, <1>10, <1>11

LEMMA NoFrontierNoList ==
    ASSUME NEW b, NEW v, NEW k, NEW s, NEW F, 0 \in b,
           WellFormed(v, b), WellFormed(k, b), Len(k) <= 1, Disjoint(k, v),
           F = [p \in Passes |-> 0]
    PROVE  ListsOK(v, k, {}, F, s, b)
<1>1. Walkable(v, F, s)
  BY Unvisited
<1>2. Separate(v, k, {})
  BY DEF Separate
<1>3. Frontiers(v, {}, F, s, b)
  <2>1. F \in [Passes -> b] /\ \A p \in Passes : F[p] = 0
    OBVIOUS
  <2>2. QED
    BY <2>1 DEF Frontiers
<1>4. QED
  BY <1>1, <1>2, <1>3 DEF ListsOK

LEMMA StartKeeps == IInv /\ Start => IInv'
<1> SUFFICES ASSUME IInv, Start PROVE IInv'
  OBVIOUS
<1> DEFINE b == UsedIds(new, nr)
<1>1. PICK t \in InitTries :
        /\ t.ok
        /\ LET l == SubSeq(t.list, t.at, Len(t.list)) IN
           IF series = "S1" /\ CanMove(l, 1)
           THEN /\ video' = Tail(MoveSeq(l, 1))
                /\ kept' = <<MoveSeq(l, 1)[1]>>
                /\ lf' = [lf EXCEPT !["seq"] = l[2].id]
           ELSE /\ video' = l /\ kept' = <<>>
                /\ UNCHANGED lf
  BY DEF Start
<1>2. /\ pc = "init" /\ find_seq' = TRUE /\ pc' = AfterInit(repair, TRUE)
      /\ UNCHANGED <<mode, junk, repair, counter, tmp, input, count>>
  BY DEF Start
<1> DEFINE l == SubSeq(t.list, t.at, Len(t.list))
<1>3. /\ lf \in [Passes -> b] /\ 0 \in b
      /\ WellFormed(video, b) /\ Walkable(video, lf, series) /\ video \in Seq(Holder)
  BY ListFacts
<1>4. tmp = 0 /\ junk = {} /\ kept = <<>> /\ lf = [p \in Passes |-> 0]
  BY <1>2, NotStarted
<1>5. SameSeqs(video, t.list) /\ t.at \in 1..Len(video) /\ t.list[t.at].seq
      /\ Len(t.list) = Len(video)
  BY <1>1, <1>3, InitTriesFacts DEF SameSeqs, Retouched
<1> HIDE DEF b
<1>6. /\ WellFormed(t.list, b) /\ Walkable(t.list, lf, series)
      /\ NoGap(video) => NoGap(t.list)
  BY <1>3, <1>5, SameSeqsKeeps
<1>7. /\ WellFormed(l, b) /\ l[1].seq /\ 1 \in DOMAIN l /\ l \in Seq(Holder)
      /\ NoGap(video) => NoGap(l)
  <2>1. t.at \in 1..(Len(t.list) + 1) /\ Len(t.list) \in (t.at - 1)..Len(t.list)
    BY <1>5
  <2>2. /\ WellFormed(l, b) /\ Len(l) = Len(t.list) - t.at + 1
        /\ \A k \in 1..(Len(t.list) - t.at + 1) : l[k] = t.list[k + t.at - 1]
        /\ NoGap(t.list) => NoGap(l)
    <3>1. l = SubSeq(t.list, t.at, Len(t.list))
      OBVIOUS
    <3> HIDE DEF l
    <3>2. Slice(t.list, t.at, Len(t.list), l)
      BY <2>1, <3>1 DEF Slice
    <3>3. /\ lf \in [Passes -> b] /\ 0 \in b /\ Slice(t.list, t.at, Len(t.list), l)
          /\ WellFormed(t.list, b) /\ Walkable(t.list, lf, series)
      BY <1>3, <1>6, <3>2
    <3>4. WellFormed(l, b)
      BY <3>3, SliceKeeps
    <3>5. t.list \in Seq(Holder)
      BY <3>3 DEF WellFormed
    <3>6. /\ Len(l) = Len(t.list) - t.at + 1
          /\ \A k \in 1..(Len(t.list) - t.at + 1) : l[k] = t.list[k + t.at - 1]
      BY <3>2, <3>5, SliceFacts
    <3>7. NoGap(t.list) => NoGap(l)
      BY <3>3, SliceKeeps
    <3>8. QED
      BY <3>4, <3>6, <3>7
  <2>3. 1 \in 1..(Len(t.list) - t.at + 1) /\ 1 + t.at - 1 = t.at
    BY <1>5
  <2>4. l[1] = t.list[t.at]
    BY <2>2, <2>3
  <2>5. l \in Seq(Holder) /\ 1 \in DOMAIN l
    BY <2>2, <2>3 DEF WellFormed
  <2>6. QED
    BY <1>5, <1>6, <2>2, <2>4, <2>5
<1>8. /\ \/ /\ series = "S1" /\ CanMove(l, 1)
            /\ video' = Tail(MoveSeq(l, 1))
            /\ kept' = <<MoveSeq(l, 1)[1]>>
            /\ lf' = [lf EXCEPT !["seq"] = l[2].id]
         \/ video' = l /\ kept' = <<>> /\ lf' = lf
  BY <1>1
<1> HIDE DEF l
<1>9. /\ ListsOK(video', kept', {}, lf', series, b)
      /\ series = "S1" => InPlace(video', lf')
      /\ NoGap(video) => NoGap(video')
      /\ series = "S2" => video' # <<>> /\ video'[1].seq
  <2>1. CASE /\ series = "S1" /\ CanMove(l, 1)
             /\ video' = Tail(MoveSeq(l, 1))
             /\ kept' = <<MoveSeq(l, 1)[1]>>
             /\ lf' = [lf EXCEPT !["seq"] = l[2].id]
    <3> DEFINE m == MoveSeq(l, 1)
               v == Tail(m)
    <3>1. /\ Retouched(l, m) /\ 2 \in DOMAIN l /\ m[2].seq /\ m[2].frame = "I"
      <4>1. 1 + 1 = 2
        OBVIOUS
      <4>2. QED
        BY <1>7, <2>1, <4>1, MoveSeqFacts
    <3>2. /\ m \in Seq(Holder) /\ Len(m) = Len(l) /\ Len(l) >= 2 /\ Len(l) \in Nat
          /\ \A k \in 1..Len(l) : m[k].id = l[k].id /\ m[k].gap = l[k].gap
      BY <1>7, <3>1 DEF Retouched
    <3> HIDE DEF m
    <3>3. v \in Seq(Holder) /\ Len(v) = Len(l) - 1 /\ \A k \in 1..(Len(l) - 1) : v[k] = m[k + 1]
      BY <3>2
    <3> HIDE DEF v
    <3>4. \A k \in DOMAIN v : k + 1 \in 1..Len(l) /\ v[k].id = l[k + 1].id
                                /\ v[k].gap = l[k + 1].gap
      BY <3>2, <3>3
    <3>5. DOMAIN l = 1..Len(l) /\ DOMAIN v = 1..(Len(l) - 1)
      BY <1>7, <3>3
    <3>6. \A i, j \in DOMAIN l : l[i].id = l[j].id => i = j
      BY <1>7 DEF WellFormed
    <3>7. WellFormed(v, b)
      <4>1. \A k \in DOMAIN v : v[k].id \in b \ {0}
        BY <1>7, <3>4, <3>5 DEF WellFormed
      <4>2. ASSUME NEW i \in DOMAIN v, NEW j \in DOMAIN v, v[i].id = v[j].id
            PROVE  i = j
        <5>1. i + 1 = j + 1
          BY <3>4, <3>5, <3>6, <4>2
        <5>2. QED
          BY <3>5, <5>1
      <4>3. QED
        BY <3>3, <4>1, <4>2 DEF WellFormed
    <3>8. m[1] \in Holder /\ m[1].id = l[1].id /\ m[1].id \in b \ {0} /\ 1 \in DOMAIN l
      BY <1>7, <3>2 DEF WellFormed
    <3> DEFINE k == <<m[1]>>
    <3>9. WellFormed(k, b) /\ Len(k) <= 1 /\ Ids(k) = {l[1].id}
      <4>1. k \in Seq(Holder) /\ Len(k) = 1 /\ DOMAIN k = {1} /\ k[1] = m[1]
        BY <3>8
      <4> HIDE DEF k
      <4>2. QED
        BY <3>8, <4>1 DEF WellFormed, Ids
    <3> HIDE DEF k
    <3>10. Disjoint(k, v)
      <4>1. \A x \in DOMAIN v : v[x].id # l[1].id
        BY <3>4, <3>5, <3>6, <3>8
      <4>2. QED
        BY <3>9, <4>1 DEF Disjoint, Ids
    <3>11. ListsOK(v, k, {}, lf, series, b)
      BY <1>3, <1>4, <3>7, <3>9, <3>10, NoFrontierNoList
    <3>12. 1 \in DOMAIN v /\ v[1] = m[2] /\ v[1].id = l[2].id
      <4>1. 1 + 1 = 2 /\ 1 \in 1..(Len(l) - 1)
        BY <3>2
      <4>2. QED
        BY <3>1, <3>2, <3>3, <3>5, <4>1
    <3>13. Reachable(v, 1, "seq", lf, series)
      <4>1. \A j \in DOMAIN v, q \in Passes : v[j].id # lf[q]
        BY <1>4, <3>7 DEF WellFormed
      <4>2. "seq" \notin Renumbering
        BY DEF Renumbering
      <4>3. QED
        BY <3>1, <3>12, <4>1, <4>2 DEF Reachable
    <3>14. "seq" \in Passes /\ lf' = [lf EXCEPT !["seq"] = v[1].id]
      BY <2>1, <3>12 DEF Passes
    <3>15. ListsOK(v, k, {}, lf', series, b)
      <4>1. ListsOK(v, k, {}, [lf EXCEPT !["seq"] = v[1].id], series, b)
        BY <3>11, <3>12, <3>13, <3>14, Advanced
      <4>2. QED
        BY <3>14, <4>1
    <3>16. InPlace(v, lf')
      <4>1. lf'["seq"] = v[1].id
        BY <1>3, <3>14
      <4>2. \A j \in DOMAIN v : v[j].id = lf'["seq"] => j = 1
        BY <3>7, <3>12, <4>1 DEF WellFormed
      <4>3. v[1].frame = "I"
        BY <3>1, <3>12
      <4>4. ASSUME NEW i \in DOMAIN v, NEW j \in DOMAIN v, v[j].id = lf'["seq"], i <= j
            PROVE  v[i].frame \notin {"B", "P"}
        <5>1. i = 1
          BY <3>5, <4>2, <4>4
        <5>2. QED
          BY <4>3, <5>1
      <4>5. QED
        BY <4>4 DEF InPlace
    <3>17. NoGap(video) => NoGap(v)
      BY <1>7, <3>4, <3>5 DEF NoGap
    <3>18. video' = v /\ kept' = k
      BY <2>1 DEF v, k, m
    <3>19. QED
      BY <2>1, <3>15, <3>16, <3>17, <3>18
  <2>2. CASE video' = l /\ kept' = <<>> /\ lf' = lf
    <3>1. WellFormed(<<>>, b) /\ Len(<<>>) <= 1 /\ Disjoint(<<>>, l)
      BY DEF WellFormed, Disjoint, Ids
    <3>2. ListsOK(l, <<>>, {}, lf, series, b)
      BY <1>3, <1>4, <1>7, <3>1, NoFrontierNoList
    <3>3. InPlace(l, lf)
      <4>1. \A p \in Passes : lf[p] = 0
        BY <1>4
      <4>2. QED
        BY <1>7, <4>1, Unvisited
    <3>4. l # <<>> /\ l[1].seq
      BY <1>7
    <3>5. QED
      BY <1>7, <2>2, <3>2, <3>3, <3>4
  <2>3. QED
    BY <1>8, <2>1, <2>2
<1>10. pc' \in {"repair", "seq"} /\ (pc' = "seq" => ~repair)
  BY <1>2 DEF AfterInit
<1>11. UNCHANGED <<series, std_alone, junk, repair, counter, tmp, nr, rounds, new, odd>>
  BY <1>2 DEF mode, input, count
<1>12. Scalars' /\ Phases'
  <2>1. Scalars'
    BY <1>2, <1>10, <1>11 DEF IInv, Scalars, Passes
  <2>2. ~(counter > CloseTries)
    BY <1>2 DEF IInv, Phases
  <2>3. find_seq' = TRUE
    BY <1>2
  <2>4. Phases'
    BY <1>10, <1>11, <2>2, <2>3 DEF Phases, Passes
  <2>5. QED
    BY <2>1, <2>4
<1>13. QED
  BY <1>4, <1>9, <1>11, <1>12 DEF IInv, b

(* The writer frees only what lies before the last frontier.               *)
LEMMA WrittenKeeps ==
    ASSUME IInv, pc = "write", pc' = "read", NEW n \in 0..Len(video), Written(n),
           n # 0 => \E j \in DOMAIN video : video[j].id = lf["gop_counter"] /\ n < j,
           UNCHANGED <<mode, junk, lf, repair, find_seq, counter, tmp, input, count>>
    PROVE  IInv'
<1> DEFINE b == UsedIds(new, nr)
<1>1. /\ ListsOK(video, kept, junk, lf, series, b) /\ lf \in [Passes -> b] /\ 0 \in b
      /\ WellFormed(video, b) /\ Walkable(video, lf, series) /\ video \in Seq(Holder)
      /\ Separate(video, kept, junk)
  BY ListFacts
<1>2. UNCHANGED <<series, std_alone, junk, lf, repair, find_seq, counter, tmp, nr, rounds,
                  new, odd>>
  BY DEF mode, input, count
<1>3. find_seq /\ ~repair /\ tmp = 0
  BY DEF IInv, Phases, TmpSound
<1> HIDE DEF b
<1>4. Slice(video, n + 1, Len(video), video')
  BY <1>1 DEF Written, Slice
<1>5. /\ WellFormed(video', b) /\ Walkable(video', lf, series)
      /\ Ids(video') = IdsFrom(video, n + 1, Len(video))
      /\ InPlace(video, lf) => InPlace(video', lf)
      /\ NoGap(video) => NoGap(video')
  <2>1. /\ lf \in [Passes -> b] /\ 0 \in b /\ Slice(video, n + 1, Len(video), video')
        /\ WellFormed(video, b) /\ Walkable(video, lf, series)
    BY <1>1, <1>4
  <2>2. WellFormed(video', b) /\ Walkable(video', lf, series)
    BY <2>1, SliceKeeps
  <2>3. Ids(video') = IdsFrom(video, n + 1, Len(video))
    BY <1>1, <1>4, SliceIds
  <2>4. InPlace(video, lf) => InPlace(video', lf)
    BY <2>1, SliceKeeps
  <2>5. NoGap(video) => NoGap(video')
    BY <2>1, SliceKeeps
  <2>6. QED
    BY <2>2, <2>3, <2>4, <2>5
<1>6. Scalars' /\ Phases'
  <2>1. Scalars'
    BY <1>2 DEF IInv, Scalars
  <2>2. Phases'
    BY <1>2, <1>3 DEF IInv, Phases, Passes
  <2>3. QED
    BY <2>1, <2>2
<1>7. CASE n = 0
  <2>1. kept' = kept /\ video' = video
    <3>1. kept' = kept /\ video' = SubSeq(video, 1, Len(video))
      BY <1>7 DEF Written
    <3>2. QED
      BY <1>1, <3>1
  <2>2. QED
    BY <1>1, <1>2, <1>3, <1>6, <2>1 DEF IInv, b
<1>8. CASE n # 0
  <2>1. PICK j \in DOMAIN video : video[j].id = lf["gop_counter"] /\ n < j
    BY <1>8
  <2>2. kept' = <<video[n]>> /\ n \in DOMAIN video
    BY <1>1, <1>8 DEF Written
  <2>3. ASSUME NEW p \in Passes, Bounds(p, series), NEW i \in DOMAIN video, video[i].id = lf[p]
        PROVE  i \in (n + 1)..Len(video)
    <3>1. CASE p = "gop_counter"
      BY <1>1, <2>1, <2>3, <3>1 DEF WellFormed
    <3>2. CASE p # "gop_counter"
      <4>1. Rank[p] < Rank["gop_counter"] /\ "gop_counter" \in Passes
        BY <3>2 DEF Rank, Passes
      <4>2. j < i
        BY <1>1, <2>1, <2>3, <4>1 DEF Walkable
      <4>3. QED
        BY <1>1, <2>1, <4>2
    <3>3. QED
      BY <3>1, <3>2
  <2>4. /\ WellFormed(kept', b) /\ Len(kept') <= 1 /\ Ids(kept') = {video[n].id}
        /\ kept' \in Seq(Holder)
    <3>1. video[n] \in Holder /\ video[n].id \in b \ {0}
      BY <1>1, <2>2 DEF WellFormed
    <3>2. kept' \in Seq(Holder) /\ Len(kept') = 1 /\ DOMAIN kept' = {1} /\ kept'[1] = video[n]
      BY <2>2, <3>1
    <3>3. QED
      BY <3>1, <3>2 DEF WellFormed, Ids
  <2>5. Ids(video') \subseteq Ids(video) /\ video[n].id \in Ids(video)
    <3>1. IdsFrom(video, n + 1, Len(video)) \subseteq Ids(video)
      BY <1>1 DEF IdsFrom, Ids
    <3>2. video[n].id \in Ids(video)
      BY <2>2 DEF Ids
    <3>3. QED
      BY <1>5, <3>1, <3>2
  <2>6. video[n].id \notin Ids(video')
    <3>1. \A k \in (n + 1)..Len(video) : video[k].id # video[n].id
      BY <1>1, <2>2 DEF WellFormed
    <3>2. QED
      BY <1>5, <3>1 DEF IdsFrom
  <2>7. Separate(video', kept', junk)
    BY <1>1, <2>4, <2>5, <2>6 DEF Separate, Disjoint
  <2>8. Frontiers(video', junk, lf, series, b)
    <3>1. Frontiers(video, junk, lf, series, b)
      BY <1>1 DEF ListsOK
    <3>2. ASSUME NEW p \in Passes, Bounds(p, series), lf[p] # 0
          PROVE  \E l \in {video'} \cup junk : lf[p] \in Ids(l)
      <4>1. PICK l \in {video} \cup junk : lf[p] \in Ids(l)
        BY <3>1, <3>2 DEF Frontiers
      <4>2. CASE l = video
        <5>1. PICK i \in DOMAIN video : video[i].id = lf[p]
          BY <4>1, <4>2 DEF Ids
        <5>2. QED
          BY <1>5, <2>3, <3>2, <5>1 DEF IdsFrom
      <4>3. CASE l # video
        BY <4>1, <4>3
      <4>4. QED
        BY <4>2, <4>3
    <3>3. QED
      BY <3>1, <3>2 DEF Frontiers
  <2>9. ListsOK(video', kept', junk, lf, series, b)
    BY <1>1, <1>5, <2>4, <2>7, <2>8 DEF ListsOK
  <2>10. lf["p_frame"] # 0
    <3>1. lf["gop_counter"] # 0 /\ "p_frame" \in Passes
      BY <1>1, <2>1 DEF WellFormed, Passes
    <3>2. lf["p_frame"] = 0 => lf["gop_counter"] = 0
      <4>1. Rank["p_frame"] <= Rank["gop_counter"] /\ "gop_counter" \in Passes
        BY DEF Rank, Passes
      <4>2. Frontiers(video, junk, lf, series, b)
        BY <1>1 DEF ListsOK
      <4>3. QED
        BY <3>1, <4>1, <4>2, NoneBehind
    <3>3. QED
      BY <3>1, <3>2
  <2>11. QED
    BY <1>2, <1>3, <1>5, <1>6, <2>9, <2>10 DEF IInv, b
<1>9. QED
  BY <1>7, <1>8

(* What the writer may write.                                              *)
LEMMA GreatestFacts ==
    ASSUME NEW T, T \subseteq Nat, T # {}, NEW n \in Nat, T \subseteq 0..n
    PROVE  /\ (CHOOSE k \in T : \A m \in T : m <= k) \in T
           /\ \A m \in T : m <= (CHOOSE k \in T : \A x \in T : x <= k)
  BY GreatestNumber

LEMMA WriteGopsWrites ==
    ASSUME IInv, WriteGops
    PROVE  \E n \in 0..Len(video) :
             /\ Written(n)
             /\ n # 0 => \E j \in DOMAIN video : video[j].id = lf["gop_counter"] /\ n < j
<1> DEFINE b == UsedIds(new, nr)
           okay == IF video = <<>> THEN 0 ELSE is_okay(video[1].id, LastChecked)
           seqs == SeqsIn(video, 1, Index(video, LastChecked) - 1)
           top == CHOOSE k \in seqs : \A m \in seqs : m <= k
<1>1. IF okay < 2 THEN Written(0) ELSE Written(top - 1)
  BY DEF WriteGops
<1>2. /\ WellFormed(video, b) /\ video \in Seq(Holder) /\ Separate(video, kept, junk)
  BY ListFacts
<1> HIDE DEF b, seqs
<1>3. CASE okay < 2
  BY <1>1, <1>2, <1>3
<1>4. CASE ~(okay < 2)
  <2>1. video # <<>> /\ is_okay(video[1].id, LastChecked) # 0 /\ 1 \in DOMAIN video
    BY <1>2, <1>4
  <2>2. video[1].seq /\ \E j \in DOMAIN video : video[j].id = LastChecked /\ 1 < j
    BY <1>2, <2>1, IsOkayFacts
  <2>3. PICK j \in DOMAIN video : video[j].id = LastChecked /\ 1 < j
    BY <2>2
  <2>4. Index(video, LastChecked) = j
    BY <1>2, <2>3, Located
  <2>5. seqs \subseteq 1..(j - 1) /\ 1 \in seqs
    BY <1>2, <2>2, <2>3, <2>4 DEF seqs, SeqsIn
  <2>6. seqs \subseteq Nat /\ seqs # {} /\ j - 1 \in Nat /\ seqs \subseteq 0..(j - 1)
    BY <1>2, <2>5
  <2>7. top \in seqs
    BY <2>6, GreatestFacts
  <2> HIDE DEF top
  <2>8. top - 1 \in 0..Len(video) /\ top - 1 < j
    BY <1>2, <2>3, <2>5, <2>7
  <2>9. Written(top - 1)
    BY <1>1, <1>4
  <2>10. video[j].id = lf["gop_counter"]
    BY <2>3 DEF LastChecked
  <2>11. QED
    BY <2>8, <2>9, <2>10
<1>5. QED
  BY <1>3, <1>4

LEMMA WriteFramesWrites ==
    ASSUME IInv, WriteFrames
    PROVE  \E n \in 0..Len(video) :
             /\ Written(n)
             /\ n # 0 => \E j \in DOMAIN video : video[j].id = lf["gop_counter"] /\ n < j
<1> DEFINE b == UsedIds(new, nr)
           okay == IF LastChecked \in Ids(video) THEN Index(video, LastChecked) - 1 ELSE 0
<1>1. PICK n \in 0..(IF okay > KeepFrames THEN okay - KeepFrames ELSE 0) : Written(n)
  BY DEF WriteFrames
<1>2. /\ WellFormed(video, b) /\ video \in Seq(Holder) /\ Separate(video, kept, junk)
  BY ListFacts
<1> HIDE DEF b
<1>3. CASE LastChecked \in Ids(video)
  <2>1. PICK j \in DOMAIN video : video[j].id = LastChecked
    BY <1>3 DEF Ids
  <2>2. Index(video, LastChecked) = j
    BY <1>2, <2>1, Located
  <2>3. okay = j - 1
    BY <1>3, <2>2
  <2> HIDE DEF okay
  <2>4. n \in 0..(j - 1)
    BY <1>1, <1>2, <2>3, Consts
  <2>5. n \in 0..Len(video) /\ n < j
    BY <1>2, <2>4
  <2>6. video[j].id = lf["gop_counter"]
    BY <2>1 DEF LastChecked
  <2>7. QED
    BY <1>1, <2>5, <2>6
<1>4. CASE LastChecked \notin Ids(video)
  <2>1. n = 0
    BY <1>1, <1>4, Consts
  <2>2. 0 \in 0..Len(video)
    BY <1>2
  <2>3. QED
    BY <1>1, <2>1, <2>2
<1>5. QED
  BY <1>3, <1>4

(* Both writers.                                                           *)
LEMMA WriteKeeps == IInv /\ (WriteGops \/ WriteFrames) => IInv'
<1> SUFFICES ASSUME IInv, WriteGops \/ WriteFrames PROVE IInv'
  OBVIOUS
<1>1. /\ pc = "write" /\ pc' = "read"
      /\ UNCHANGED <<mode, junk, lf, repair, find_seq, counter, tmp, input, count>>
  BY DEF WriteGops, WriteFrames
<1>2. PICK n \in 0..Len(video) :
        /\ Written(n)
        /\ n # 0 => \E j \in DOMAIN video : video[j].id = lf["gop_counter"] /\ n < j
  BY WriteGopsWrites, WriteFramesWrites
<1>3. QED
  BY <1>1, <1>2, WrittenKeeps

-----------------------------------------------------------------------------
(* A part of a list is cut out.                                            *)
CutOut(l, c, d, m) ==
    /\ c \in 2..d /\ d \in 1..Len(l)
    /\ m = SubSeq(l, 1, c - 1) \o SubSeq(l, d, Len(l))

LEMMA CutOutFacts ==
    ASSUME NEW l \in Seq(Holder), NEW c, NEW d, NEW m, CutOut(l, c, d, m)
    PROVE  /\ m \in Seq(Holder) /\ Len(m) = Len(l) - d + c
           /\ \A k \in 1..(Len(l) - d + c) : m[k] = IF k < c THEN l[k] ELSE l[k - c + d]
<1> DEFINE front == SubSeq(l, 1, c - 1)
           back == SubSeq(l, d, Len(l))
<1>1. c \in Nat /\ d \in Nat /\ 2 <= c /\ c <= d /\ d <= Len(l) /\ Len(l) \in Nat
  BY DEF CutOut
<1>2. front \in Seq(Holder) /\ Len(front) = c - 1 /\ \A x \in 1..(c - 1) : front[x] = l[x]
  BY <1>1
<1>3. /\ back \in Seq(Holder) /\ Len(back) = Len(l) - d + 1
      /\ \A x \in 1..(Len(l) - d + 1) : back[x] = l[d + x - 1]
  BY <1>1
<1> HIDE DEF front, back
<1>4. /\ front \o back \in Seq(Holder) /\ Len(front \o back) = Len(front) + Len(back)
      /\ \A x \in 1..(Len(front) + Len(back)) :
           (front \o back)[x] = IF x <= Len(front) THEN front[x] ELSE back[x - Len(front)]
  BY <1>2, <1>3, ConcatProperties
<1>5. m = front \o back
  BY DEF CutOut, front, back
<1>6. m \in Seq(Holder) /\ Len(m) = Len(l) - d + c
  <2>1. m \in Seq(Holder) /\ Len(m) = Len(front) + Len(back)
    BY <1>4, <1>5
  <2>2. QED
    BY <1>1, <1>2, <1>3, <2>1
<1>7. ASSUME NEW k \in 1..(Len(l) - d + c)
      PROVE  m[k] = IF k < c THEN l[k] ELSE l[k - c + d]
  <2>1. k \in 1..(Len(front) + Len(back)) /\ (k < c <=> k <= Len(front))
    BY <1>1, <1>2, <1>3
  <2>2. m[k] = IF k < c THEN front[k] ELSE back[k - Len(front)]
    BY <1>4, <1>5, <2>1
  <2>3. CASE k < c
    BY <1>1, <1>2, <2>2, <2>3
  <2>4. CASE ~(k < c)
    <3>1. k - Len(front) = k - c + 1 /\ k - c + 1 \in 1..(Len(l) - d + 1)
          /\ d + (k - c + 1) - 1 = k - c + d
      BY <1>1, <1>2, <2>4
    <3>2. back[k - c + 1] = l[d + (k - c + 1) - 1]
      BY <1>3, <3>1
    <3>3. QED
      BY <2>2, <2>4, <3>1, <3>2
  <2>5. QED
    BY <2>3, <2>4
<1>8. QED
  BY <1>6, <1>7

(* Where each holder of the shortened list was before.                     *)
Origin(l, c, d) == [k \in 1..(Len(l) - d + c) |-> IF k < c THEN k ELSE k - c + d]

LEMMA CutOutIsEdit ==
    ASSUME NEW l \in Seq(Holder), NEW c, NEW d, NEW m, CutOut(l, c, d, m), NEW b
    PROVE  /\ Edit(l, m, Origin(l, c, d), b, b)
           /\ \A k \in DOMAIN m : /\ Origin(l, c, d)[k] # 0
                                  /\ m[k] = l[Origin(l, c, d)[k]]
                                  /\ Origin(l, c, d)[k] \notin c..(d - 1)
           /\ \A x \in DOMAIN l : x \notin c..(d - 1) =>
                \E k \in DOMAIN m : Origin(l, c, d)[k] = x
           /\ 1 \in DOMAIN m /\ Origin(l, c, d)[1] = 1
<1> DEFINE g == Origin(l, c, d)
<1>1. c \in Nat /\ d \in Nat /\ 2 <= c /\ c <= d /\ d <= Len(l) /\ Len(l) \in Nat
  BY DEF CutOut
<1>2. m \in Seq(Holder) /\ DOMAIN m = 1..(Len(l) - d + c) /\ DOMAIN l = 1..Len(l)
  BY CutOutFacts
<1>3. \A k \in DOMAIN m : g[k] = IF k < c THEN k ELSE k - c + d
  BY <1>2 DEF Origin
<1>4. \A k \in DOMAIN m : g[k] \in DOMAIN l /\ g[k] # 0 /\ g[k] \notin c..(d - 1)
  BY <1>1, <1>2, <1>3
<1>5. g \in [DOMAIN m -> {0} \cup DOMAIN l]
  BY <1>2, <1>4 DEF Origin
<1>6. \A k \in DOMAIN m : m[k] = l[g[k]]
  BY <1>2, <1>3, CutOutFacts
<1> HIDE DEF g
<1>7. \A j, k \in DOMAIN m : j < k => g[j] < g[k]
  BY <1>1, <1>2, <1>3
<1>8. Edit(l, m, g, b, b)
  <2>1. \A k \in DOMAIN m :
          /\ m[k].id = l[g[k]].id /\ m[k].gap = l[g[k]].gap
          /\ m[k].frame \in {l[g[k]].frame, "none"} /\ l[g[k]].done \subseteq m[k].done
    BY <1>6
  <2>2. QED
    BY <1>2, <1>4, <1>5, <1>7, <2>1 DEF Edit
<1>9. ASSUME NEW x \in DOMAIN l, x \notin c..(d - 1)
      PROVE  \E k \in DOMAIN m : g[k] = x
  <2>1. CASE x < c
    <3>1. x \in DOMAIN m
      BY <1>1, <1>2, <2>1
    <3>2. QED
      BY <1>3, <2>1, <3>1
  <2>2. CASE ~(x < c)
    <3>1. x - d + c \in DOMAIN m /\ ~(x - d + c < c) /\ (x - d + c) - c + d = x
      BY <1>1, <1>2, <1>9, <2>2
    <3>2. QED
      BY <1>3, <3>1
  <2>3. QED
    BY <2>1, <2>2
<1>10. 1 \in DOMAIN m /\ g[1] = 1
  BY <1>1, <1>2, <1>3
<1>11. QED
  BY <1>4, <1>6, <1>8, <1>9, <1>10 DEF g

LEMMA CutOutKeeps ==
    ASSUME NEW b, NEW l, NEW F \in [Passes -> b], NEW s, 0 \in b,
           WellFormed(l, b), Walkable(l, F, s),
           NEW c, NEW d, NEW m, CutOut(l, c, d, m)
    PROVE  /\ WellFormed(m, b) /\ Walkable(m, F, s)
           /\ InPlace(l, F) => InPlace(m, F)
           /\ (\A k \in DOMAIN l : l[k].gap => k \in c..(d - 1)) => NoGap(m)
           /\ l[1].seq => m # <<>> /\ m[1].seq
<1> DEFINE g == Origin(l, c, d)
<1>1. l \in Seq(Holder)
  BY DEF WellFormed
<1>2. /\ Edit(l, m, g, b, b)
      /\ \A k \in DOMAIN m : g[k] # 0 /\ m[k] = l[g[k]] /\ g[k] \notin c..(d - 1)
      /\ 1 \in DOMAIN m /\ g[1] = 1
  BY <1>1, CutOutIsEdit
<1> HIDE DEF g
<1>3. m \in Seq(Holder) /\ \A k \in DOMAIN m : g[k] \in DOMAIN l
  BY <1>2 DEF Edit
<1>4. Keeps(l, m, g, F)
  BY <1>2, <1>3 DEF Keeps, Walkable
<1>5. WellFormed(m, b) /\ Walkable(m, F, s)
  BY <1>2, <1>4, EditedList
<1>6. InPlace(l, F) => InPlace(m, F)
  <2>1. \A k \in DOMAIN m : m[k].seq => g[k] # 0 /\ l[g[k]].seq
    BY <1>2
  <2>2. QED
    BY <1>2, <2>1, EditedInPlace
<1>7. (\A k \in DOMAIN l : l[k].gap => k \in c..(d - 1)) => NoGap(m)
  BY <1>2, <1>3 DEF NoGap
<1>8. l[1].seq => m # <<>> /\ m[1].seq
  <2>1. m[1] = l[1] /\ m # <<>>
    BY <1>2, <1>3
  <2>2. QED
    BY <2>1
<1>9. QED
  BY <1>5, <1>6, <1>7, <1>8

LEMMA CutOutIds ==
    ASSUME NEW b, NEW l, WellFormed(l, b), NEW c, NEW d, NEW m, CutOut(l, c, d, m)
    PROVE  /\ Ids(l) = Ids(m) \cup IdsFrom(l, c, d - 1)
           /\ Ids(m) \cap IdsFrom(l, c, d - 1) = {}
<1> DEFINE g == Origin(l, c, d)
<1>1. l \in Seq(Holder)
  BY DEF WellFormed
<1>2. /\ Edit(l, m, g, b, b)
      /\ \A k \in DOMAIN m : g[k] # 0 /\ m[k] = l[g[k]] /\ g[k] \notin c..(d - 1)
      /\ \A x \in DOMAIN l : x \notin c..(d - 1) => \E k \in DOMAIN m : g[k] = x
  BY <1>1, CutOutIsEdit
<1> HIDE DEF g
<1>3. m \in Seq(Holder) /\ \A k \in DOMAIN m : g[k] \in DOMAIN l
  BY <1>2 DEF Edit
<1>4. c..(d - 1) \subseteq DOMAIN l
  BY <1>1 DEF CutOut
<1>5. Ids(m) \subseteq Ids(l) /\ IdsFrom(l, c, d - 1) \subseteq Ids(l)
  BY <1>2, <1>3, <1>4 DEF Ids, IdsFrom
<1>6. ASSUME NEW x \in DOMAIN l
      PROVE  l[x].id \in Ids(m) \/ l[x].id \in IdsFrom(l, c, d - 1)
  <2>1. CASE x \in c..(d - 1)
    BY <2>1 DEF IdsFrom
  <2>2. CASE x \notin c..(d - 1)
    <3>1. PICK k \in DOMAIN m : g[k] = x
      BY <1>2, <2>2
    <3>2. m[k].id = l[x].id
      BY <1>2, <3>1
    <3>3. QED
      BY <3>2 DEF Ids
  <2>3. QED
    BY <2>1, <2>2
<1>7. ASSUME NEW k \in DOMAIN m, NEW x \in c..(d - 1), m[k].id = l[x].id
      PROVE  FALSE
  <2>1. g[k] = x
    BY <1>2, <1>3, <1>4, <1>7 DEF WellFormed
  <2>2. QED
    BY <1>2, <2>1
<1>8. Ids(l) \subseteq Ids(m) \cup IdsFrom(l, c, d - 1)
  BY <1>6 DEF Ids
<1>9. Ids(m) \cap IdsFrom(l, c, d - 1) = {}
  BY <1>7 DEF Ids, IdsFrom
<1>10. QED
  BY <1>5, <1>8, <1>9

(* A repair: what is cut out is kept if a frontier is in it.               *)
LEMMA FirstGapFacts ==
    ASSUME video \in Seq(Holder), FirstGap # 0
    PROVE  FirstGap \in 1..Len(video) /\ \A k \in DOMAIN video : video[k].gap => FirstGap <= k
<1> DEFINE S == {k \in DOMAIN video : video[k].gap}
<1>1. S \subseteq Nat /\ S \subseteq DOMAIN video /\ FirstGap = Least(S, 0)
  BY DEF FirstGap
<1>2. \A k \in DOMAIN video : video[k].gap <=> k \in S
  OBVIOUS
<1> HIDE DEF S
<1>3. S # {}
  BY <1>1, LeastFacts
<1>4. Least(S, 0) \in S /\ \A m \in S : Least(S, 0) <= m
  BY <1>1, <1>3, LeastFacts
<1>5. FirstGap \in S /\ \A m \in S : FirstGap <= m
  BY <1>1, <1>4
<1>6. FirstGap \in DOMAIN video /\ DOMAIN video = 1..Len(video)
  BY <1>1, <1>5
<1>7. QED
  BY <1>2, <1>5, <1>6

LEMMA RepairKeeps == IInv /\ Repair => IInv'
<1> SUFFICES ASSUME IInv, Repair PROVE IInv'
  OBVIOUS
<1> DEFINE b == UsedIds(new, nr)
<1>1. /\ pc = "repair" /\ FirstGap # 0
      /\ pc' = IF find_seq /\ ~repair' THEN "seq" ELSE "read"
      /\ UNCHANGED <<mode, kept, lf, find_seq, counter, tmp, input, count>>
  BY DEF Repair, EnoughToRepair
<1>2. \E seq_at \in NewStarts, pi_at \in CutPoints :
        LET l == Closed(video, seq_at)
            out == SubSeq(l, pi_at, seq_at - 1) IN
        /\ video' = SubSeq(l, 1, pi_at - 1) \o SubSeq(l, seq_at, Len(l))
        /\ junk' = IF \E p \in Passes : lf[p] \in Ids(out) THEN junk \cup {out} ELSE junk
        /\ repair' = CheckGaps(l, seq_at)
  BY DEF Repair
<1>3. PICK seq_at \in NewStarts, pi_at \in CutPoints :
        LET l == Closed(video, seq_at)
            out == SubSeq(l, pi_at, seq_at - 1) IN
        /\ video' = SubSeq(l, 1, pi_at - 1) \o SubSeq(l, seq_at, Len(l))
        /\ junk' = IF \E p \in Passes : lf[p] \in Ids(out) THEN junk \cup {out} ELSE junk
        /\ repair' = CheckGaps(l, seq_at)
  BY <1>2
<1> DEFINE l == Closed(video, seq_at)
           out == SubSeq(l, pi_at, seq_at - 1)
<1>4. /\ ListsOK(video, kept, junk, lf, series, b) /\ lf \in [Passes -> b] /\ 0 \in b
      /\ WellFormed(video, b) /\ Walkable(video, lf, series) /\ video \in Seq(Holder)
      /\ Separate(video, kept, junk) /\ Frontiers(video, junk, lf, series, b)
      /\ WellFormed(kept, b) /\ Len(kept) <= 1
  BY ListFacts DEF ListsOK
<1> HIDE DEF b
<1>5. FirstGap \in DOMAIN video /\ \A k \in DOMAIN video : video[k].gap => FirstGap <= k
  BY <1>1, <1>4, FirstGapFacts
<1>6. /\ seq_at \in 1..Len(video) /\ FirstGap <= seq_at
      /\ pi_at \in 2..seq_at /\ pi_at < FirstGap /\ pi_at < seq_at
  <2>1. seq_at \in FirstGap..Len(video) /\ pi_at \in 2..(FirstGap - 1)
    BY DEF NewStarts, CutPoints
  <2>2. FirstGap \in 1..Len(video)
    BY <1>4, <1>5
  <2> HIDE DEF FirstGap
  <2>3. QED
    BY <1>4, <2>1, <2>2
<1>7. SameSeqs(video, l)
  BY <1>4, ClosedFacts
<1>8. /\ video' = SubSeq(l, 1, pi_at - 1) \o SubSeq(l, seq_at, Len(l))
      /\ junk' = IF \E p \in Passes : lf[p] \in Ids(out) THEN junk \cup {out} ELSE junk
      /\ repair' = CheckGaps(l, seq_at)
      /\ out = SubSeq(l, pi_at, seq_at - 1)
  BY <1>3
<1> HIDE DEF l, out, FirstGap
<1>9. /\ WellFormed(l, b) /\ Walkable(l, lf, series) /\ Ids(l) = Ids(video)
      /\ InPlace(video, lf) => InPlace(l, lf)
      /\ video[1].seq => l[1].seq
  <2>1. video # <<>>
    BY <1>4, <1>6
  <2>2. QED
    BY <1>4, <1>7, <2>1, SameSeqsKeeps
<1>10. l \in Seq(Holder) /\ Len(l) = Len(video)
       /\ \A k \in 1..Len(video) : l[k].gap = video[k].gap
  BY <1>7 DEF SameSeqs, Retouched
<1>11. CutOut(l, pi_at, seq_at, video')
  BY <1>6, <1>8, <1>10 DEF CutOut
<1>12. Slice(l, pi_at, seq_at - 1, out)
  BY <1>6, <1>8, <1>10 DEF Slice
<1>13. /\ lf \in [Passes -> b] /\ 0 \in b /\ WellFormed(l, b) /\ Walkable(l, lf, series)
       /\ CutOut(l, pi_at, seq_at, video') /\ Slice(l, pi_at, seq_at - 1, out)
  BY <1>4, <1>9, <1>11, <1>12
<1>14. WellFormed(video', b) /\ Walkable(video', lf, series)
  BY <1>13, CutOutKeeps
<1>15. WellFormed(out, b) /\ Walkable(out, lf, series)
  BY <1>13, SliceKeeps
<1>16. Ids(out) = IdsFrom(l, pi_at, seq_at - 1)
  BY <1>10, <1>12, SliceIds
<1>17. Ids(video) = Ids(video') \cup Ids(out) /\ Disjoint(video', out)
  <2>1. /\ Ids(l) = Ids(video') \cup IdsFrom(l, pi_at, seq_at - 1)
        /\ Ids(video') \cap IdsFrom(l, pi_at, seq_at - 1) = {}
    BY <1>13, CutOutIds
  <2>2. QED
    BY <1>9, <1>16, <2>1 DEF Disjoint
<1>18. Separate(video', kept, junk')
  BY <1>4, <1>8, <1>17 DEF Separate, Disjoint
<1>19. Frontiers(video', junk', lf, series, b)
  <2>1. ASSUME NEW p \in Passes, lf[p] # 0, Bounds(p, series)
        PROVE  \E x \in {video'} \cup junk' : lf[p] \in Ids(x)
    <3>1. PICK x \in {video} \cup junk : lf[p] \in Ids(x)
      BY <1>4, <2>1 DEF Frontiers
    <3>2. CASE lf[p] \in Ids(video')
      BY <3>2
    <3>3. CASE lf[p] \in Ids(out)
      <4>1. out \in junk'
        BY <1>8, <3>3
      <4>2. QED
        BY <3>3, <4>1
    <3>4. CASE x \in junk
      <4>1. x \in junk'
        BY <1>8, <3>4
      <4>2. QED
        BY <3>1, <4>1
    <3>5. QED
      BY <1>17, <3>1, <3>2, <3>3, <3>4
  <2>2. QED
    BY <1>4, <2>1 DEF Frontiers
<1>20. ListsOK(video', kept, junk', lf, series, b)
  <2>1. \A x \in {video'} \cup junk' : WellFormed(x, b) /\ Walkable(x, lf, series)
    <3>1. \A x \in junk' : x \in junk \/ x = out
      BY <1>8
    <3>2. \A x \in junk : WellFormed(x, b) /\ Walkable(x, lf, series)
      BY <1>4 DEF ListsOK
    <3>3. QED
      BY <1>14, <1>15, <3>1, <3>2
  <2>2. QED
    BY <1>4, <1>18, <1>19, <2>1 DEF ListsOK
<1>21. series = "S1" => InPlace(video', lf)
  <2>1. InPlace(l, lf) => InPlace(video', lf)
    BY <1>13, CutOutKeeps
  <2>2. QED
    BY <1>9, <2>1 DEF IInv
<1>22. ~repair' => NoGap(video')
  <2>1. ASSUME ~repair', NEW k \in DOMAIN l, l[k].gap
        PROVE  k \in pi_at..(seq_at - 1)
    <3>1. ~(k \in seq_at..Len(l))
      BY <1>8, <2>1 DEF CheckGaps
    <3>2. k \in DOMAIN video /\ video[k].gap
      BY <1>4, <1>10, <2>1
    <3>3. FirstGap <= k /\ FirstGap \in Nat
      BY <1>4, <1>5, <3>2
    <3>4. QED
      BY <1>6, <1>10, <3>1, <3>3
  <2>2. (\A k \in DOMAIN l : l[k].gap => k \in pi_at..(seq_at - 1)) => NoGap(video')
    BY <1>13, CutOutKeeps
  <2>3. QED
    BY <2>1, <2>2
<1>23. find_seq /\ series = "S2" /\ lf["p_frame"] = 0 => video' # <<>> /\ video'[1].seq
  <2>1. l[1].seq => video' # <<>> /\ video'[1].seq
    BY <1>13, CutOutKeeps
  <2>2. QED
    BY <1>9, <2>1 DEF IInv
<1>24. UNCHANGED <<series, std_alone, kept, lf, find_seq, counter, tmp, nr, rounds, new, odd>>
  BY <1>1 DEF mode, input, count
<1>25. tmp = 0 /\ ~(counter > CloseTries)
  BY <1>1 DEF IInv, TmpSound, Phases
<1>26. ~find_seq => junk' = {}
  <2>1. ASSUME ~find_seq
        PROVE  junk' = {}
    <3>1. lf = [p \in Passes |-> 0] /\ junk = {}
      BY <2>1 DEF IInv, Phases
    <3>2. 0 \notin Ids(out)
      BY <1>15 DEF WellFormed, Ids
    <3>3. ~(\E p \in Passes : lf[p] \in Ids(out))
      BY <3>1, <3>2
    <3>4. QED
      BY <1>8, <3>1, <3>3
  <2>2. QED
    BY <2>1
<1>27. pc' \in {"seq", "read"} /\ (pc' = "seq" => find_seq /\ ~repair')
  BY <1>1
<1>28. repair' \in BOOLEAN
  BY <1>8 DEF CheckGaps
<1>29. Scalars' /\ Phases'
  <2>1. Scalars'
    BY <1>24, <1>27, <1>28 DEF IInv, Scalars, Passes
  <2>2. Phases'
    <3>1. ~find_seq => lf = [p \in Passes |-> 0] /\ kept = <<>>
      BY DEF IInv, Phases
    <3>2. QED
      BY <1>24, <1>25, <1>26, <1>27, <3>1 DEF Phases, Passes
  <2>3. QED
    BY <2>1, <2>2
<1>30. QED
  BY <1>20, <1>21, <1>22, <1>23, <1>24, <1>25, <1>29 DEF IInv, b

(* Steps that touch no list.                                               *)
LEMMA IdleKeeps ==
    ASSUME IInv, UNCHANGED <<mode, list, lf, repair, find_seq, input, count>>,
           tmp' = 0, counter' \in 0..(CloseTries + 1),
           pc' \in {"read", "repair", "write", "stopped", "exited", "undefined", "p_frame"},
           pc' \in {"write", "p_frame"} => find_seq /\ ~repair,
           counter' > CloseTries => pc' = "exited"
    PROVE  IInv'
<1>1. UNCHANGED <<series, std_alone, video, kept, junk, lf, repair, find_seq, nr, rounds,
                  new, odd>>
  BY DEF mode, list, input, count
<1>2. Scalars'
  BY <1>1 DEF IInv, Scalars, Passes
<1>3. Phases'
  BY <1>1 DEF IInv, Phases, Passes
<1>4. QED
  BY <1>1, <1>2, <1>3 DEF IInv

LEMMA NoStartKeeps == IInv /\ (NoStart \/ RepairFailed) => IInv'
<1> SUFFICES ASSUME IInv, NoStart \/ RepairFailed PROVE IInv'
  OBVIOUS
<1>1. /\ pc \in {"init", "repair"} /\ pc' \in {"read", "repair", "stopped"}
      /\ UNCHANGED <<mode, list, lf, repair, find_seq, counter, tmp, input, count>>
  BY DEF NoStart, RepairFailed, AfterInit
<1>2. tmp = 0 /\ counter \in 0..(CloseTries + 1) /\ ~(counter > CloseTries)
  BY <1>1 DEF IInv, TmpSound, Scalars, Phases
<1>3. QED
  BY <1>1, <1>2, IdleKeeps

(* The first pass is not called again in the same round.                   *)
LEMMA FollowingFacts ==
    ASSUME NEW p \in Passes \ {"seq"}
    PROVE  Following(p) \subseteq (Passes \ {"seq"}) \cup {"write"}
<1> DEFINE order == <<"seq", "p_frame", "tmp_ref", "field", "av_drift", "gop_counter", "write">>
           i == CHOOSE k \in DOMAIN order : order[k] = p
<1>1. DOMAIN order = 1..7
  OBVIOUS
<1>2. /\ order[1] = "seq" /\ order[2] = "p_frame" /\ order[3] = "tmp_ref"
      /\ order[4] = "field" /\ order[5] = "av_drift" /\ order[6] = "gop_counter"
      /\ order[7] = "write"
  OBVIOUS
<1>3. Following(p) = {order[k] : k \in i..7}
  BY DEF Following
<1> HIDE DEF order
<1>4. \E k \in DOMAIN order : order[k] = p
  <2>1. p \in {"p_frame", "tmp_ref", "field", "av_drift", "gop_counter"}
    BY DEF Passes
  <2>2. QED
    BY <1>1, <1>2, <2>1
<1>5. i \in 1..7 /\ order[i] = p
  BY <1>1, <1>4
<1> HIDE DEF i
<1>6. i \in 2..7
  BY <1>2, <1>5
<1>7. \A k \in i..7 : k \in {2, 3, 4, 5, 6, 7}
  BY <1>6
<1>8. \A k \in i..7 : order[k] \in (Passes \ {"seq"}) \cup {"write"}
  BY <1>2, <1>7 DEF Passes
<1>9. QED
  BY <1>3, <1>8

LEMMA CheckFixPesHoldersKeeps == IInv /\ CheckFixPesHolders => IInv'
<1> SUFFICES ASSUME IInv, CheckFixPesHolders PROVE IInv'
  OBVIOUS
<1> DEFINE ready == {p \in Following(pc) : p # "write" /\ Ready(p)}
<1>1. /\ pc \in Passes \ {"seq"}
      /\ IF ready = {}
         THEN pc' = "write" /\ UNCHANGED <<list, lf, count>>
         ELSE \E p \in {q \in ready : ready \subseteq Following(q)} :
                CheckFix(p) \/ GiveUp(p) \/ DropStart(p)
      /\ UNCHANGED <<mode, repair, find_seq, counter, tmp, input>>
  BY DEF CheckFixPesHolders
<1>2. /\ find_seq /\ ~repair /\ tmp = 0 /\ counter \in 0..(CloseTries + 1)
      /\ ~(counter > CloseTries)
  BY <1>1 DEF IInv, Phases, TmpSound, Scalars, Passes
<1>3. ready \subseteq Passes \ {"seq"} /\ \A p \in ready : Ready(p)
  BY <1>1, FollowingFacts
<1> HIDE DEF ready
<1>4. CASE ready = {}
  BY <1>1, <1>2, <1>4, IdleKeeps
<1>5. CASE ready # {}
  <2>1. PICK p \in {q \in ready : ready \subseteq Following(q)} :
          CheckFix(p) \/ GiveUp(p) \/ DropStart(p)
    BY <1>1, <1>5
  <2>2. p \in Passes \ {"seq"} /\ Ready(p)
    BY <1>3, <2>1
  <2>3. CASE CheckFix(p)
    BY <1>1, <2>2, <2>3, CheckFixKeeps
  <2>4. CASE GiveUp(p) \/ DropStart(p)
    <3>1. pc' \in {"exited", "undefined"} /\ UNCHANGED <<list, lf, count>>
      BY <2>4 DEF GiveUp, DropStart
    <3>2. QED
      BY <1>1, <1>2, <3>1, IdleKeeps
  <2>5. QED
    BY <2>1, <2>3, <2>4
<1>6. QED
  BY <1>4, <1>5

(* New holders come at the end, behind every frontier.                     *)
Appends(l, m, n, r) ==
    /\ m \in Seq(Holder) /\ Len(m) = Len(l) + r
    /\ \A k \in 1..Len(l) : m[k] = l[k]
    /\ \A k \in 1..r : m[Len(l) + k].id = n + k

LEMMA AppendsKeeps ==
    ASSUME NEW n \in Nat, NEW w \in Nat, NEW r \in Nat, NEW l,
           WellFormed(l, UsedIds(w, n)), NEW m, Appends(l, m, n, r),
           NEW F \in [Passes -> UsedIds(w, n)], NEW s, Walkable(l, F, s)
    PROVE  /\ \E g : KeepsAll(l, m, g, F, UsedIds(w, n), UsedIds(w, n + r))
           /\ InPlace(l, F) => InPlace(m, F)
           /\ NoGap(l) /\ (\A k \in 1..r : ~m[Len(l) + k].gap) => NoGap(m)
           /\ l # <<>> /\ l[1].seq => m # <<>> /\ m[1].seq
<1> DEFINE b == UsedIds(w, n)
           b2 == UsedIds(w, n + r)
           g == [k \in 1..(Len(l) + r) |-> IF k <= Len(l) THEN k ELSE 0]
<1>1. l \in Seq(Holder) /\ DOMAIN l = 1..Len(l) /\ Len(l) \in Nat
  BY DEF WellFormed
<1>2. /\ m \in Seq(Holder) /\ DOMAIN m = 1..(Len(l) + r) /\ Len(m) = Len(l) + r
      /\ \A k \in 1..Len(l) : m[k] = l[k]
      /\ \A k \in 1..r : m[Len(l) + k].id = n + k
  BY <1>1 DEF Appends
<1>3. b \subseteq b2 /\ 0 \in b /\ \A k \in 1..r : n + k \in b2 \ b
  BY DEF UsedIds
<1>4. \A k \in DOMAIN m : g[k] = IF k <= Len(l) THEN k ELSE 0
  BY <1>2
<1>5. g \in [DOMAIN m -> {0} \cup DOMAIN l]
  BY <1>1, <1>2
<1> HIDE DEF g, b, b2
<1>6. \A k \in DOMAIN m : g[k] # 0 => k \in 1..Len(l) /\ g[k] = k /\ m[k] = l[g[k]]
  BY <1>1, <1>2, <1>4
<1>7. \A k \in DOMAIN m : g[k] = 0 => k > Len(l) /\ k - Len(l) \in 1..r
                                        /\ m[k].id = n + (k - Len(l))
  <2>1. ASSUME NEW k \in DOMAIN m, g[k] = 0
        PROVE  k > Len(l) /\ k - Len(l) \in 1..r /\ m[k].id = n + (k - Len(l))
    <3>1. k > Len(l) /\ k - Len(l) \in 1..r /\ Len(l) + (k - Len(l)) = k
      BY <1>1, <1>2, <1>4, <2>1
    <3>2. QED
      BY <1>2, <3>1
  <2>2. QED
    BY <2>1
<1>8. Edit(l, m, g, b, b2)
  <2>1. \A k \in DOMAIN m : g[k] # 0 =>
          /\ m[k].id = l[g[k]].id /\ m[k].gap = l[g[k]].gap
          /\ m[k].frame \in {l[g[k]].frame, "none"} /\ l[g[k]].done \subseteq m[k].done
    BY <1>6
  <2>2. \A k \in DOMAIN m : g[k] = 0 => m[k].id \in b2 \ b
    BY <1>3, <1>7
  <2>3. \A j, k \in DOMAIN m : g[j] = 0 /\ g[k] = 0 /\ m[j].id = m[k].id => j = k
    BY <1>1, <1>2, <1>7
  <2>4. \A j, k \in DOMAIN m : j < k /\ g[j] # 0 /\ g[k] # 0 => g[j] < g[k]
    BY <1>6
  <2>5. QED
    BY <1>2, <1>5, <2>1, <2>2, <2>3, <2>4 DEF Edit
<1>9. \A k, j \in DOMAIN m : g[k] = 0 /\ g[j] # 0 => j < k
  BY <1>1, <1>2, <1>6, <1>7
<1>10. Keeps(l, m, g, F)
  <2>1. \A p \in Passes, k \in DOMAIN m : g[k] # 0 /\ l[g[k]].id = F[p] => m[k].seq
    BY <1>1, <1>6 DEF Walkable
  <2>2. \A k \in DOMAIN m : m[k].seq =>
          \/ g[k] # 0 /\ l[g[k]].seq
          \/ \A p \in Renumbering, j \in DOMAIN m : g[j] # 0 /\ l[g[j]].id = F[p] => j < k
    BY <1>6, <1>9
  <2>3. QED
    BY <2>1, <2>2 DEF Keeps
<1>11. Ids(l) \subseteq Ids(m)
  <2>1. \A k \in DOMAIN l : k \in DOMAIN m /\ m[k].id = l[k].id
    BY <1>1, <1>2
  <2>2. QED
    BY <2>1 DEF Ids
<1>12. KeepsAll(l, m, g, F, b, b2)
  BY <1>3, <1>8, <1>10, <1>11 DEF KeepsAll
<1>13. InPlace(l, F) => InPlace(m, F)
  <2>1. \A k \in DOMAIN m : m[k].seq =>
          \/ g[k] # 0 /\ l[g[k]].seq
          \/ m[k].frame \notin {"B", "P"}
          \/ \A j \in DOMAIN m : g[j] # 0 /\ l[g[j]].id = F["seq"] => j < k
    BY <1>6, <1>9
  <2>2. F \in [Passes -> b] /\ WellFormed(l, b)
    BY DEF b
  <2>3. QED
    BY <1>8, <2>1, <2>2, EditedInPlace
<1>14. NoGap(l) /\ (\A k \in 1..r : ~m[Len(l) + k].gap) => NoGap(m)
  <2>1. ASSUME NoGap(l), \A k \in 1..r : ~m[Len(l) + k].gap
        PROVE  NoGap(m)
    <3>1. \A k \in DOMAIN m : g[k] = 0 => ~m[k].gap
      <4>1. \A k \in DOMAIN m : g[k] = 0 => k - Len(l) \in 1..r /\ Len(l) + (k - Len(l)) = k
        BY <1>1, <1>2, <1>7
      <4>2. QED
        BY <2>1, <4>1
    <3>2. QED
      BY <1>1, <1>8, <2>1, <3>1, EditedNoGap
  <2>2. QED
    BY <2>1
<1>15. l # <<>> /\ l[1].seq => m # <<>> /\ m[1].seq
  <2>1. ASSUME l # <<>>
        PROVE  m # <<>> /\ m[1] = l[1]
    <3>1. 1 \in 1..Len(l) /\ 1 \in DOMAIN m
      BY <1>1, <1>2, <2>1
    <3>2. QED
      BY <1>2, <3>1
  <2>2. QED
    BY <2>1
<1>16. QED
  BY <1>12, <1>13, <1>14, <1>15 DEF b, b2

LEMMA GetPesHoldersKeeps == IInv /\ GetPesHolders => IInv'
<1> SUFFICES ASSUME IInv, GetPesHolders PROVE IInv'
  OBVIOUS
<1> DEFINE b == UsedIds(new, nr)
<1>1. /\ pc = "read" /\ rounds < MaxRounds /\ rounds' = rounds + 1
      /\ pc' = IF find_seq THEN AfterInit(repair', TRUE) ELSE "init"
      /\ UNCHANGED <<mode, kept, junk, lf, find_seq, counter, tmp, new>>
  BY DEF GetPesHolders
<1> DEFINE Added(r, gaps) == [i \in DOMAIN r |->
                [id |-> nr + i, frame |-> r[i].frame, seq |-> r[i].seq,
                 close |-> r[i].close, gap |-> i \in gaps, fixed |-> FALSE, done |-> {}]]
<1>2. \E r \in Rounds[series] \cup OddRounds[series] :
      \E gaps \in SUBSET (DOMAIN r \cap ChunkStarts), lostgap \in BOOLEAN :
         /\ odd' = odd + Cardinality(gaps) + (IF lostgap THEN 1 ELSE 0)
                       + (IF r \in Rounds[series] THEN 0 ELSE 1)
         /\ odd' <= MaxOdd
         /\ video' = video \o Added(r, gaps)
         /\ nr' = nr + Len(r)
         /\ repair' = (repair \/ gaps # {} \/ lostgap)
  BY DEF GetPesHolders
<1>3. PICK r \in Rounds[series] \cup OddRounds[series] :
      \E gaps \in SUBSET (DOMAIN r \cap ChunkStarts), lostgap \in BOOLEAN :
         /\ odd' = odd + Cardinality(gaps) + (IF lostgap THEN 1 ELSE 0)
                       + (IF r \in Rounds[series] THEN 0 ELSE 1)
         /\ odd' <= MaxOdd
         /\ video' = video \o Added(r, gaps)
         /\ nr' = nr + Len(r)
         /\ repair' = (repair \/ gaps # {} \/ lostgap)
  BY <1>2
<1>4. PICK gaps \in SUBSET (DOMAIN r \cap ChunkStarts), lostgap \in BOOLEAN :
         /\ odd' = odd + Cardinality(gaps) + (IF lostgap THEN 1 ELSE 0)
                       + (IF r \in Rounds[series] THEN 0 ELSE 1)
         /\ odd' <= MaxOdd
         /\ video' = video \o Added(r, gaps)
         /\ nr' = nr + Len(r)
         /\ repair' = (repair \/ gaps # {} \/ lostgap)
  BY <1>3
<1>5. /\ ListsOK(video, kept, junk, lf, series, b) /\ lf \in [Passes -> b]
      /\ WellFormed(video, b) /\ Walkable(video, lf, series) /\ video \in Seq(Holder)
      /\ new \in Nat /\ nr \in Nat
  BY ListFacts
<1> HIDE DEF b
<1>6. r \in Seq(Parsed)
  BY VideoAssumption DEF IInv, Scalars
<1>7. Len(r) \in Nat /\ DOMAIN r = 1..Len(r) /\ \A i \in 1..Len(r) : r[i] \in Parsed
  BY <1>6
<1> DEFINE added == Added(r, gaps)
<1>8. \A i \in 1..Len(r) : added[i] \in Holder /\ added[i].id = nr + i
                             /\ added[i].gap = (i \in gaps)
  BY <1>5, <1>7 DEF Parsed, Holder
<1>9. added \in Seq(Holder) /\ Len(added) = Len(r)
  <2>1. added \in [1..Len(r) -> Holder]
    BY <1>7, <1>8
  <2>2. QED
    BY <1>7, <2>1
<1>10. video' = video \o added
  BY <1>4
<1> HIDE DEF added, Added
<1>11. /\ video' \in Seq(Holder) /\ Len(video') = Len(video) + Len(added)
       /\ \A x \in 1..(Len(video) + Len(added)) :
            video'[x] = IF x <= Len(video) THEN video[x] ELSE added[x - Len(video)]
  BY <1>5, <1>9, <1>10, ConcatProperties
<1>12. \A k \in 1..Len(r) : video'[Len(video) + k] = added[k]
  <2>1. ASSUME NEW k \in 1..Len(r)
        PROVE  video'[Len(video) + k] = added[k]
    <3>1. /\ Len(video) + k \in 1..(Len(video) + Len(added)) /\ ~(Len(video) + k <= Len(video))
          /\ (Len(video) + k) - Len(video) = k
      BY <1>5, <1>7, <1>9
    <3>2. QED
      BY <1>11, <3>1
  <2>2. QED
    BY <2>1
<1>13. \A k \in 1..Len(video) : video'[k] = video[k]
  BY <1>5, <1>7, <1>9, <1>11
<1>14. Appends(video, video', nr, Len(r))
  BY <1>8, <1>9, <1>11, <1>12, <1>13 DEF Appends
<1>15. /\ \E g : KeepsAll(video, video', g, lf, b, UsedIds(new, nr + Len(r)))
       /\ InPlace(video, lf) => InPlace(video', lf)
       /\ NoGap(video) /\ (\A k \in 1..Len(r) : ~video'[Len(video) + k].gap) => NoGap(video')
       /\ video # <<>> /\ video[1].seq => video' # <<>> /\ video'[1].seq
  BY <1>5, <1>7, <1>14, AppendsKeeps DEF b
<1>16. ListsOK(video', kept, junk, lf, series, UsedIds(new, nr'))
  <2>1. PICK g : KeepsAll(video, video', g, lf, b, UsedIds(new, nr'))
    BY <1>4, <1>15
  <2>2. Replaces(video, junk, video, video', video', junk)
    BY DEF Replaces
  <2>3. QED
    BY <1>5, <2>1, <2>2, Replaced
<1>17. ~repair' => NoGap(video')
  <2>1. ASSUME ~repair'
        PROVE  NoGap(video')
    <3>1. ~repair /\ gaps = {}
      BY <1>4, <2>1
    <3>2. NoGap(video)
      BY <3>1 DEF IInv
    <3>3. \A k \in 1..Len(r) : ~video'[Len(video) + k].gap
      BY <1>8, <1>12, <3>1
    <3>4. QED
      BY <1>15, <3>2, <3>3
  <2>2. QED
    BY <2>1
<1>18. odd' \in 0..MaxOdd
  <2>1. Cardinality(gaps) \in Nat
    <3>1. IsFiniteSet(1..Len(r))
      BY <1>7, FS_Interval
    <3>2. IsFiniteSet(gaps)
      BY <1>7, <3>1, FS_Subset
    <3>3. QED
      BY <3>2, FS_CardinalityType
  <2>2. odd \in Nat
    BY DEF IInv, Scalars
  <2>3. QED
    BY <1>4, <2>1, <2>2, Consts
<1>19. UNCHANGED <<series, std_alone, kept, junk, lf, find_seq, counter, tmp, new>>
  BY <1>1 DEF mode
<1>20. tmp = 0 /\ ~(counter > CloseTries)
  BY <1>1 DEF IInv, TmpSound, Phases
<1>21. /\ pc' \in {"init", "repair", "seq"} /\ (pc' = "init" => ~find_seq)
       /\ (pc' = "seq" => find_seq /\ ~repair')
  BY <1>1 DEF AfterInit
<1>22. repair' \in BOOLEAN
  BY <1>4 DEF IInv, Scalars
<1>23. nr' \in Nat /\ rounds' \in 0..MaxRounds
  <2>1. rounds \in 0..MaxRounds
    BY DEF IInv, Scalars
  <2>2. QED
    BY <1>1, <1>4, <1>5, <1>7, <2>1, Consts
<1>24. Scalars'
  BY <1>18, <1>19, <1>21, <1>22, <1>23 DEF IInv, Scalars, Passes
<1>25. Phases'
  BY <1>19, <1>20, <1>21 DEF IInv, Phases, Passes
<1>26. QED
  BY <1>15, <1>16, <1>17, <1>19, <1>20, <1>24, <1>25 DEF IInv

-----------------------------------------------------------------------------
(* The first pass: where it goes on.                                       *)
LEMMA CurFacts ==
    ASSUME IInv, pc = "seq", ~Freed(lf["seq"]), Cur # 0
    PROVE  \E l \in {video} \cup junk : \E i \in DOMAIN l :
             /\ ListOf(Cur) = l /\ Index(l, Cur) = i /\ l[i].seq
             /\ series = "S1" => Forward(video, lf, l, i)
<1> DEFINE b == UsedIds(new, nr)
<1>1. /\ Separate(video, kept, junk) /\ Frontiers(video, junk, lf, series, b)
      /\ \A l \in {video} \cup junk : WellFormed(l, b) /\ l \in Seq(Holder)
  BY ListFacts
<1> HIDE DEF b
<1>2. SUFFICES \E l \in {video} \cup junk : \E i \in DOMAIN l :
                 /\ Cur = l[i].id /\ l[i].seq
                 /\ series = "S1" => Forward(video, lf, l, i)
  <2>1. PICK l \in {video} \cup junk : \E i \in DOMAIN l :
                 /\ Cur = l[i].id /\ l[i].seq
                 /\ series = "S1" => Forward(video, lf, l, i)
    BY <1>2
  <2>2. PICK i \in DOMAIN l : /\ Cur = l[i].id /\ l[i].seq
                              /\ series = "S1" => Forward(video, lf, l, i)
    BY <2>1
  <2>3. ListOf(l[i].id) = l /\ Index(l, l[i].id) = i
    BY <1>1, Located
  <2>4. QED
    BY <2>2, <2>3
<1>3. CASE tmp # 0
  <2>1. TmpSound /\ Cur = tmp
    BY <1>3 DEF IInv, Cur
  <2>2. QED
    BY <2>1 DEF TmpSound, Forward
<1>4. CASE tmp = 0 /\ lf["seq"] \in {0} \cup Ids(kept)
  <2> DEFINE S == SeqsIn(video, 1, Len(video))
             i == Least(S, 0)
  <2>1. Cur = IdAt(video, i)
    BY <1>4 DEF Cur
  <2>2. i # 0 /\ Cur = video[i].id
    BY <2>1 DEF IdAt
  <2>3. S \subseteq Nat /\ \A k \in 1..Len(video) : k \in S <=> video[k].seq
    BY DEF SeqsIn
  <2>4. S \subseteq 1..Len(video)
    BY DEF SeqsIn
  <2> HIDE DEF S
  <2>5. i \in S /\ \A m \in S : i <= m
    BY <2>2, <2>3, LeastFacts
  <2> HIDE DEF i
  <2>6. i \in DOMAIN video /\ video[i].seq
    BY <1>1, <2>3, <2>4, <2>5
  <2>7. series = "S1" => lf["seq"] = 0
    <3>1. ASSUME series = "S1", lf["seq"] # 0
          PROVE  FALSE
      <4>1. PICK l \in {video} \cup junk : lf["seq"] \in Ids(l)
        BY <1>1, <3>1 DEF Frontiers, Bounds, Passes
      <4>2. Disjoint(kept, l)
        BY <1>1 DEF Separate
      <4>3. QED
        BY <1>4, <3>1, <4>1, <4>2 DEF Disjoint
    <3>2. QED
      BY <3>1
  <2>8. \A k \in 1..(i - 1) : ~video[k].seq
    BY <1>1, <2>3, <2>5, <2>6
  <2>9. series = "S1" => Forward(video, lf, video, i)
    BY <2>6, <2>7, <2>8 DEF Forward
  <2>10. QED
    BY <2>2, <2>6, <2>9
<1>5. CASE tmp = 0 /\ lf["seq"] \notin {0} \cup Ids(kept)
  <2>1. PICK l \in {video} \cup junk : lf["seq"] \in Ids(l)
    BY <1>5 DEF Freed
  <2>2. PICK c \in DOMAIN l : l[c].id = lf["seq"]
    BY <2>1 DEF Ids
  <2>3. ListOf(lf["seq"]) = l /\ Index(l, lf["seq"]) = c
    BY <1>1, <2>2, Located
  <2> DEFINE i == NextSeq(l, c)
  <2>4. Cur = IdAt(l, i)
    BY <1>5, <2>3 DEF Cur, next_seq_holder
  <2>5. i # 0 /\ Cur = l[i].id
    BY <2>4 DEF IdAt
  <2>6. i \in (c + 1)..Len(l) /\ l[i].seq /\ \A k \in (c + 1)..(i - 1) : ~l[k].seq
    BY <1>1, <2>5, NextSeqFacts
  <2> HIDE DEF i
  <2>7. i \in DOMAIN l /\ c \in 1..i /\ \A k \in 1..(i - 1) : l[k].seq => k <= c /\ k \in DOMAIN l
    BY <1>1, <2>6
  <2>8. ASSUME series = "S1", l = video, NEW k \in 1..(i - 1), l[k].seq
        PROVE  l[k].frame \notin {"B", "P"}
    <3>1. InPlace(video, lf) /\ k \in DOMAIN video /\ k <= c
      BY <2>7, <2>8 DEF IInv
    <3>2. QED
      BY <2>2, <2>8, <3>1 DEF InPlace
  <2>9. series = "S1" => Forward(video, lf, l, i)
    BY <2>2, <2>6, <2>7, <2>8 DEF Forward
  <2>10. QED
    BY <2>5, <2>6, <2>7, <2>9
<1>6. QED
  BY <1>3, <1>4, <1>5

(* What a step of the first pass may do.                                   *)
SeqStep(l, m, F) ==
    /\ Replaces(video, junk, l, m, video', junk') /\ kept' = kept /\ lf' = F
    /\ UNCHANGED <<mode, repair, find_seq, input, odd>>
    /\ new' \in Nat /\ tmp' \in Int
    /\ tmp' # 0 => TmpSound'
    /\ counter' \in 0..(CloseTries + 1)
    /\ counter' > CloseTries => pc' = "exited"
    /\ pc' \in {"seq", "p_frame", "exited"}
    /\ NoGap(l) => NoGap(m)
    /\ series = "S2" => (l # <<>> /\ l[1].seq => m # <<>> /\ m[1].seq)

LEMMA SeqStepKeeps ==
    ASSUME IInv, pc = "seq", NEW l \in {video} \cup junk, NEW m, NEW g,
           KeepsAll(l, m, g, lf, UsedIds(new, nr), UsedIds(new', nr)),
           NEW F, SeqStep(l, m, F), F["p_frame"] = lf["p_frame"],
           F = lf \/ \E i \in DOMAIN m : /\ Reachable(m, i, "seq", lf, series)
                                         /\ F = [lf EXCEPT !["seq"] = m[i].id],
           series = "S1" /\ l = video => InPlace(m, F)
    PROVE  IInv'
<1> DEFINE b == UsedIds(new, nr)
           b2 == UsedIds(new', nr)
<1>1. /\ ListsOK(video, kept, junk, lf, series, b) /\ lf \in [Passes -> b]
  BY ListFacts
<1>2. /\ Replaces(video, junk, l, m, video', junk') /\ kept' = kept /\ lf' = F
      /\ KeepsAll(l, m, g, lf, b, b2)
  BY DEF SeqStep
<1> HIDE DEF b, b2
<1>3. find_seq /\ ~repair
  BY DEF IInv, Phases, Passes
<1>4. ListsOK(video', kept, junk', lf, series, b2) /\ m \in {video'} \cup junk'
  BY <1>1, <1>2, Replaced
<1>5. ListsOK(video', kept, junk', F, series, b2)
  <2>1. CASE F = lf
    BY <1>4, <2>1
  <2>2. CASE \E i \in DOMAIN m : /\ Reachable(m, i, "seq", lf, series)
                                 /\ F = [lf EXCEPT !["seq"] = m[i].id]
    <3>1. PICK i \in DOMAIN m : /\ Reachable(m, i, "seq", lf, series)
                                /\ F = [lf EXCEPT !["seq"] = m[i].id]
      BY <2>2
    <3>2. "seq" \in Passes
      BY DEF Passes
    <3>3. ListsOK(video', kept, junk', [lf EXCEPT !["seq"] = m[i].id], series, b2)
      BY <1>4, <3>1, <3>2, Advanced
    <3>4. QED
      BY <3>1, <3>3
  <2>3. QED
    BY <2>1, <2>2
<1>6. series = "S1" => InPlace(video', F)
  <2>1. CASE l = video
    BY <1>2, <2>1 DEF Replaces
  <2>2. CASE l # video /\ F = lf
    BY <1>2, <2>2 DEF Replaces, IInv
  <2>3. CASE l # video /\ F # lf
    <3>1. PICK i \in DOMAIN m : F = [lf EXCEPT !["seq"] = m[i].id]
      BY <2>3
    <3>2. F["seq"] = m[i].id /\ m[i].id \in Ids(m)
      BY <1>1, <3>1 DEF Passes, Ids
    <3>3. m \in junk' /\ Disjoint(video', m)
      BY <1>2, <1>4, <2>3 DEF Replaces, ListsOK, Separate
    <3>4. \A j \in DOMAIN video' : video'[j].id # F["seq"]
      BY <3>2, <3>3 DEF Disjoint, Ids
    <3>5. QED
      BY <3>4 DEF InPlace
  <2>4. QED
    BY <2>1, <2>2, <2>3
<1>7. NoGap(video')
  <2>1. NoGap(video)
    BY <1>3 DEF IInv
  <2>2. QED
    BY <1>2, <2>1 DEF Replaces, SeqStep
<1>8. series = "S2" /\ lf'["p_frame"] = 0 => video' # <<>> /\ video'[1].seq
  <2>1. ASSUME series = "S2", lf'["p_frame"] = 0
        PROVE  video' # <<>> /\ video'[1].seq
    <3>1. video # <<>> /\ video[1].seq
      BY <1>2, <1>3, <2>1 DEF IInv
    <3>2. QED
      BY <1>2, <2>1, <3>1 DEF Replaces, SeqStep
  <2>2. QED
    BY <2>1
<1>9. UNCHANGED <<series, std_alone, kept, repair, find_seq, nr, rounds, odd>>
  BY DEF SeqStep, mode, input
<1>10. Scalars'
  BY <1>9 DEF SeqStep, IInv, Scalars, Passes
<1>11. Phases'
  BY <1>3, <1>9 DEF SeqStep, Phases, Passes
<1>12. tmp' # 0 => TmpSound'
  BY DEF SeqStep
<1>13. QED
  BY <1>2, <1>3, <1>5, <1>6, <1>7, <1>8, <1>9, <1>10, <1>11, <1>12 DEF IInv, b2

(* The passes behind the first one have not come that far.                 *)
LEMMA OthersBehind ==
    ASSUME IInv, series = "S1", NEW l \in {video} \cup junk, NEW i \in DOMAIN l,
           Forward(video, lf, l, i), NEW q \in Passes, q # "seq",
           NEW y \in DOMAIN l, l[y].id = lf[q]
    PROVE  y < i
<1> DEFINE b == UsedIds(new, nr)
<1>1. /\ Frontiers(video, junk, lf, series, b)
      /\ WellFormed(l, b) /\ Walkable(l, lf, series) /\ l \in Seq(Holder)
  BY ListFacts
<1> HIDE DEF b
<1>2. "seq" \in Passes /\ Rank["seq"] < Rank[q] /\ Rank["seq"] <= Rank[q] /\ Bounds("seq", "S1")
  BY DEF Passes, Rank, Bounds
<1>3. lf[q] # 0
  BY <1>1 DEF WellFormed
<1>4. lf["seq"] # 0
  BY <1>1, <1>2, <1>3, NoneBehind
<1>5. PICK j \in 1..i : l[j].id = lf["seq"]
  BY <1>4 DEF Forward
<1>6. j \in DOMAIN l
  BY <1>1
<1>7. y < j
  BY <1>1, <1>2, <1>5, <1>6 DEF Walkable
<1>8. QED
  BY <1>1, <1>6, <1>7

LEMMA GoOnFacts ==
    ASSUME NEW l \in Seq(Holder), NEW i \in DOMAIN l, GoOn(l, NextSeq(l, i))
    PROVE  /\ pc' \in {"seq", "p_frame"} /\ tmp' \in Int
           /\ tmp' # 0 => pc' = "seq" /\ NextSeq(l, i) # 0 /\ tmp' = l[NextSeq(l, i)].id
<1>1. CASE NextSeq(l, i) = 0
  BY <1>1 DEF GoOn, NextPass
<1>2. CASE NextSeq(l, i) # 0
  <2>1. NextSeq(l, i) \in (i + 1)..Len(l)
    BY <1>2, NextSeqFacts
  <2> DEFINE n == NextSeq(l, i)
  <2>2. n \in DOMAIN l
    BY <2>1
  <2> HIDE DEF n
  <2>3. l[n] \in Holder
    BY <2>2
  <2>4. l[n].id \in Int
    BY <2>3 DEF Holder
  <2>5. QED
    BY <1>2, <2>4 DEF GoOn, n
<1>3. QED
  BY <1>1, <1>2

(* The header goes from i to i + 1.                                        *)
Moved(l, m, g, i, b, b2) ==
    /\ Edit(l, m, g, b, b2)
    /\ i + 1 \in DOMAIN m /\ \A k \in 1..i : g[k] = k
    /\ \A k \in 1..(i - 1) : m[k] = l[k]
    /\ ~m[i].seq /\ m[i + 1].seq /\ m[i + 1].frame = "I"
    /\ \A k \in DOMAIN m : i + 1 < k => g[k] # 0 /\ m[k].seq = l[g[k]].seq
    /\ \A x \in DOMAIN l : \E k \in DOMAIN m : g[k] = x
    /\ \A k \in DOMAIN m : g[k] = 0 => ~m[k].gap

LEMMA MovedKeeps ==
    ASSUME IInv, pc = "seq", series = "S1", NEW l \in {video} \cup junk, NEW i \in DOMAIN l,
           Misplaced(l[i]), Forward(video, lf, l, i), NEW m, NEW g,
           Moved(l, m, g, i, UsedIds(new, nr), UsedIds(new', nr)),
           Replaces(video, junk, l, m, video', junk'), kept' = kept,
           lf' = [lf EXCEPT !["seq"] = m[i + 1].id], GoOn(l, NextSeq(l, i)),
           new' \in {new, new + 1}, counter' = counter,
           UNCHANGED <<mode, repair, find_seq, input, odd>>
    PROVE  IInv'
<1> DEFINE b == UsedIds(new, nr)
           b2 == UsedIds(new', nr)
           n == NextSeq(l, i)
<1>1. /\ ListsOK(video, kept, junk, lf, series, b)
      /\ WellFormed(l, b) /\ Walkable(l, lf, series) /\ l \in Seq(Holder)
      /\ lf \in [Passes -> b] /\ 0 \in b /\ b \subseteq UsedIds(new + 1, nr)
      /\ Separate(video, kept, junk) /\ new \in Nat
  BY ListFacts
<1>2. b \subseteq b2 /\ new' \in Nat
  BY <1>1
<1>3. Moved(l, m, g, i, b, b2)
  OBVIOUS
<1> HIDE DEF b, b2
<1>4. /\ Edit(l, m, g, b, b2) /\ m \in Seq(Holder) /\ g \in [DOMAIN m -> {0} \cup DOMAIN l]
      /\ \A k \in DOMAIN m : g[k] # 0 => g[k] \in DOMAIN l /\ m[k].id = l[g[k]].id
      /\ \A j, k \in DOMAIN m : j < k /\ g[j] # 0 /\ g[k] # 0 => g[j] < g[k]
  BY <1>3 DEF Moved, Edit
<1>5. /\ i \in Nat /\ i >= 1 /\ DOMAIN l = 1..Len(l) /\ DOMAIN m = 1..Len(m)
      /\ i + 1 \in DOMAIN m /\ i \in DOMAIN m /\ 1..i \subseteq DOMAIN l
  BY <1>1, <1>3, <1>4 DEF Moved
<1>6. \A k \in DOMAIN m : g[k] # 0 /\ g[k] <= i => g[k] = k
  <2>1. ASSUME NEW k \in DOMAIN m, g[k] # 0, g[k] <= i
        PROVE  g[k] = k
    <3>1. CASE k <= i
      BY <1>3, <1>5, <2>1, <3>1 DEF Moved
    <3>2. CASE i < k
      <4>1. g[i] = i
        BY <1>3, <1>5 DEF Moved
      <4>2. i < g[k]
        BY <1>4, <1>5, <2>1, <3>2, <4>1
      <4>3. QED
        BY <1>4, <1>5, <2>1, <4>2
    <3>3. QED
      BY <1>5, <3>1, <3>2
  <2>2. QED
    BY <2>1
(* The holder that loses the header is nobody's frontier.                  *)
<1>7. \A q \in Passes : l[i].id # lf[q]
  <2>1. l[i].id # lf["seq"]
    BY <1>1 DEF Misplaced, Walkable
  <2>2. \A q \in Passes : q # "seq" => l[i].id # lf[q]
    BY <1>5, OthersBehind
  <2>3. QED
    BY <2>1, <2>2
<1>8. ASSUME NEW q \in Passes, q # "seq", NEW j \in DOMAIN m, m[j].id = lf[q]
      PROVE  j < i /\ g[j] = j
  <2>1. g[j] # 0 /\ l[g[j]].id = lf[q]
    BY <1>1, <1>4, <1>8 DEF Edit
  <2>2. g[j] < i
    BY <1>4, <2>1, <1>8, OthersBehind
  <2>3. QED
    BY <1>4, <1>5, <1>6, <2>1, <2>2
<1>9. Keeps(l, m, g, lf)
  <2>1. ASSUME NEW q \in Passes, NEW k \in DOMAIN m, g[k] # 0, l[g[k]].id = lf[q]
        PROVE  m[k].seq
    <3>1. l[g[k]].seq /\ g[k] # i
      BY <1>1, <1>4, <1>7, <2>1 DEF Walkable
    <3>2. CASE k < i
      <4>1. k \in 1..(i - 1) /\ k \in 1..i /\ g[k] = k
        BY <1>3, <1>5, <3>2 DEF Moved
      <4>2. QED
        BY <1>3, <3>1, <4>1 DEF Moved
    <3>3. CASE k = i
      BY <1>3, <1>5, <3>1, <3>3 DEF Moved
    <3>4. CASE k = i + 1
      BY <1>3, <3>4 DEF Moved
    <3>5. CASE i + 1 < k
      BY <1>3, <3>1, <3>5 DEF Moved
    <3>6. QED
      BY <1>5, <3>2, <3>3, <3>4, <3>5
  <2>2. ASSUME NEW k \in DOMAIN m, m[k].seq, ~(g[k] # 0 /\ l[g[k]].seq),
               NEW q \in Renumbering, NEW j \in DOMAIN m, g[j] # 0, l[g[j]].id = lf[q]
        PROVE  j < k
    <3>1. k = i + 1
      <4>1. CASE k < i
        <5>1. k \in 1..(i - 1) /\ k \in 1..i /\ g[k] = k /\ k # 0
          BY <1>3, <1>5, <4>1 DEF Moved
        <5>2. QED
          BY <1>3, <2>2, <5>1 DEF Moved
      <4>2. CASE k = i
        BY <1>3, <2>2, <4>2 DEF Moved
      <4>3. CASE i + 1 < k
        BY <1>3, <2>2, <4>3 DEF Moved
      <4>4. QED
        BY <1>5, <4>1, <4>2, <4>3
    <3>2. q \in Passes /\ q # "seq"
      BY DEF Renumbering, Passes
    <3>3. m[j].id = lf[q]
      BY <1>4, <2>2
    <3>4. j < i
      BY <1>8, <3>2, <3>3
    <3>5. QED
      BY <1>5, <3>1, <3>4
  <2>3. QED
    BY <2>1, <2>2 DEF Keeps
<1>10. Ids(l) \subseteq Ids(m)
  <2>1. ASSUME NEW x \in DOMAIN l
        PROVE  l[x].id \in Ids(m)
    <3>1. PICK k \in DOMAIN m : g[k] = x
      BY <1>3 DEF Moved
    <3>2. x # 0
      BY <1>5
    <3>3. m[k].id = l[x].id
      BY <1>4, <3>1, <3>2
    <3>4. QED
      BY <3>3 DEF Ids
  <2>2. QED
    BY <2>1 DEF Ids
<1>11. KeepsAll(l, m, g, lf, b, b2)
  BY <1>1, <1>2, <1>4, <1>9, <1>10 DEF KeepsAll
<1>12. Reachable(m, i + 1, "seq", lf, series)
  <2>1. m[i + 1].seq /\ m[i + 1].frame = "I" /\ "seq" \notin Renumbering
    BY <1>3 DEF Moved, Renumbering
  <2>2. ASSUME NEW q \in Passes, NEW j \in DOMAIN m, m[j].id = lf[q]
        PROVE  /\ ~(Rank[q] < Rank["seq"])
               /\ Rank["seq"] < Rank[q] => j < i + 1
    <3>1. ~(Rank[q] < Rank["seq"]) /\ (Rank["seq"] < Rank[q] => q # "seq")
      BY DEF Rank, Passes
    <3>2. q # "seq" => j < i + 1
      BY <1>5, <1>8, <2>2
    <3>3. QED
      BY <3>1, <3>2
  <2>3. QED
    BY <2>1, <2>2 DEF Reachable
<1>13. \A k \in 1..(i - 1) : m[k] = l[k]
  BY <1>3 DEF Moved
<1>14. lf'["seq"] = m[i + 1].id /\ lf'["p_frame"] = lf["p_frame"]
  BY <1>1 DEF Passes
<1>15. l = video => \A k \in 1..(i + 1) : m[k].seq => m[k].frame \notin {"B", "P"}
  <2>1. ASSUME l = video, NEW k \in 1..(i + 1), m[k].seq
        PROVE  m[k].frame \notin {"B", "P"}
    <3>1. k # i
      BY <1>3, <2>1 DEF Moved
    <3>2. CASE k = i + 1
      BY <1>3, <3>2 DEF Moved
    <3>3. CASE k < i
      <4>1. k \in 1..(i - 1)
        BY <1>5, <3>3
      <4>2. QED
        BY <1>13, <2>1, <4>1 DEF Forward
    <3>4. QED
      BY <1>5, <3>1, <3>2, <3>3
  <2>2. QED
    BY <2>1
<1>16. l = video => InPlace(m, lf')
  <2>1. ASSUME l = video, NEW x \in DOMAIN m, NEW j \in DOMAIN m, m[j].id = lf'["seq"],
               x <= j, m[x].seq
        PROVE  m[x].frame \notin {"B", "P"}
    <3>1. ListsOK(video', kept, junk', lf, series, b2) /\ m \in {video'} \cup junk'
      BY <1>1, <1>11, Replaced
    <3>2. WellFormed(m, b2)
      BY <3>1 DEF ListsOK
    <3>3. j = i + 1
      BY <1>5, <1>14, <2>1, <3>2 DEF WellFormed
    <3>4. x \in 1..(i + 1)
      BY <1>5, <2>1, <3>3
    <3>5. QED
      BY <1>15, <2>1, <3>4
  <2>2. QED
    BY <2>1 DEF InPlace
<1>17. ASSUME tmp' # 0
       PROVE  TmpSound'
  <2>1. pc' = "seq" /\ n # 0 /\ tmp' = l[n].id
    BY <1>1, <1>17, GoOnFacts
  <2>2. n \in (i + 1)..Len(l) /\ l[n].seq /\ \A k \in (i + 1)..(n - 1) : ~l[k].seq
    BY <1>1, <2>1, NextSeqFacts
  <2> HIDE DEF n
  <2>3. n \in DOMAIN l
    BY <1>5, <2>2
  <2>4. PICK c \in DOMAIN m : g[c] = n
    BY <1>3, <2>3 DEF Moved
  <2>5. m[c].id = tmp'
    BY <1>4, <1>5, <2>1, <2>3, <2>4
  <2>6. i + 1 <= c
    <3>1. ~(c <= i)
      BY <1>3, <1>5, <2>2, <2>4 DEF Moved
    <3>2. QED
      BY <1>5, <3>1
  <2>7. m[c].seq
    <3>1. CASE c = i + 1
      BY <1>3, <3>1 DEF Moved
    <3>2. CASE i + 1 < c
      BY <1>3, <2>2, <2>4, <3>2 DEF Moved
    <3>3. QED
      BY <1>5, <2>6, <3>1, <3>2
  <2>8. \E j \in 1..c : m[j].id = lf'["seq"]
    BY <1>5, <1>14, <2>6
  <2>9. m = video' => l = video
    <3>1. ASSUME m = video', l # video
          PROVE  FALSE
      <4>1. video' = video /\ l \in junk /\ Disjoint(video, l)
        BY <1>1, <3>1 DEF Replaces, Separate
      <4>2. l[i].id \in Ids(l) /\ l[i].id \in Ids(video)
        BY <1>10, <3>1, <4>1 DEF Ids
      <4>3. QED
        BY <4>1, <4>2 DEF Disjoint
    <3>2. QED
      BY <3>1
  <2>10. ASSUME m = video', NEW k \in 1..(c - 1), m[k].seq
         PROVE  m[k].frame \notin {"B", "P"}
    <3>1. CASE k <= i + 1
      BY <1>5, <1>15, <2>9, <2>10, <3>1
    <3>2. CASE i + 1 < k
      <4>1. k \in DOMAIN m /\ k < c
        BY <1>5
      <4>2. g[k] # 0 /\ l[g[k]].seq
        BY <1>3, <2>10, <3>2, <4>1 DEF Moved
      <4>3. g[k] < n
        BY <1>4, <1>5, <2>3, <2>4, <4>1, <4>2
      <4>4. i < g[k]
        <5>1. g[i] = i /\ i < k
          BY <1>3, <1>5, <3>2 DEF Moved
        <5>2. QED
          BY <1>4, <1>5, <4>1, <4>2, <5>1
      <4>5. g[k] \in (i + 1)..(n - 1)
        BY <1>4, <1>5, <2>2, <4>1, <4>2, <4>3, <4>4
      <4>6. QED
        BY <2>2, <4>2, <4>5
    <3>3. QED
      BY <1>5, <3>1, <3>2
  <2>11. Forward(video', lf', m, c)
    BY <2>7, <2>8, <2>10 DEF Forward
  <2>12. m \in {video'} \cup junk' /\ series' = "S1"
    BY DEF Replaces, mode
  <2>13. QED
    BY <2>1, <2>5, <2>11, <2>12 DEF TmpSound
<1>18. SeqStep(l, m, lf')
  <2>1. pc' \in {"seq", "p_frame"} /\ tmp' \in Int
    BY <1>1, GoOnFacts
  <2>2. counter \in 0..(CloseTries + 1) /\ ~(counter > CloseTries)
    BY DEF IInv, Scalars, Phases
  <2>3. NoGap(l) => NoGap(m)
    <3>1. \A k \in DOMAIN m : g[k] = 0 => ~m[k].gap
      BY <1>3 DEF Moved
    <3>2. QED
      BY <1>1, <1>4, <3>1, EditedNoGap
  <2>4. QED
    BY <1>2, <1>17, <2>1, <2>2, <2>3 DEF SeqStep
<1>19. KeepsAll(l, m, g, lf, UsedIds(new, nr), UsedIds(new', nr))
  BY <1>11 DEF b, b2
<1>20. QED
  BY <1>5, <1>12, <1>14, <1>16, <1>18, <1>19, SeqStepKeeps

(* The ways in which fix_seq_header deals with a sequence.                 *)
LEMMA MoveSeqHeaderKeeps ==
    ASSUME IInv, pc = "seq", series = "S1", NEW l \in {video} \cup junk, NEW i \in DOMAIN l,
           Forward(video, lf, l, i), MoveSeqHeader(l, i),
           UNCHANGED <<mode, repair, find_seq, input, odd>>
    PROVE  IInv'
<1> DEFINE b == UsedIds(new, nr)
           m == MoveSeq(l, i)
           g == Ident(m)
<1>1. /\ Misplaced(l[i]) /\ CanMove(l, i) /\ Replace(l, m)
      /\ lf' = [lf EXCEPT !["seq"] = l[i + 1].id] /\ GoOn(l, NextSeq(l, i))
      /\ UNCHANGED <<counter, new>>
  BY DEF MoveSeqHeader
<1>2. l \in Seq(Holder)
  BY ListFacts
<1>3. /\ Retouched(l, m) /\ i + 1 \in DOMAIN l
      /\ ~m[i].seq /\ m[i + 1].seq /\ m[i + 1].frame = "I"
      /\ \A k \in DOMAIN l \ {i, i + 1} : m[k] = l[k]
  BY <1>1, <1>2, MoveSeqFacts
<1> HIDE DEF m
<1>4. /\ Edit(l, m, g, b, b) /\ DOMAIN m = 1..Len(l) /\ DOMAIN l = 1..Len(l)
      /\ \A k \in 1..Len(l) : g[k] = k /\ k # 0
  BY <1>2, <1>3, RetouchedIsEdit
<1>5. m[i + 1].id = l[i + 1].id
  BY <1>3, <1>4 DEF Retouched
<1> HIDE DEF g, b
<1>6. Moved(l, m, g, i, b, b)
  <2>1. \A k \in 1..(i - 1) : m[k] = l[k]
    BY <1>2, <1>3
  <2>2. \A k \in DOMAIN m : i + 1 < k => g[k] # 0 /\ m[k].seq = l[g[k]].seq
    BY <1>2, <1>3, <1>4
  <2>3. \A k \in 1..i : g[k] = k
    BY <1>2, <1>4
  <2>4. QED
    BY <1>3, <1>4, <2>1, <2>2, <2>3 DEF Moved
<1>7. Replaces(video, junk, l, m, video', junk') /\ kept' = kept
  BY <1>1 DEF Replace, Replaces
<1>8. Moved(l, m, g, i, UsedIds(new, nr), UsedIds(new', nr))
  BY <1>1, <1>6 DEF b
<1>9. lf' = [lf EXCEPT !["seq"] = m[i + 1].id]
  BY <1>1, <1>5
<1>10. new' \in {new, new + 1} /\ counter' = counter
  BY <1>1
<1>11. QED
  BY <1>1, <1>7, <1>8, <1>9, <1>10, MovedKeeps

LEMMA AddMissingIKeeps ==
    ASSUME IInv, pc = "seq", series = "S1", NEW l \in {video} \cup junk, NEW i \in DOMAIN l,
           Forward(video, lf, l, i), AddMissingI(l, i),
           UNCHANGED <<mode, repair, find_seq, input, odd>>
    PROVE  IInv'
<1> DEFINE b == UsedIds(new, nr)
           b2 == UsedIds(new + 1, nr)
           h == NewHolder("I", FALSE)
           ins == InsertAt(l, i + 1, h)
           m == MoveSeq(ins, i)
           g == Shift(l, i + 1)
<1>1. Misplaced(l[i]) /\ UNCHANGED counter
  BY DEF AddMissingI
<1>2. \/ /\ new' = new + 1 /\ Replace(l, m) /\ GoOn(l, NextSeq(l, i))
         /\ lf' = [lf EXCEPT !["seq"] = m[i + 1].id]
      \/ NextPass /\ UNCHANGED <<list, lf, new>>
  BY DEF AddMissingI
<1>3. CASE NextPass /\ UNCHANGED <<list, lf, new>>
  <2>1. find_seq /\ ~repair /\ counter \in 0..(CloseTries + 1) /\ ~(counter > CloseTries)
    BY DEF IInv, Phases, Scalars, Passes
  <2>2. UNCHANGED <<mode, list, lf, repair, find_seq, input, count>>
    BY <1>3 DEF count
  <2>3. QED
    BY <1>1, <1>3, <2>1, <2>2, IdleKeeps DEF NextPass
<1>4. CASE /\ new' = new + 1 /\ Replace(l, m) /\ GoOn(l, NextSeq(l, i))
           /\ lf' = [lf EXCEPT !["seq"] = m[i + 1].id]
  <2>1. l \in Seq(Holder) /\ new \in Nat /\ nr \in Nat
    BY ListFacts
  <2>2. /\ h \in Holder /\ h.id \in b2 \ b /\ ~h.gap /\ h.frame = "I"
    <3>1. -(new + 1) \in b2 \ b /\ -(new + 1) \in Int
      BY <2>1 DEF UsedIds
    <3> HIDE DEF b, b2
    <3>2. QED
      BY <3>1 DEF NewHolder, Holder, Frames
  <2> HIDE DEF b, b2, h
  <2>3. i + 1 \in 1..(Len(l) + 1) /\ i \in 1..Len(l)
    BY <2>1
  <2>4. /\ Edit(l, ins, g, b, b2) /\ DOMAIN ins = 1..(Len(l) + 1) /\ ins[i + 1] = h
        /\ \A x \in 1..(Len(l) + 1) :
             g[x] = IF x < i + 1 THEN x ELSE IF x = i + 1 THEN 0 ELSE x - 1
        /\ \A x \in 1..(Len(l) + 1) : x # i + 1 => g[x] # 0 /\ ins[x] = l[g[x]]
        /\ \A x \in 1..Len(l) : \E y \in 1..(Len(l) + 1) : g[y] = x
    <3> DEFINE k == i + 1
    <3>1. ins = InsertAt(l, k, h) /\ g = Shift(l, k)
      OBVIOUS
    <3> HIDE DEF g, ins
    <3>2. k \in 1..(Len(l) + 1)
      BY <2>3
    <3> HIDE DEF k
    <3>3. l \in Seq(Holder) /\ h \in Holder /\ h.id \in b2 \ b
      BY <2>1, <2>2
    <3>4. Edit(l, ins, g, b, b2) /\ Shifted(l, ins, g, k, h)
      BY <3>1, <3>2, <3>3, InsertIsEdit
    <3>5. QED
      BY <3>4 DEF k, Shifted
  <2> HIDE DEF ins, g
  <2>5. ins \in Seq(Holder) /\ Len(ins) = Len(l) + 1
    BY <2>1, <2>4 DEF Edit
  <2>6. \A x \in 1..i : g[x] = x /\ ins[x] = l[x]
    BY <2>1, <2>3, <2>4
  <2>7. CanMove(ins, i)
    <3>1. ins[i] = l[i] /\ l[i].seq /\ i < Len(ins)
      BY <2>1, <2>3, <2>5, <2>6 DEF Forward
    <3>2. QED
      BY <2>2, <2>4, <3>1 DEF CanMove
  <2>8. /\ Retouched(ins, m) /\ i + 1 \in DOMAIN ins
        /\ ~m[i].seq /\ m[i + 1].seq /\ m[i + 1].frame = "I"
        /\ \A k \in DOMAIN ins \ {i, i + 1} : m[k] = ins[k]
    BY <2>3, <2>4, <2>5, <2>7, MoveSeqFacts
  <2> HIDE DEF m
  <2>9. DOMAIN m = 1..(Len(l) + 1) /\ Edit(l, m, g, b, b2)
    <3>1. DOMAIN m = 1..(Len(l) + 1)
      BY <2>5, <2>8 DEF Retouched
    <3>2. QED
      BY <2>4, <2>8, <3>1, EditRetouched
  <2>10. Moved(l, m, g, i, b, b2)
    <3>1. \A k \in 1..(i - 1) : m[k] = l[k]
      BY <2>3, <2>4, <2>6, <2>8
    <3>2. \A k \in DOMAIN m : i + 1 < k => g[k] # 0 /\ m[k].seq = l[g[k]].seq
      <4>1. ASSUME NEW k \in DOMAIN m, i + 1 < k
            PROVE  g[k] # 0 /\ m[k].seq = l[g[k]].seq
        <5>1. k \in DOMAIN ins \ {i, i + 1} /\ k # i + 1
          BY <2>3, <2>4, <2>9, <4>1
        <5>2. m[k] = ins[k]
          BY <2>8, <5>1
        <5>3. g[k] # 0 /\ ins[k] = l[g[k]]
          BY <2>4, <2>9, <4>1, <5>1
        <5>4. QED
          BY <5>2, <5>3
      <4>2. QED
        BY <4>1
    <3>3. \A k \in DOMAIN m : g[k] = 0 => ~m[k].gap
      <4>1. \A k \in DOMAIN m : g[k] = 0 => k = i + 1
        BY <2>4, <2>9
      <4>2. m[i + 1].gap = h.gap
        BY <2>4, <2>5, <2>8 DEF Retouched
      <4>3. QED
        BY <2>2, <4>1, <4>2
    <3>4. DOMAIN l = 1..Len(l)
      BY <2>1
    <3>5. QED
      BY <2>4, <2>6, <2>8, <2>9, <3>1, <3>2, <3>3, <3>4 DEF Moved
  <2>11. Replaces(video, junk, l, m, video', junk') /\ kept' = kept
    BY <1>4 DEF Replace, Replaces
  <2>12. Moved(l, m, g, i, UsedIds(new, nr), UsedIds(new', nr))
    BY <1>4, <2>10 DEF b, b2
  <2>13. new' \in {new, new + 1} /\ counter' = counter
    BY <1>1, <1>4
  <2>14. QED
    BY <1>1, <1>4, <2>11, <2>12, <2>13, MovedKeeps
<1>5. QED
  BY <1>2, <1>3, <1>4

(* The sequence is passed by.                                              *)
LEMMA PassedBy ==
    ASSUME IInv, pc = "seq", series = "S1", NEW l \in {video} \cup junk, NEW i \in DOMAIN l,
           Forward(video, lf, l, i), l = video => l[i].frame \notin {"B", "P"},
           GoOn(l, NextSeq(l, i)), UNCHANGED <<mode, list>>,
           lf'["seq"] # 0 => \E j \in 1..i : l[j].id = lf'["seq"], tmp' # 0
    PROVE  TmpSound'
<1> DEFINE n == NextSeq(l, i)
<1>1. l \in Seq(Holder)
  BY ListFacts
<1>2. pc' = "seq" /\ n # 0 /\ tmp' = l[n].id
  BY <1>1, GoOnFacts
<1>3. n \in (i + 1)..Len(l) /\ l[n].seq /\ \A k \in (i + 1)..(n - 1) : ~l[k].seq
  BY <1>1, <1>2, NextSeqFacts
<1> HIDE DEF n
<1>4. n \in DOMAIN l /\ 1..i \subseteq 1..n
  BY <1>1, <1>3
<1>5. UNCHANGED <<series, video, junk>>
  BY DEF mode, list
<1>6. ASSUME l = video, NEW k \in 1..(n - 1), l[k].seq
      PROVE  l[k].frame \notin {"B", "P"}
  <2>1. CASE k \in 1..(i - 1)
    BY <1>6, <2>1 DEF Forward
  <2>2. CASE k = i
    BY <1>6, <2>2
  <2>3. CASE k \in (i + 1)..(n - 1)
    BY <1>3, <1>6, <2>3
  <2>4. QED
    BY <1>1, <1>3, <2>1, <2>2, <2>3
<1>7. Forward(video', lf', l, n)
  BY <1>3, <1>4, <1>5, <1>6 DEF Forward
<1>8. QED
  BY <1>2, <1>4, <1>5, <1>7 DEF TmpSound

(* The list stays as it is.                                                *)
LEMMA Unlisted ==
    ASSUME IInv, NEW l \in {video} \cup junk, UNCHANGED <<list, new>>
    PROVE  /\ Replaces(video, junk, l, l, video', junk') /\ kept' = kept
           /\ KeepsAll(l, l, Ident(l), lf, UsedIds(new, nr), UsedIds(new', nr))
<1> DEFINE b == UsedIds(new, nr)
<1>1. /\ WellFormed(l, b) /\ Walkable(l, lf, series) /\ l \in Seq(Holder)
      /\ lf \in [Passes -> b] /\ 0 \in b
  BY ListFacts
<1> HIDE DEF b
<1>2. SameSeqs(l, l)
  BY <1>1, SameSeqsSelf
<1>3. KeepsAll(l, l, Ident(l), lf, b, b)
  BY <1>1, <1>2, SameSeqsKeeps
<1>4. Replaces(video, junk, l, l, video', junk') /\ kept' = kept
  BY DEF list, Replaces
<1>5. QED
  BY <1>3, <1>4 DEF b

LEMMA AlreadyFixedKeeps ==
    ASSUME IInv, pc = "seq", series = "S1", NEW l \in {video} \cup junk, NEW i \in DOMAIN l,
           Forward(video, lf, l, i), AlreadyFixed(l, i),
           UNCHANGED <<mode, repair, find_seq, input, odd>>
    PROVE  IInv'
<1> DEFINE b == UsedIds(new, nr)
<1>1. /\ l[i].frame \notin {"B", "P"} /\ lf' = [lf EXCEPT !["seq"] = l[i].id]
      /\ GoOn(l, NextSeq(l, i)) /\ UNCHANGED <<list, counter, new>>
  BY DEF AlreadyFixed, Misplaced
<1>2. /\ lf \in [Passes -> b] /\ l \in Seq(Holder) /\ WellFormed(l, b) /\ new \in Nat
      /\ InPlace(video, lf)
  BY ListFacts DEF IInv
<1> HIDE DEF b
<1>3. lf'["seq"] = l[i].id /\ lf'["p_frame"] = lf["p_frame"]
  BY <1>1, <1>2 DEF Passes
<1>4. Reachable(l, i, "seq", lf, series)
  <2>1. ASSUME NEW q \in Passes, NEW j \in DOMAIN l, l[j].id = lf[q]
        PROVE  /\ ~(Rank[q] < Rank["seq"])
               /\ Rank["seq"] < Rank[q] => j < i
    <3>1. ~(Rank[q] < Rank["seq"]) /\ (Rank["seq"] < Rank[q] => q # "seq")
      BY DEF Rank, Passes
    <3>2. q # "seq" => j < i
      BY <2>1, OthersBehind
    <3>3. QED
      BY <3>1, <3>2
  <2>2. QED
    BY <1>1, <2>1 DEF Reachable, Renumbering, Forward
<1>5. l = video => InPlace(l, lf')
  <2>1. ASSUME l = video, NEW x \in DOMAIN l, NEW j \in DOMAIN l, l[j].id = lf'["seq"],
               x <= j, l[x].seq
        PROVE  l[x].frame \notin {"B", "P"}
    <3>1. j = i
      BY <1>2, <1>3, <2>1 DEF WellFormed
    <3>2. x \in 1..(i - 1) \/ x = i
      BY <1>2, <2>1, <3>1
    <3>3. QED
      BY <1>1, <2>1, <3>2 DEF Forward
  <2>2. QED
    BY <2>1 DEF InPlace
<1>6. tmp' # 0 => TmpSound'
  <2>1. i \in 1..i
    BY <1>2
  <2>2. QED
    BY <1>1, <1>3, <2>1, PassedBy
<1>7. SeqStep(l, l, lf')
  <2>1. pc' \in {"seq", "p_frame"} /\ tmp' \in Int
    BY <1>1, <1>2, GoOnFacts
  <2>2. counter \in 0..(CloseTries + 1) /\ ~(counter > CloseTries)
    BY DEF IInv, Scalars, Phases
  <2>3. Replaces(video, junk, l, l, video', junk') /\ kept' = kept
    BY <1>1, Unlisted
  <2>4. QED
    BY <1>1, <1>2, <1>6, <2>1, <2>2, <2>3 DEF SeqStep
<1>8. KeepsAll(l, l, Ident(l), lf, UsedIds(new, nr), UsedIds(new', nr))
  BY <1>1, Unlisted
<1>9. QED
  BY <1>1, <1>3, <1>4, <1>5, <1>7, <1>8, SeqStepKeeps

LEMMA SkipSeqKeeps ==
    ASSUME IInv, pc = "seq", series = "S1", NEW l \in {video} \cup junk, NEW i \in DOMAIN l,
           Forward(video, lf, l, i), SkipSeq(l, i),
           UNCHANGED <<mode, repair, find_seq, input, odd>>
    PROVE  IInv'
<1> DEFINE b == UsedIds(new, nr)
<1>1. /\ GoOn(l, NextSeq(l, i)) /\ UNCHANGED <<list, lf, counter, new>>
      /\ IF Misplaced(l[i]) THEN ~CanMove(l, i) /\ ~IsMissing(l, i)
         ELSE ~l[i].close /\ ~l[i].fixed
  BY DEF SkipSeq
<1>2. l \in Seq(Holder) /\ new \in Nat
  BY ListFacts
<1>3. ASSUME tmp' # 0
      PROVE  TmpSound'
  <2>1. NextSeq(l, i) # 0
    BY <1>1, <1>2, <1>3, GoOnFacts
  <2>2. NextSeq(l, i) \in (i + 1)..Len(l)
    BY <1>2, <2>1, NextSeqFacts
  <2>3. i < Len(l) /\ i + 1 \in DOMAIN l
    BY <1>2, <2>2
  <2>4. ASSUME l = video, l[i].frame \in {"B", "P"}
        PROVE  FALSE
    <3>1. Misplaced(l[i])
      BY <1>1, <2>4 DEF Misplaced
    <3>2. l[i + 1].gap
      BY <1>1, <2>3, <3>1 DEF CanMove, IsMissing, Forward
    <3>3. NoGap(video)
      BY DEF IInv, Phases, Passes
    <3>4. QED
      BY <2>3, <2>4, <3>2, <3>3 DEF NoGap
  <2>5. lf'["seq"] # 0 => \E j \in 1..i : l[j].id = lf'["seq"]
    BY <1>1 DEF Forward
  <2>6. QED
    BY <1>1, <1>3, <2>4, <2>5, PassedBy
<1>4. SeqStep(l, l, lf')
  <2>1. pc' \in {"seq", "p_frame"} /\ tmp' \in Int
    BY <1>1, <1>2, GoOnFacts
  <2>2. counter \in 0..(CloseTries + 1) /\ ~(counter > CloseTries)
    BY DEF IInv, Scalars, Phases
  <2>3. Replaces(video, junk, l, l, video', junk') /\ kept' = kept
    BY <1>1, Unlisted
  <2>4. QED
    BY <1>1, <1>2, <1>3, <2>1, <2>2, <2>3 DEF SeqStep
<1>5. KeepsAll(l, l, Ident(l), lf, UsedIds(new, nr), UsedIds(new', nr))
  BY <1>1, Unlisted
<1>6. lf' = lf /\ (l = video => InPlace(l, lf'))
  BY <1>1 DEF IInv
<1>7. QED
  BY <1>4, <1>5, <1>6, SeqStepKeeps

LEMMA CloseLaterKeeps ==
    ASSUME IInv, pc = "seq", NEW l, NEW i, CloseLater(l, i),
           UNCHANGED <<mode, repair, find_seq, input, odd>>
    PROVE  IInv'
<1>1. find_seq /\ ~repair /\ counter \in 0..(CloseTries + 1) /\ ~(counter > CloseTries)
  BY DEF IInv, Phases, Scalars, Passes
<1>2. /\ tmp' = 0 /\ pc' \in {"exited", "p_frame"} /\ counter' = counter + 1
      /\ counter' > CloseTries => pc' = "exited"
      /\ UNCHANGED <<list, lf, new>>
  BY DEF CloseLater, NextPass
<1>3. counter' \in 0..(CloseTries + 1)
  BY <1>1, <1>2, Consts
<1>4. UNCHANGED <<mode, list, lf, repair, find_seq, input, count>>
  BY <1>2 DEF count
<1>5. QED
  BY <1>1, <1>2, <1>3, <1>4, IdleKeeps

(* The GOP is closed, or only the S2 frontier moves: no header does.       *)
LEMMA SameSeqsStep ==
    ASSUME IInv, pc = "seq", NEW l \in {video} \cup junk, NEW m, SameSeqs(l, m),
           Replace(l, m), tmp' = 0, counter' \in {0, counter},
           pc' \in {"seq", "p_frame", "exited"}, new' = new,
           UNCHANGED <<mode, repair, find_seq, input, odd>>,
           lf' = lf \/ (series = "S2" /\ \E i \in DOMAIN m :
                          m[i].seq /\ lf' = [lf EXCEPT !["seq"] = m[i].id])
    PROVE  IInv'
<1> DEFINE b == UsedIds(new, nr)
<1>1. /\ lf \in [Passes -> b] /\ 0 \in b /\ l \in Seq(Holder) /\ new \in Nat
      /\ WellFormed(l, b) /\ Walkable(l, lf, series)
  BY ListFacts
<1> HIDE DEF b
<1>2. /\ KeepsAll(l, m, Ident(m), lf, b, b)
      /\ InPlace(l, lf) => InPlace(m, lf)
      /\ NoGap(l) => NoGap(m)
      /\ l # <<>> /\ l[1].seq => m # <<>> /\ m[1].seq
  BY <1>1, SameSeqsKeeps
<1>3. lf'["p_frame"] = lf["p_frame"]
  BY <1>1 DEF Passes
<1>4. lf' = lf \/ \E i \in DOMAIN m : /\ Reachable(m, i, "seq", lf, series)
                                      /\ lf' = [lf EXCEPT !["seq"] = m[i].id]
  <2>1. ASSUME series = "S2", NEW i \in DOMAIN m, m[i].seq
        PROVE  Reachable(m, i, "seq", lf, series)
    <3>1. \A q \in Passes : ~(Rank[q] < Rank["seq"])
      BY DEF Rank, Passes
    <3>2. QED
      BY <2>1, <3>1 DEF Reachable, Bounds, Renumbering
  <2>2. QED
    BY <2>1
<1>5. SeqStep(l, m, lf')
  <2>1. counter' \in 0..(CloseTries + 1) /\ ~(counter' > CloseTries)
    BY Consts DEF IInv, Scalars, Phases
  <2>2. Replaces(video, junk, l, m, video', junk') /\ kept' = kept
    BY DEF Replace, Replaces
  <2>3. QED
    BY <1>1, <1>2, <2>1, <2>2 DEF SeqStep
<1>6. series = "S1" /\ l = video => InPlace(m, lf')
  BY <1>2 DEF IInv
<1>7. KeepsAll(l, m, Ident(m), lf, UsedIds(new, nr), UsedIds(new', nr))
  BY <1>2 DEF b
<1>8. QED
  BY <1>3, <1>4, <1>5, <1>6, <1>7, SeqStepKeeps

LEMMA CloseCutKeeps ==
    ASSUME IInv, pc = "seq", NEW l \in {video} \cup junk, NEW i \in DOMAIN l, CloseCut(l, i),
           UNCHANGED <<mode, repair, find_seq, input, odd>>
    PROVE  IInv'
<1>1. /\ counter' = 0 /\ tmp' = 0 /\ UNCHANGED <<lf, new>>
  BY DEF CloseCut
<1>2. PICK r \in CloseResults(l, i) :
        /\ Replace(l, IF r.ok THEN [r.list EXCEPT ![i].fixed = TRUE, ![i].close = FALSE]
                      ELSE r.list)
        /\ pc' = IF r.ok THEN "seq" ELSE "exited"
  BY DEF CloseCut
<1>3. l \in Seq(Holder)
  BY ListFacts
<1>4. SameSeqs(l, r.list)
  BY <1>3, CloseResultsFacts
<1> DEFINE m == r.list
           n == [m EXCEPT ![i].fixed = TRUE, ![i].close = FALSE]
<1>5. m \in Seq(Holder) /\ i \in DOMAIN m /\ SameSeqs(l, m)
  BY <1>3, <1>4 DEF SameSeqs, Retouched
<1>6. SameSeqs(m, n)
  <2> HIDE DEF m
  <2> DEFINE h == [[m[i] EXCEPT !.fixed = TRUE] EXCEPT !.close = FALSE]
  <2>1. m[i] \in Holder
    BY <1>5
  <2>2. /\ h \in Holder /\ h.id = m[i].id /\ h.gap = m[i].gap /\ h.frame = m[i].frame
        /\ h.seq = m[i].seq /\ h.done = m[i].done
    BY <2>1 DEF Holder
  <2>3. n = [m EXCEPT ![i] = h]
    BY <1>5
  <2> HIDE DEF h, n
  <2>4. n \in Seq(Holder) /\ Len(n) = Len(m)
    BY <1>5, <2>2, <2>3
  <2>5. \A k \in 1..Len(m) : n[k] = IF k = i THEN h ELSE m[k]
    BY <1>5, <2>3
  <2>6. \A k \in 1..Len(m) :
          /\ n[k].id = m[k].id /\ n[k].gap = m[k].gap /\ n[k].seq = m[k].seq
          /\ n[k].frame \in {m[k].frame, "none"} /\ m[k].done \subseteq n[k].done
    BY <2>2, <2>5
  <2>7. QED
    BY <2>4, <2>6 DEF SameSeqs, Retouched
<1>7. SameSeqs(l, n)
  <2> HIDE DEF m, n
  <2>1. QED
    BY <1>5, <1>6, SameSeqsTransitive
<1>8. Replace(l, n) \/ Replace(l, m)
  BY <1>2
<1> HIDE DEF m, n
<1>9. pc' \in {"seq", "p_frame", "exited"} /\ counter' \in {0, counter} /\ new' = new
      /\ lf' = lf
  BY <1>1, <1>2
<1>10. CASE Replace(l, n)
  BY <1>1, <1>7, <1>9, <1>10, SameSeqsStep
<1>11. CASE Replace(l, m)
  BY <1>1, <1>5, <1>9, <1>11, SameSeqsStep
<1>12. QED
  BY <1>8, <1>10, <1>11

(* Setting fixed is no change to a pass.                                   *)
LEMMA FixedSame ==
    ASSUME NEW l \in Seq(Holder), NEW good
    PROVE  SameSeqs(l, [k \in DOMAIN l |-> IF k \in good THEN [l[k] EXCEPT !.fixed = TRUE]
                                           ELSE l[k]])
<1> DEFINE m == [k \in DOMAIN l |-> IF k \in good THEN [l[k] EXCEPT !.fixed = TRUE]
                                   ELSE l[k]]
<1>1. \A h \in Holder :
        /\ [h EXCEPT !.fixed = TRUE] \in Holder
        /\ [h EXCEPT !.fixed = TRUE].id = h.id /\ [h EXCEPT !.fixed = TRUE].gap = h.gap
        /\ [h EXCEPT !.fixed = TRUE].frame = h.frame /\ [h EXCEPT !.fixed = TRUE].seq = h.seq
        /\ [h EXCEPT !.fixed = TRUE].done = h.done
  BY DEF Holder
<1>2. DOMAIN l = 1..Len(l) /\ Len(l) \in Nat /\ \A k \in 1..Len(l) : l[k] \in Holder
  OBVIOUS
<1>3. \A k \in 1..Len(l) : m[k] = IF k \in good THEN [l[k] EXCEPT !.fixed = TRUE] ELSE l[k]
  BY <1>2
<1>4. \A k \in 1..Len(l) : m[k] \in Holder
  BY <1>1, <1>2, <1>3
<1>5. m \in [1..Len(l) -> Holder]
  BY <1>2, <1>4
<1>6. m \in Seq(Holder) /\ Len(m) = Len(l)
  BY <1>2, <1>5
<1> HIDE DEF m
<1>7. \A k \in 1..Len(l) :
        /\ m[k].id = l[k].id /\ m[k].gap = l[k].gap /\ m[k].seq = l[k].seq
        /\ m[k].frame \in {l[k].frame, "none"} /\ l[k].done \subseteq m[k].done
  BY <1>1, <1>2, <1>3
<1>8. SameSeqs(l, m)
  BY <1>6, <1>7 DEF SameSeqs, Retouched
<1>9. QED
  BY <1>8 DEF m

LEMMA SeqPassS2Keeps ==
    ASSUME IInv, pc = "seq", series = "S2", NEW l \in {video} \cup junk, NEW i \in DOMAIN l,
           SeqPassS2(l, i), UNCHANGED <<mode, repair, find_seq, input, odd>>
    PROVE  IInv'
<1> DEFINE good == {k \in i..Len(l) : l[k].seq /\ l[k].frame = "I"}
           top == CHOOSE k \in good : \A m \in good : m <= k
           m == [k \in DOMAIN l |-> IF k \in good THEN [l[k] EXCEPT !.fixed = TRUE]
                                   ELSE l[k]]
<1>1. /\ lf' = IF good = {} THEN lf ELSE [lf EXCEPT !["seq"] = l[top].id]
      /\ Replace(l, m) /\ tmp' = 0 /\ pc' = "p_frame" /\ UNCHANGED <<counter, new>>
  BY DEF SeqPassS2, NextPass
<1>2. l \in Seq(Holder)
  BY ListFacts
<1>3. good \subseteq Nat /\ good \subseteq 0..Len(l) /\ good \subseteq DOMAIN l
      /\ \A k \in good : l[k].seq
  BY <1>2
<1>4. good # {} => top \in good
  <2> HIDE DEF good
  <2>1. ASSUME good # {}
        PROVE  top \in good
    <3>1. Len(l) \in Nat /\ good \subseteq 0..Len(l)
      BY <1>2, <1>3
    <3>2. \E k \in good : \A x \in good : x <= k
      BY <2>1, <3>1, GreatestNumber
    <3>3. QED
      BY <3>2
  <2>2. QED
    BY <2>1
<1>5. SameSeqs(l, m)
  BY <1>2, FixedSame
<1> HIDE DEF m, top, good
<1>6. lf' = lf \/ (series = "S2" /\ \E k \in DOMAIN m :
                     m[k].seq /\ lf' = [lf EXCEPT !["seq"] = m[k].id])
  <2>1. CASE good = {}
    BY <1>1, <2>1
  <2>2. CASE good # {}
    <3>1. top \in DOMAIN l /\ l[top].seq
      BY <1>3, <1>4, <2>2
    <3>2. top \in DOMAIN m /\ m[top].seq /\ m[top].id = l[top].id
      BY <1>2, <1>5, <3>1 DEF SameSeqs, Retouched
    <3>3. QED
      BY <1>1, <2>2, <3>2
  <2>3. QED
    BY <2>1, <2>2
<1>7. counter' \in {0, counter} /\ new' = new /\ pc' \in {"seq", "p_frame", "exited"}
  BY <1>1
<1>8. QED
  BY <1>1, <1>5, <1>6, <1>7, SameSeqsStep

(* The whole first pass.                                                   *)
LEMMA FixSeqHeaderKeeps == IInv /\ FixSeqHeader => IInv'
<1> SUFFICES ASSUME IInv, FixSeqHeader PROVE IInv'
  OBVIOUS
<1>1. pc = "seq" /\ UNCHANGED <<mode, repair, find_seq, input, odd>>
  BY DEF FixSeqHeader
<1>2. find_seq /\ ~repair /\ counter \in 0..(CloseTries + 1) /\ ~(counter > CloseTries)
  BY <1>1 DEF IInv, Phases, Scalars, Passes
<1>3. CASE Freed(lf["seq"])
  <2>1. pc' = "undefined" /\ UNCHANGED <<list, lf, counter, tmp, new>>
    BY <1>3 DEF FixSeqHeader
  <2>2. tmp = 0
    <3>1. ASSUME tmp # 0
          PROVE  FALSE
      <4>1. series = "S1"
        BY <3>1 DEF IInv, TmpSound
      <4>2. lf["seq"] # 0 => \E l \in {video} \cup junk : lf["seq"] \in Ids(l)
        BY <4>1, ListFacts DEF Frontiers, Bounds, Passes
      <4>3. QED
        BY <1>3, <4>2 DEF Freed
    <3>2. QED
      BY <3>1
  <2>3. UNCHANGED <<mode, list, lf, repair, find_seq, input, count>>
    BY <1>1, <2>1 DEF count
  <2>4. QED
    BY <1>2, <2>1, <2>2, <2>3, IdleKeeps
<1>4. CASE ~Freed(lf["seq"]) /\ Cur = 0
  <2>1. NextPass /\ UNCHANGED <<list, lf, counter, new>>
    BY <1>4 DEF FixSeqHeader
  <2>2. UNCHANGED <<mode, list, lf, repair, find_seq, input, count>>
    BY <1>1, <2>1 DEF count
  <2>3. QED
    BY <1>2, <2>1, <2>2, IdleKeeps DEF NextPass
<1>5. CASE ~Freed(lf["seq"]) /\ Cur # 0
  <2>1. PICK l \in {video} \cup junk : \E i \in DOMAIN l :
          /\ ListOf(Cur) = l /\ Index(l, Cur) = i /\ l[i].seq
          /\ series = "S1" => Forward(video, lf, l, i)
    BY <1>1, <1>5, CurFacts
  <2>2. PICK i \in DOMAIN l :
          /\ ListOf(Cur) = l /\ Index(l, Cur) = i /\ l[i].seq
          /\ series = "S1" => Forward(video, lf, l, i)
    BY <2>1
  <2>3. IF series = "S2" THEN SeqPassS2(l, i)
        ELSE \/ CloseLater(l, i) \/ CloseCut(l, i)
             \/ MoveSeqHeader(l, i) \/ AddMissingI(l, i)
             \/ AlreadyFixed(l, i) \/ SkipSeq(l, i)
    BY <1>5, <2>2 DEF FixSeqHeader
  <2>4. CASE series = "S2"
    BY <1>1, <2>3, <2>4, SeqPassS2Keeps
  <2>5. CASE series # "S2"
    <3>1. series = "S1" /\ Forward(video, lf, l, i)
      BY <2>2, <2>5, Consts DEF IInv, Scalars
    <3>2. CASE CloseLater(l, i)
      BY <1>1, <3>2, CloseLaterKeeps
    <3>3. CASE CloseCut(l, i)
      BY <1>1, <3>3, CloseCutKeeps
    <3>4. CASE MoveSeqHeader(l, i)
      BY <1>1, <3>1, <3>4, MoveSeqHeaderKeeps
    <3>5. CASE AddMissingI(l, i)
      BY <1>1, <3>1, <3>5, AddMissingIKeeps
    <3>6. CASE AlreadyFixed(l, i)
      BY <1>1, <3>1, <3>6, AlreadyFixedKeeps
    <3>7. CASE SkipSeq(l, i)
      BY <1>1, <3>1, <3>7, SkipSeqKeeps
    <3>8. QED
      BY <2>3, <2>5, <3>2, <3>3, <3>4, <3>5, <3>6, <3>7
  <2>6. QED
    BY <2>4, <2>5
<1>6. QED
  BY <1>3, <1>4, <1>5

LEMMA InitIInv == Init => IInv
<1> SUFFICES ASSUME Init PROVE IInv
  OBVIOUS
<1>1. Scalars /\ Phases /\ tmp = 0 /\ ~find_seq
  <2>1. /\ pc = "read" /\ counter = 0 /\ tmp = 0 /\ find_seq = FALSE /\ repair = FALSE
        /\ series \in Series /\ std_alone \in Modes
        /\ nr = 0 /\ new = 0 /\ rounds = 0 /\ odd = 0
        /\ video = <<>> /\ kept = <<>> /\ junk = {} /\ lf = [p \in Passes |-> 0]
    BY DEF Init
  <2>2. counter \in 0..(CloseTries + 1) /\ ~(counter > CloseTries)
        /\ rounds \in 0..MaxRounds /\ odd \in 0..MaxOdd
    BY <2>1, Consts
  <2>3. Scalars
    <3>1. find_seq \in BOOLEAN /\ repair \in BOOLEAN
      BY <2>1
    <3>2. tmp \in Int /\ nr \in Nat /\ new \in Nat
      BY <2>1
    <3>3. pc \in Passes \cup {"read", "init", "repair", "write", "stopped", "exited", "undefined"}
      BY <2>1
    <3>4. QED
      BY <2>1, <2>2, <3>1, <3>2, <3>3, Zenon DEF Scalars
  <2>4. Phases
    BY <2>1, <2>2 DEF Phases, Passes
  <2>5. QED
    BY <2>1, <2>3, <2>4
<1>2. video = <<>> /\ kept = <<>> /\ junk = {} /\ lf = [p \in Passes |-> 0]
      /\ new = 0 /\ nr = 0
  BY DEF Init
<1>3. WellFormed(<<>>, UsedIds(0, 0)) /\ Len(<<>>) <= 1 /\ Disjoint(<<>>, <<>>)
      /\ 0 \in UsedIds(0, 0)
  BY DEF WellFormed, Disjoint, Ids, UsedIds
<1>4. ListsOK(video, kept, junk, lf, series, UsedIds(new, nr))
  BY <1>2, <1>3, NoFrontierNoList
<1>5. InPlace(video, lf) /\ NoGap(video)
  BY <1>2 DEF InPlace, NoGap
<1>6. QED
  BY <1>1, <1>4, <1>5 DEF IInv

LEMMA StepIInv == IInv /\ [Next]_vars => IInv'
<1> SUFFICES ASSUME IInv, [Next]_vars PROVE IInv'
  OBVIOUS
<1>1. CASE GetPesHolders
  BY <1>1, GetPesHoldersKeeps
<1>2. CASE NoStart \/ RepairFailed
  BY <1>2, NoStartKeeps
<1>3. CASE StartFailed
  BY <1>3, StartFailedKeeps
<1>4. CASE Start
  BY <1>4, StartKeeps
<1>5. CASE Repair
  BY <1>5, RepairKeeps
<1>6. CASE FixSeqHeader
  BY <1>6, FixSeqHeaderKeeps
<1>7. CASE CheckFixPesHolders
  BY <1>7, CheckFixPesHoldersKeeps
<1>8. CASE WriteGops \/ WriteFrames
  BY <1>8, WriteKeeps
<1>9. CASE Ended \/ UNCHANGED vars
  <2>1. UNCHANGED vars
    BY <1>9 DEF Ended
  <2>2. UNCHANGED <<series, std_alone, video, kept, junk, lf, repair, find_seq, counter, tmp,
                    pc, nr, rounds, new, odd>>
    BY <2>1 DEF vars, mode, list, input, count
  <2>3. Scalars' /\ Phases'
    BY <2>2 DEF IInv, Scalars, Phases
  <2>4. tmp' # 0 => TmpSound'
    BY <2>2 DEF IInv, TmpSound
  <2>5. QED
    BY <2>2, <2>3, <2>4 DEF IInv
<1>10. QED
  BY <1>1, <1>2, <1>3, <1>4, <1>5, <1>6, <1>7, <1>8, <1>9 DEF Next

(* The invariant holds in every state: the steps of the main loop one by   *)
(* one.                                                                    *)
THEOREM Invariance == Spec => []IInv
  BY InitIInv, StepIInv, PTL DEF Spec

-----------------------------------------------------------------------------
(* What follows from it.                                                   *)
LEMMA IInvTypeOK == IInv => TypeOK
<1> SUFFICES ASSUME IInv PROVE TypeOK
  OBVIOUS
<1>1. Scalars
  BY DEF IInv
<1>2. /\ video \in Seq(Holder) /\ kept \in Seq(Holder) /\ Len(kept) <= 1
      /\ \A l \in junk : l \in Seq(Holder)
  BY DEF IInv, ListsOK, WellFormed
<1>3. lf \in [Passes -> Int]
  <2>1. UsedIds(new, nr) \subseteq Int
    BY <1>1 DEF Scalars, UsedIds
  <2>2. QED
    BY <2>1, ListFacts
<1>4. QED
  BY <1>1, <1>2, <1>3 DEF TypeOK, Scalars

LEMMA IInvFrontiersKept == IInv => FrontiersKept
<1> SUFFICES ASSUME IInv, NEW p \in Passes, lf[p] # 0, ~(p = "seq" /\ series = "S2")
             PROVE  \E l \in {video} \cup junk : lf[p] \in Ids(l)
  BY DEF FrontiersKept
<1>1. Bounds(p, series)
  BY Consts DEF IInv, Scalars, Bounds
<1>2. QED
  BY <1>1, ListFacts DEF Frontiers

LEMMA IInvFrontierOrder == IInv => FrontierOrder
<1> SUFFICES ASSUME IInv, NEW p \in Passes \ {"seq"}, ~(p = "p_frame" /\ series = "S2"),
                    lf[p] \in Ids(video), lf[Before(p)] \in Ids(video)
             PROVE  Index(video, lf[p]) < Index(video, lf[Before(p)])
  BY DEF FrontierOrder
<1> DEFINE b == UsedIds(new, nr)
<1>1. /\ WellFormed(video, b) /\ Walkable(video, lf, series) /\ Separate(video, kept, junk)
  BY ListFacts
<1> HIDE DEF b
<1>2. PICK j \in DOMAIN video : video[j].id = lf[p]
  BY DEF Ids
<1>3. PICK i \in DOMAIN video : video[i].id = lf[Before(p)]
  BY DEF Ids
<1>4. Index(video, lf[p]) = j /\ Index(video, lf[Before(p)]) = i
  <2>1. Index(video, video[j].id) = j /\ Index(video, video[i].id) = i
    BY <1>1, Located
  <2>2. QED
    BY <1>2, <1>3, <2>1
<1>5. /\ Before(p) \in Passes /\ Rank[Before(p)] < Rank[p]
      /\ p = "p_frame" <=> Before(p) = "seq"
  <2>1. /\ Before(p) \in Passes /\ Rank[Before(p)] = Rank[p] - 1 /\ Rank[p] \in 2..6
    BY RankFacts
  <2>2. p = "p_frame" <=> Before(p) = "seq"
    BY RankFacts
  <2>3. QED
    BY <2>1, <2>2
<1>6. Bounds(Before(p), series)
  BY <1>5, Consts DEF IInv, Scalars, Bounds
<1>7. QED
  BY <1>1, <1>2, <1>3, <1>4, <1>5, <1>6 DEF Walkable

(* No frontier ever points to a holder that the writer has passed, and     *)
(* each pass stays strictly behind the one before it, whatever is added,   *)
(* dropped, cut out or written between them: pointers into a list that     *)
(* check_fix_pes_holder_video, repair_tystream and write_pes_holders       *)
(* change without looking at them.                                         *)
THEOREM FrontiersStaySound == Spec => []FrontiersSound
<1>1. IInv => FrontiersSound
  BY IInvTypeOK, IInvFrontiersKept, IInvFrontierOrder DEF FrontiersSound
<1>2. QED
  BY <1>1, Invariance, PTL

(* No picture behind a gap reaches the passes and the writer, however      *)
(* many gaps a round brings: check_gaps finds those that a repair leaves.  *)
THEOREM GapsAreRepaired == Spec => []GapMeansRepair
<1>1. IInv => GapMeansRepair
  <2> SUFFICES ASSUME IInv, pc \in Passes \cup {"write"} PROVE NoGap(video)
    BY DEF GapMeansRepair, NoGap
  <2>1. ~repair
    BY DEF IInv, Phases
  <2>2. QED
    BY <2>1 DEF IInv
<1>2. QED
  BY <1>1, Invariance, PTL

(* S1: fix_seq_header leaves no sequence header at a B or P picture behind *)
(* it, and no later pass, repair or start of the stream puts one there.    *)
THEOREM HeadersInPlace == Spec => []NoSeqLeftBehind
<1>1. IInv => NoSeqLeftBehind
  <2> SUFFICES ASSUME IInv, series = "S1", lf["seq"] \in Ids(video),
                      NEW k \in 1..Index(video, lf["seq"]), video[k].seq
               PROVE  video[k].frame \notin {"B", "P"}
    BY DEF NoSeqLeftBehind
  <2> DEFINE b == UsedIds(new, nr)
  <2>1. WellFormed(video, b) /\ video \in Seq(Holder) /\ Separate(video, kept, junk)
    BY ListFacts
  <2> HIDE DEF b
  <2>2. PICK j \in DOMAIN video : video[j].id = lf["seq"]
    BY DEF Ids
  <2>3. Index(video, video[j].id) = j
    BY <2>1, Located
  <2>4. k \in 1..j
    BY <2>2, <2>3
  <2>5. k \in DOMAIN video /\ k <= j
    BY <2>1, <2>4
  <2>6. InPlace(video, lf)
    BY DEF IInv
  <2>7. QED
    BY <2>2, <2>5, <2>6 DEF InPlace
<1>2. QED
  BY <1>1, Invariance, PTL

(* The writer stays before the last frontier.                              *)
LEMMA WriterChecks ==
    ASSUME IInv, [Next]_vars, pc = "write", NEW k \in DOMAIN video, video[k].seq,
           video[k].id \notin Ids(video')
    PROVE  Renumbering \subseteq video[k].done
<1> DEFINE b == UsedIds(new, nr)
<1>1. /\ WellFormed(video, b) /\ Walkable(video, lf, series) /\ video \in Seq(Holder)
  BY ListFacts
<1> HIDE DEF b
<1>2. video' # video
  BY DEF Ids
<1>3. WriteGops \/ WriteFrames
  <2>1. Next /\ pc \notin Passes
    BY <1>2 DEF vars, list, Passes
  <2>2. QED
    BY <1>2, <2>1 DEF Next, GetPesHolders, NoStart, StartFailed, Start, Repair, RepairFailed,
                      FixSeqHeader, CheckFixPesHolders, Ended
<1>4. PICK n \in 0..Len(video) :
        /\ Written(n)
        /\ n # 0 => \E j \in DOMAIN video : video[j].id = lf["gop_counter"] /\ n < j
  BY <1>3, WriteGopsWrites, WriteFramesWrites
<1>5. Slice(video, n + 1, Len(video), video')
  BY <1>1, <1>4 DEF Written, Slice
<1>6. Ids(video') = IdsFrom(video, n + 1, Len(video))
  BY <1>1, <1>5, SliceIds
<1>7. k <= n
  <2>1. k \notin (n + 1)..Len(video)
    BY <1>6 DEF IdsFrom
  <2>2. QED
    BY <1>1, <2>1
<1>8. PICK j \in DOMAIN video : video[j].id = lf["gop_counter"] /\ n < j
  BY <1>1, <1>4, <1>7
<1>9. "gop_counter" \in Renumbering /\ Seen("gop_counter") = Renumbering
  BY DEF Renumbering, Seen, Rank
<1>10. k <= j
  BY <1>1, <1>7, <1>8
<1>11. QED
  BY <1>1, <1>8, <1>9, <1>10 DEF Walkable

(* Every sequence that write_pes_holders writes has been through the four  *)
(* passes that check and renumber its pictures, also one that a pass has   *)
(* made meanwhile.                                                         *)
THEOREM WrittenGopsWereChecked == Spec => GopsChecked
<1>1. IInv /\ [Next]_vars =>
        [pc = "write" =>
           \A k \in DOMAIN video :
              video[k].seq /\ video[k].id \notin Ids(video') =>
                  {"tmp_ref", "field", "av_drift", "gop_counter"} \subseteq video[k].done]_vars
  BY WriterChecks DEF Renumbering
<1>2. QED
  BY <1>1, Invariance, PTL DEF Spec, GopsChecked

-----------------------------------------------------------------------------
(* The passes stay in step.  Behind a pass that has nothing more to do,    *)
(* no sequence lies between its frontier and that of the pass before it.   *)
Adjacent(l, F, p) ==
    \A i, j \in DOMAIN l :
        l[i].id = F[p] /\ l[j].id = F[Before(p)] => \A k \in (i + 1)..(j - 1) : ~l[k].seq

(* A pass stops at a sequence whose header is at a B picture.  On S1 the   *)
(* first pass leaves none; on S2 parse_chunk_video_S2 starts a holder of   *)
(* its own for each B record, so that no sequence is there.                *)
NoneAtB(l) == \A k \in DOMAIN l : l[k].seq => l[k].frame # "B"

NoSeqAtB ==
    "S2" \in Series => \A r \in Rounds["S2"] \cup OddRounds["S2"] : NoneAtB(r)

LagInv ==
    /\ series = "S2" => NoneAtB(video)
    /\ (series = "S1" => lf["seq"] \in Ids(video)) =>
         \A q \in Renumbering :
            pc = "write" \/ (pc \in Passes /\ Rank[q] < Rank[pc]) => Adjacent(video, lf, q)

(* A pass that is not ready has come up to the one before it.              *)
LEMMA NotReadyAdjacent ==
    ASSUME IInv, series = "S2" => NoneAtB(video), series = "S1" => lf["seq"] \in Ids(video),
           NEW p \in Renumbering, ~Ready(p)
    PROVE  Adjacent(video, lf, p)
<1> DEFINE b == UsedIds(new, nr)
           B == Before(p)
<1>1. /\ WellFormed(video, b) /\ Walkable(video, lf, series) /\ video \in Seq(Holder)
      /\ Separate(video, kept, junk)
  BY ListFacts
<1>2. p \in Passes \ {"seq"} /\ p # "p_frame" /\ B \in Passes /\ B # "seq"
  <2>1. p \in Passes \ {"seq"} /\ p # "p_frame"
    BY DEF Renumbering, Passes
  <2>2. QED
    BY <2>1, RankFacts
<1> HIDE DEF b
<1> SUFFICES ASSUME NEW i \in DOMAIN video, NEW j \in DOMAIN video,
                    video[i].id = lf[p], video[j].id = lf[B],
                    NEW k \in (i + 1)..(j - 1), video[k].seq
             PROVE  Ready(p)
  BY DEF Adjacent
<1> DEFINE n == NextSeq(video, i)
           o == NextSeq(video, n)
<1>3. k \in DOMAIN video /\ i < k /\ k < j /\ i + 1 <= k /\ k <= Len(video)
  BY <1>1
<1>4. n \in DOMAIN video /\ n # 0 /\ video[n].seq /\ n <= k /\ n < j
  <2>1. /\ n \in {0} \cup (i + 1)..Len(video)
        /\ n # 0 => video[n].seq
        /\ n = 0 => \A x \in (i + 1)..Len(video) : ~video[x].seq
        /\ n # 0 => \A x \in (i + 1)..(n - 1) : ~video[x].seq
    BY <1>1, NextSeqFacts
  <2> HIDE DEF n
  <2>2. n # 0
    BY <1>1, <1>3, <2>1
  <2>3. ~(k < n)
    BY <1>1, <1>3, <2>1, <2>2
  <2>4. QED
    BY <1>1, <1>3, <2>1, <2>2, <2>3
<1>5. video[j].seq /\ lf[B] # 0 /\ lf[p] # 0
  BY <1>1, <1>2 DEF Walkable, WellFormed
<1> HIDE DEF n
<1>6. o \in DOMAIN video /\ o # 0 /\ video[o].seq /\ o <= j
  <2>1. /\ o \in {0} \cup (n + 1)..Len(video)
        /\ o # 0 => video[o].seq
        /\ o = 0 => \A x \in (n + 1)..Len(video) : ~video[x].seq
        /\ o # 0 => \A x \in (n + 1)..(o - 1) : ~video[x].seq
    BY <1>1, <1>4, NextSeqFacts
  <2> HIDE DEF o
  <2>2. o # 0
    BY <1>1, <1>4, <1>5, <2>1
  <2>3. ~(j < o)
    BY <1>1, <1>4, <1>5, <2>1, <2>2
  <2>4. QED
    BY <1>1, <1>4, <2>1, <2>2, <2>3
<1> HIDE DEF o
<1>7. /\ ListOf(lf[p]) = video /\ Index(video, lf[p]) = i
      /\ ListOf(video[n].id) = video /\ Index(video, video[n].id) = n
      /\ Index(video, lf[B]) = j /\ lf[B] \in Ids(video)
  <2>1. ListOf(video[i].id) = video /\ Index(video, video[i].id) = i
    BY <1>1, Located
  <2>2. ListOf(video[n].id) = video /\ Index(video, video[n].id) = n
    BY <1>1, <1>4, Located
  <2>3. Index(video, video[j].id) = j /\ video[j].id \in Ids(video)
    BY <1>1, Located
  <2>4. QED
    BY <2>1, <2>2, <2>3
<1>8. StartOf(p) = video[n].id /\ video[n].id # 0
  <2>1. StartOf(p) = IdAt(video, NextSeq(video, i))
    BY <1>5, <1>7 DEF StartOf, next_seq_holder
  <2>2. QED
    BY <1>1, <1>4, <2>1 DEF IdAt, n, WellFormed
<1>9. is_okay(StartOf(p), lf[B]) > 0
  <2> DEFINE S == SeqsIn(video, n, j - 1)
  <2>1. is_okay(StartOf(p), lf[B]) = Cardinality(S)
    BY <1>4, <1>5, <1>7, <1>8 DEF is_okay
  <2>2. n \in S /\ S \subseteq n..(j - 1)
    BY <1>1, <1>4 DEF SeqsIn
  <2> HIDE DEF S
  <2>3. IsFiniteSet(n..(j - 1))
    <3>1. n \in Int /\ j - 1 \in Int
      BY <1>1, <1>4
    <3>2. QED
      BY <3>1, FS_Interval
  <2>4. IsFiniteSet(S)
    BY <2>2, <2>3, FS_Subset
  <2>5. Cardinality(S) \in Nat /\ Cardinality(S) # 0
    BY <2>2, <2>4, FS_CardinalityType, FS_EmptySet
  <2>6. QED
    BY <2>1, <2>5
<1>10. video[o].frame # "B"
  <2>1. CASE series = "S2"
    BY <1>6, <2>1 DEF NoneAtB
  <2>2. CASE series = "S1"
    <3>1. PICK x \in DOMAIN video : video[x].id = lf["seq"]
      BY <2>2 DEF Ids
    <3>2. Rank["seq"] < Rank[B] /\ "seq" \in Passes /\ Bounds("seq", series)
      BY <1>2, <2>2 DEF Rank, Passes, Bounds
    <3>3. j < x
      BY <1>1, <1>2, <3>1, <3>2 DEF Walkable
    <3>4. o <= x
      BY <1>1, <1>6, <3>3
    <3>5. InPlace(video, lf)
      BY <2>2 DEF IInv
    <3>6. QED
      BY <1>6, <3>1, <3>4, <3>5 DEF InPlace
  <2>3. QED
    BY <2>1, <2>2, Consts DEF IInv, Scalars
<1>11. QED
  <2>1. ListOf(StartOf(p)) = video /\ NextSeq(video, Index(video, StartOf(p))) = o
    BY <1>7, <1>8 DEF o
  <2>2. lf[Before(p)] # 0 /\ StartOf(p) # 0 /\ is_okay(StartOf(p), lf[Before(p)]) > 0
    BY <1>5, <1>8, <1>9
  <2>3. QED
    BY <1>6, <1>10, <2>1, <2>2 DEF Ready

(* The later passes make no sequences.                                     *)
LEMMA EditedAdjacent ==
    ASSUME NEW b, NEW b2, NEW l, NEW m, NEW g, NEW F, NEW p \in Passes \ {"seq"},
           F[p] \in b, F[Before(p)] \in b, l \in Seq(Holder),
           Edit(l, m, g, b, b2), NoNewSeq(l, m, g), Adjacent(l, F, p)
    PROVE  Adjacent(m, F, p)
<1>1. m \in Seq(Holder) /\ g \in [DOMAIN m -> {0} \cup DOMAIN l]
  BY DEF Edit
<1>2. SUFFICES ASSUME NEW i \in DOMAIN m, NEW j \in DOMAIN m, m[i].id = F[p],
                      m[j].id = F[Before(p)], NEW k \in (i + 1)..(j - 1), m[k].seq
               PROVE  FALSE
  BY DEF Adjacent
<1>3. k \in DOMAIN m /\ i < k /\ k < j
  BY <1>1
<1>4. g[i] # 0 /\ l[g[i]].id = F[p] /\ g[j] # 0 /\ l[g[j]].id = F[Before(p)]
  BY <1>1, <1>2 DEF Edit
<1>5. g[k] # 0 /\ l[g[k]].seq
  BY <1>2, <1>3 DEF NoNewSeq
<1>6. g[i] < g[k] /\ g[k] < g[j]
  BY <1>3, <1>4, <1>5 DEF Edit
<1>7. g[i] \in DOMAIN l /\ g[j] \in DOMAIN l /\ g[k] \in (g[i] + 1)..(g[j] - 1)
  BY <1>1, <1>3, <1>4, <1>5, <1>6
<1>8. QED
  BY <1>4, <1>5, <1>7 DEF Adjacent

(* No sequence comes to a B picture.                                       *)
LEMMA EditedNoneAtB ==
    ASSUME NEW b, NEW b2, NEW l, NEW m, NEW g, l \in Seq(Holder), Edit(l, m, g, b, b2),
           NoneAtB(l),
           \A k \in DOMAIN m : m[k].seq => (g[k] # 0 /\ l[g[k]].seq) \/ m[k].frame # "B"
    PROVE  NoneAtB(m)
<1>1. g \in [DOMAIN m -> {0} \cup DOMAIN l]
  BY DEF Edit
<1>2. ASSUME NEW k \in DOMAIN m, m[k].seq, g[k] # 0, l[g[k]].seq
      PROVE  m[k].frame # "B"
  <2>1. g[k] \in DOMAIN l /\ m[k].frame \in {l[g[k]].frame, "none"}
    BY <1>1, <1>2 DEF Edit
  <2>2. l[g[k]].frame # "B"
    BY <1>2, <2>1 DEF NoneAtB
  <2>3. QED
    BY <2>1, <2>2
<1>3. QED
  BY <1>2 DEF NoneAtB

LEMMA SameSeqsNoneAtB ==
    ASSUME NEW l \in Seq(Holder), NEW m, SameSeqs(l, m), NoneAtB(l)
    PROVE  NoneAtB(m)
<1>1. \A k \in DOMAIN m : k \in DOMAIN l /\ m[k].seq = l[k].seq
                            /\ m[k].frame \in {l[k].frame, "none"}
  BY DEF SameSeqs, Retouched
<1>2. QED
  BY <1>1 DEF NoneAtB

LEMMA SliceNoneAtB ==
    ASSUME NEW l \in Seq(Holder), NEW c, NEW d, NEW m, Slice(l, c, d, m), NoneAtB(l)
    PROVE  NoneAtB(m)
<1>1. c \in 1..(Len(l) + 1) /\ d \in (c - 1)..Len(l)
  BY DEF Slice
<1>2. /\ m \in Seq(Holder) /\ Len(m) = d - c + 1 /\ DOMAIN m = 1..(d - c + 1)
      /\ \A k \in 1..(d - c + 1) : m[k] = l[k + c - 1]
  BY SliceFacts
<1>3. \A k \in DOMAIN m : k + c - 1 \in DOMAIN l /\ m[k] = l[k + c - 1]
  BY <1>1, <1>2
<1>4. QED
  BY <1>3 DEF NoneAtB

(* Whose turn it is: Following keeps the order of the passes.              *)
LEMMA FollowingRank ==
    ASSUME NEW p \in Passes \ {"seq"}, NEW q \in Passes \ {"seq"}
    PROVE  q \in Following(p) <=> Rank[p] <= Rank[q]
<1> DEFINE order == <<"seq", "p_frame", "tmp_ref", "field", "av_drift", "gop_counter", "write">>
           i == CHOOSE k \in DOMAIN order : order[k] = p
<1>1. DOMAIN order = 1..7
  OBVIOUS
<1>2. /\ order[1] = "seq" /\ order[2] = "p_frame" /\ order[3] = "tmp_ref"
      /\ order[4] = "field" /\ order[5] = "av_drift" /\ order[6] = "gop_counter"
      /\ order[7] = "write"
  OBVIOUS
<1>3. Following(p) = {order[k] : k \in i..7}
  BY DEF Following
<1> HIDE DEF order
<1>4. \A k \in 1..7 : order[k] \in Passes => Rank[order[k]] = k
  <2>1. "write" \notin Passes
    BY DEF Passes
  <2>2. \A k \in 1..7 : k \in {1, 2, 3, 4, 5, 6, 7}
    OBVIOUS
  <2>3. QED
    BY <1>2, <2>1, <2>2 DEF Rank
<1>5. \A x \in Passes : Rank[x] \in 1..6 /\ order[Rank[x]] = x
  BY <1>2 DEF Passes, Rank
<1>6. i \in 1..7 /\ order[i] = p
  <2>1. \E k \in DOMAIN order : order[k] = p
    <3>1. Rank[p] \in DOMAIN order
      BY <1>1, <1>5
    <3>2. QED
      BY <1>5, <3>1
  <2>2. QED
    BY <1>1, <2>1
<1> HIDE DEF i
<1>7. i = Rank[p]
  BY <1>4, <1>6
<1>8. ASSUME q \in Following(p)
      PROVE  Rank[p] <= Rank[q]
  <2>1. PICK k \in i..7 : order[k] = q
    BY <1>3, <1>8
  <2>2. k \in 1..7
    BY <1>6, <2>1
  <2>3. Rank[q] = k
    BY <1>4, <2>1, <2>2
  <2>4. QED
    BY <1>6, <1>7, <2>1, <2>3
<1>9. ASSUME Rank[p] <= Rank[q]
      PROVE  q \in Following(p)
  <2>1. Rank[q] \in i..7 /\ order[Rank[q]] = q
    BY <1>5, <1>6, <1>7, <1>9
  <2>2. QED
    BY <1>3, <2>1
<1>10. QED
  BY <1>8, <1>9

(* A pass runs only when those between the last one that ran and it are    *)
(* not ready, and the writer only when all the rest are not.               *)
LEMMA PassesTurn ==
    ASSUME CheckFixPesHolders
    PROVE  /\ pc \in Passes \ {"seq"}
           /\ UNCHANGED <<mode, repair, find_seq, counter, tmp, input>>
           /\ \/ /\ pc' = "write" /\ UNCHANGED <<list, lf, count>>
                 /\ \A q \in Passes \ {"seq"} : Rank[pc] <= Rank[q] => ~Ready(q)
              \/ pc' \in {"exited", "undefined"} /\ UNCHANGED <<list, lf, count>>
              \/ \E p \in Passes \ {"seq"} :
                   /\ Ready(p) /\ CheckFix(p)
                   /\ \A q \in Passes \ {"seq"} :
                        Rank[pc] <= Rank[q] /\ Rank[q] < Rank[p] => ~Ready(q)
<1> DEFINE ready == {p \in Following(pc) : p # "write" /\ Ready(p)}
<1>1. /\ pc \in Passes \ {"seq"}
      /\ IF ready = {}
         THEN pc' = "write" /\ UNCHANGED <<list, lf, count>>
         ELSE \E p \in {q \in ready : ready \subseteq Following(q)} :
                CheckFix(p) \/ GiveUp(p) \/ DropStart(p)
      /\ UNCHANGED <<mode, repair, find_seq, counter, tmp, input>>
  BY DEF CheckFixPesHolders
<1>2. ready \subseteq Passes \ {"seq"} /\ \A p \in ready : Ready(p)
  BY <1>1, FollowingFacts
<1>3. \A q \in Passes \ {"seq"} : Rank[pc] <= Rank[q] /\ Ready(q) => q \in ready
  <2>1. "write" \notin Passes
    BY DEF Passes
  <2>2. QED
    BY <1>1, <2>1, FollowingRank
<1> HIDE DEF ready
<1>4. CASE ready = {}
  BY <1>1, <1>3, <1>4
<1>5. CASE ready # {}
  <2>1. PICK p \in {q \in ready : ready \subseteq Following(q)} :
          CheckFix(p) \/ GiveUp(p) \/ DropStart(p)
    BY <1>1, <1>5
  <2>2. p \in Passes \ {"seq"} /\ Ready(p)
    BY <1>2, <2>1
  <2>3. ASSUME NEW q \in Passes \ {"seq"}, Rank[pc] <= Rank[q], Rank[q] < Rank[p]
        PROVE  ~Ready(q)
    <3>1. q \notin Following(p)
      <4>1. Rank[p] \in Int /\ Rank[q] \in Int
        BY <2>2, RankFacts
      <4>2. QED
        BY <2>2, <2>3, <4>1, FollowingRank
    <3>2. q \notin ready
      BY <2>1, <3>1
    <3>3. QED
      BY <1>3, <2>3, <3>2
  <2>4. GiveUp(p) \/ DropStart(p) =>
          pc' \in {"exited", "undefined"} /\ UNCHANGED <<list, lf, count>>
    BY DEF GiveUp, DropStart
  <2>5. QED
    BY <1>1, <2>1, <2>2, <2>3, <2>4
<1>6. QED
  BY <1>4, <1>5

LEMMA CutOutNoneAtB ==
    ASSUME NEW l \in Seq(Holder), NEW c, NEW d, NEW m, CutOut(l, c, d, m), NoneAtB(l)
    PROVE  NoneAtB(m)
<1>1. c \in 2..d /\ d \in 1..Len(l)
  BY DEF CutOut
<1>2. /\ m \in Seq(Holder) /\ Len(m) = Len(l) - d + c
      /\ \A k \in 1..(Len(l) - d + c) : m[k] = IF k < c THEN l[k] ELSE l[k - c + d]
  BY CutOutFacts
<1>3. ASSUME NEW k \in DOMAIN m
      PROVE  \E x \in DOMAIN l : m[k] = l[x]
  <2>1. k \in 1..(Len(l) - d + c)
    BY <1>2
  <2>2. CASE k < c
    <3>1. k \in DOMAIN l
      BY <1>1, <2>1, <2>2
    <3>2. QED
      BY <1>2, <2>1, <2>2, <3>1
  <2>3. CASE ~(k < c)
    <3>1. k - c + d \in DOMAIN l
      BY <1>1, <2>1, <2>3
    <3>2. QED
      BY <1>2, <2>1, <2>3, <3>1
  <2>4. QED
    BY <2>2, <2>3
<1>4. QED
  BY <1>3 DEF NoneAtB

LEMMA ConcatNoneAtB ==
    ASSUME NEW l \in Seq(Holder), NEW a \in Seq(Holder), NoneAtB(l), NoneAtB(a)
    PROVE  NoneAtB(l \o a)
<1> DEFINE m == l \o a
<1>1. /\ m \in Seq(Holder) /\ Len(m) = Len(l) + Len(a)
      /\ \A x \in 1..(Len(l) + Len(a)) : m[x] = IF x <= Len(l) THEN l[x] ELSE a[x - Len(l)]
  BY ConcatProperties
<1> HIDE DEF m
<1>2. ASSUME NEW k \in DOMAIN m
      PROVE  \/ \E x \in DOMAIN l : m[k] = l[x]
             \/ \E x \in DOMAIN a : m[k] = a[x]
  <2>1. k \in 1..(Len(l) + Len(a))
    BY <1>1
  <2>2. CASE k <= Len(l)
    <3>1. k \in DOMAIN l
      BY <2>1, <2>2
    <3>2. QED
      BY <1>1, <2>1, <2>2, <3>1
  <2>3. CASE ~(k <= Len(l))
    <3>1. k - Len(l) \in DOMAIN a
      BY <2>1, <2>3
    <3>2. QED
      BY <1>1, <2>1, <2>3, <3>1
  <2>4. QED
    BY <2>2, <2>3
<1>3. NoneAtB(m)
  BY <1>2 DEF NoneAtB
<1>4. QED
  BY <1>3 DEF m

(* What get_pes_holders adds on S2.                                        *)
LEMMA AddedNoneAtB ==
    ASSUME NoSeqAtB, IInv, GetPesHolders, series = "S2", NoneAtB(video)
    PROVE  NoneAtB(video')
<1> DEFINE Added(r, gaps) == [i \in DOMAIN r |->
                [id |-> nr + i, frame |-> r[i].frame, seq |-> r[i].seq,
                 close |-> r[i].close, gap |-> i \in gaps, fixed |-> FALSE, done |-> {}]]
<1>1. PICK r \in Rounds[series] \cup OddRounds[series] :
        \E gaps \in SUBSET (DOMAIN r \cap ChunkStarts) : video' = video \o Added(r, gaps)
  BY DEF GetPesHolders
<1>2. PICK gaps \in SUBSET (DOMAIN r \cap ChunkStarts) : video' = video \o Added(r, gaps)
  BY <1>1
<1> DEFINE added == Added(r, gaps)
<1>3. r \in Seq(Parsed) /\ NoneAtB(r)
  BY VideoAssumption DEF IInv, Scalars, NoSeqAtB
<1>4. Len(r) \in Nat /\ DOMAIN r = 1..Len(r) /\ \A i \in 1..Len(r) : r[i] \in Parsed
  BY <1>3
<1>5. nr \in Nat /\ video \in Seq(Holder)
  BY ListFacts
<1>6. \A i \in 1..Len(r) : added[i] \in Holder /\ added[i].frame = r[i].frame
                             /\ added[i].seq = r[i].seq
  BY <1>4, <1>5 DEF Parsed, Holder
<1>7. added \in Seq(Holder) /\ Len(added) = Len(r)
  <2>1. added \in [1..Len(r) -> Holder]
    BY <1>4, <1>6
  <2>2. QED
    BY <1>4, <2>1
<1>8. video' = video \o added
  BY <1>2
<1> HIDE DEF added, Added
<1>9. NoneAtB(added)
  BY <1>3, <1>4, <1>6, <1>7 DEF NoneAtB
<1>10. QED
  BY <1>5, <1>7, <1>8, <1>9, ConcatNoneAtB

(* A pass at work.                                                         *)
LEMMA FixesNoneAtB ==
    ASSUME IInv, NEW p, NEW l, NEW i, NEW m, NEW g, NEW b2,
           Fixes(p, l, i, m, g, UsedIds(new, nr), b2), NoneAtB(video)
    PROVE  NoneAtB(video')
<1> DEFINE b == UsedIds(new, nr)
<1>1. /\ l \in {video} \cup junk /\ i \in DOMAIN l /\ l[i].seq
      /\ Touch(l, m, g, i, b, b2)
      /\ Replaces(video, junk, l, m, video', junk')
  BY DEF Fixes, Startable
<1>2. l \in Seq(Holder)
  BY <1>1, ListFacts
<1> HIDE DEF b
<1>3. CASE l = video /\ video' = m
  <2>1. l[i].frame # "B"
    BY <1>1, <1>3 DEF NoneAtB
  <2>2. Edit(l, m, g, b, b2)
        /\ \A k \in DOMAIN m : m[k].seq => (g[k] # 0 /\ l[g[k]].seq) \/ m[k].frame # "B"
    BY <1>1, <2>1 DEF Touch
  <2>3. QED
    BY <1>2, <1>3, <2>2, EditedNoneAtB
<1>4. QED
  BY <1>1, <1>3 DEF Replaces

LEMMA NoneAtBKept ==
    ASSUME NoSeqAtB, IInv, [Next]_vars, series = "S2", NoneAtB(video)
    PROVE  NoneAtB(video') /\ series' = series
<1> DEFINE b == UsedIds(new, nr)
<1>1. video \in Seq(Holder) /\ \A l \in {video} \cup junk : l \in Seq(Holder)
  BY ListFacts
<1>2. series' = series
  <2>1. UNCHANGED mode
    BY DEF Next, vars, GetPesHolders, NoStart, StartFailed, Start, Repair, RepairFailed,
           FixSeqHeader, CheckFixPesHolders, WriteGops, WriteFrames, Ended
  <2>2. QED
    BY <2>1 DEF mode
<1> SUFFICES NoneAtB(video')
  BY <1>2
<1>3. CASE GetPesHolders
  BY <1>3, AddedNoneAtB
<1>4. CASE NoStart \/ RepairFailed \/ Ended \/ UNCHANGED vars
  <2>1. video' = video
    BY <1>4 DEF NoStart, RepairFailed, Ended, vars, list
  <2>2. QED
    BY <2>1
<1>5. CASE StartFailed
  <2>1. PICK t \in InitTries : video' = t.list
    BY <1>5 DEF StartFailed
  <2>2. SameSeqs(video, video')
    BY <1>1, <2>1, InitTriesFacts
  <2>3. QED
    BY <1>1, <2>2, SameSeqsNoneAtB
<1>6. CASE Start
  <2>1. PICK t \in InitTries : t.ok /\ video' = SubSeq(t.list, t.at, Len(t.list))
    BY <1>6 DEF Start
  <2>2. SameSeqs(video, t.list) /\ t.at \in 1..Len(video)
    BY <1>1, <2>1, InitTriesFacts
  <2>3. t.list \in Seq(Holder) /\ NoneAtB(t.list) /\ Len(t.list) = Len(video)
    BY <1>1, <2>2, SameSeqsNoneAtB DEF SameSeqs, Retouched
  <2>4. Slice(t.list, t.at, Len(t.list), video')
    <3>1. t.at \in 1..(Len(t.list) + 1) /\ Len(t.list) \in (t.at - 1)..Len(t.list)
      BY <1>1, <2>2, <2>3
    <3>2. QED
      BY <2>1, <3>1 DEF Slice
  <2>5. QED
    BY <2>3, <2>4, SliceNoneAtB
<1>7. CASE Repair
  <2>1. PICK seq_at \in NewStarts, pi_at \in CutPoints :
          video' = SubSeq(Closed(video, seq_at), 1, pi_at - 1)
                     \o SubSeq(Closed(video, seq_at), seq_at, Len(Closed(video, seq_at)))
    BY <1>7 DEF Repair
  <2> DEFINE l == Closed(video, seq_at)
  <2>2. SameSeqs(video, l)
    BY <1>1, ClosedFacts
  <2>3. video' = SubSeq(l, 1, pi_at - 1) \o SubSeq(l, seq_at, Len(l))
    BY <2>1
  <2> HIDE DEF l
  <2>4. l \in Seq(Holder) /\ NoneAtB(l) /\ Len(l) = Len(video)
    BY <1>1, <2>2, SameSeqsNoneAtB DEF SameSeqs, Retouched
  <2>5. pi_at \in 2..seq_at /\ seq_at \in 1..Len(l)
    <3>1. FirstGap \in 1..Len(video)
      BY <1>1, <1>7, FirstGapFacts DEF Repair, EnoughToRepair
    <3>2. seq_at \in FirstGap..Len(video) /\ pi_at \in 2..(FirstGap - 1)
      BY DEF NewStarts, CutPoints
    <3> HIDE DEF FirstGap
    <3>3. QED
      BY <1>1, <2>4, <3>1, <3>2
  <2>6. CutOut(l, pi_at, seq_at, video')
    BY <2>3, <2>5 DEF CutOut
  <2>7. QED
    BY <2>4, <2>6, CutOutNoneAtB
<1>8. CASE FixSeqHeader
  <2>1. CASE Freed(lf["seq"]) \/ Cur = 0
    BY <1>8, <2>1 DEF FixSeqHeader, list
  <2>2. CASE ~Freed(lf["seq"]) /\ Cur # 0
    <3>1. PICK l \in {video} \cup junk : ListOf(Cur) = l
      BY <1>8, <2>2, CurFacts DEF FixSeqHeader
    <3>2. PICK i : SeqPassS2(l, i)
      BY <1>8, <2>2, <3>1 DEF FixSeqHeader
    <3> DEFINE good == {k \in i..Len(l) : l[k].seq /\ l[k].frame = "I"}
               m == [k \in DOMAIN l |-> IF k \in good THEN [l[k] EXCEPT !.fixed = TRUE]
                                       ELSE l[k]]
    <3>3. Replace(l, m)
      BY <3>2 DEF SeqPassS2
    <3>4. SameSeqs(l, m)
      BY <1>1, FixedSame
    <3> HIDE DEF m
    <3>5. QED
      BY <1>1, <3>3, <3>4, SameSeqsNoneAtB DEF Replace
  <2>3. QED
    BY <2>1, <2>2
<1>9. CASE CheckFixPesHolders
  <2>1. /\ pc \in Passes \ {"seq"}
        /\ video' = video \/ \E p \in Passes \ {"seq"} : Ready(p) /\ CheckFix(p)
    BY <1>9, PassesTurn DEF list
  <2>2. ASSUME pc \in Passes \ {"seq"}, NEW p \in Passes \ {"seq"}, Ready(p), CheckFix(p)
        PROVE  NoneAtB(video')
    <3>1. UNCHANGED <<mode, repair, find_seq, counter, tmp, input>>
      BY <1>9 DEF CheckFixPesHolders
    <3>2. PICK l, i, m, g : Fixes(p, l, i, m, g, b, UsedIds(new', nr'))
      BY <2>2, <3>1, CheckFixes
    <3>3. QED
      BY <3>2, FixesNoneAtB
  <2>3. QED
    BY <2>1, <2>2
<1>10. CASE WriteGops \/ WriteFrames
  <2>1. PICK n \in 0..Len(video) : Written(n)
    BY <1>10, WriteGopsWrites, WriteFramesWrites
  <2>2. Slice(video, n + 1, Len(video), video')
    BY <1>1, <2>1 DEF Written, Slice
  <2>3. QED
    BY <1>1, <2>2, SliceNoneAtB
<1>11. QED
  BY <1>3, <1>4, <1>5, <1>6, <1>7, <1>8, <1>9, <1>10 DEF Next

(* A pass at work leaves those behind it where they are, relative to each  *)
(* other.                                                                  *)
LEMMA FixesAdjacent ==
    ASSUME IInv, NEW p \in Passes \ {"seq"}, NEW l, NEW i, NEW m, NEW g, NEW b2,
           Fixes(p, l, i, m, g, UsedIds(new, nr), b2),
           NEW q \in Renumbering, Rank[q] < Rank[p], Adjacent(video, lf, q)
    PROVE  Adjacent(video', lf', q)
<1> DEFINE b == UsedIds(new, nr)
<1>1. /\ l \in {video} \cup junk
      /\ Touch(l, m, g, i, b, b2)
      /\ p # "tmp_ref" => NoNewSeq(l, m, g)
      /\ Replaces(video, junk, l, m, video', junk')
      /\ lf' = [lf EXCEPT ![p] = l[i].id]
  BY DEF Fixes
<1>2. l \in Seq(Holder) /\ lf \in [Passes -> b]
  BY <1>1, ListFacts
<1> HIDE DEF b
<1>3. q \in Passes \ {"seq"} /\ Before(q) \in Passes
  <2>1. q \in Passes \ {"seq"}
    BY DEF Renumbering, Passes
  <2>2. QED
    BY <2>1, RankFacts
<1>4. p # "tmp_ref" /\ p # q /\ p # Before(q)
  <2>1. /\ Rank[Before(q)] = Rank[q] - 1 /\ Rank[q] \in 2..6 /\ Rank[p] \in 2..6
    BY <1>3, RankFacts
  <2>2. Rank["tmp_ref"] <= Rank[q]
    BY DEF Renumbering, Rank
  <2>3. QED
    BY <2>1, <2>2
<1>5. lf'[q] = lf[q] /\ lf'[Before(q)] = lf[Before(q)]
  BY <1>1, <1>2, <1>3, <1>4
<1>6. Adjacent(video', lf, q)
  <2>1. CASE l = video /\ video' = m
    <3>1. lf[q] \in b /\ lf[Before(q)] \in b
      BY <1>2, <1>3
    <3>2. Edit(l, m, g, b, b2) /\ NoNewSeq(l, m, g) /\ Adjacent(l, lf, q)
      BY <1>1, <1>4, <2>1 DEF Touch
    <3>3. Adjacent(m, lf, q)
      BY <1>2, <1>3, <3>1, <3>2, EditedAdjacent
    <3>4. QED
      BY <2>1, <3>3
  <2>2. QED
    BY <1>1, <2>1 DEF Replaces
<1>7. QED
  BY <1>5, <1>6 DEF Adjacent

(* It brings no holder back into the list.                                 *)
LEMMA FixesIds ==
    ASSUME IInv, NEW p \in Passes \ {"seq"}, NEW l, NEW i, NEW m, NEW g, NEW b2,
           Fixes(p, l, i, m, g, UsedIds(new, nr), b2), lf'["seq"] \in Ids(video')
    PROVE  lf'["seq"] = lf["seq"] /\ lf["seq"] \in Ids(video)
<1> DEFINE b == UsedIds(new, nr)
<1>1. /\ l \in {video} \cup junk
      /\ Edit(l, m, g, b, b2)
      /\ Replaces(video, junk, l, m, video', junk')
      /\ lf' = [lf EXCEPT ![p] = l[i].id]
  BY DEF Fixes, Touch
<1>2. lf \in [Passes -> b]
  BY ListFacts
<1> HIDE DEF b
<1>3. lf'["seq"] = lf["seq"] /\ lf["seq"] \in b
  BY <1>1, <1>2 DEF Passes
<1>4. CASE l = video /\ video' = m
  <2>1. PICK k \in DOMAIN m : m[k].id = lf["seq"]
    BY <1>3, <1>4 DEF Ids
  <2>2. g[k] # 0 /\ g[k] \in DOMAIN l /\ l[g[k]].id = lf["seq"]
    BY <1>1, <1>3, <2>1 DEF Edit
  <2>3. QED
    BY <1>3, <1>4, <2>2 DEF Ids
<1>5. QED
  BY <1>1, <1>3, <1>4 DEF Replaces

LEMMA InitLag == Init => LagInv
<1> SUFFICES ASSUME Init PROVE LagInv
  OBVIOUS
<1>1. video = <<>> /\ pc = "read"
  BY DEF Init
<1>2. NoneAtB(video)
  BY <1>1 DEF NoneAtB
<1>3. QED
  BY <1>1, <1>2 DEF LagInv, Passes

LEMMA StepLag == NoSeqAtB /\ IInv /\ LagInv /\ [Next]_vars => LagInv'
<1> SUFFICES ASSUME NoSeqAtB, IInv, LagInv, [Next]_vars PROVE LagInv'
  OBVIOUS
<1>1. series' = series
  <2>1. UNCHANGED mode
    BY DEF Next, vars, GetPesHolders, NoStart, StartFailed, Start, Repair, RepairFailed,
           FixSeqHeader, CheckFixPesHolders, WriteGops, WriteFrames, Ended
  <2>2. QED
    BY <2>1 DEF mode
<1>2. series' = "S2" => NoneAtB(video')
  BY <1>1, NoneAtBKept DEF LagInv
<1>3. SUFFICES ASSUME series' = "S1" => lf'["seq"] \in Ids(video'),
                      NEW q \in Renumbering,
                      pc' = "write" \/ (pc' \in Passes /\ Rank[q] < Rank[pc'])
               PROVE  Adjacent(video', lf', q)
  <2>1. ASSUME series' = "S1" => lf'["seq"] \in Ids(video')
        PROVE  \A q \in Renumbering :
                 pc' = "write" \/ (pc' \in Passes /\ Rank[q] < Rank[pc'])
                   => Adjacent(video', lf', q)
    BY <1>3, <2>1
  <2>2. QED
    BY <1>2, <2>1 DEF LagInv
<1>4. q \in Passes \ {"seq"} /\ Rank[q] \in 3..6
  BY DEF Renumbering, Passes, Rank
<1>5. ASSUME series = "S1" => lf["seq"] \in Ids(video),
             (pc \in Passes /\ Rank[q] < Rank[pc]) \/ ~Ready(q)
      PROVE  Adjacent(video, lf, q)
  BY <1>5, NotReadyAdjacent DEF LagInv
<1>6. CASE UNCHANGED vars
  <2>1. video' = video /\ lf' = lf /\ pc' = pc
    BY <1>6 DEF vars, list
  <2>2. series = "S1" => lf["seq"] \in Ids(video)
    BY <1>1, <1>3, <2>1
  <2>3. Adjacent(video, lf, q)
    BY <1>3, <2>1, <2>2 DEF LagInv
  <2>4. QED
    BY <2>1, <2>3
<1>7. CASE CheckFixPesHolders
  <2>1. /\ pc \in Passes \ {"seq"} /\ Rank[pc] \in 2..6
        /\ UNCHANGED <<mode, repair, find_seq, counter, tmp, input>>
    BY <1>7, PassesTurn, RankFacts
  <2>2. CASE /\ pc' = "write" /\ UNCHANGED <<list, lf, count>>
             /\ \A x \in Passes \ {"seq"} : Rank[pc] <= Rank[x] => ~Ready(x)
    <3>1. video' = video /\ lf' = lf
      BY <2>2 DEF list
    <3>2. series = "S1" => lf["seq"] \in Ids(video)
      BY <1>1, <1>3, <3>1
    <3>3. Rank[q] < Rank[pc] \/ ~Ready(q)
      BY <1>4, <2>1, <2>2
    <3>4. Adjacent(video, lf, q)
      BY <1>5, <2>1, <3>2, <3>3
    <3>5. QED
      BY <3>1, <3>4
  <2>3. CASE pc' \in {"exited", "undefined"}
    BY <1>3, <2>3 DEF Passes
  <2>4. ASSUME NEW p \in Passes \ {"seq"}, Ready(p), CheckFix(p),
               \A x \in Passes \ {"seq"} :
                  Rank[pc] <= Rank[x] /\ Rank[x] < Rank[p] => ~Ready(x)
        PROVE  Adjacent(video', lf', q)
    <3>1. pc' = p /\ p # "write"
      BY <2>4 DEF CheckFix, Passes
    <3>2. Rank[q] < Rank[p]
      BY <1>3, <3>1
    <3>3. PICK l, i, m, g : Fixes(p, l, i, m, g, UsedIds(new, nr), UsedIds(new', nr'))
      BY <2>1, <2>4, CheckFixes
    <3>4. series = "S1" => lf["seq"] \in Ids(video)
      BY <1>1, <1>3, <3>3, FixesIds
    <3>5. Rank[q] < Rank[pc] \/ ~Ready(q)
      BY <1>4, <2>1, <2>4, <3>2
    <3>6. Adjacent(video, lf, q)
      BY <1>5, <2>1, <3>4, <3>5
    <3>7. QED
      BY <3>2, <3>3, <3>6, FixesAdjacent
  <2>5. QED
    BY <1>7, <2>2, <2>3, <2>4, PassesTurn
<1>8. CASE FixSeqHeader
  <2>1. pc' \in {"seq", "p_frame", "exited", "undefined"}
    <3> DEFINE ends == pc' \in {"seq", "p_frame", "exited", "undefined"}
    <3>1. \A l, i : GoOn(l, i) => pc' \in {"seq", "p_frame"}
      BY DEF GoOn, NextPass
    <3>2. \A l, i : CloseLater(l, i) => ends
      BY DEF CloseLater, NextPass
    <3>3. \A l, i : CloseCut(l, i) => ends
      BY DEF CloseCut
    <3>4. \A l, i : MoveSeqHeader(l, i) \/ AlreadyFixed(l, i) \/ SkipSeq(l, i) => ends
      BY <3>1 DEF MoveSeqHeader, AlreadyFixed, SkipSeq
    <3>5. \A l, i : AddMissingI(l, i) => ends
      BY <3>1 DEF AddMissingI, NextPass
    <3>6. \A l, i : SeqPassS2(l, i) => ends
      BY DEF SeqPassS2, NextPass
    <3>7. CASE Freed(lf["seq"]) \/ Cur = 0
      BY <1>8, <3>7 DEF FixSeqHeader, NextPass
    <3>8. CASE ~Freed(lf["seq"]) /\ Cur # 0
      <4>1. PICK l, i : IF series = "S2" THEN SeqPassS2(l, i)
                        ELSE \/ CloseLater(l, i) \/ CloseCut(l, i)
                             \/ MoveSeqHeader(l, i) \/ AddMissingI(l, i)
                             \/ AlreadyFixed(l, i) \/ SkipSeq(l, i)
        BY <1>8, <3>8 DEF FixSeqHeader
      <4>2. QED
        BY <3>2, <3>3, <3>4, <3>5, <3>6, <4>1
    <3>9. QED
      BY <3>7, <3>8
  <2>2. pc' \notin {"seq", "p_frame"}
    BY <1>3, <1>4 DEF Rank
  <2>3. QED
    BY <1>3, <2>1, <2>2 DEF Passes
<1>9. CASE GetPesHolders \/ NoStart \/ StartFailed \/ Start \/ Repair \/ RepairFailed
           \/ WriteGops \/ WriteFrames
  <2>1. pc' \in {"read", "init", "repair", "seq", "stopped"}
    BY <1>9 DEF GetPesHolders, NoStart, StartFailed, Start, Repair, RepairFailed,
                WriteGops, WriteFrames, AfterInit
  <2>2. pc' # "seq"
    BY <1>3, <1>4 DEF Rank
  <2>3. QED
    BY <1>3, <2>1, <2>2 DEF Passes
<1>10. QED
  BY <1>6, <1>7, <1>8, <1>9 DEF Next, Ended

LEMMA OneMore ==
    ASSUME NEW S, NEW x, x \notin S, IsFiniteSet(S), NEW n \in Nat, Cardinality(S) = n
    PROVE  IsFiniteSet(S \cup {x}) /\ Cardinality(S \cup {x}) = n + 1
  BY FS_AddElement

(* Four adjacent passes, one sequence each.                                *)
LEMMA FourSeqs ==
    ASSUME NEW l \in Seq(Holder), NEW a \in DOMAIN l, NEW c \in DOMAIN l, NEW d \in DOMAIN l,
           NEW e \in DOMAIN l, NEW f \in DOMAIN l,
           f < e, e < d, d < c, c < a,
           l[f].seq, l[e].seq, l[d].seq, l[c].seq,
           \A k \in (f + 1)..(e - 1) : ~l[k].seq, \A k \in (e + 1)..(d - 1) : ~l[k].seq,
           \A k \in (d + 1)..(c - 1) : ~l[k].seq, \A k \in (c + 1)..(a - 1) : ~l[k].seq
    PROVE  Cardinality(SeqsIn(l, f, a - 1)) = 4
<1>1. \A k \in f..(a - 1) : l[k].seq => k \in {f, e, d, c}
  <2>1. /\ a \in Int /\ c \in Int /\ d \in Int /\ e \in Int /\ f \in Int
    OBVIOUS
  <2>2. ASSUME NEW k \in f..(a - 1), k \notin {f, e, d, c}
        PROVE  \/ k \in (f + 1)..(e - 1) \/ k \in (e + 1)..(d - 1)
               \/ k \in (d + 1)..(c - 1) \/ k \in (c + 1)..(a - 1)
    BY <2>1, <2>2
  <2>3. QED
    BY <2>2
<1>2. f \in f..(a - 1) /\ e \in f..(a - 1) /\ d \in f..(a - 1) /\ c \in f..(a - 1)
  OBVIOUS
<1>3. SeqsIn(l, f, a - 1) = {f, e, d, c}
  BY <1>1, <1>2 DEF SeqsIn
<1>4. Cardinality({f, e, d, c}) = 4
  <2> DEFINE T0 == {}
             T1 == T0 \cup {c}
             T2 == T1 \cup {d}
             T3 == T2 \cup {e}
             T4 == T3 \cup {f}
  <2>1. /\ T1 = T0 \cup {c} /\ T2 = T1 \cup {d} /\ T3 = T2 \cup {e} /\ T4 = T3 \cup {f}
        /\ T4 = {f, e, d, c}
    OBVIOUS
  <2>2. c \notin T0 /\ d \notin T1 /\ e \notin T2 /\ f \notin T3
    OBVIOUS
  <2>3. IsFiniteSet(T0) /\ Cardinality(T0) = 0
    BY FS_EmptySet
  <2> HIDE DEF T0, T1, T2, T3, T4
  <2>4. IsFiniteSet(T1) /\ Cardinality(T1) = 1
    <3>1. IsFiniteSet(T0 \cup {c}) /\ Cardinality(T0 \cup {c}) = 0 + 1
      BY <2>2, <2>3, OneMore
    <3>2. QED
      BY <2>1, <3>1
  <2>5. IsFiniteSet(T2) /\ Cardinality(T2) = 2
    <3>1. IsFiniteSet(T1 \cup {d}) /\ Cardinality(T1 \cup {d}) = 1 + 1
      BY <2>2, <2>4, OneMore
    <3>2. QED
      BY <2>1, <3>1
  <2>6. IsFiniteSet(T3) /\ Cardinality(T3) = 3
    <3>1. IsFiniteSet(T2 \cup {e}) /\ Cardinality(T2 \cup {e}) = 2 + 1
      BY <2>2, <2>5, OneMore
    <3>2. QED
      BY <2>1, <3>1
  <2>7. IsFiniteSet(T4) /\ Cardinality(T4) = 4
    <3>1. IsFiniteSet(T3 \cup {f}) /\ Cardinality(T3 \cup {f}) = 3 + 1
      BY <2>2, <2>6, OneMore
    <3>2. QED
      BY <2>1, <3>1
  <2>8. QED
    BY <2>1, <2>7
<1>5. QED
  BY <1>3, <1>4

LEMMA LagCount == IInv /\ LagInv => NoneLags
<1> SUFFICES ASSUME IInv, LagInv, pc = "write", ~Stranded, lf["gop_counter"] # 0
             PROVE  Cardinality(SeqsIn(video, Index(video, lf["gop_counter"]),
                                       Index(video, lf["p_frame"]) - 1)) = 4
  BY DEF NoneLags
<1> DEFINE b == UsedIds(new, nr)
<1>1. /\ WellFormed(video, b) /\ Walkable(video, lf, series) /\ video \in Seq(Holder)
      /\ Separate(video, kept, junk) /\ Frontiers(video, junk, lf, series, b)
  BY ListFacts
<1> HIDE DEF b
<1>2. \A p \in Passes : lf[p] # 0
  <2>1. \A p \in Passes : Rank[p] <= Rank["gop_counter"]
    BY DEF Passes, Rank
  <2>2. "gop_counter" \in Passes
    BY DEF Passes
  <2>3. QED
    BY <1>1, <2>1, <2>2, NoneBehind
<1>3. \A p \in Passes : \E k \in DOMAIN video : video[k].id = lf[p]
  BY <1>2 DEF Stranded, Ids
<1>4. "p_frame" \in Passes /\ Renumbering \subseteq Passes
  BY DEF Passes, Renumbering
<1>5. PICK a \in DOMAIN video : video[a].id = lf["p_frame"]
  BY <1>3, <1>4
<1>6. PICK c \in DOMAIN video : video[c].id = lf["tmp_ref"]
  BY <1>3, <1>4 DEF Renumbering
<1>7. PICK d \in DOMAIN video : video[d].id = lf["field"]
  BY <1>3, <1>4 DEF Renumbering
<1>8. PICK e \in DOMAIN video : video[e].id = lf["av_drift"]
  BY <1>3, <1>4 DEF Renumbering
<1>9. PICK f \in DOMAIN video : video[f].id = lf["gop_counter"]
  BY <1>3, <1>4 DEF Renumbering
<1>10. Index(video, lf["gop_counter"]) = f /\ Index(video, lf["p_frame"]) = a
  BY <1>1, <1>5, <1>9, Located
<1>11. f < e /\ e < d /\ d < c /\ c < a
  <2>1. \A p, q \in Passes, i, j \in DOMAIN video :
          video[i].id = lf[p] /\ video[j].id = lf[q] /\ Rank[p] < Rank[q] /\ p # "seq" => j < i
    BY <1>1 DEF Walkable, Bounds
  <2>2. f < e
    BY <1>8, <1>9, <2>1 DEF Passes, Rank
  <2>3. e < d
    BY <1>7, <1>8, <2>1 DEF Passes, Rank
  <2>4. d < c
    BY <1>6, <1>7, <2>1 DEF Passes, Rank
  <2>5. c < a
    BY <1>5, <1>6, <2>1 DEF Passes, Rank
  <2>6. QED
    BY <2>2, <2>3, <2>4, <2>5
<1>12. video[f].seq /\ video[e].seq /\ video[d].seq /\ video[c].seq
  <2>1. \A p \in Passes, i \in DOMAIN video : video[i].id = lf[p] => video[i].seq
    BY <1>1 DEF Walkable
  <2>2. QED
    BY <1>4, <1>6, <1>7, <1>8, <1>9, <2>1 DEF Renumbering
<1>13. \A q \in Renumbering : Adjacent(video, lf, q)
  <2>1. lf["seq"] \in Ids(video)
    BY <1>2 DEF Stranded, Passes
  <2>2. QED
    BY <2>1 DEF LagInv
<1>14. /\ \A k \in (f + 1)..(e - 1) : ~video[k].seq
       /\ \A k \in (e + 1)..(d - 1) : ~video[k].seq
       /\ \A k \in (d + 1)..(c - 1) : ~video[k].seq
       /\ \A k \in (c + 1)..(a - 1) : ~video[k].seq
  <2>1. /\ Before("gop_counter") = "av_drift" /\ Before("av_drift") = "field"
        /\ Before("field") = "tmp_ref" /\ Before("tmp_ref") = "p_frame"
    BY DEF Before
  <2>2. \A k \in (f + 1)..(e - 1) : ~video[k].seq
    BY <1>8, <1>9, <1>13, <2>1 DEF Adjacent, Renumbering
  <2>3. \A k \in (e + 1)..(d - 1) : ~video[k].seq
    BY <1>7, <1>8, <1>13, <2>1 DEF Adjacent, Renumbering
  <2>4. \A k \in (d + 1)..(c - 1) : ~video[k].seq
    BY <1>6, <1>7, <1>13, <2>1 DEF Adjacent, Renumbering
  <2>5. \A k \in (c + 1)..(a - 1) : ~video[k].seq
    BY <1>5, <1>6, <1>13, <2>1 DEF Adjacent, Renumbering
  <2>6. QED
    BY <2>2, <2>3, <2>4, <2>5
<1>15. Cardinality(SeqsIn(video, f, a - 1)) = 4
  BY <1>1, <1>11, <1>12, <1>14, FourSeqs
<1>16. QED
  BY <1>10, <1>15

(* When the writer's turn comes, the last pass is exactly four sequences   *)
(* behind the second one, wherever GOPs were split, dropped or cut out,    *)
(* unless a repair has cut a frontier out of the list.  Each pass ends     *)
(* only when the one behind has nothing left but the sequence it is at,    *)
(* and no sequence header stays at a B picture to stop it earlier.         *)
THEOREM PassesStayInStep == NoSeqAtB => (Spec => []NoneLags)
<1> SUFFICES ASSUME NoSeqAtB PROVE Spec => []NoneLags
  OBVIOUS
<1>1. Init => LagInv
  BY InitLag
<1>2. IInv /\ LagInv /\ [Next]_vars => LagInv'
  BY StepLag
<1>3. IInv /\ LagInv => NoneLags
  BY LagCount
<1>4. QED
  BY <1>1, <1>2, <1>3, Invariance, PTL DEF Spec
=============================================================================

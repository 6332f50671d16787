--------------------------- MODULE ChunkSyncProofs ---------------------------
(***************************************************************************)
(* Theorems about ChunkSync for every stream of chunks, every JunkSize and *)
(* every choice of the windows that satisfies ChunkAssumption.             *)
(***************************************************************************)
EXTENDS ChunkSync, SequenceTheorems, TLAPS

Sorted(s) == \A i, j \in 1..Len(s) : i < j => s[i].nr < s[j].nr
Below(s, n) == \A i \in 1..Len(s) : s[i].nr \in 1..n
Before(s, t) == \A i \in 1..Len(s) : \A j \in 1..Len(t) : s[i].nr < t[j].nr

(* InStreamOrder, list by list.                                            *)
OrderInv ==
    /\ Sorted(parsed) /\ Sorted(chunks) /\ Sorted(restored) /\ Sorted(junk_chunks)
    /\ Below(parsed, chunk_nr) /\ Below(chunks, chunk_nr)
    /\ Below(restored, chunk_nr) /\ Below(junk_chunks, chunk_nr)
    /\ Before(parsed, chunks) /\ Before(parsed, restored) /\ Before(parsed, junk_chunks)
    /\ Before(chunks, restored) /\ Before(chunks, junk_chunks)
    /\ Before(restored, junk_chunks)

(* The walk over the junk list: no chunk fits nowhere once the last one is *)
(* reached, and the restored list exists only between two statements.      *)
WalkInv ==
    /\ pc # "add" => restored = <<>>
    /\ pc = "add" => /\ restored # <<>> /\ junk_chunks = <<>>
                     /\ cons_junk_chunk = 0 /\ ~lost
    /\ pc = "junk" =>
         /\ at \in 2..(Len(junk_chunks) + 1)
         /\ at >= Len(junk_chunks) => out_of_sync = 0

(* LookAhead, outside the loop that parses too.                            *)
AheadInv ==
    /\ pc \in {"get", "junk", "add"} => Len(chunks) <= 3
    /\ parsed # <<>> => Len(chunks) >= 3

(* The inductive invariant.                                                *)
IInv ==
    /\ TypeOK
    /\ OrderInv
    /\ WalkInv
    /\ AheadInv
    /\ JunkCounted

-----------------------------------------------------------------------------
(* Facts about lists of chunks.                                            *)

Content == [first : Nat, last : Nat, med : Int, layout : Nat]

(* t is what is left of s when elements are dropped and flags are changed. *)
Embeds(t, s) ==
    \E f \in [1..Len(t) -> 1..Len(s)] :
        /\ \A i, j \in 1..Len(t) : i < j => f[i] < f[j]
        /\ \A i \in 1..Len(t) : t[i].nr = s[f[i]].nr

LEMMA EmbedsKeeps ==
    ASSUME NEW s \in Seq(Chunk), NEW t \in Seq(Chunk), Embeds(t, s)
    PROVE  /\ Sorted(s) => Sorted(t)
           /\ \A n \in Nat : Below(s, n) => Below(t, n)
           /\ \A u \in Seq(Chunk) : /\ Before(s, u) => Before(t, u)
                                    /\ Before(u, s) => Before(u, t)
<1>1. PICK f \in [1..Len(t) -> 1..Len(s)] :
           /\ \A i, j \in 1..Len(t) : i < j => f[i] < f[j]
           /\ \A i \in 1..Len(t) : t[i].nr = s[f[i]].nr
  BY DEF Embeds
<1>2. \A i \in 1..Len(t) : f[i] \in 1..Len(s)
  BY <1>1
<1>3. Sorted(s) => Sorted(t)
  BY <1>1, <1>2 DEF Sorted
<1>4. \A n \in Nat : Below(s, n) => Below(t, n)
  BY <1>1, <1>2 DEF Below
<1>5. \A u \in Seq(Chunk) : /\ Before(s, u) => Before(t, u)
                            /\ Before(u, s) => Before(u, t)
  BY <1>1, <1>2 DEF Before
<1>6. QED
  BY <1>3, <1>4, <1>5

LEMMA SameNumbersEmbed ==
    ASSUME NEW s \in Seq(Chunk), NEW t \in Seq(Chunk), Len(t) = Len(s),
           \A k \in 1..Len(s) : t[k].nr = s[k].nr
    PROVE  Embeds(t, s)
<1> DEFINE f == [i \in 1..Len(t) |-> i]
<1>1. f \in [1..Len(t) -> 1..Len(s)]
  OBVIOUS
<1>2. \A i, j \in 1..Len(t) : i < j => f[i] < f[j]
  OBVIOUS
<1>3. \A i \in 1..Len(t) : t[i].nr = s[f[i]].nr
  OBVIOUS
<1>4. QED
  BY <1>1, <1>2, <1>3 DEF Embeds

(* Changing the gap flag of a chunk.                                       *)
LEMMA SetGap ==
    ASSUME NEW s \in Seq(Chunk), NEW i \in 1..Len(s), NEW v \in BOOLEAN
    PROVE  /\ WithGap(s, i, v) \in Seq(Chunk)
           /\ Len(WithGap(s, i, v)) = Len(s)
           /\ \A k \in 1..Len(s) : WithGap(s, i, v)[k].nr = s[k].nr
           /\ Embeds(WithGap(s, i, v), s)
<1> DEFINE r == WithGap(s, i, v)
<1>1. s[i] \in Chunk
  BY ElementOfSeq
<1>2. [s[i] EXCEPT !.gap = v] \in Chunk /\ [s[i] EXCEPT !.gap = v].nr = s[i].nr
  BY <1>1 DEF Chunk
<1>3. r = [s EXCEPT ![i] = [s[i] EXCEPT !.gap = v]]
  BY DEF WithGap
<1>4. /\ r \in Seq(Chunk) /\ Len(r) = Len(s)
      /\ \A k \in 1..Len(s) : r[k].nr = s[k].nr
  BY <1>2, <1>3, ExceptSeq
<1>5. QED
  BY <1>4, SameNumbersEmbed

(* Removing a chunk.                                                       *)
LEMMA RemoveAtProperties ==
    ASSUME NEW s \in Seq(Chunk), NEW i \in 1..Len(s)
    PROVE  /\ RemoveAt(s, i) \in Seq(Chunk)
           /\ Len(RemoveAt(s, i)) = Len(s) - 1
           /\ Embeds(RemoveAt(s, i), s)
<1> DEFINE a == SubSeq(s, 1, i - 1)
           b == SubSeq(s, i + 1, Len(s))
           t == RemoveAt(s, i)
           f == [k \in 1..Len(t) |-> IF k < i THEN k ELSE k + 1]
<1>1. /\ a \in Seq(Chunk) /\ Len(a) = i - 1
      /\ \A k \in 1..(i - 1) : a[k] = s[k]
  OBVIOUS
<1>2. /\ b \in Seq(Chunk) /\ Len(b) = Len(s) - i
      /\ \A k \in 1..(Len(s) - i) : b[k] = s[i + k]
  OBVIOUS
<1>3. t = a \o b
  BY DEF RemoveAt
<1> HIDE DEF a, b
<1>4. /\ t \in Seq(Chunk) /\ Len(t) = Len(s) - 1
      /\ \A k \in 1..Len(t) : t[k] = IF k <= Len(a) THEN a[k] ELSE b[k - Len(a)]
  <2>1. /\ a \o b \in Seq(Chunk) /\ Len(a \o b) = Len(a) + Len(b)
        /\ \A k \in 1..(Len(a) + Len(b)) :
             (a \o b)[k] = IF k <= Len(a) THEN a[k] ELSE b[k - Len(a)]
    BY <1>1, <1>2, ConcatProperties
  <2>2. Len(a) + Len(b) = Len(s) - 1
    BY <1>1, <1>2
  <2> HIDE DEF t
  <2>3. QED
    BY <2>1, <2>2, <1>3
<1> HIDE DEF t
<1>5. \A k \in 1..Len(t) : t[k] = s[f[k]]
  <2> TAKE k \in 1..Len(t)
  <2>1. CASE k < i
    BY <2>1, <1>1, <1>4
  <2>2. CASE k >= i
    <3>1. k - Len(a) \in 1..(Len(s) - i)
      BY <2>2, <1>1, <1>4
    <3>2. t[k] = b[k - Len(a)]
      BY <2>2, <1>1, <1>4
    <3>3. QED
      BY <3>1, <3>2, <2>2, <1>1, <1>2
  <2>3. QED
    BY <2>1, <2>2
<1>6. /\ f \in [1..Len(t) -> 1..Len(s)]
      /\ \A j, k \in 1..Len(t) : j < k => f[j] < f[k]
  BY <1>4
<1>7. Embeds(t, s)
  BY <1>5, <1>6 DEF Embeds
<1>8. QED
  BY <1>4, <1>7 DEF t

LEMMA EmptyOrdered ==
    /\ <<>> \in Seq(Chunk) /\ Len(<<>>) = 0
    /\ Sorted(<<>>)
    /\ \A n : Below(<<>>, n)
    /\ \A u : Before(<<>>, u) /\ Before(u, <<>>)
<1>1. <<>> \in Seq(Chunk) /\ Len(<<>>) = 0
  OBVIOUS
<1>2. 1..Len(<<>>) = {}
  BY <1>1
<1>3. QED
  BY <1>1, <1>2 DEF Sorted, Below, Before

LEMMA BelowNext ==
    ASSUME NEW s \in Seq(Chunk), NEW n \in Nat, Below(s, n)
    PROVE  Below(s, n + 1)
BY DEF Below

(* Adding the chunk just read, number n + 1.                               *)
LEMMA AddOneOrdered ==
    ASSUME NEW s \in Seq(Chunk), NEW c \in Chunk, NEW n \in Nat, c.nr = n + 1,
           Sorted(s), Below(s, n)
    PROVE  /\ AddOne(c, s) \in Seq(Chunk)
           /\ Len(AddOne(c, s)) = Len(s) + (IF Duplicate(c, s) THEN 0 ELSE 1)
           /\ Sorted(AddOne(c, s))
           /\ Below(AddOne(c, s), n + 1)
           /\ \A u \in Seq(Chunk) :
                Below(u, n) /\ Before(u, s) => Before(u, AddOne(c, s))
<1>1. CASE Duplicate(c, s)
  BY <1>1, BelowNext DEF AddOne
<1>2. CASE ~Duplicate(c, s)
  <2> DEFINE t == Append(s, c)
  <2>1. AddOne(c, s) = t
    BY <1>2 DEF AddOne
  <2>2. /\ t \in Seq(Chunk) /\ Len(t) = Len(s) + 1
        /\ \A i \in 1..Len(s) : t[i] = s[i]
        /\ t[Len(s) + 1] = c
    BY AppendProperties
  <2> HIDE DEF t
  <2>3. \A i \in 1..Len(s) : s[i].nr \in 1..n
    BY DEF Below
  <2>4. Sorted(t)
    BY <2>2, <2>3 DEF Sorted
  <2>5. Below(t, n + 1)
    BY <2>2, <2>3 DEF Below
  <2>6. ASSUME NEW u \in Seq(Chunk), Below(u, n), Before(u, s)
        PROVE  Before(u, t)
    <3> SUFFICES ASSUME NEW i \in 1..Len(u), NEW j \in 1..Len(t)
                 PROVE  u[i].nr < t[j].nr
      BY DEF Before
    <3>1. CASE j \in 1..Len(s)
      <4>1. t[j] = s[j]
        BY <2>2, <3>1
      <4>2. QED
        BY <2>6, <3>1, <4>1 DEF Before
    <3>2. CASE j = Len(s) + 1
      <4>1. t[j].nr = n + 1
        BY <2>2, <3>2
      <4>2. u[i].nr \in 1..n
        BY <2>6 DEF Below
      <4>3. QED
        BY <4>1, <4>2
    <3>3. j \in 1..Len(s) \/ j = Len(s) + 1
      BY <2>2
    <3>4. QED
      BY <3>1, <3>2, <3>3
  <2>7. QED
    BY <1>2, <2>1, <2>2, <2>4, <2>5, <2>6
<1>3. QED
  BY <1>1, <1>2

LEMMA ConcatOrdered ==
    ASSUME NEW s \in Seq(Chunk), NEW t \in Seq(Chunk), NEW n \in Nat,
           Sorted(s), Sorted(t), Before(s, t), Below(s, n), Below(t, n)
    PROVE  /\ s \o t \in Seq(Chunk)
           /\ Len(s \o t) = Len(s) + Len(t)
           /\ Sorted(s \o t)
           /\ Below(s \o t, n)
           /\ \A u \in Seq(Chunk) :
                /\ Before(u, s) /\ Before(u, t) => Before(u, s \o t)
                /\ Before(s, u) /\ Before(t, u) => Before(s \o t, u)
<1> DEFINE w == s \o t
<1>1. /\ w \in Seq(Chunk) /\ Len(w) = Len(s) + Len(t)
      /\ \A i \in 1..(Len(s) + Len(t)) :
           w[i] = IF i <= Len(s) THEN s[i] ELSE t[i - Len(s)]
  BY ConcatProperties
<1> HIDE DEF w
<1>2. \A i \in 1..Len(w) : \/ i \in 1..Len(s) /\ w[i] = s[i]
                           \/ i - Len(s) \in 1..Len(t) /\ w[i] = t[i - Len(s)]
  BY <1>1
<1>3. Sorted(w)
  <2> SUFFICES ASSUME NEW i \in 1..Len(w), NEW j \in 1..Len(w), i < j
               PROVE  w[i].nr < w[j].nr
    BY DEF Sorted
  <2>1. CASE i \in 1..Len(s) /\ w[i] = s[i] /\ j \in 1..Len(s) /\ w[j] = s[j]
    BY <2>1 DEF Sorted
  <2>2. CASE /\ i \in 1..Len(s) /\ w[i] = s[i]
             /\ j - Len(s) \in 1..Len(t) /\ w[j] = t[j - Len(s)]
    BY <2>2 DEF Before
  <2>3. CASE /\ i - Len(s) \in 1..Len(t) /\ w[i] = t[i - Len(s)]
             /\ j - Len(s) \in 1..Len(t) /\ w[j] = t[j - Len(s)]
    <3>1. i - Len(s) < j - Len(s)
      OBVIOUS
    <3>2. QED
      BY <2>3, <3>1 DEF Sorted
  <2>4. i - Len(s) \in 1..Len(t) => ~(j \in 1..Len(s))
    OBVIOUS
  <2>5. QED
    BY <1>2, <2>1, <2>2, <2>3, <2>4
<1>4. Below(w, n)
  BY <1>2 DEF Below
<1>5. \A u \in Seq(Chunk) :
        /\ Before(u, s) /\ Before(u, t) => Before(u, w)
        /\ Before(s, u) /\ Before(t, u) => Before(w, u)
  BY <1>2 DEF Before
<1>6. QED
  BY <1>1, <1>3, <1>4, <1>5 DEF w

(* Taking the first chunk of a list to parse it.                           *)
LEMMA HeadTailOrdered ==
    ASSUME NEW s \in Seq(Chunk), s # <<>>, Sorted(s), NEW n \in Nat, Below(s, n)
    PROVE  /\ <<Head(s)>> \in Seq(Chunk) /\ Len(<<Head(s)>>) = 1
           /\ Tail(s) \in Seq(Chunk) /\ Len(Tail(s)) = Len(s) - 1
           /\ Sorted(<<Head(s)>>) /\ Sorted(Tail(s))
           /\ Below(<<Head(s)>>, n) /\ Below(Tail(s), n)
           /\ Before(<<Head(s)>>, Tail(s))
           /\ \A u \in Seq(Chunk) :
                Before(s, u) => Before(<<Head(s)>>, u) /\ Before(Tail(s), u)
<1> DEFINE h == <<Head(s)>>
           t == Tail(s)
<1>1. /\ t \in Seq(Chunk) /\ Len(t) = Len(s) - 1
      /\ \A i \in 1..Len(t) : t[i] = s[i + 1]
      /\ Head(s) \in Chunk
  BY HeadTailProperties
<1>2. /\ h \in Seq(Chunk) /\ Len(h) = 1 /\ h[1] = s[1] /\ 1 \in 1..Len(s)
  BY <1>1
<1> HIDE DEF h, t
<1>3. Sorted(h) /\ Below(h, n)
  BY <1>2 DEF Sorted, Below
<1>4. Sorted(t) /\ Below(t, n)
  <2>1. \A i \in 1..Len(t) : i + 1 \in 1..Len(s) /\ t[i] = s[i + 1]
    BY <1>1
  <2>2. Sorted(t)
    <3> SUFFICES ASSUME NEW i \in 1..Len(t), NEW j \in 1..Len(t), i < j
                 PROVE  t[i].nr < t[j].nr
      BY DEF Sorted
    <3>1. i + 1 < j + 1
      OBVIOUS
    <3>2. QED
      BY <2>1, <3>1 DEF Sorted
  <2>3. Below(t, n)
    BY <2>1 DEF Below
  <2>4. QED
    BY <2>2, <2>3
<1>5. Before(h, t)
  <2> SUFFICES ASSUME NEW i \in 1..Len(h), NEW j \in 1..Len(t)
               PROVE  h[i].nr < t[j].nr
    BY DEF Before
  <2>1. h[i] = s[1] /\ t[j] = s[j + 1] /\ 1 < j + 1
        /\ 1 \in 1..Len(s) /\ j + 1 \in 1..Len(s)
    BY <1>1, <1>2
  <2>2. QED
    BY <2>1 DEF Sorted
<1>6. ASSUME NEW u \in Seq(Chunk), Before(s, u)
      PROVE  Before(h, u) /\ Before(t, u)
  <2>1. \A i \in 1..Len(h) : 1 \in 1..Len(s) /\ h[i] = s[1]
    BY <1>1, <1>2
  <2>2. \A i \in 1..Len(t) : i + 1 \in 1..Len(s) /\ t[i] = s[i + 1]
    BY <1>1
  <2>3. QED
    BY <1>6, <2>1, <2>2 DEF Before
<1>7. QED
  BY <1>1, <1>2, <1>3, <1>4, <1>5, <1>6 DEF h, t

(* Held is in stream order when its parts are.                             *)
LEMMA OrderInvSuffices == TypeOK /\ OrderInv => InStreamOrder
<1> SUFFICES ASSUME TypeOK, OrderInv PROVE InStreamOrder
  OBVIOUS
<1> USE DEF TypeOK
<1> DEFINE a == parsed \o chunks
           b == a \o restored
           d == b \o junk_chunks
<1>0. chunk_nr \in Nat
  BY ChunkAssumption
<1>1. /\ a \in Seq(Chunk) /\ Sorted(a) /\ Below(a, chunk_nr)
      /\ Before(a, restored) /\ Before(a, junk_chunks)
  BY <1>0, ConcatOrdered DEF OrderInv
<1> HIDE DEF a
<1>2. /\ b \in Seq(Chunk) /\ Sorted(b) /\ Below(b, chunk_nr)
      /\ Before(b, junk_chunks)
  BY <1>0, <1>1, ConcatOrdered DEF OrderInv
<1> HIDE DEF b
<1>3. d \in Seq(Chunk) /\ Sorted(d) /\ Below(d, chunk_nr)
  BY <1>0, <1>2, ConcatOrdered DEF OrderInv
<1>4. d = Held
  BY DEF a, b, Held
<1>5. QED
  BY <1>3, <1>4 DEF InStreamOrder, Sorted, Below

-----------------------------------------------------------------------------
(* The initial state and the steps.                                        *)

LEMMA InitIInv == Init => IInv
<1> SUFFICES ASSUME Init PROVE IInv
  OBVIOUS
<1> USE DEF Init
<1>1. TypeOK
  <2>1. /\ chunks \in Seq(Chunk) /\ parsed \in Seq(Chunk) /\ Len(parsed) <= 1
        /\ junk_chunks \in Seq(Chunk) /\ restored \in Seq(Chunk)
    BY EmptyOrdered
  <2>2. newest \in [first : Nat, last : Nat, med : Int, layout : Nat]
    BY DEF Nothing
  <2>3. lost \in BOOLEAN /\ cleared \in BOOLEAN
    OBVIOUS
  <2>4. cons_junk_chunk \in -1..JunkSize /\ chunk_nr \in 0..MaxChunks
    BY ChunkAssumption
  <2>5. /\ last_tick \in Nat /\ med_ticks \in Int
        /\ at \in Nat /\ out_of_sync \in Nat /\ run \in Nat
    BY ChunkAssumption
  <2>6. pc \in {"get", "junk", "add", "parse", "exited", "crashed", "undefined"}
    OBVIOUS
  <2> HIDE DEF Init
  <2>7. QED
    BY <2>1, <2>2, <2>3, <2>4, <2>5, <2>6 DEF TypeOK
<1>2. OrderInv
  BY EmptyOrdered DEF OrderInv
<1>3. WalkInv /\ AheadInv /\ JunkCounted
  BY EmptyOrdered, ChunkAssumption DEF WalkInv, AheadInv, JunkCounted
<1>4. QED
  BY <1>1, <1>2, <1>3 DEF IInv

(* What the chunk that is read brings with it.                             *)
LEMMA ReadTypes ==
    ASSUME TypeOK, Read, NEW c \in Contents
    PROVE  /\ chunk_nr \in Nat /\ chunk_nr' = chunk_nr + 1
           /\ chunk_nr' \in 0..MaxChunks
           /\ c \in Content
           /\ \A med \in Int : MedOr(c, med) \in Int
           /\ StdMed \in Int
           /\ JunkChunk(c) \in Chunk /\ JunkChunk(c).nr = chunk_nr + 1
           /\ NoteRun(c) => newest' \in Content /\ run' \in Nat
<1>1. /\ chunk_nr \in Nat /\ chunk_nr' = chunk_nr + 1
      /\ chunk_nr' \in 0..MaxChunks
  BY ChunkAssumption DEF TypeOK, Read
<1>2. c \in Content
  BY ChunkAssumption DEF Content, Contents
<1>3. (\A med \in Int : MedOr(c, med) \in Int) /\ StdMed \in Int
  BY <1>2, ChunkAssumption DEF MedOr, Content
<1>4. JunkChunk(c) \in Chunk /\ JunkChunk(c).nr = chunk_nr + 1
  BY <1>1, <1>2, <1>3 DEF JunkChunk, Chunk, Content
<1>5. NoteRun(c) => newest' \in Content /\ run' \in Nat
  <2>1. run + 1 \in Nat
    BY DEF TypeOK
  <2>2. NoteRun(c) => run' \in {run + 1, 0, 1}
    BY DEF NoteRun
  <2>3. NoteRun(c) => newest' = c
    BY DEF NoteRun
  <2>4. QED
    BY <1>2, <2>2, <2>3 DEF TypeOK
<1>6. QED
  BY <1>1, <1>2, <1>3, <1>4, <1>5

LEMMA UnreadableIInv == IInv /\ Unreadable => IInv'
<1> SUFFICES ASSUME IInv, Unreadable PROVE IInv'
  OBVIOUS
<1> USE DEF IInv, Unreadable, Read, lists, sync, walk, history
<1>1. chunk_nr \in Nat /\ chunk_nr' = chunk_nr + 1
  BY ChunkAssumption DEF TypeOK
<1>2. TypeOK'
  BY ChunkAssumption DEF TypeOK
<1>3. OrderInv'
  BY <1>1, BelowNext DEF OrderInv, TypeOK, Sorted, Before
<1>4. WalkInv' /\ AheadInv' /\ JunkCounted'
  BY DEF WalkInv, AheadInv, JunkCounted
<1>5. QED
  BY <1>2, <1>3, <1>4

LEMMA AdmitIInv == IInv /\ Admit => IInv'
<1> SUFFICES ASSUME IInv, Admit PROVE IInv'
  OBVIOUS
<1>1. PICK c \in Contents :
        LET chunk == [nr |-> chunk_nr',
                      first |-> IF last_tick = 0 THEN 0 ELSE c.first,
                      last |-> c.last, med |-> MedOr(c, StdMed),
                      layout |-> c.layout, gap |-> FALSE, junk |-> FALSE] IN
        /\ chunks' = AddOne(chunk, chunks)
        /\ last_tick' = c.last
        /\ med_ticks' = MedOr(c, med_ticks)
        /\ NoteRun(c)
  BY DEF Admit
<1> DEFINE chunk == [nr |-> chunk_nr',
                     first |-> IF last_tick = 0 THEN 0 ELSE c.first,
                     last |-> c.last, med |-> MedOr(c, StdMed),
                     layout |-> c.layout, gap |-> FALSE, junk |-> FALSE]
<1>2. /\ Read /\ pc = "get" /\ pc' = "parse"
      /\ junk_chunks' = <<>> /\ cons_junk_chunk' = 0
      /\ lost' = FALSE
      /\ UNCHANGED <<parsed, restored, walk, cleared>>
  BY DEF Admit, Read
<1>3. TypeOK
  BY DEF IInv
<1>4. /\ chunk_nr \in Nat /\ chunk_nr' = chunk_nr + 1
      /\ chunk_nr' \in 0..MaxChunks
      /\ c \in Content
      /\ \A med \in Int : MedOr(c, med) \in Int
      /\ StdMed \in Int
      /\ newest' \in Content /\ run' \in Nat
  BY <1>1, <1>2, <1>3, ReadTypes
<1>5. chunk \in Chunk /\ chunk.nr = chunk_nr + 1
  BY <1>3, <1>4 DEF Chunk, Content, TypeOK
<1>6. chunks' = AddOne(chunk, chunks)
  BY <1>1
<1> HIDE DEF chunk
<1>7. restored = <<>>
  BY <1>2 DEF IInv, WalkInv
<1>8. /\ chunks' \in Seq(Chunk)
      /\ Len(chunks') >= Len(chunks)
      /\ Sorted(chunks') /\ Below(chunks', chunk_nr')
      /\ Before(parsed', chunks')
  <2>1. /\ chunks \in Seq(Chunk) /\ parsed \in Seq(Chunk)
        /\ Sorted(chunks) /\ Below(chunks, chunk_nr)
        /\ Below(parsed, chunk_nr) /\ Before(parsed, chunks)
        /\ parsed' = parsed
    BY <1>2, <1>3 DEF IInv, OrderInv, TypeOK
  <2>2. /\ chunks' \in Seq(Chunk)
        /\ Len(chunks') = Len(chunks) + (IF Duplicate(chunk, chunks) THEN 0 ELSE 1)
        /\ Sorted(chunks') /\ Below(chunks', chunk_nr + 1)
        /\ Before(parsed, chunks')
    BY <2>1, <1>4, <1>5, <1>6, AddOneOrdered
  <2>3. Len(chunks') >= Len(chunks)
    BY <2>1, <2>2
  <2>4. QED
    BY <2>1, <2>2, <2>3, <1>4
<1>9. TypeOK'
  <2>1. last_tick' \in Nat /\ med_ticks' \in Int
    BY <1>1, <1>3, <1>4 DEF Content, TypeOK
  <2>2. cons_junk_chunk' \in -1..JunkSize
    BY <1>2, ChunkAssumption
  <2>3. QED
    BY <1>2, <1>3, <1>4, <1>8, <2>1, <2>2, EmptyOrdered DEF TypeOK, walk, Content
<1>10. OrderInv'
  BY <1>2, <1>3, <1>4, <1>7, <1>8, BelowNext, EmptyOrdered
     DEF IInv, OrderInv, TypeOK, Sorted
<1>11. WalkInv' /\ AheadInv' /\ JunkCounted'
  BY <1>2, <1>3, <1>7, <1>8, EmptyOrdered, ChunkAssumption
     DEF IInv, WalkInv, AheadInv, JunkCounted, TypeOK
<1>12. QED
  BY <1>9, <1>10, <1>11 DEF IInv

LEMMA NoVideoIInv == IInv /\ NoVideo => IInv'
<1> SUFFICES ASSUME IInv, NoVideo PROVE IInv'
  OBVIOUS
<1> USE DEF IInv, NoVideo, Read
<1>1. chunk_nr \in Nat /\ chunk_nr' = chunk_nr + 1
  BY ChunkAssumption DEF TypeOK
<1>2. restored = <<>>
  BY DEF WalkInv
<1>3. TypeOK'
  <2>1. lost' \in BOOLEAN /\ cleared' \in BOOLEAN
    BY DEF TypeOK
  <2>2. newest' \in Content
    BY DEF Nothing, Content
  <2>3. /\ chunk_nr' \in 0..MaxChunks /\ cons_junk_chunk' \in -1..JunkSize
        /\ run' \in Nat
    BY <1>1, ChunkAssumption DEF TypeOK
  <2>4. QED
    BY <2>1, <2>2, <2>3, EmptyOrdered DEF TypeOK, walk, Content
<1>4. OrderInv'
  BY <1>1, <1>2, BelowNext, EmptyOrdered DEF OrderInv, TypeOK, Sorted, Before
<1>5. WalkInv' /\ AheadInv' /\ JunkCounted'
  BY <1>2, EmptyOrdered, ChunkAssumption DEF WalkInv, AheadInv, JunkCounted
<1>6. QED
  BY <1>3, <1>4, <1>5

LEMMA JunkIInv == IInv /\ Junk => IInv'
<1> SUFFICES ASSUME IInv, Junk PROVE IInv'
  OBVIOUS
<1>1. PICK c \in Contents :
        /\ junk_chunks' = AddOne(JunkChunk(c), junk_chunks)
        /\ cons_junk_chunk' = CountJunk(c)
        /\ NoteRun(c)
  BY DEF Junk
<1>2. /\ Read /\ pc = "get"
      /\ UNCHANGED <<chunks, parsed, restored, last_tick, med_ticks, lost, cleared>>
      /\ IF JunkFull THEN pc' = "junk" /\ at' = 2 /\ out_of_sync' = 0
                     ELSE pc' = "parse" /\ UNCHANGED walk
  BY DEF Junk, Read
<1>3. TypeOK
  BY DEF IInv
<1>4. /\ chunk_nr \in Nat /\ chunk_nr' = chunk_nr + 1
      /\ chunk_nr' \in 0..MaxChunks
      /\ JunkChunk(c) \in Chunk /\ JunkChunk(c).nr = chunk_nr + 1
      /\ newest' \in Content /\ run' \in Nat
  BY <1>1, <1>2, <1>3, ReadTypes
<1>5. restored = <<>>
  BY <1>2 DEF IInv, WalkInv
<1>6. /\ junk_chunks' \in Seq(Chunk)
      /\ Len(junk_chunks') = Len(junk_chunks) + CountJunk(c) - cons_junk_chunk
      /\ Sorted(junk_chunks') /\ Below(junk_chunks', chunk_nr')
      /\ Before(parsed, junk_chunks') /\ Before(chunks, junk_chunks')
  <2>1. /\ junk_chunks \in Seq(Chunk) /\ parsed \in Seq(Chunk) /\ chunks \in Seq(Chunk)
        /\ Sorted(junk_chunks) /\ Below(junk_chunks, chunk_nr)
        /\ Below(parsed, chunk_nr) /\ Before(parsed, junk_chunks)
        /\ Below(chunks, chunk_nr) /\ Before(chunks, junk_chunks)
        /\ cons_junk_chunk \in Int
    BY <1>3 DEF IInv, OrderInv, TypeOK
  <2>2. junk_chunks' = AddOne(JunkChunk(c), junk_chunks)
    BY <1>1
  <2>3. /\ junk_chunks' \in Seq(Chunk)
        /\ Len(junk_chunks') =
             Len(junk_chunks) + (IF Duplicate(JunkChunk(c), junk_chunks) THEN 0 ELSE 1)
        /\ Sorted(junk_chunks') /\ Below(junk_chunks', chunk_nr + 1)
        /\ \A u \in Seq(Chunk) :
             Below(u, chunk_nr) /\ Before(u, junk_chunks) => Before(u, junk_chunks')
    BY <2>1, <2>2, <1>4, AddOneOrdered
  <2>4. QED
    BY <2>1, <2>3, <1>4 DEF CountJunk
<1> DEFINE behind == IF lost THEN 1 ELSE 0
<1>7. /\ cons_junk_chunk = Len(junk_chunks) - behind
      /\ cons_junk_chunk < JunkSize
      /\ behind \in {0, 1}
      /\ behind' = behind
      /\ cons_junk_chunk \in Int /\ cons_junk_chunk >= -1
      /\ Len(junk_chunks) \in Nat /\ Len(junk_chunks') \in Nat
      /\ JunkSize \in Nat /\ JunkSize >= 3
  <2>1. /\ cons_junk_chunk = Len(junk_chunks) - behind
        /\ cons_junk_chunk < JunkSize
    BY <1>2 DEF IInv, JunkCounted
  <2>2. behind \in {0, 1} /\ behind' = behind
    BY <1>2
  <2> HIDE DEF behind
  <2>3. QED
    BY <2>1, <2>2, <1>3, <1>6, ChunkAssumption DEF TypeOK
<1> HIDE DEF behind
<1>8. CountJunk(c) \in {cons_junk_chunk, cons_junk_chunk + 1}
  BY <1>7 DEF CountJunk
<1>9. TypeOK'
  <2>1. cons_junk_chunk' \in -1..JunkSize
    BY <1>1, <1>7, <1>8
  <2>2. at' \in Nat /\ out_of_sync' \in Nat
        /\ pc' \in {"get", "junk", "add", "parse", "exited", "crashed", "undefined"}
    BY <1>2, <1>3 DEF TypeOK, walk
  <2>3. QED
    BY <1>2, <1>3, <1>4, <1>6, <2>1, <2>2 DEF TypeOK, Content
<1>10. OrderInv'
  <2>1. /\ parsed \in Seq(Chunk) /\ chunks \in Seq(Chunk) /\ restored' = restored
        /\ parsed' = parsed /\ chunks' = chunks
    BY <1>2, <1>3 DEF TypeOK
  <2>2. OrderInv
    BY DEF IInv
  <2>3. Below(parsed, chunk_nr') /\ Below(chunks, chunk_nr')
    BY <2>1, <2>2, <1>4, BelowNext DEF OrderInv
  <2>4. /\ Sorted(restored) /\ Below(restored, chunk_nr')
        /\ \A u : Before(u, restored) /\ Before(restored, u)
    BY <1>5, EmptyOrdered
  <2>5. QED
    BY <2>1, <2>2, <2>3, <2>4, <1>6 DEF OrderInv
<1>11. WalkInv'
  <2>1. CASE JunkFull
    <3>1. Len(junk_chunks') >= 2
      BY <2>1, <1>6, <1>7, <1>8 DEF JunkFull
    <3>2. QED
      BY <2>1, <3>1, <1>2, <1>5, <1>6 DEF WalkInv
  <2>2. CASE ~JunkFull
    BY <2>2, <1>2, <1>5 DEF WalkInv
  <2>3. QED
    BY <2>1, <2>2
<1>12. AheadInv'
  BY <1>2 DEF IInv, AheadInv
<1>13. JunkCounted'
  <2>1. CASE JunkFull
    BY <2>1, <1>2 DEF JunkCounted
  <2>2. CASE ~JunkFull
    <3>1. /\ cons_junk_chunk' = Len(junk_chunks') - behind'
          /\ cons_junk_chunk' < JunkSize
      <4>1. cons_junk_chunk' = CountJunk(c)
        BY <1>1
      <4>2. Len(junk_chunks') = Len(junk_chunks) + cons_junk_chunk' - cons_junk_chunk
        BY <4>1, <1>6
      <4>3. cons_junk_chunk' \in {cons_junk_chunk, cons_junk_chunk + 1}
        BY <4>1, <1>8
      <4>4. cons_junk_chunk + 1 # JunkSize
        BY <2>2 DEF JunkFull
      <4>5. \A a, b, m, n, x, y : a = m - b /\ n = m + x - a /\ y = b
                /\ a \in Int /\ x \in {a, a + 1} /\ m \in Nat /\ n \in Nat
                /\ b \in {0, 1} => x = n - y
        OBVIOUS
      <4>6. cons_junk_chunk' = Len(junk_chunks') - behind'
        BY <4>2, <4>3, <4>5, <1>7
      <4>7. QED
        BY <4>3, <4>4, <4>6, <1>7
    <3>2. QED
      BY <3>1 DEF JunkCounted, behind
  <2>3. QED
    BY <2>1, <2>2
<1>14. QED
  BY <1>9, <1>10, <1>11, <1>12, <1>13 DEF IInv

(* What the steps of the walk have in common: they drop chunks of the junk *)
(* list or change their flags, and touch nothing else.                     *)
LEMMA WalkStep ==
    ASSUME IInv, pc = "junk",
           junk_chunks' \in Seq(Chunk), Embeds(junk_chunks', junk_chunks),
           pc' \in {"junk", "exited", "crashed", "undefined"},
           at' \in Nat, out_of_sync' \in Nat, cleared' \in BOOLEAN,
           pc' = "junk" => /\ at' \in 2..(Len(junk_chunks') + 1)
                           /\ at' >= Len(junk_chunks') => out_of_sync' = 0,
           UNCHANGED <<chunk_nr, chunks, parsed, restored, sync,
                       run, newest, lost>>
    PROVE  IInv'
<1> USE DEF IInv
<1>1. TypeOK'
  BY DEF TypeOK, sync
<1>2. OrderInv'
  <2>1. /\ Sorted(junk_chunks') /\ Below(junk_chunks', chunk_nr)
        /\ Before(parsed, junk_chunks') /\ Before(chunks, junk_chunks')
        /\ Before(restored, junk_chunks')
    BY EmbedsKeeps, ChunkAssumption DEF OrderInv, TypeOK
  <2>2. QED
    BY <2>1 DEF OrderInv, Sorted, Below, Before
<1>3. WalkInv' /\ AheadInv' /\ JunkCounted'
  BY DEF WalkInv, AheadInv, JunkCounted
<1>4. QED
  BY <1>1, <1>2, <1>3

(* Advance leaves the walk with an element to look at, or at the end of a  *)
(* list in which everything fits.                                          *)
LEMMA AdvanceProperties ==
    ASSUME NEW i \in Nat, Advance(i), junk_chunks' \in Seq(Chunk), out_of_sync' \in Nat,
           i \in 2..(Len(junk_chunks') + 1),
           i > Len(junk_chunks') => out_of_sync' = 0
    PROVE  /\ at' = i
           /\ pc' \in {"junk", "exited"}
           /\ pc' = "junk" => /\ at' \in 2..(Len(junk_chunks') + 1)
                              /\ at' >= Len(junk_chunks') => out_of_sync' = 0
BY DEF Advance

LEMMA WalkingFacts ==
    ASSUME IInv, Walking
    PROVE  /\ pc = "junk" /\ junk_chunks \in Seq(Chunk) /\ Len(junk_chunks) \in Nat
           /\ at \in Nat /\ at \in 2..Len(junk_chunks)
           /\ at >= Len(junk_chunks) => out_of_sync = 0
           /\ out_of_sync \in Nat /\ cleared \in BOOLEAN
           /\ at - 1 \in 1..Len(junk_chunks)
<1>1. cleared \in BOOLEAN
  BY DEF IInv, TypeOK
<1>2. QED
  BY <1>1 DEF IInv, TypeOK, WalkInv, Walking

LEMMA JunkInSyncIInv == IInv /\ JunkInSync => IInv'
<1> SUFFICES ASSUME IInv, JunkInSync PROVE IInv'
  OBVIOUS
<1>1. Walking
  BY DEF JunkInSync
<1>2. junk_chunks' = WithGap(junk_chunks, at, ~Near(cur, prev))
  BY DEF JunkInSync
<1>3. (~Near(cur, prev)) \in BOOLEAN
  OBVIOUS
<1>4. /\ junk_chunks' \in Seq(Chunk) /\ Len(junk_chunks') = Len(junk_chunks)
      /\ Embeds(junk_chunks', junk_chunks)
  <2>1. at \in 1..Len(junk_chunks) /\ junk_chunks \in Seq(Chunk)
    BY <1>1, WalkingFacts
  <2>2. QED
    BY <2>1, <1>2, <1>3, SetGap
<1>5. Advance(at + 1) /\ out_of_sync' = out_of_sync
  BY DEF JunkInSync
<1>6. UNCHANGED <<chunk_nr, chunks, parsed, restored, sync, history>>
  BY DEF JunkInSync
<1>7. at + 1 \in Nat /\ at + 1 \in 2..(Len(junk_chunks') + 1)
      /\ (at + 1 > Len(junk_chunks') => out_of_sync' = 0)
  BY <1>1, <1>4, <1>5, WalkingFacts
<1>8. /\ at' = at + 1
      /\ pc' \in {"junk", "exited"}
      /\ pc' = "junk" => /\ at' \in 2..(Len(junk_chunks') + 1)
                         /\ at' >= Len(junk_chunks') => out_of_sync' = 0
  BY <1>1, <1>4, <1>5, <1>7, WalkingFacts, AdvanceProperties
<1>9. cleared' \in BOOLEAN
  BY <1>1, <1>6, WalkingFacts DEF history
<1>10. QED
  BY <1>1, <1>4, <1>5, <1>6, <1>7, <1>8, <1>9, WalkingFacts, WalkStep DEF history

LEMMA JunkLastIInv == IInv /\ JunkLast => IInv'
<1> SUFFICES ASSUME IInv, JunkLast PROVE IInv'
  OBVIOUS
<1>1. Walking
  BY DEF JunkLast, Suspect
<1>2. /\ pc' = "crashed"
      /\ UNCHANGED <<chunk_nr, lists, sync, walk, history>>
  BY DEF JunkLast
<1>3. Embeds(junk_chunks, junk_chunks)
  BY <1>1, WalkingFacts, SameNumbersEmbed
<1>4. cleared' \in BOOLEAN
  BY <1>1, <1>2, WalkingFacts DEF history
<1>5. QED
  BY <1>1, <1>2, <1>3, <1>4, WalkingFacts, WalkStep DEF lists, walk, history

LEMMA JunkNoLuckIInv == IInv /\ JunkNoLuck => IInv'
<1> SUFFICES ASSUME IInv, JunkNoLuck PROVE IInv'
  OBVIOUS
<1>1. Walking
  BY DEF JunkNoLuck, Suspect
<1>2. /\ at < Len(junk_chunks)
      /\ out_of_sync' = out_of_sync + 1
      /\ UNCHANGED junk_chunks
      /\ Advance(at + 1)
      /\ UNCHANGED <<chunk_nr, chunks, parsed, restored, sync, history>>
  BY DEF JunkNoLuck
<1>3. Embeds(junk_chunks', junk_chunks) /\ junk_chunks' \in Seq(Chunk)
  BY <1>1, <1>2, WalkingFacts, SameNumbersEmbed
<1>4. at + 1 \in Nat /\ at + 1 \in 2..(Len(junk_chunks') + 1)
      /\ ~(at + 1 > Len(junk_chunks')) /\ out_of_sync' \in Nat
  BY <1>1, <1>2, WalkingFacts
<1>5. /\ at' = at + 1
      /\ pc' \in {"junk", "exited"}
      /\ pc' = "junk" => /\ at' \in 2..(Len(junk_chunks') + 1)
                         /\ at' >= Len(junk_chunks') => out_of_sync' = 0
  BY <1>2, <1>3, <1>4, AdvanceProperties
<1>6. cleared' \in BOOLEAN
  BY <1>1, <1>2, WalkingFacts DEF history
<1>7. QED
  BY <1>1, <1>2, <1>3, <1>4, <1>5, <1>6, WalkingFacts, WalkStep DEF history

(* Two flags of neighbours are changed at once.                            *)
LEMMA SetTwoGaps ==
    ASSUME NEW s \in Seq(Chunk), NEW i \in 1..Len(s), NEW j \in 1..Len(s),
           NEW v \in BOOLEAN, NEW w \in BOOLEAN
    PROVE  /\ WithGap(WithGap(s, i, v), j, w) \in Seq(Chunk)
           /\ Len(WithGap(WithGap(s, i, v), j, w)) = Len(s)
           /\ \A k \in 1..Len(s) : WithGap(WithGap(s, i, v), j, w)[k].nr = s[k].nr
           /\ Embeds(WithGap(WithGap(s, i, v), j, w), s)
<1> DEFINE q == WithGap(s, i, v)
           r == WithGap(q, j, w)
<1>1. /\ q \in Seq(Chunk) /\ Len(q) = Len(s)
      /\ \A k \in 1..Len(s) : q[k].nr = s[k].nr
  BY SetGap
<1> HIDE DEF q
<1>2. /\ r \in Seq(Chunk) /\ Len(r) = Len(q)
      /\ \A k \in 1..Len(q) : r[k].nr = q[k].nr
  BY <1>1, SetGap
<1> HIDE DEF r
<1>3. Embeds(r, s) /\ \A k \in 1..Len(s) : r[k].nr = s[k].nr
  BY <1>1, <1>2, SameNumbersEmbed
<1>4. QED
  BY <1>1, <1>2, <1>3 DEF q, r

LEMMA JunkHoleIInv == IInv /\ JunkHole => IInv'
<1> SUFFICES ASSUME IInv, JunkHole PROVE IInv'
  OBVIOUS
<1>1. Walking
  BY DEF JunkHole, Suspect
<1>2. /\ at < Len(junk_chunks)
      /\ junk_chunks' =
           WithGap(WithGap(junk_chunks, at, TRUE), at + 1, ~Near(next, cur))
      /\ out_of_sync' = out_of_sync
      /\ Advance(at + 1)
      /\ UNCHANGED <<chunk_nr, chunks, parsed, restored, sync, history>>
  BY DEF JunkHole
<1>3. (~Near(next, cur)) \in BOOLEAN /\ TRUE \in BOOLEAN
  OBVIOUS
<1>4. at \in 1..Len(junk_chunks) /\ at + 1 \in 1..Len(junk_chunks)
  BY <1>1, <1>2, WalkingFacts
<1>5. /\ junk_chunks' \in Seq(Chunk) /\ Len(junk_chunks') = Len(junk_chunks)
      /\ Embeds(junk_chunks', junk_chunks)
  <2>1. junk_chunks \in Seq(Chunk)
    BY <1>1, WalkingFacts
  <2>2. \A v \in BOOLEAN, w \in BOOLEAN :
          LET r == WithGap(WithGap(junk_chunks, at, v), at + 1, w)
          IN  r \in Seq(Chunk) /\ Len(r) = Len(junk_chunks) /\ Embeds(r, junk_chunks)
    BY <2>1, <1>4, SetTwoGaps
  <2>3. QED
    BY <2>2, <1>2, <1>3
<1>6. at + 1 \in Nat /\ at + 1 \in 2..(Len(junk_chunks') + 1)
      /\ ~(at + 1 > Len(junk_chunks')) /\ out_of_sync' \in Nat
  <2>1. at < Len(junk_chunks) /\ out_of_sync' = out_of_sync
    BY <1>2
  <2>2. QED
    BY <2>1, <1>1, <1>5, WalkingFacts
<1>7. /\ at' = at + 1
      /\ pc' \in {"junk", "exited"}
      /\ pc' = "junk" => /\ at' \in 2..(Len(junk_chunks') + 1)
                         /\ at' >= Len(junk_chunks') => out_of_sync' = 0
  BY <1>1, <1>2, <1>5, <1>6, WalkingFacts, AdvanceProperties
<1>8. cleared' \in BOOLEAN
  BY <1>1, <1>2, WalkingFacts DEF history
<1>9. QED
  BY <1>1, <1>2, <1>5, <1>6, <1>7, <1>8, WalkingFacts, WalkStep DEF history

(* Embedding is transitive: drop a chunk of a list whose flags changed.    *)
LEMMA EmbedsTransitive ==
    ASSUME NEW r \in Seq(Chunk), NEW s \in Seq(Chunk), NEW t \in Seq(Chunk),
           Embeds(t, s), Embeds(s, r)
    PROVE  Embeds(t, r)
<1>1. PICK f \in [1..Len(t) -> 1..Len(s)] :
           /\ \A i, j \in 1..Len(t) : i < j => f[i] < f[j]
           /\ \A i \in 1..Len(t) : t[i].nr = s[f[i]].nr
  BY DEF Embeds
<1>2. PICK g \in [1..Len(s) -> 1..Len(r)] :
           /\ \A i, j \in 1..Len(s) : i < j => g[i] < g[j]
           /\ \A i \in 1..Len(s) : s[i].nr = r[g[i]].nr
  BY DEF Embeds
<1> DEFINE h == [i \in 1..Len(t) |-> g[f[i]]]
<1>3. \A i \in 1..Len(t) : f[i] \in 1..Len(s) /\ h[i] = g[f[i]]
  BY <1>1
<1>4. h \in [1..Len(t) -> 1..Len(r)]
  BY <1>2, <1>3
<1> HIDE DEF h
<1>5. \A i, j \in 1..Len(t) : i < j => h[i] < h[j]
  BY <1>1, <1>2, <1>3
<1>6. \A i \in 1..Len(t) : t[i].nr = r[h[i]].nr
  BY <1>1, <1>2, <1>3
<1>7. QED
  BY <1>4, <1>5, <1>6 DEF Embeds

LEMMA JunkOssIInv == IInv /\ JunkOss => IInv'
<1> SUFFICES ASSUME IInv, JunkOss PROVE IInv'
  OBVIOUS
<1>1. Walking
  BY DEF JunkOss, Suspect
<1> DEFINE flagged == WithGap(WithGap(junk_chunks, at - 1, FALSE),
                              at + 1, ~Near(next, prev))
<1>2. /\ at < Len(junk_chunks)
      /\ junk_chunks' = RemoveAt(flagged, at)
      /\ cleared' = (cleared \/ at = 2)
      /\ out_of_sync' = out_of_sync
      /\ \/ Advance(at)
         \/ pc' = "undefined" /\ UNCHANGED at
      /\ UNCHANGED <<chunk_nr, chunks, parsed, restored, sync, run, newest, lost>>
  BY DEF JunkOss
<1>3. /\ at \in 1..Len(junk_chunks) /\ at - 1 \in 1..Len(junk_chunks)
      /\ at + 1 \in 1..Len(junk_chunks) /\ junk_chunks \in Seq(Chunk)
  BY <1>1, <1>2, WalkingFacts
<1>4. /\ flagged \in Seq(Chunk) /\ Len(flagged) = Len(junk_chunks)
      /\ Embeds(flagged, junk_chunks)
  <2>1. (~Near(next, prev)) \in BOOLEAN /\ FALSE \in BOOLEAN
    OBVIOUS
  <2>2. ASSUME NEW i \in 1..Len(junk_chunks), NEW j \in 1..Len(junk_chunks),
               NEW v \in BOOLEAN, NEW w \in BOOLEAN
        PROVE  LET q == WithGap(WithGap(junk_chunks, i, v), j, w) IN
               /\ q \in Seq(Chunk) /\ Len(q) = Len(junk_chunks)
               /\ Embeds(q, junk_chunks)
    BY <1>3, SetTwoGaps
  <2>3. QED
    BY <1>3, <2>1, <2>2
<1> HIDE DEF flagged
<1>5. /\ junk_chunks' \in Seq(Chunk) /\ Len(junk_chunks') = Len(junk_chunks) - 1
      /\ Embeds(junk_chunks', flagged)
  BY <1>2, <1>3, <1>4, RemoveAtProperties
<1>6. Embeds(junk_chunks', junk_chunks)
  BY <1>3, <1>4, <1>5, EmbedsTransitive
<1>7. cleared' \in BOOLEAN
  BY <1>2
<1>8. /\ at \in Nat /\ at \in 2..(Len(junk_chunks') + 1)
      /\ ~(at > Len(junk_chunks')) /\ out_of_sync' \in Nat
  BY <1>1, <1>2, <1>5, WalkingFacts
<1>9. CASE Advance(at)
  <2>1. /\ at' = at
        /\ pc' \in {"junk", "exited"}
        /\ pc' = "junk" => /\ at' \in 2..(Len(junk_chunks') + 1)
                           /\ at' >= Len(junk_chunks') => out_of_sync' = 0
    BY <1>5, <1>8, <1>9, AdvanceProperties
  <2>2. QED
    BY <2>1, <1>1, <1>2, <1>5, <1>6, <1>7, <1>8, WalkingFacts, WalkStep
<1>10. CASE pc' = "undefined" /\ UNCHANGED at
  BY <1>10, <1>1, <1>2, <1>5, <1>6, <1>7, <1>8, WalkingFacts, WalkStep
<1>11. QED
  BY <1>2, <1>9, <1>10

(* The whole junk list is handed back: nothing was out of sync at its end. *)
LEMMA JunkDoneIInv == IInv /\ JunkDone => IInv'
<1> SUFFICES ASSUME IInv, JunkDone PROVE IInv'
  OBVIOUS
<1>1. TypeOK
  BY DEF IInv
<1>2. /\ pc = "junk" /\ at > Len(junk_chunks)
      /\ at \in 2..(Len(junk_chunks) + 1)
      /\ junk_chunks \in Seq(Chunk) /\ Len(junk_chunks) \in Nat
      /\ out_of_sync = 0
  BY <1>1 DEF IInv, WalkInv, TypeOK, JunkDone
<1>3. /\ at - 1 = Len(junk_chunks) /\ Len(junk_chunks) \in 1..Len(junk_chunks)
      /\ junk_chunks # <<>>
  BY <1>2
<1>4. /\ restored' = junk_chunks /\ junk_chunks' = <<>>
      /\ med_ticks' = junk_chunks[Len(junk_chunks)].med
      /\ last_tick' = junk_chunks[Len(junk_chunks)].last
      /\ cons_junk_chunk' = 0
  <2>1. /\ restored' = SubSeq(junk_chunks, 1, Len(junk_chunks))
        /\ junk_chunks' = SubSeq(junk_chunks, Len(junk_chunks) + 1, Len(junk_chunks))
        /\ med_ticks' = junk_chunks[Len(junk_chunks)].med
        /\ last_tick' = junk_chunks[Len(junk_chunks)].last
        /\ cons_junk_chunk' = 0
    BY <1>2, <1>3 DEF JunkDone, LeftAside, RestoredReference
  <2>2. SubSeq(junk_chunks, 1, Len(junk_chunks)) = junk_chunks
    BY <1>2
  <2>3. SubSeq(junk_chunks, Len(junk_chunks) + 1, Len(junk_chunks)) = <<>>
    BY <1>2, SubSeqEmpty
  <2>4. QED
    BY <2>1, <2>2, <2>3
<1>5. /\ lost' = FALSE /\ pc' = "add"
      /\ UNCHANGED <<chunk_nr, chunks, parsed, walk, run, newest, cleared>>
  BY DEF JunkDone
<1>6. last_tick' \in Nat /\ med_ticks' \in Int
  <2>1. junk_chunks[Len(junk_chunks)] \in Chunk
    BY <1>2, <1>3, ElementOfSeq
  <2>2. QED
    BY <2>1, <1>4 DEF Chunk
<1>7. TypeOK'
  <2>1. lost' \in BOOLEAN /\ cleared' \in BOOLEAN
    BY <1>1, <1>5 DEF TypeOK
  <2>2. cons_junk_chunk' \in -1..JunkSize
    BY <1>4, ChunkAssumption
  <2>3. QED
    BY <1>1, <1>2, <1>4, <1>5, <1>6, <2>1, <2>2, EmptyOrdered DEF TypeOK, walk
<1>8. OrderInv'
  <2>1. /\ Sorted(restored') /\ Below(restored', chunk_nr)
        /\ Before(parsed, restored') /\ Before(chunks, restored')
    BY <1>4 DEF IInv, OrderInv
  <2>2. QED
    BY <2>1, <1>4, <1>5, EmptyOrdered DEF IInv, OrderInv
<1>9. WalkInv' /\ AheadInv' /\ JunkCounted'
  BY <1>2, <1>3, <1>4, <1>5 DEF IInv, WalkInv, AheadInv, JunkCounted
<1>10. QED
  BY <1>7, <1>8, <1>9 DEF IInv

LEMMA AddRestoredIInv == IInv /\ AddRestored => IInv'
<1> SUFFICES ASSUME IInv, AddRestored PROVE IInv'
  OBVIOUS
<1>1. TypeOK
  BY DEF IInv
<1>2. /\ pc = "add" /\ pc' = "parse" /\ restored' = <<>>
      /\ UNCHANGED <<chunk_nr, parsed, junk_chunks, last_tick, med_ticks, walk,
                     run, newest, cleared>>
  BY DEF AddRestored
<1>3. /\ restored # <<>> /\ junk_chunks = <<>> /\ cons_junk_chunk = 0 /\ ~lost
  BY <1>2 DEF IInv, WalkInv
<1>4. chunk_nr \in Nat /\ restored \in Seq(Chunk) /\ chunks \in Seq(Chunk)
      /\ parsed \in Seq(Chunk)
  BY <1>1, ChunkAssumption DEF TypeOK
<1>5. CASE Duplicate(Head(restored), chunks)
  <2>1. cons_junk_chunk' = -1 /\ lost' = TRUE /\ chunks' = chunks
    BY <1>3, <1>5 DEF AddRestored
  <2>2. lost' \in BOOLEAN /\ cleared' \in BOOLEAN
    BY <1>1, <1>2, <2>1 DEF TypeOK
  <2>3. cons_junk_chunk' \in -1..JunkSize
    BY <2>1, ChunkAssumption
  <2>4. TypeOK'
    BY <1>1, <1>2, <2>1, <2>2, <2>3, EmptyOrdered DEF TypeOK, walk
  <2>5. OrderInv'
    BY <1>2, <2>1, EmptyOrdered DEF IInv, OrderInv
  <2>6. WalkInv' /\ AheadInv'
    BY <1>2, <2>1 DEF IInv, WalkInv, AheadInv
  <2>7. JunkCounted'
    BY <1>2, <1>3, <2>1, EmptyOrdered, ChunkAssumption DEF JunkCounted
  <2>8. QED
    BY <2>4, <2>5, <2>6, <2>7 DEF IInv
<1>6. CASE ~Duplicate(Head(restored), chunks)
  <2>1. cons_junk_chunk' = 0 /\ lost' = lost /\ chunks' = chunks \o restored
    BY <1>3, <1>6 DEF AddRestored
  <2>2. /\ chunks' \in Seq(Chunk) /\ Len(chunks') = Len(chunks) + Len(restored)
        /\ Sorted(chunks') /\ Below(chunks', chunk_nr)
        /\ Before(parsed, chunks')
    BY <1>4, <2>1, ConcatOrdered DEF IInv, OrderInv
  <2>3. lost' \in BOOLEAN /\ cleared' \in BOOLEAN
    BY <1>1, <1>2, <2>1 DEF TypeOK
  <2>4. cons_junk_chunk' \in -1..JunkSize
    BY <2>1, ChunkAssumption
  <2>5. TypeOK'
    BY <1>1, <1>2, <2>2, <2>3, <2>4, EmptyOrdered DEF TypeOK, walk
  <2>6. OrderInv'
    BY <1>2, <1>3, <2>2, EmptyOrdered DEF IInv, OrderInv
  <2>7. WalkInv'
    BY <1>2 DEF WalkInv
  <2>8. AheadInv'
    BY <1>2, <1>4, <2>2 DEF IInv, AheadInv
  <2>9. JunkCounted'
    BY <1>2, <1>3, <2>1, EmptyOrdered, ChunkAssumption DEF JunkCounted
  <2>10. QED
    BY <2>5, <2>6, <2>7, <2>8, <2>9 DEF IInv
<1>7. QED
  BY <1>5, <1>6

LEMMA ParseChunkIInv == IInv /\ ParseChunk => IInv'
<1> SUFFICES ASSUME IInv, ParseChunk PROVE IInv'
  OBVIOUS
<1>1. TypeOK
  BY DEF IInv
<1>2. PICK carried \in {Head(chunks).gap, FALSE} :
        chunks' = Tail(WithGap(chunks, 2, chunks[2].gap \/ carried))
  BY DEF ParseChunk
<1>3. /\ pc = "parse" /\ Len(chunks) > 3 /\ parsed' = <<Head(chunks)>>
      /\ UNCHANGED <<chunk_nr, junk_chunks, restored, sync, pc, walk, history>>
  BY DEF ParseChunk, chunk_okay_to_parse
<1>4. chunk_nr \in Nat /\ chunks \in Seq(Chunk) /\ chunks # <<>>
      /\ 2 \in 1..Len(chunks) /\ junk_chunks \in Seq(Chunk)
  BY <1>1, <1>3, ChunkAssumption DEF TypeOK
<1> DEFINE flag == chunks[2].gap \/ carried
           flagged == WithGap(chunks, 2, flag)
<1>5. flag \in BOOLEAN
  OBVIOUS
<1>6. chunks' = Tail(flagged)
  BY <1>2
<1> HIDE DEF flag
<1>7. /\ flagged \in Seq(Chunk) /\ Len(flagged) = Len(chunks)
      /\ Embeds(flagged, chunks)
      /\ \A k \in 1..Len(chunks) : flagged[k].nr = chunks[k].nr
  BY <1>4, <1>5, SetGap
<1>8. Head(flagged) = Head(chunks)
  <2>1. flagged[1] = chunks[1]
    BY <1>4 DEF WithGap
  <2>2. QED
    BY <2>1
<1> HIDE DEF flagged
<1>9. /\ Sorted(flagged) /\ Below(flagged, chunk_nr) /\ Before(flagged, junk_chunks)
      /\ flagged # <<>>
  <2>1. flagged # <<>>
    BY <1>3, <1>4, <1>7, EmptyOrdered
  <2>2. Sorted(flagged) /\ Below(flagged, chunk_nr) /\ Before(flagged, junk_chunks)
    BY <1>4, <1>7, EmbedsKeeps DEF IInv, OrderInv
  <2>3. QED
    BY <2>1, <2>2
<1>10. /\ parsed' \in Seq(Chunk) /\ Len(parsed') = 1
       /\ chunks' \in Seq(Chunk) /\ Len(chunks') = Len(chunks) - 1
       /\ Sorted(parsed') /\ Sorted(chunks')
       /\ Below(parsed', chunk_nr) /\ Below(chunks', chunk_nr)
       /\ Before(parsed', chunks')
       /\ Before(parsed', junk_chunks) /\ Before(chunks', junk_chunks)
  BY <1>3, <1>4, <1>6, <1>7, <1>8, <1>9, HeadTailOrdered
<1>11. restored = <<>>
  BY <1>3 DEF IInv, WalkInv
<1>12. TypeOK'
  BY <1>1, <1>3, <1>10 DEF TypeOK, sync, walk, history
<1>13. OrderInv'
  BY <1>3, <1>10, <1>11, EmptyOrdered DEF IInv, OrderInv
<1>14. WalkInv' /\ JunkCounted'
  BY <1>3, <1>11 DEF IInv, WalkInv, JunkCounted, sync, history
<1>15. AheadInv'
  BY <1>3, <1>4, <1>10 DEF AheadInv
<1>16. QED
  BY <1>12, <1>13, <1>14, <1>15 DEF IInv

LEMMA ParseDoneIInv == IInv /\ ParseDone => IInv'
<1> SUFFICES ASSUME IInv, ParseDone PROVE IInv'
  OBVIOUS
<1>1. /\ pc = "parse" /\ pc' = "get" /\ ~(Len(chunks) > 3)
      /\ UNCHANGED <<chunk_nr, lists, sync, walk, history>>
  BY DEF ParseDone, chunk_okay_to_parse
<1>2. TypeOK
  BY DEF IInv
<1>3. TypeOK'
  BY <1>1, <1>2 DEF TypeOK, lists, sync, walk, history
<1>4. OrderInv'
  BY <1>1 DEF IInv, OrderInv, Sorted, Below, Before, lists
<1>5. WalkInv' /\ JunkCounted'
  BY <1>1 DEF IInv, WalkInv, JunkCounted, lists, sync, history
<1>6. AheadInv'
  BY <1>1, <1>2 DEF IInv, AheadInv, TypeOK, lists
<1>7. QED
  BY <1>3, <1>4, <1>5, <1>6 DEF IInv

LEMMA StutterIInv == IInv /\ UNCHANGED vars => IInv'
<1> SUFFICES ASSUME IInv, UNCHANGED vars PROVE IInv'
  OBVIOUS
<1> USE DEF vars, lists, sync, walk, history
<1>1. TypeOK'
  BY DEF IInv, TypeOK
<1>2. OrderInv'
  BY DEF IInv, OrderInv, Sorted, Below, Before
<1>3. WalkInv' /\ AheadInv' /\ JunkCounted'
  BY DEF IInv, WalkInv, AheadInv, JunkCounted
<1>4. QED
  BY <1>1, <1>2, <1>3 DEF IInv

LEMMA NextIInv == IInv /\ [Next]_vars => IInv'
<1> SUFFICES ASSUME IInv, [Next]_vars PROVE IInv'
  OBVIOUS
<1>1. CASE GetChunk
  BY <1>1, UnreadableIInv, NoVideoIInv, AdmitIInv, JunkIInv DEF GetChunk
<1>2. CASE JunkWalk
  BY <1>2, JunkInSyncIInv, JunkLastIInv, JunkOssIInv, JunkHoleIInv, JunkNoLuckIInv,
     JunkDoneIInv DEF JunkWalk
<1>3. CASE AddRestored
  BY <1>3, AddRestoredIInv
<1>4. CASE ParseChunk
  BY <1>4, ParseChunkIInv
<1>5. CASE ParseDone
  BY <1>5, ParseDoneIInv
<1>6. CASE Stop \/ UNCHANGED vars
  BY <1>6, StutterIInv DEF Stop
<1>7. QED
  BY <1>1, <1>2, <1>3, <1>4, <1>5, <1>6 DEF Next

-----------------------------------------------------------------------------
(* The theorems.                                                           *)

(* The invariant holds in every state of the demultiplexer.                *)
THEOREM ChunkInvariant == Spec => []IInv
BY InitIInv, NextIInv, PTL DEF Spec

(* The chunk state keeps its types, for every stream and every window; the *)
(* junk counter stays between -1 and JUNK_CHUNK_BUFFER_SIZE.               *)
THEOREM ChunkTypeCorrect == Spec => []TypeOK
<1>1. IInv => TypeOK
  BY DEF IInv
<1>2. QED
  BY ChunkInvariant, <1>1, PTL

(* However chunks are set aside, restored, dropped as duplicates or parsed, *)
(* none is ever held twice and none is put before an earlier chunk of the  *)
(* stream.                                                                 *)
THEOREM ChunksInStreamOrder == Spec => []InStreamOrder
<1>1. IInv => InStreamOrder
  BY OrderInvSuffices DEF IInv
<1>2. QED
  BY ChunkInvariant, <1>1, PTL

(* check_chunk's counter equals the length of the junk list, or is one     *)
(* behind it after a lost list, and never passes the value at which        *)
(* check_chunk compares it with ==.                                        *)
THEOREM JunkIsCounted == Spec => []JunkCounted
<1>1. IInv => JunkCounted
  BY DEF IInv
<1>2. QED
  BY ChunkInvariant, <1>1, PTL

(* At most three chunks wait to be parsed between two calls of get_chunk,  *)
(* and at least three once any was parsed.                                 *)
THEOREM ParseKeepsLookAhead == Spec => []LookAhead
<1>1. IInv => LookAhead
  BY DEF IInv, AheadInv, LookAhead
<1>2. QED
  BY ChunkInvariant, <1>1, PTL

(* The lists of chunks and the counter of junk agree, for every stream.    *)
THEOREM ListsAreCounted == Spec => []ListsCounted
<1>1. TypeOK /\ JunkCounted /\ LookAhead => ListsCounted
  BY DEF ListsCounted
<1>2. QED
  BY <1>1, ChunkTypeCorrect, JunkIsCounted, ParseKeepsLookAhead, PTL

-----------------------------------------------------------------------------
(* The reference of the stream and its recovery.                           *)

(* The newest run of chunks in sync is at the end of the junk list, or the *)
(* stream's reference is its last chunk.                                   *)
RunInv ==
    /\ junk_chunks = <<>> /\ run > 0 => last_tick = newest.last
    /\ junk_chunks # <<>> =>
         /\ newest.layout # 0 /\ newest.layout = Newest(junk_chunks).layout
         /\ run > 0 => newest.last = Newest(junk_chunks).last
         /\ pc \in {"get", "parse"} => run <= Len(junk_chunks)

LEMMA Windows ==
    /\ OkTicks * StdMed \in Nat /\ HoleTicks * StdMed \in Nat
    /\ SyncTicks * StdMed \in Nat
    /\ OkTicks * StdMed <= HoleTicks * StdMed
    /\ HoleTicks * StdMed <= SyncTicks * StdMed
<1>1. \A a, b, m \in Nat : a <= b => a * m \in Nat /\ b * m \in Nat /\ a * m <= b * m
  OBVIOUS
<1>2. OkTicks \in Nat /\ HoleTicks \in Nat /\ SyncTicks \in Nat /\ StdMed \in Nat
  BY ChunkAssumption
<1>3. OkTicks <= HoleTicks /\ HoleTicks <= SyncTicks
  BY ChunkAssumption
<1>4. QED
  BY <1>1, <1>2, <1>3

LEMMA DistType ==
    ASSUME NEW a \in Nat, NEW b \in Nat
    PROVE  Dist(a, b) \in Nat /\ Dist(a, a) = 0
BY DEF Dist

LEMMA StreamContent ==
    ASSUME NEW c \in Contents
    PROVE  c \in Content /\ c.layout # 0
BY ChunkAssumption DEF Content, Contents

(* Two chunks that differ at most in their flags.                          *)
Alike(x, y) ==
    x.first = y.first /\ x.last = y.last /\ x.med = y.med /\ x.layout = y.layout

(* r is s with the flag of element i set to v.                             *)
Reflagged(r, s, i, v) ==
    /\ r \in Seq(Chunk) /\ Len(r) = Len(s)
    /\ \A k \in 1..Len(s) : /\ Alike(r[k], s[k])
                            /\ k # i => r[k].gap = s[k].gap
    /\ r[i].gap = v

LEMMA GapFields ==
    ASSUME NEW s \in Seq(Chunk), NEW i \in 1..Len(s), NEW v \in BOOLEAN
    PROVE  Reflagged(WithGap(s, i, v), s, i, v)
<1> DEFINE r == WithGap(s, i, v)
<1>1. r \in Seq(Chunk) /\ Len(r) = Len(s)
  BY SetGap
<1>2. s[i] \in Chunk
  BY ElementOfSeq
<1>3. Alike([s[i] EXCEPT !.gap = v], s[i]) /\ [s[i] EXCEPT !.gap = v].gap = v
  BY <1>2 DEF Chunk, Alike
<1>4. r[i] = [s[i] EXCEPT !.gap = v] /\ \A k \in 1..Len(s) : k # i => r[k] = s[k]
  BY DEF WithGap
<1>5. \A k \in 1..Len(s) : Alike(r[k], s[k]) /\ (k # i => r[k].gap = s[k].gap)
  <2> TAKE k \in 1..Len(s)
  <2>1. CASE k = i
    BY <1>3, <1>4, <2>1
  <2>2. CASE k # i
    BY <1>4, <2>2 DEF Alike
  <2>3. QED
    BY <2>1, <2>2
<1>6. QED
  BY <1>1, <1>3, <1>4, <1>5 DEF Reflagged

LEMMA RemoveAtElements ==
    ASSUME NEW s \in Seq(Chunk), NEW i \in 1..Len(s)
    PROVE  \A k \in 1..(Len(s) - 1) :
             RemoveAt(s, i)[k] = IF k < i THEN s[k] ELSE s[k + 1]
<1> DEFINE a == SubSeq(s, 1, i - 1)
           b == SubSeq(s, i + 1, Len(s))
<1>1. /\ a \in Seq(Chunk) /\ Len(a) = i - 1
      /\ \A k \in 1..(i - 1) : a[k] = s[k]
  OBVIOUS
<1>2. /\ b \in Seq(Chunk) /\ Len(b) = Len(s) - i
      /\ \A k \in 1..(Len(s) - i) : b[k] = s[i + k]
  OBVIOUS
<1>3. RemoveAt(s, i) = a \o b
  BY DEF RemoveAt
<1> HIDE DEF a, b
<1>4. \A k \in 1..(Len(a) + Len(b)) :
        (a \o b)[k] = IF k <= Len(a) THEN a[k] ELSE b[k - Len(a)]
  BY <1>1, <1>2, ConcatProperties
<1>5. ASSUME NEW k \in 1..(Len(s) - 1)
      PROVE  (a \o b)[k] = IF k < i THEN s[k] ELSE s[k + 1]
  <2>1. (a \o b)[k] = IF k <= Len(a) THEN a[k] ELSE b[k - Len(a)]
    BY <1>1, <1>2, <1>4
  <2>2. CASE k < i
    BY <2>1, <2>2, <1>1
  <2>3. CASE ~(k < i)
    <3>1. k - Len(a) \in 1..(Len(s) - i) /\ i + (k - Len(a)) = k + 1 /\ ~(k <= Len(a))
      BY <2>3, <1>1
    <3>2. b[k - Len(a)] = s[k + 1]
      BY <3>1, <1>2
    <3>3. QED
      BY <2>1, <2>3, <3>1, <3>2
  <2>4. QED
    BY <2>2, <2>3
<1>6. QED
  BY <1>3, <1>5

(* What a step of the walk does to the junk list.                          *)
LEMMA InSyncStep ==
    ASSUME IInv, JunkInSync
    PROVE  /\ Walking /\ ~Far(cur, prev)
           /\ junk_chunks' \in Seq(Chunk) /\ Len(junk_chunks') = Len(junk_chunks)
           /\ \A k \in 1..Len(junk_chunks) :
                /\ Alike(junk_chunks'[k], junk_chunks[k])
                /\ k # at => junk_chunks'[k].gap = junk_chunks[k].gap
           /\ at' = at + 1 /\ out_of_sync' = out_of_sync /\ pc' \in {"junk", "exited"}
           /\ UNCHANGED <<chunks, parsed, restored, last_tick, med_ticks, run, newest,
                          cleared>>
<1>1. Walking /\ ~Far(cur, prev) /\ junk_chunks' = WithGap(junk_chunks, at, ~Near(cur, prev))
  BY DEF JunkInSync
<1>2. (~Near(cur, prev)) \in BOOLEAN
  OBVIOUS
<1>3. at \in 1..Len(junk_chunks) /\ junk_chunks \in Seq(Chunk)
  BY <1>1, WalkingFacts
<1>4. /\ junk_chunks' \in Seq(Chunk) /\ Len(junk_chunks') = Len(junk_chunks)
      /\ \A k \in 1..Len(junk_chunks) :
           /\ Alike(junk_chunks'[k], junk_chunks[k])
           /\ k # at => junk_chunks'[k].gap = junk_chunks[k].gap
  <2>1. Reflagged(junk_chunks', junk_chunks, at, ~Near(cur, prev))
    BY <1>1, <1>2, <1>3, GapFields
  <2>2. QED
    BY <2>1 DEF Reflagged
<1>5. /\ at' = at + 1 /\ out_of_sync' = out_of_sync /\ pc' \in {"junk", "exited"}
      /\ UNCHANGED <<chunks, parsed, restored, last_tick, med_ticks, run, newest, cleared>>
  BY DEF JunkInSync, Advance, sync, history
<1>6. QED
  BY <1>1, <1>4, <1>5

LEMMA HoleStep ==
    ASSUME IInv, JunkHole
    PROVE  /\ Walking /\ at < Len(junk_chunks) /\ ~Far(next, cur)
           /\ junk_chunks' \in Seq(Chunk) /\ Len(junk_chunks') = Len(junk_chunks)
           /\ \A k \in 1..Len(junk_chunks) :
                /\ Alike(junk_chunks'[k], junk_chunks[k])
                /\ k < at => junk_chunks'[k].gap = junk_chunks[k].gap
           /\ junk_chunks'[at].gap
           /\ at' = at + 1 /\ out_of_sync' = out_of_sync /\ pc' \in {"junk", "exited"}
           /\ UNCHANGED <<chunks, parsed, restored, last_tick, med_ticks, run, newest,
                          cleared>>
<1>1. /\ Walking /\ at < Len(junk_chunks) /\ ~Far(next, cur)
      /\ junk_chunks' = WithGap(WithGap(junk_chunks, at, TRUE), at + 1, ~Near(next, cur))
  BY DEF JunkHole, Suspect
<1> DEFINE q == WithGap(junk_chunks, at, TRUE)
           v == ~Near(next, cur)
<1>2. v \in BOOLEAN /\ TRUE \in BOOLEAN
  OBVIOUS
<1>3. /\ at \in 1..Len(junk_chunks) /\ at + 1 \in 1..Len(junk_chunks)
      /\ junk_chunks \in Seq(Chunk)
  BY <1>1, WalkingFacts
<1>4. junk_chunks' = WithGap(q, at + 1, v)
  BY <1>1
<1> HIDE DEF v
<1>5. /\ q \in Seq(Chunk) /\ Len(q) = Len(junk_chunks)
      /\ \A k \in 1..Len(junk_chunks) :
           /\ Alike(q[k], junk_chunks[k])
           /\ k # at => q[k].gap = junk_chunks[k].gap
      /\ q[at].gap
  <2>1. Reflagged(q, junk_chunks, at, TRUE)
    BY <1>2, <1>3, GapFields
  <2>2. QED
    BY <2>1 DEF Reflagged
<1> HIDE DEF q
<1>6. /\ junk_chunks' \in Seq(Chunk) /\ Len(junk_chunks') = Len(junk_chunks)
      /\ \A k \in 1..Len(junk_chunks) :
           /\ Alike(junk_chunks'[k], q[k])
           /\ k # at + 1 => junk_chunks'[k].gap = q[k].gap
  <2>1. Reflagged(junk_chunks', q, at + 1, v)
    BY <1>2, <1>3, <1>4, <1>5, GapFields
  <2>2. QED
    BY <1>5, <2>1 DEF Reflagged
<1>7. /\ \A k \in 1..Len(junk_chunks) :
           /\ Alike(junk_chunks'[k], junk_chunks[k])
           /\ k < at => junk_chunks'[k].gap = junk_chunks[k].gap
      /\ junk_chunks'[at].gap
  BY <1>3, <1>5, <1>6 DEF Alike
<1>8. /\ at' = at + 1 /\ out_of_sync' = out_of_sync /\ pc' \in {"junk", "exited"}
      /\ UNCHANGED <<chunks, parsed, restored, last_tick, med_ticks, run, newest, cleared>>
  BY DEF JunkHole, Advance, sync, history
<1>9. QED
  BY <1>1, <1>6, <1>7, <1>8

LEMMA OssStep ==
    ASSUME IInv, JunkOss
    PROVE  /\ Walking /\ at < Len(junk_chunks) /\ Far(cur, prev) /\ ~Far(next, prev)
           /\ junk_chunks' \in Seq(Chunk) /\ Len(junk_chunks') = Len(junk_chunks) - 1
           /\ \A k \in 1..Len(junk_chunks') :
                /\ k < at => Alike(junk_chunks'[k], junk_chunks[k])
                /\ k >= at => Alike(junk_chunks'[k], junk_chunks[k + 1])
                /\ k < at - 1 => junk_chunks'[k].gap = junk_chunks[k].gap
           /\ at' = at /\ out_of_sync' = out_of_sync
           /\ pc' \in {"junk", "exited", "undefined"}
           /\ cleared' = (cleared \/ at = 2)
           /\ UNCHANGED <<chunks, parsed, restored, last_tick, med_ticks, run, newest>>
<1>1. /\ Walking /\ at < Len(junk_chunks) /\ Far(cur, prev) /\ ~Far(next, prev)
      /\ junk_chunks' = RemoveAt(WithGap(WithGap(junk_chunks, at - 1, FALSE),
                                         at + 1, ~Near(next, prev)), at)
  BY DEF JunkOss, Suspect
<1> DEFINE q == WithGap(junk_chunks, at - 1, FALSE)
           v == ~Near(next, prev)
           r == WithGap(q, at + 1, v)
<1>2. v \in BOOLEAN /\ FALSE \in BOOLEAN
  OBVIOUS
<1>3. /\ at \in 2..Len(junk_chunks) /\ at + 1 \in 1..Len(junk_chunks)
      /\ at - 1 \in 1..Len(junk_chunks) /\ junk_chunks \in Seq(Chunk)
  BY <1>1, WalkingFacts
<1>4. junk_chunks' = RemoveAt(r, at)
  BY <1>1
<1> HIDE DEF v
<1>5. /\ q \in Seq(Chunk) /\ Len(q) = Len(junk_chunks)
      /\ \A k \in 1..Len(junk_chunks) :
           /\ Alike(q[k], junk_chunks[k])
           /\ k # at - 1 => q[k].gap = junk_chunks[k].gap
  <2>1. Reflagged(q, junk_chunks, at - 1, FALSE)
    BY <1>2, <1>3, GapFields
  <2>2. QED
    BY <2>1 DEF Reflagged
<1> HIDE DEF q
<1>6. /\ r \in Seq(Chunk) /\ Len(r) = Len(junk_chunks)
      /\ \A k \in 1..Len(junk_chunks) :
           /\ Alike(r[k], q[k])
           /\ k # at + 1 => r[k].gap = q[k].gap
  <2>1. Reflagged(r, q, at + 1, v)
    BY <1>2, <1>3, <1>5, GapFields
  <2>2. QED
    BY <1>5, <2>1 DEF Reflagged
<1> HIDE DEF r
<1>7. /\ junk_chunks' \in Seq(Chunk) /\ Len(junk_chunks') = Len(junk_chunks) - 1
      /\ \A k \in 1..(Len(junk_chunks) - 1) :
           junk_chunks'[k] = IF k < at THEN r[k] ELSE r[k + 1]
  <2>1. at \in 1..Len(r)
    BY <1>3, <1>6
  <2>2. QED
    BY <1>4, <1>6, <2>1, RemoveAtProperties, RemoveAtElements
<1>8. ASSUME NEW k \in 1..Len(junk_chunks')
      PROVE  /\ k < at => Alike(junk_chunks'[k], junk_chunks[k])
             /\ k >= at => Alike(junk_chunks'[k], junk_chunks[k + 1])
             /\ k < at - 1 => junk_chunks'[k].gap = junk_chunks[k].gap
  <2>1. /\ k \in 1..Len(junk_chunks) /\ k + 1 \in 1..Len(junk_chunks)
        /\ junk_chunks'[k] = IF k < at THEN r[k] ELSE r[k + 1]
    BY <1>3, <1>7
  <2>2. Alike(r[k], junk_chunks[k]) /\ Alike(r[k + 1], junk_chunks[k + 1])
    BY <1>5, <1>6, <2>1 DEF Alike
  <2>3. ASSUME k < at - 1 PROVE r[k].gap = junk_chunks[k].gap
    <3>1. k # at - 1 /\ k # at + 1
      BY <1>3, <2>3
    <3>2. r[k].gap = q[k].gap
      BY <1>6, <2>1, <3>1
    <3>3. q[k].gap = junk_chunks[k].gap
      BY <1>5, <2>1, <3>1
    <3>4. QED
      BY <3>2, <3>3
  <2>4. QED
    BY <1>3, <2>1, <2>2, <2>3
<1>9. /\ at' = at /\ out_of_sync' = out_of_sync
      /\ pc' \in {"junk", "exited", "undefined"} /\ cleared' = (cleared \/ at = 2)
      /\ UNCHANGED <<chunks, parsed, restored, last_tick, med_ticks, run, newest>>
  BY DEF JunkOss, Advance, sync
<1>10. QED
  BY <1>1, <1>7, <1>8, <1>9

(* The two steps that change no chunk.                                     *)
LEMMA IdleStep ==
    ASSUME IInv, JunkNoLuck \/ JunkLast
    PROVE  /\ Walking /\ junk_chunks' = junk_chunks
           /\ pc' \in {"junk", "exited", "crashed"}
           /\ pc' = "junk" => out_of_sync' # 0
           /\ UNCHANGED <<chunks, parsed, restored, last_tick, med_ticks, run, newest,
                          cleared>>
<1>1. out_of_sync \in Nat
  BY DEF IInv, TypeOK
<1>2. QED
  BY <1>1
  DEF JunkNoLuck, JunkLast, Suspect, Advance, lists, sync, walk, history

LEMMA DoneStep ==
    ASSUME IInv, JunkDone
    PROVE  /\ pc = "junk" /\ pc' = "add" /\ out_of_sync = 0
           /\ junk_chunks \in Seq(Chunk) /\ junk_chunks # <<>>
           /\ Len(junk_chunks) \in 1..Len(junk_chunks) /\ at = Len(junk_chunks) + 1
           /\ restored' = junk_chunks /\ junk_chunks' = <<>>
           /\ med_ticks' = Newest(junk_chunks).med
           /\ last_tick' = Newest(junk_chunks).last
           /\ UNCHANGED <<chunks, parsed, run, newest, cleared>>
<1>1. /\ pc = "junk" /\ at > Len(junk_chunks)
      /\ at \in 2..(Len(junk_chunks) + 1)
      /\ junk_chunks \in Seq(Chunk) /\ Len(junk_chunks) \in Nat
      /\ out_of_sync = 0
  BY DEF IInv, WalkInv, TypeOK, JunkDone
<1>2. /\ at - 1 = Len(junk_chunks) /\ Len(junk_chunks) \in 1..Len(junk_chunks)
      /\ junk_chunks # <<>> /\ at = Len(junk_chunks) + 1
  BY <1>1
<1>3. /\ restored' = SubSeq(junk_chunks, 1, Len(junk_chunks))
      /\ junk_chunks' = SubSeq(junk_chunks, Len(junk_chunks) + 1, Len(junk_chunks))
      /\ med_ticks' = Newest(junk_chunks).med
      /\ last_tick' = Newest(junk_chunks).last
  BY <1>1, <1>2 DEF JunkDone, LeftAside, RestoredReference, Newest
<1>4. /\ SubSeq(junk_chunks, 1, Len(junk_chunks)) = junk_chunks
      /\ SubSeq(junk_chunks, Len(junk_chunks) + 1, Len(junk_chunks)) = <<>>
  BY <1>1, SubSeqFull, SubSeqEmpty
<1>5. pc' = "add" /\ UNCHANGED <<chunks, parsed, run, newest, cleared>>
  BY DEF JunkDone
<1>6. QED
  BY <1>1, <1>2, <1>3, <1>4, <1>5

-----------------------------------------------------------------------------
LEMMA InitRun == Init => RunInv
BY DEF Init, RunInv

LEMMA AdmitRun == IInv /\ RunInv /\ Admit => RunInv'
<1> SUFFICES ASSUME Admit PROVE RunInv'
  OBVIOUS
<1>1. PICK c \in Contents : last_tick' = c.last /\ NoteRun(c)
  BY DEF Admit
<1>2. newest' = c /\ junk_chunks' = <<>>
  BY <1>1 DEF Admit, NoteRun
<1>3. QED
  BY <1>1, <1>2 DEF RunInv

(* A chunk that is set aside lengthens the run by what it lengthens the    *)
(* list by; a run never starts with the chunk before the list, with which  *)
(* the chunk would have been in sync.                                      *)
LEMMA JunkRun == IInv /\ RunInv /\ Junk => RunInv'
<1> SUFFICES ASSUME IInv, RunInv, Junk PROVE RunInv'
  OBVIOUS
<1>1. PICK c \in Contents :
        /\ ~InSync(c) /\ NoteRun(c)
        /\ junk_chunks' = AddOne(JunkChunk(c), junk_chunks)
  BY DEF Junk
<1>2. /\ pc = "get" /\ newest' = c
      /\ UNCHANGED <<last_tick, med_ticks>>
  BY <1>1 DEF Junk, Read, NoteRun
<1>3. /\ c \in Content /\ c.layout # 0 /\ junk_chunks \in Seq(Chunk)
      /\ newest \in Content /\ run \in Nat /\ Len(junk_chunks) \in Nat
  BY StreamContent, LenProperties DEF IInv, TypeOK, Content
<1>4. JunkChunk(c).layout = c.layout /\ JunkChunk(c).last = c.last
  BY DEF JunkChunk
<1>5. JunkChunk(c) \in Chunk
  <2>1. TypeOK /\ Read
    BY DEF IInv, Junk
  <2>2. QED
    BY <2>1, ReadTypes
<1>6. run' \in {0, 1, run + 1} /\ (run' # 0 => Sound(c))
      /\ (run' = 0 \/ run' = 1 \/ Continues(c))
  BY <1>1 DEF NoteRun
<1>7. CASE Duplicate(JunkChunk(c), junk_chunks)
  <2>1. /\ junk_chunks' = junk_chunks /\ junk_chunks # <<>>
        /\ Newest(junk_chunks).layout = c.layout
    BY <1>1, <1>4, <1>7 DEF AddOne, Duplicate
  <2>2. newest.layout = c.layout /\ newest.layout # 0
    BY <1>3, <2>1 DEF RunInv
  <2>3. newest # Nothing
    BY <2>2 DEF Nothing
  <2>4. run' = 0
    BY <1>6, <2>2, <2>3 DEF Sound
  <2>5. QED
    BY <1>2, <1>3, <2>1, <2>4, LenProperties DEF RunInv
<1>8. CASE ~Duplicate(JunkChunk(c), junk_chunks)
  <2>1. /\ junk_chunks' = Append(junk_chunks, JunkChunk(c))
        /\ Len(junk_chunks') = Len(junk_chunks) + 1
        /\ Newest(junk_chunks') = JunkChunk(c)
    <3>1. junk_chunks' = Append(junk_chunks, JunkChunk(c))
      BY <1>1, <1>8 DEF AddOne
    <3>2. QED
      BY <1>3, <1>5, <3>1, AppendProperties DEF Newest
  <2>2. run' <= Len(junk_chunks')
    <3>1. CASE junk_chunks = <<>>
      <4>1. ~Continues(c)
        <5> SUFFICES ASSUME Continues(c) PROVE FALSE
          OBVIOUS
        <5>1. Dist(c.first, last_tick) <= OkTicks * StdMed /\ med_ticks = StdMed
          BY <3>1 DEF Continues, RunInv
        <5>2. Dist(c.first, last_tick) \in Nat
          BY <1>3, DistType DEF IInv, TypeOK, Content
        <5>3. Dist(c.first, last_tick) <= SyncTicks * med_ticks
          BY <5>1, <5>2, Windows
        <5>4. QED
          BY <1>1, <5>3 DEF InSync
      <4>2. QED
        BY <1>3, <1>6, <2>1, <4>1
    <3>2. CASE junk_chunks # <<>>
      <4>1. run <= Len(junk_chunks)
        BY <1>2, <3>2 DEF RunInv
      <4>2. QED
        BY <1>3, <1>6, <2>1, <4>1
    <3>3. QED
      BY <3>1, <3>2
  <2>3. QED
    BY <1>2, <1>3, <1>4, <2>1, <2>2 DEF RunInv
<1>9. QED
  BY <1>7, <1>8

(* The walk keeps the last chunk of the list.                              *)
LEMMA WalkRun ==
    ASSUME RunInv, pc' \notin {"get", "parse"}, junk_chunks # <<>>, junk_chunks' # <<>>,
           Alike(Newest(junk_chunks)', Newest(junk_chunks)), UNCHANGED <<run, newest>>
    PROVE  RunInv'
BY DEF RunInv, Alike

LEMMA JunkWalkRun == IInv /\ RunInv /\ JunkWalk => RunInv'
<1> SUFFICES ASSUME IInv, RunInv, JunkWalk PROVE RunInv'
  OBVIOUS
<1> DEFINE n == Len(junk_chunks)
<1>1. ASSUME Walking PROVE junk_chunks # <<>> /\ n \in Nat /\ at \in 2..n
  BY <1>1, WalkingFacts
<1>2. CASE JunkInSync
  <2>1. /\ Walking /\ Len(junk_chunks') = n /\ Alike(junk_chunks'[n], junk_chunks[n])
        /\ pc' \in {"junk", "exited"} /\ UNCHANGED <<run, newest>>
    BY <1>1, <1>2, InSyncStep
  <2>2. junk_chunks' # <<>>
    BY <1>1, <2>1
  <2>3. Alike(Newest(junk_chunks)', Newest(junk_chunks))
    BY <2>1 DEF Newest
  <2>4. QED
    BY <1>1, <2>1, <2>2, <2>3, WalkRun
<1>3. CASE JunkHole
  <2>1. /\ Walking /\ Len(junk_chunks') = n /\ Alike(junk_chunks'[n], junk_chunks[n])
        /\ pc' \in {"junk", "exited"} /\ UNCHANGED <<run, newest>>
    BY <1>1, <1>3, HoleStep
  <2>2. junk_chunks' # <<>>
    BY <1>1, <2>1
  <2>3. Alike(Newest(junk_chunks)', Newest(junk_chunks))
    BY <2>1 DEF Newest
  <2>4. QED
    BY <1>1, <2>1, <2>2, <2>3, WalkRun
<1>4. CASE JunkOss
  <2>1. /\ Walking /\ at < n /\ Len(junk_chunks') = n - 1
        /\ \A k \in 1..(n - 1) : k >= at => Alike(junk_chunks'[k], junk_chunks[k + 1])
        /\ pc' \in {"junk", "exited", "undefined"} /\ UNCHANGED <<run, newest>>
    BY <1>4, OssStep
  <2>2. n - 1 \in 1..(n - 1) /\ n - 1 >= at /\ (n - 1) + 1 = n
    BY <1>1, <2>1
  <2>3. junk_chunks' # <<>>
    BY <2>1, <2>2
  <2>4. Alike(junk_chunks'[n - 1], junk_chunks[n])
    BY <2>1, <2>2
  <2>5. Alike(Newest(junk_chunks)', Newest(junk_chunks))
    BY <2>1, <2>4 DEF Newest
  <2>6. QED
    BY <1>1, <2>1, <2>3, <2>5, WalkRun
<1>5. CASE JunkNoLuck \/ JunkLast
  <2>1. /\ Walking /\ UNCHANGED <<junk_chunks, run, newest>>
        /\ pc' \in {"junk", "exited", "crashed"}
    BY <1>5, IdleStep
  <2>2. QED
    BY <1>1, <2>1, WalkRun DEF Alike
<1>6. CASE JunkDone
  <2>1. /\ junk_chunks # <<>> /\ junk_chunks' = <<>>
        /\ last_tick' = Newest(junk_chunks).last /\ UNCHANGED <<run, newest>>
    BY <1>6, DoneStep
  <2>2. QED
    BY <2>1 DEF RunInv
<1>7. QED
  BY <1>2, <1>3, <1>4, <1>5, <1>6 DEF JunkWalk

LEMMA NextRun == IInv /\ RunInv /\ [Next]_vars => RunInv'
<1> SUFFICES ASSUME IInv, RunInv, [Next]_vars PROVE RunInv'
  OBVIOUS
<1>1. CASE Unreadable
  BY <1>1 DEF Unreadable, Read, RunInv, lists, sync, history
<1>2. CASE NoVideo
  BY <1>2 DEF NoVideo, RunInv
<1>3. CASE Admit
  BY <1>3, AdmitRun
<1>4. CASE Junk
  BY <1>4, JunkRun
<1>5. CASE JunkWalk
  BY <1>5, JunkWalkRun
<1>6. CASE AddRestored
  <2>1. junk_chunks = <<>>
    BY <1>6 DEF AddRestored, IInv, WalkInv
  <2>2. QED
    BY <1>6, <2>1 DEF AddRestored, RunInv
<1>7. CASE ParseChunk \/ ParseDone
  BY <1>7 DEF ParseChunk, ParseDone, RunInv, lists, sync, history
<1>8. CASE Stop \/ UNCHANGED vars
  BY <1>8 DEF Stop, vars, RunInv, lists, sync, history
<1>9. QED
  BY <1>1, <1>2, <1>3, <1>4, <1>5, <1>6, <1>7, <1>8 DEF Next, GetChunk

LEMMA RunInvFollows == IInv /\ RunInv => SyncReference /\ Recovers
<1> SUFFICES ASSUME IInv, RunInv PROVE SyncReference /\ Recovers
  OBVIOUS
<1>1. /\ junk_chunks \in Seq(Chunk) /\ Len(junk_chunks) \in Nat
      /\ run \in Nat /\ JunkSize \in Nat /\ JunkSize >= 3
  BY LenProperties, ChunkAssumption DEF IInv, TypeOK
<1>2. SyncReference
  <2> SUFFICES ASSUME pc \in {"get", "parse"}, run > 0, ~lost, cons_junk_chunk = 0
               PROVE  last_tick = newest.last
    BY DEF SyncReference
  <2>1. Len(junk_chunks) = 0
    BY <1>1 DEF IInv, JunkCounted
  <2>2. junk_chunks = <<>>
    BY <1>1, <2>1, EmptySeq
  <2>3. QED
    BY <2>2 DEF RunInv
<1>3. Recovers
  <2> DEFINE behind == IF lost THEN 1 ELSE 0
  <2> SUFFICES ASSUME pc \in {"get", "parse"}, run >= JunkSize + behind
               PROVE  last_tick = newest.last
    BY DEF Recovers
  <2>1. behind \in {0, 1}
    OBVIOUS
  <2>2. cons_junk_chunk = Len(junk_chunks) - behind /\ cons_junk_chunk < JunkSize
    BY DEF IInv, JunkCounted
  <2> HIDE DEF behind
  <2>3. Len(junk_chunks) < JunkSize + behind /\ run > 0
    BY <1>1, <2>1, <2>2
  <2>4. junk_chunks = <<>>
    BY <1>1, <2>1, <2>3 DEF RunInv
  <2>5. QED
    BY <2>3, <2>4 DEF RunInv
<1>4. QED
  BY <1>2, <1>3

(* SyncReference, for every stream: while nothing is set aside the next    *)
(* chunk is compared with the chunk it follows.                            *)
THEOREM ReferenceFollowsStream == Spec => []SyncReference
<1>1. Init => IInv /\ RunInv
  BY InitIInv, InitRun
<1>2. IInv /\ RunInv /\ [Next]_vars => IInv' /\ RunInv'
  BY NextIInv, NextRun
<1>3. IInv /\ RunInv => SyncReference
  BY RunInvFollows
<1>4. QED
  BY <1>1, <1>2, <1>3, PTL DEF Spec

(* Recovers, for every stream and JUNK_CHUNK_BUFFER_SIZE: that many chunks *)
(* in sync with each other always become the stream, whatever came before  *)
(* them and whatever check_junk did to the others.                         *)
THEOREM StreamRecovers == Spec => []Recovers
<1>1. Init => IInv /\ RunInv
  BY InitIInv, InitRun
<1>2. IInv /\ RunInv /\ [Next]_vars => IInv' /\ RunInv'
  BY NextIInv, NextRun
<1>3. IInv /\ RunInv => Recovers
  BY RunInvFollows
<1>4. QED
  BY <1>1, <1>2, <1>3, PTL DEF Spec

-----------------------------------------------------------------------------
(* The gap flags of an ordinary stream.                                    *)

(* The chunks put aside: the junk list, or what is handed back of it.      *)
Aside == IF pc = "add" THEN restored ELSE junk_chunks

Wide(b, a) == Dist(b.first, a.last) > SyncTicks * StdMed
Breach(b, a) == Dist(b.first, a.last) > HoleTicks * StdMed

(* Up to its n-th chunk the list has a flag at every hole.                 *)
MarkedTo(list, n) == \A i \in 2..n : Breach(list[i], list[i - 1]) => list[i].gap

(* As a chunk of the stream was put aside, and what is kept of the last    *)
(* admitted one.                                                           *)
FromStream(s, x) ==
    \E c \in s : /\ x.first = c.first /\ x.last = c.last
                      /\ x.layout = c.layout /\ x.med = StdMed
Seen(s, x) == \E c \in s : x.last = c.last /\ x.layout = c.layout

(* While every chunk found a neighbour the walk leaves flags behind it,    *)
(* and it never looks at two holes in a row.                               *)
WalkMarks ==
    pc = "junk" /\ out_of_sync = 0 =>
      /\ MarkedTo(junk_chunks, at - 1)
      /\ at \in 3..Len(junk_chunks) /\ Breach(junk_chunks[at], junk_chunks[at - 1])
           => ~Breach(junk_chunks[at - 1], junk_chunks[at - 2])

GapInv ==
    /\ med_ticks = StdMed
    /\ \A i \in 1..Len(Aside) : FromStream(stream, Aside[i])
    /\ chunks # <<>> => Seen(stream, Newest(chunks))
    /\ pc = "add" => last_tick = Newest(restored).last
    /\ pc # "add" /\ chunks # <<>> => last_tick = Newest(chunks).last
    /\ Aside # <<>> => /\ chunks # <<>> => Wide(Aside[1], Newest(chunks))
                       /\ cleared \/ Aside[1].gap
    /\ cleared \/ GapFlagged
    /\ WalkMarks
    /\ pc = "add" => MarkedTo(restored, Len(restored))

Marked(s) == \A i \in 1..(Len(s) - 1) : GapAt(s, i)

(* GapFlagged, list by list.                                               *)
LEMMA GapFlaggedParts ==
    ASSUME NEW p \in Seq(Chunk), Len(p) <= 1, NEW s \in Seq(Chunk)
    PROVE  Marked(p \o s) <=>
             Marked(s) /\ (p # <<>> /\ s # <<>> => (Wide(s[1], p[1]) => s[1].gap))
<1>1. Len(p) \in Nat /\ Len(s) \in Nat
  BY LenProperties
<1>2. CASE Len(p) = 0
  <2>1. p = <<>>
    BY <1>2, EmptySeq
  <2>2. p \o s = s
    BY <2>1, ConcatEmptySeq
  <2>3. QED
    BY <2>1, <2>2
<1>3. CASE Len(p) = 1
  <2> DEFINE l == p \o s
  <2>1. /\ Len(l) = Len(s) + 1 /\ l[1] = p[1]
        /\ \A i \in 1..Len(s) : l[i + 1] = s[i]
    <3>1. /\ Len(l) = Len(p) + Len(s)
          /\ \A i \in 1..(Len(p) + Len(s)) : l[i] = IF i <= Len(p) THEN p[i] ELSE s[i - Len(p)]
      BY ConcatProperties
    <3> HIDE DEF l
    <3>2. l[1] = p[1]
      BY <1>1, <1>3, <3>1
    <3>3. ASSUME NEW i \in 1..Len(s) PROVE l[i + 1] = s[i]
      <4>1. i + 1 \in 1..(Len(p) + Len(s)) /\ ~(i + 1 <= Len(p)) /\ i + 1 - Len(p) = i
        BY <1>1, <1>3
      <4>2. l[i + 1] = s[i + 1 - Len(p)]
        BY <3>1, <4>1
      <4>3. QED
        BY <4>1, <4>2
    <3>4. QED
      BY <1>1, <1>3, <3>1, <3>2, <3>3
  <2> HIDE DEF l
  <2>2. p # <<>> /\ (s # <<>> <=> 1 \in 1..Len(s))
    BY <1>1, <1>3, EmptySeq
  <2>3. ASSUME Marked(l) PROVE Marked(s) /\ (s # <<>> => (Wide(s[1], p[1]) => s[1].gap))
    <3>1. ASSUME NEW i \in 1..(Len(s) - 1) PROVE GapAt(s, i)
      <4>1. i + 1 \in 1..(Len(l) - 1) /\ l[i + 1] = s[i] /\ l[i + 1 + 1] = s[i + 1]
        BY <1>1, <2>1
      <4>2. GapAt(l, i + 1)
        BY <2>3, <4>1 DEF Marked
      <4>3. QED
        BY <4>1, <4>2 DEF GapAt
    <3>2. ASSUME s # <<>> PROVE Wide(s[1], p[1]) => s[1].gap
      <4>1. 1 \in 1..(Len(l) - 1) /\ l[1 + 1] = s[1]
        BY <1>1, <2>1, <2>2, <3>2
      <4>2. GapAt(l, 1)
        BY <2>3, <4>1 DEF Marked
      <4>3. QED
        BY <2>1, <4>1, <4>2 DEF GapAt, Wide
    <3>3. QED
      BY <3>1, <3>2 DEF Marked
  <2>4. ASSUME Marked(s), s # <<>> => (Wide(s[1], p[1]) => s[1].gap),
               NEW i \in 1..(Len(l) - 1)
        PROVE  GapAt(l, i)
    <3>1. CASE i = 1
      <4>1. s # <<>> /\ l[i + 1] = s[1] /\ l[i] = p[1]
        BY <1>1, <2>1, <2>2, <3>1
      <4>2. QED
        BY <2>4, <4>1 DEF GapAt, Wide
    <3>2. CASE i # 1
      <4>1. i - 1 \in 1..(Len(s) - 1) /\ l[i] = s[i - 1] /\ l[i + 1] = s[i - 1 + 1]
        <5>1. i - 1 \in 1..Len(s) /\ i \in 1..Len(s) /\ (i - 1) + 1 = i
          BY <1>1, <2>1, <3>2
        <5>2. l[(i - 1) + 1] = s[i - 1] /\ l[i + 1] = s[i]
          BY <2>1, <5>1
        <5>3. QED
          BY <1>1, <2>1, <3>2, <5>1, <5>2
      <4>2. GapAt(s, i - 1)
        BY <2>4, <4>1 DEF Marked
      <4>3. QED
        BY <4>1, <4>2 DEF GapAt
    <3>3. QED
      BY <3>1, <3>2
  <2>5. Marked(l) <=> Marked(s) /\ (s # <<>> => (Wide(s[1], p[1]) => s[1].gap))
    <3>1. Marked(s) /\ (s # <<>> => (Wide(s[1], p[1]) => s[1].gap)) => Marked(l)
      BY <2>4 DEF Marked
    <3>2. QED
      BY <2>3, <3>1
  <2>6. QED
    BY <2>2, <2>5 DEF l
<1>4. Len(p) = 0 \/ Len(p) = 1
  <2>1. \A n \in Nat : n <= 1 => n = 0 \/ n = 1
    OBVIOUS
  <2>2. QED
    BY <1>1, <2>1
<1>5. QED
  BY <1>2, <1>3, <1>4

LEMMA GapFlaggedLists ==
    ASSUME IInv
    PROVE  GapFlagged <=>
             /\ Marked(chunks)
             /\ parsed # <<>> /\ chunks # <<>> =>
                  (Wide(chunks[1], parsed[1]) => chunks[1].gap)
<1>1. parsed \in Seq(Chunk) /\ Len(parsed) <= 1 /\ chunks \in Seq(Chunk)
  BY DEF IInv, TypeOK
<1>2. GapFlagged <=> Marked(parsed \o chunks)
  BY DEF GapFlagged, Marked
<1>3. QED
  BY <1>1, <1>2, GapFlaggedParts

LEMMA InitGap == Init => GapInv
<1> SUFFICES ASSUME Init PROVE GapInv
  OBVIOUS
<1>1. IInv
  BY InitIInv
<1>2. /\ med_ticks = StdMed /\ chunks = <<>> /\ parsed = <<>> /\ junk_chunks = <<>>
      /\ pc = "get" /\ Len(<<>>) = 0
  BY DEF Init
<1>3. Aside = <<>>
  BY <1>2 DEF Aside
<1>4. GapFlagged
  BY <1>1, <1>2, GapFlaggedLists DEF Marked
<1>5. WalkMarks
  BY <1>2 DEF WalkMarks
<1>6. QED
  BY <1>2, <1>3, <1>4, <1>5 DEF GapInv

(* An ordinary stream: what a time stamp and a layout tell about a chunk.  *)
LEMMA OrdinaryChunk ==
    ASSUME Ordinary, NEW c \in stream
    PROVE  /\ c.med = StdMed /\ c.last # 0 /\ Dist(c.first, c.last) <= SyncTicks * StdMed
           /\ \A d \in stream : d.layout = c.layout => d = c
           /\ \A med : med = StdMed => MedOr(c, med) = StdMed
BY DEF Ordinary, MedOr

(* A step that changes nothing of what GapInv is about.                    *)
LEMMA StillGap ==
    ASSUME GapInv, stream' = stream, UNCHANGED <<chunks, parsed, last_tick, med_ticks, cleared>>,
           pc \in {"get", "parse"}, pc' \in {"get", "parse"},
           junk_chunks' = junk_chunks \/ junk_chunks' = <<>>
    PROVE  GapInv'
<1>1. Aside = junk_chunks /\ Aside' = junk_chunks'
  BY DEF Aside
<1>2. med_ticks' = StdMed /\ (chunks' # <<>> => last_tick' = Newest(chunks').last)
  BY DEF GapInv
<1>3. \A i \in 1..Len(Aside') : FromStream(stream', Aside'[i])
  BY <1>1 DEF GapInv, FromStream
<1>4. chunks' # <<>> => Seen(stream', Newest(chunks'))
  BY DEF GapInv, Seen
<1>5. Aside' # <<>> => /\ chunks' # <<>> => Wide(Aside'[1], Newest(chunks'))
                       /\ cleared' \/ Aside'[1].gap
  BY <1>1 DEF GapInv
<1>6. cleared' \/ GapFlagged'
  BY DEF GapInv, GapFlagged, GapAt
<1>7. WalkMarks'
  BY DEF WalkMarks
<1>8. QED
  BY <1>2, <1>3, <1>4, <1>5, <1>6, <1>7 DEF GapInv

LEMMA AdmitGap ==
    ASSUME Ordinary, IInv, GapInv, Admit, stream' = stream
    PROVE  GapInv'
<1>1. PICK c \in Contents :
        /\ c \in stream /\ InSync(c)
        /\ chunks' = AddOne([nr |-> chunk_nr',
                             first |-> IF last_tick = 0 THEN 0 ELSE c.first,
                             last |-> c.last, med |-> MedOr(c, StdMed),
                             layout |-> c.layout, gap |-> FALSE, junk |-> FALSE],
                            chunks)
        /\ last_tick' = c.last
        /\ med_ticks' = MedOr(c, med_ticks)
  BY DEF Admit
<1> DEFINE x == [nr |-> chunk_nr',
                 first |-> IF last_tick = 0 THEN 0 ELSE c.first,
                 last |-> c.last, med |-> MedOr(c, StdMed),
                 layout |-> c.layout, gap |-> FALSE, junk |-> FALSE]
<1>2. /\ Read /\ pc = "get" /\ pc' = "parse" /\ junk_chunks' = <<>>
      /\ parsed' = parsed /\ cleared' = cleared
  BY DEF Admit, Read
<1>3. TypeOK /\ chunks \in Seq(Chunk) /\ parsed \in Seq(Chunk) /\ Len(chunks) \in Nat
      /\ last_tick \in Nat
  BY LenProperties DEF IInv, TypeOK
<1>4. x \in Chunk
  <2>1. c \in Content /\ StdMed \in Int /\ MedOr(c, StdMed) \in Int /\ chunk_nr' \in Nat
    BY <1>2, <1>3, ReadTypes
  <2>2. QED
    BY <2>1 DEF Chunk, Content
<1>5. /\ x.last = c.last /\ x.layout = c.layout /\ x.first = IF last_tick = 0 THEN 0 ELSE c.first
      /\ chunks' = AddOne(x, chunks)
  BY <1>1
<1> HIDE DEF x
<1>6. med_ticks' = StdMed
  BY <1>1, OrdinaryChunk DEF GapInv
<1>7. Aside' = <<>>
  BY <1>2 DEF Aside
<1>8. IInv'
  BY AdmitIInv
<1>9. CASE Duplicate(x, chunks)
  <2>1. chunks' = chunks /\ chunks # <<>> /\ Newest(chunks).layout = c.layout
    BY <1>5, <1>9 DEF AddOne, Duplicate
  <2>2. PICK d \in stream : Newest(chunks).last = d.last /\ Newest(chunks).layout = d.layout
    BY <2>1 DEF GapInv, Seen
  <2>3. Newest(chunks).last = c.last
    BY <1>1, <2>1, <2>2, OrdinaryChunk
  <2>4. Seen(stream', Newest(chunks'))
    BY <2>1, <2>2 DEF Seen
  <2>5. cleared' \/ GapFlagged'
    BY <1>2, <2>1 DEF GapInv, GapFlagged, GapAt
  <2>6. QED
    BY <1>1, <1>2, <1>6, <1>7, <2>1, <2>3, <2>4, <2>5 DEF GapInv, WalkMarks
<1>10. CASE ~Duplicate(x, chunks)
  <2>1. /\ chunks' = Append(chunks, x) /\ Len(chunks') = Len(chunks) + 1
        /\ \A i \in 1..Len(chunks) : chunks'[i] = chunks[i]
        /\ chunks'[Len(chunks) + 1] = x
    BY <1>3, <1>4, <1>5, <1>10, AppendProperties DEF AddOne
  <2>2. Newest(chunks)' = x
    BY <2>1 DEF Newest
  <2>3. Seen(stream', Newest(chunks'))
    BY <1>1, <1>5, <2>2 DEF Seen
  <2>4. ASSUME chunks # <<>> PROVE ~Wide(x, Newest(chunks))
    <3>1. last_tick = Newest(chunks).last
      BY <1>2, <2>4 DEF GapInv
    <3>2. PICK d \in stream : Newest(chunks).last = d.last
      BY <2>4 DEF GapInv, Seen
    <3>3. last_tick # 0
      BY <3>1, <3>2, OrdinaryChunk
    <3>4. x.first = c.first /\ c.first \in Nat
      BY <1>5, <3>3, StreamContent DEF Content
    <3>5. c.first = last_tick \/ Dist(c.first, last_tick) <= SyncTicks * StdMed
      BY <1>1, <3>3 DEF InSync, GapInv
    <3>6. Dist(c.first, last_tick) \in Nat /\ (c.first = last_tick => Dist(c.first, last_tick) = 0)
      BY <1>3, <3>4, DistType
    <3>7. Dist(c.first, last_tick) <= SyncTicks * StdMed
      BY <3>5, <3>6, Windows
    <3>8. QED
      BY <3>1, <3>4, <3>6, <3>7, Windows DEF Wide
  <2>5. ASSUME ~cleared PROVE GapFlagged'
    <3>1. /\ Marked(chunks)
          /\ parsed # <<>> /\ chunks # <<>> => (Wide(chunks[1], parsed[1]) => chunks[1].gap)
      BY <2>5, GapFlaggedLists DEF GapInv
    <3>2. Marked(chunks')
      <4> SUFFICES ASSUME NEW i \in 1..(Len(chunks') - 1) PROVE GapAt(chunks', i)
        BY DEF Marked
      <4>1. CASE i < Len(chunks)
        <5>1. /\ i \in 1..(Len(chunks) - 1) /\ chunks'[i] = chunks[i]
              /\ chunks'[i + 1] = chunks[i + 1]
          BY <1>3, <2>1, <4>1
        <5>2. GapAt(chunks, i)
          BY <3>1, <5>1 DEF Marked
        <5>3. QED
          BY <5>1, <5>2 DEF GapAt
      <4>2. CASE i = Len(chunks)
        <5>1. chunks # <<>> /\ chunks'[i] = Newest(chunks) /\ chunks'[i + 1] = x
          BY <1>3, <2>1, <4>2 DEF Newest
        <5>2. QED
          BY <2>4, <5>1 DEF GapAt, Wide
      <4>3. QED
        BY <1>3, <2>1, <4>1, <4>2
    <3>3. parsed # <<>> => chunks # <<>> /\ chunks'[1] = chunks[1]
      <4>1. parsed # <<>> => Len(chunks) >= 3
        BY DEF IInv, AheadInv
      <4>2. Len(chunks) >= 3 => chunks # <<>> /\ 1 \in 1..Len(chunks)
        BY <1>3
      <4>3. QED
        BY <2>1, <4>1, <4>2
    <3>4. parsed' # <<>> /\ chunks' # <<>> =>
            (Wide(chunks'[1], parsed'[1]) => chunks'[1].gap)
      BY <1>2, <3>1, <3>3
    <3>5. (GapFlagged <=>
             /\ Marked(chunks)
             /\ parsed # <<>> /\ chunks # <<>> =>
                  (Wide(chunks[1], parsed[1]) => chunks[1].gap))'
      BY <1>8, GapFlaggedLists, PTL
    <3>6. QED
      BY <3>2, <3>4, <3>5
  <2>6. last_tick' = Newest(chunks)'.last
    BY <1>1, <1>5, <2>2
  <2>7. QED
    BY <1>2, <1>6, <1>7, <2>3, <2>5, <2>6 DEF GapInv, WalkMarks
<1>11. QED
  BY <1>9, <1>10

(* A chunk is only put aside when it is far from the last admitted one.    *)
LEMMA JunkGap ==
    ASSUME Ordinary, IInv, GapInv, Junk, stream' = stream
    PROVE  GapInv'
<1>1. PICK c \in Contents :
        /\ c \in stream /\ ~InSync(c)
        /\ junk_chunks' = AddOne(JunkChunk(c), junk_chunks)
  BY DEF Junk
<1>2. /\ Read /\ pc = "get"
      /\ UNCHANGED <<chunks, parsed, last_tick, med_ticks, cleared>>
      /\ pc' = "parse" \/ (pc' = "junk" /\ at' = 2)
  BY DEF Junk, Read
<1>3. TypeOK /\ junk_chunks \in Seq(Chunk) /\ Len(junk_chunks) \in Nat /\ last_tick \in Nat
  BY LenProperties DEF IInv, TypeOK
<1> DEFINE x == JunkChunk(c)
<1>4. x \in Chunk
  BY <1>2, <1>3, ReadTypes
<1>5. /\ x.first = c.first /\ x.last = c.last /\ x.layout = c.layout /\ x.med = StdMed /\ x.gap
  BY <1>1, OrdinaryChunk DEF JunkChunk
<1> HIDE DEF x
<1>6. Aside = junk_chunks /\ Aside' = junk_chunks'
  BY <1>2 DEF Aside
<1>7. FromStream(stream', x)
  BY <1>1, <1>5 DEF FromStream
<1>8. ASSUME chunks # <<>> PROVE Wide(x, Newest(chunks))
  <2>1. last_tick = Newest(chunks).last
    BY <1>2, <1>8 DEF GapInv
  <2>2. ~(Dist(c.first, last_tick) <= SyncTicks * StdMed)
    BY <1>1 DEF InSync, GapInv
  <2>3. Dist(c.first, last_tick) \in Nat
    BY <1>3, StreamContent, DistType DEF Content
  <2>4. QED
    BY <1>5, <2>1, <2>2, <2>3, Windows DEF Wide
<1>9. /\ \A i \in 1..Len(junk_chunks') : FromStream(stream', junk_chunks'[i])
      /\ junk_chunks' # <<>>
      /\ junk_chunks'[1] = IF junk_chunks = <<>> THEN x ELSE junk_chunks[1]
  <2>1. CASE Duplicate(x, junk_chunks)
    <3>1. junk_chunks' = junk_chunks /\ junk_chunks # <<>>
      BY <1>1, <2>1 DEF AddOne, Duplicate, x
    <3>2. QED
      BY <1>6, <3>1 DEF GapInv, FromStream
  <2>2. CASE ~Duplicate(x, junk_chunks)
    <3>1. /\ junk_chunks' = Append(junk_chunks, x)
          /\ Len(junk_chunks') = Len(junk_chunks) + 1
          /\ \A i \in 1..Len(junk_chunks) : junk_chunks'[i] = junk_chunks[i]
          /\ junk_chunks'[Len(junk_chunks) + 1] = x
      BY <1>1, <1>3, <1>4, <2>2, AppendProperties DEF AddOne, x
    <3>2. \A i \in 1..Len(junk_chunks) : FromStream(stream', junk_chunks[i])
      BY <1>6 DEF GapInv, FromStream
    <3>3. \A i \in 1..Len(junk_chunks') : FromStream(stream', junk_chunks'[i])
      <4> TAKE i \in 1..Len(junk_chunks')
      <4>1. CASE i \in 1..Len(junk_chunks)
        BY <3>1, <3>2, <4>1
      <4>2. CASE i = Len(junk_chunks) + 1
        BY <1>7, <3>1, <4>2
      <4>3. QED
        BY <1>3, <3>1, <4>1, <4>2
    <3>4. junk_chunks'[1] = IF junk_chunks = <<>> THEN x ELSE junk_chunks[1]
      BY <1>3, <3>1, EmptySeq
    <3>5. junk_chunks' # <<>>
      BY <1>3, <3>1
    <3>6. QED
      BY <3>3, <3>4, <3>5
  <2>3. QED
    BY <2>1, <2>2
<1>10. Aside'[1].gap \/ cleared'
  BY <1>2, <1>5, <1>6, <1>9 DEF GapInv
<1>11. chunks' # <<>> => Wide(Aside'[1], Newest(chunks'))
  BY <1>2, <1>6, <1>8, <1>9 DEF GapInv
<1>12. WalkMarks'
  BY <1>2 DEF WalkMarks, MarkedTo
<1>13. chunks' # <<>> => Seen(stream', Newest(chunks'))
  BY <1>2 DEF GapInv, Seen
<1>14. cleared' \/ GapFlagged'
  BY <1>2 DEF GapInv, GapFlagged, GapAt
<1>15. med_ticks' = StdMed /\ (chunks' # <<>> => last_tick' = Newest(chunks').last)
  BY <1>2 DEF GapInv
<1>16. \A i \in 1..Len(Aside') : FromStream(stream', Aside'[i])
  BY <1>6, <1>9
<1>17. QED
  BY <1>2, <1>10, <1>11, <1>12, <1>13, <1>14, <1>15, <1>16 DEF GapInv

(* What the steps of the walk have in common.                              *)
LEMMA WalkGap ==
    ASSUME GapInv, pc = "junk", pc' \notin {"add"}, stream' = stream,
           UNCHANGED <<chunks, parsed, last_tick, med_ticks>>, cleared => cleared',
           junk_chunks # <<>>, junk_chunks' # <<>>,
           Alike(junk_chunks'[1], junk_chunks[1]),
           junk_chunks[1].gap => cleared' \/ junk_chunks'[1].gap,
           \A i \in 1..Len(junk_chunks') :
             \E j \in 1..Len(junk_chunks) : Alike(junk_chunks'[i], junk_chunks[j]),
           WalkMarks'
    PROVE  GapInv'
<1>1. Aside = junk_chunks /\ Aside' = junk_chunks'
  BY DEF Aside
<1>2. \A i \in 1..Len(Aside') : FromStream(stream', Aside'[i])
  <2> TAKE i \in 1..Len(Aside')
  <2>1. PICK j \in 1..Len(junk_chunks) : Alike(junk_chunks'[i], junk_chunks[j])
    BY <1>1
  <2>2. FromStream(stream, junk_chunks[j])
    BY <1>1 DEF GapInv
  <2>3. QED
    BY <1>1, <2>1, <2>2 DEF FromStream, Alike
<1>3. med_ticks' = StdMed /\ (chunks' # <<>> => last_tick' = Newest(chunks').last)
  BY DEF GapInv
<1>4. chunks' # <<>> => Seen(stream', Newest(chunks'))
  BY DEF GapInv
<1>5. chunks' # <<>> => Wide(Aside'[1], Newest(chunks'))
  BY <1>1 DEF GapInv, Wide, Alike
<1>6. cleared' \/ Aside'[1].gap
  BY <1>1 DEF GapInv
<1>7. cleared' \/ GapFlagged'
  BY DEF GapInv, GapFlagged, GapAt
<1>8. QED
  BY <1>2, <1>3, <1>4, <1>5, <1>6, <1>7 DEF GapInv

(* In an ordinary stream Far is a hole.                                    *)
LEMMA FarIsBreach ==
    ASSUME GapInv, pc = "junk", NEW b, NEW i \in 1..Len(junk_chunks)
    PROVE  Far(b, junk_chunks[i]) <=> Breach(b, junk_chunks[i])
<1>1. FromStream(stream, junk_chunks[i])
  BY DEF GapInv, Aside
<1>2. QED
  BY <1>1 DEF FromStream, Far, Breach

LEMMA AlikeBreach ==
    ASSUME NEW a, NEW b, NEW x, NEW y, Alike(x, a), Alike(y, b)
    PROVE  Breach(x, y) <=> Breach(a, b)
BY DEF Alike, Breach

LEMMA JunkInSyncGap ==
    ASSUME IInv, GapInv, JunkInSync, stream' = stream
    PROVE  GapInv'
<1> DEFINE j == junk_chunks
           n == Len(junk_chunks)
<1>1. /\ Walking /\ ~Far(j[at], j[at - 1])
      /\ j' \in Seq(Chunk) /\ Len(j') = n
      /\ \A k \in 1..n : Alike(j'[k], j[k]) /\ (k # at => j'[k].gap = j[k].gap)
      /\ at' = at + 1 /\ out_of_sync' = out_of_sync /\ pc' \in {"junk", "exited"}
      /\ UNCHANGED <<chunks, parsed, last_tick, med_ticks, cleared>>
  BY InSyncStep DEF cur, prev
<1>2. pc = "junk" /\ n \in Nat /\ at \in 2..n /\ at - 1 \in 1..n
  BY <1>1, WalkingFacts
<1>3. ~Breach(j[at], j[at - 1])
  BY <1>1, <1>2, FarIsBreach
<1>4. \A k \in 2..n : Breach(j'[k], j'[k - 1]) <=> Breach(j[k], j[k - 1])
  BY <1>1, <1>2, AlikeBreach
<1>5. WalkMarks'
  <2> SUFFICES ASSUME pc' = "junk", out_of_sync' = 0
               PROVE  /\ MarkedTo(j', at' - 1)
                      /\ at' \in 3..Len(j') /\ Breach(j'[at'], j'[at' - 1])
                           => ~Breach(j'[at' - 1], j'[at' - 2])
    BY DEF WalkMarks
  <2>1. MarkedTo(j, at - 1)
    BY <1>1, <1>2 DEF GapInv, WalkMarks
  <2>2. MarkedTo(j', at' - 1)
    <3> SUFFICES ASSUME NEW k \in 2..(at' - 1), Breach(j'[k], j'[k - 1])
                 PROVE  j'[k].gap
      BY DEF MarkedTo
    <3>1. k \in 2..n /\ Breach(j[k], j[k - 1])
      BY <1>1, <1>2, <1>4
    <3>2. k # at
      BY <1>3, <3>1
    <3>3. k \in 2..(at - 1) /\ k \in 1..n
      BY <1>1, <1>2, <3>2
    <3>4. j[k].gap
      BY <2>1, <3>1, <3>3 DEF MarkedTo
    <3>5. QED
      BY <1>1, <3>2, <3>3, <3>4
  <2>3. at' - 1 = at /\ at' - 2 = at - 1
    BY <1>1, <1>2
  <2>4. ~Breach(j'[at' - 1], j'[at' - 2])
    BY <1>2, <1>3, <1>4, <2>3
  <2>5. QED
    BY <2>2, <2>4
<1>6. j # <<>> /\ j' # <<>> /\ 1 \in 1..n
  BY <1>1, <1>2
<1>7. j[1].gap => j'[1].gap
  BY <1>1, <1>2, <1>6
<1>8. QED
  BY <1>1, <1>2, <1>5, <1>6, <1>7, WalkGap

LEMMA JunkHoleGap ==
    ASSUME IInv, GapInv, JunkHole, stream' = stream
    PROVE  GapInv'
<1> DEFINE j == junk_chunks
           n == Len(junk_chunks)
<1>1. /\ Walking /\ at < n /\ ~Far(j[at + 1], j[at])
      /\ j' \in Seq(Chunk) /\ Len(j') = n
      /\ \A k \in 1..n : Alike(j'[k], j[k]) /\ (k < at => j'[k].gap = j[k].gap)
      /\ j'[at].gap
      /\ at' = at + 1 /\ out_of_sync' = out_of_sync /\ pc' \in {"junk", "exited"}
      /\ UNCHANGED <<chunks, parsed, last_tick, med_ticks, cleared>>
  BY HoleStep DEF cur, next
<1>2. pc = "junk" /\ n \in Nat /\ at \in 2..n /\ at + 1 \in 2..n
  BY <1>1, WalkingFacts
<1>3. ~Breach(j[at + 1], j[at])
  <2>1. at \in 1..n
    BY <1>2
  <2>2. QED
    BY <1>1, <1>2, <2>1, FarIsBreach
<1>4. \A k \in 2..n : Breach(j'[k], j'[k - 1]) <=> Breach(j[k], j[k - 1])
  BY <1>1, <1>2, AlikeBreach
<1>5. WalkMarks'
  <2> SUFFICES ASSUME pc' = "junk", out_of_sync' = 0
               PROVE  /\ MarkedTo(j', at' - 1)
                      /\ at' \in 3..Len(j') /\ Breach(j'[at'], j'[at' - 1])
                           => ~Breach(j'[at' - 1], j'[at' - 2])
    BY DEF WalkMarks
  <2>1. MarkedTo(j, at - 1)
    BY <1>1, <1>2 DEF GapInv, WalkMarks
  <2>2. MarkedTo(j', at' - 1)
    <3> SUFFICES ASSUME NEW k \in 2..(at' - 1), Breach(j'[k], j'[k - 1])
                 PROVE  j'[k].gap
      BY DEF MarkedTo
    <3>1. k \in 2..n /\ Breach(j[k], j[k - 1])
      <4>1. k \in 2..n
        BY <1>1, <1>2
      <4>2. QED
        BY <1>4, <4>1
    <3>2. CASE k = at
      BY <1>1, <3>2
    <3>3. CASE k # at
      <4>1. k \in 2..(at - 1) /\ k \in 1..n /\ k < at
        BY <1>1, <1>2, <3>3
      <4>2. j[k].gap
        BY <2>1, <3>1, <4>1 DEF MarkedTo
      <4>3. QED
        BY <1>1, <4>1, <4>2
    <3>4. QED
      BY <3>2, <3>3
  <2>3. at' = at + 1 /\ at' - 1 = at
    BY <1>1, <1>2
  <2>4. ~Breach(j'[at'], j'[at' - 1])
    <3>1. (at + 1) - 1 = at
      BY <1>2
    <3>2. QED
      BY <1>2, <1>3, <1>4, <2>3, <3>1
  <2>5. QED
    BY <2>2, <2>4
<1>6. j # <<>> /\ j' # <<>> /\ 1 \in 1..n /\ 1 < at
  BY <1>1, <1>2
<1>7. j[1].gap => j'[1].gap
  BY <1>1, <1>2, <1>6
<1>8. QED
  BY <1>1, <1>2, <1>5, <1>6, <1>7, WalkGap

(* Dropping a chunk that fits nowhere clears the flag of the chunk before  *)
(* it, which no hole precedes, unless it is the first of the list.         *)
LEMMA JunkOssGap ==
    ASSUME IInv, GapInv, JunkOss, stream' = stream
    PROVE  GapInv'
<1> DEFINE j == junk_chunks
           n == Len(junk_chunks)
<1>1. /\ Walking /\ at < n /\ Far(j[at], j[at - 1]) /\ ~Far(j[at + 1], j[at - 1])
      /\ j' \in Seq(Chunk) /\ Len(j') = n - 1
      /\ \A k \in 1..Len(j') : /\ k < at => Alike(j'[k], j[k])
                               /\ k >= at => Alike(j'[k], j[k + 1])
                               /\ k < at - 1 => j'[k].gap = j[k].gap
      /\ at' = at /\ out_of_sync' = out_of_sync
      /\ pc' \in {"junk", "exited", "undefined"}
      /\ cleared' = (cleared \/ at = 2)
      /\ UNCHANGED <<chunks, parsed, last_tick, med_ticks>>
  BY OssStep DEF cur, prev, next
<1>2. pc = "junk" /\ n \in Nat /\ at \in 2..(n - 1) /\ at - 1 \in 1..n
  BY <1>1, WalkingFacts
<1>3. Breach(j[at], j[at - 1]) /\ ~Breach(j[at + 1], j[at - 1])
  BY <1>1, <1>2, FarIsBreach
<1>4. \A k \in 2..(at - 1) : Breach(j'[k], j'[k - 1]) <=> Breach(j[k], j[k - 1])
  <2> TAKE k \in 2..(at - 1)
  <2>1. k \in 1..Len(j') /\ k - 1 \in 1..Len(j') /\ k < at /\ k - 1 < at
    BY <1>1, <1>2
  <2>2. Alike(j'[k], j[k]) /\ Alike(j'[k - 1], j[k - 1])
    BY <1>1, <2>1
  <2>3. QED
    BY <2>2, AlikeBreach
<1>5. ~Breach(j'[at], j'[at - 1])
  <2>1. at \in 1..Len(j') /\ at - 1 \in 1..Len(j') /\ at >= at /\ at - 1 < at
    BY <1>1, <1>2
  <2>2. Alike(j'[at], j[at + 1]) /\ Alike(j'[at - 1], j[at - 1])
    BY <1>1, <2>1
  <2>3. QED
    BY <1>3, <2>2, AlikeBreach
<1>6. WalkMarks'
  <2> SUFFICES ASSUME pc' = "junk", out_of_sync' = 0
               PROVE  /\ MarkedTo(j', at' - 1)
                      /\ at' \in 3..Len(j') /\ Breach(j'[at'], j'[at' - 1])
                           => ~Breach(j'[at' - 1], j'[at' - 2])
    BY DEF WalkMarks
  <2>1. /\ MarkedTo(j, at - 1)
        /\ at \in 3..n => ~Breach(j[at - 1], j[at - 2])
    BY <1>1, <1>2, <1>3 DEF GapInv, WalkMarks
  <2>2. MarkedTo(j', at - 1)
    <3> SUFFICES ASSUME NEW k \in 2..(at - 1), Breach(j'[k], j'[k - 1])
                 PROVE  j'[k].gap
      BY DEF MarkedTo
    <3>1. Breach(j[k], j[k - 1])
      BY <1>4
    <3>2. j[k].gap
      BY <2>1, <3>1 DEF MarkedTo
    <3>3. k # at - 1
      <4> SUFFICES ASSUME k = at - 1 PROVE FALSE
        OBVIOUS
      <4>1. at \in 3..n /\ k - 1 = at - 2
        BY <1>2
      <4>2. QED
        BY <2>1, <3>1, <4>1
    <3>4. k \in 1..Len(j') /\ k < at - 1
      BY <1>1, <1>2, <3>3
    <3>5. QED
      BY <1>1, <3>2, <3>4
  <2>3. QED
    BY <1>1, <1>5, <2>2
<1>7. j # <<>> /\ j' # <<>> /\ 1 \in 1..Len(j') /\ 1 < at
  BY <1>1, <1>2
<1>8. j[1].gap => cleared' \/ j'[1].gap
  <2>1. CASE at = 2
    BY <1>1, <2>1
  <2>2. CASE at # 2
    <3>1. 1 < at - 1
      BY <1>2, <2>2
    <3>2. QED
      BY <1>1, <1>7, <3>1
  <2>3. QED
    BY <2>1, <2>2
<1>9. \A i \in 1..Len(j') : \E k \in 1..n : Alike(j'[i], j[k])
  <2> TAKE i \in 1..Len(j')
  <2>1. i \in 1..n /\ i + 1 \in 1..n /\ (i < at \/ i >= at)
    BY <1>1, <1>2
  <2>2. QED
    BY <1>1, <2>1
<1>10. Alike(j'[1], j[1])
  BY <1>1, <1>7
<1>11. QED
  BY <1>1, <1>2, <1>6, <1>7, <1>8, <1>9, <1>10, WalkGap

LEMMA JunkDoneGap ==
    ASSUME IInv, GapInv, JunkDone, stream' = stream
    PROVE  GapInv'
<1> DEFINE n == Len(junk_chunks)
<1>1. /\ pc = "junk" /\ pc' = "add" /\ out_of_sync = 0
      /\ n \in 1..n /\ at = n + 1 /\ junk_chunks # <<>>
      /\ restored' = junk_chunks /\ junk_chunks' = <<>>
      /\ med_ticks' = junk_chunks[n].med /\ last_tick' = junk_chunks[n].last
      /\ UNCHANGED <<chunks, parsed, cleared>>
  BY DoneStep DEF Newest
<1>2. Aside = junk_chunks /\ Aside' = junk_chunks
  BY <1>1 DEF Aside
<1>3. med_ticks' = StdMed
  <2>1. FromStream(stream, junk_chunks[n])
    BY <1>1, <1>2 DEF GapInv
  <2>2. QED
    BY <1>1, <2>1 DEF FromStream
<1>4. \A i \in 1..Len(Aside') : FromStream(stream', Aside'[i])
  BY <1>2 DEF GapInv
<1>5. chunks' # <<>> => Seen(stream', Newest(chunks'))
  BY <1>1 DEF GapInv
<1>6. last_tick' = Newest(restored').last
  BY <1>1 DEF Newest
<1>7. Aside' # <<>> => /\ chunks' # <<>> => Wide(Aside'[1], Newest(chunks'))
                       /\ cleared' \/ Aside'[1].gap
  BY <1>1, <1>2 DEF GapInv
<1>8. cleared' \/ GapFlagged'
  BY <1>1 DEF GapInv, GapFlagged, GapAt
<1>9. MarkedTo(restored', Len(restored'))
  <2>1. MarkedTo(junk_chunks, at - 1) /\ at - 1 = n
    BY <1>1 DEF GapInv, WalkMarks
  <2>2. QED
    BY <1>1, <2>1
<1>10. WalkMarks'
  BY <1>1 DEF WalkMarks
<1>11. QED
  BY <1>1, <1>3, <1>4, <1>5, <1>6, <1>7, <1>8, <1>9, <1>10 DEF GapInv

(* The restored list of an ordinary stream is never taken for a second     *)
(* recording of the last admitted chunk, from which its first chunk is     *)
(* further away than a chunk is long.                                      *)
LEMMA NoneIsLost ==
    ASSUME Ordinary, IInv, GapInv, AddRestored
    PROVE  ~Duplicate(Head(restored), chunks)
<1>1. pc = "add" /\ restored # <<>> /\ restored \in Seq(Chunk)
  BY DEF AddRestored, IInv, WalkInv, TypeOK
<1>2. Aside = restored /\ Head(restored) = restored[1] /\ 1 \in 1..Len(restored)
  BY <1>1, EmptySeq DEF Aside
<1> SUFFICES ASSUME chunks # <<>>, Newest(chunks).layout = restored[1].layout
             PROVE  FALSE
  BY <1>2 DEF Duplicate
<1>3. PICK c \in stream : restored[1].first = c.first /\ restored[1].layout = c.layout
  BY <1>2 DEF GapInv, FromStream
<1>4. PICK d \in stream : Newest(chunks).last = d.last /\ Newest(chunks).layout = d.layout
  BY DEF GapInv, Seen
<1>5. d = c
  BY <1>3, <1>4, OrdinaryChunk
<1>6. Dist(c.first, c.last) > SyncTicks * StdMed
  BY <1>1, <1>2, <1>3, <1>4, <1>5 DEF GapInv, Wide
<1>7. Dist(c.first, c.last) <= SyncTicks * StdMed
  BY OrdinaryChunk
<1>8. Dist(c.first, c.last) \in Nat
  <2>1. restored[1] \in Chunk
    BY <1>1, <1>2, ElementOfSeq
  <2>2. Newest(chunks) \in Chunk
    <3>1. chunks \in Seq(Chunk) /\ Len(chunks) \in 1..Len(chunks)
      BY EmptySeq DEF IInv, TypeOK
    <3>2. QED
      BY <3>1, ElementOfSeq DEF Newest
  <2>3. QED
    BY <1>3, <1>4, <1>5, <2>1, <2>2, DistType DEF Chunk
<1>9. QED
  BY <1>6, <1>7, <1>8, Windows

LEMMA AddRestoredGap ==
    ASSUME Ordinary, IInv, GapInv, AddRestored, stream' = stream
    PROVE  GapInv'
<1> DEFINE n == Len(chunks)
           m == Len(restored)
<1>1. /\ pc = "add" /\ pc' = "parse" /\ chunks' = chunks \o restored
      /\ UNCHANGED <<parsed, junk_chunks, last_tick, med_ticks, cleared>>
  BY NoneIsLost DEF AddRestored
<1>2. /\ restored # <<>> /\ junk_chunks = <<>>
      /\ restored \in Seq(Chunk) /\ chunks \in Seq(Chunk)
      /\ n \in Nat /\ m \in Nat /\ m > 0
  <2>1. /\ restored # <<>> /\ junk_chunks = <<>>
        /\ restored \in Seq(Chunk) /\ chunks \in Seq(Chunk)
    BY <1>1 DEF IInv, WalkInv, TypeOK
  <2>2. QED
    BY <2>1, EmptySeq, LenProperties
<1>3. Aside = restored /\ Aside' = <<>>
  BY <1>1, <1>2 DEF Aside
<1>4. /\ Len(chunks') = n + m
      /\ \A i \in 1..n : chunks'[i] = chunks[i]
      /\ \A i \in 1..m : chunks'[n + i] = restored[i]
  <2>1. /\ Len(chunks') = n + m
        /\ \A i \in 1..(n + m) : chunks'[i] = IF i <= n THEN chunks[i] ELSE restored[i - n]
    BY <1>1, <1>2, ConcatProperties
  <2>2. \A i \in 1..n : chunks'[i] = chunks[i]
    BY <1>2, <2>1
  <2>3. ASSUME NEW i \in 1..m PROVE chunks'[n + i] = restored[i]
    <3>1. n + i \in 1..(n + m) /\ ~(n + i <= n) /\ n + i - n = i
      BY <1>2
    <3>2. QED
      BY <2>1, <3>1
  <2>4. QED
    BY <2>1, <2>2, <2>3
<1>5. Newest(chunks') = restored[m]
  <2>1. chunks'[n + m] = restored[m]
    BY <1>2, <1>4
  <2>2. QED
    BY <1>4, <2>1 DEF Newest
<1>6. last_tick' = Newest(chunks').last
  BY <1>1, <1>5 DEF GapInv, Newest
<1>7. Seen(stream', Newest(chunks'))
  <2>1. FromStream(stream, restored[m])
    BY <1>2, <1>3 DEF GapInv
  <2>2. QED
    BY <1>5, <2>1 DEF FromStream, Seen
<1>8. ASSUME ~cleared PROVE GapFlagged'
  <2>1. /\ Marked(chunks)
        /\ parsed # <<>> /\ chunks # <<>> => (Wide(chunks[1], parsed[1]) => chunks[1].gap)
    BY <1>8, GapFlaggedLists DEF GapInv
  <2>2. restored[1].gap
    BY <1>2, <1>3, <1>8 DEF GapInv
  <2>3. MarkedTo(restored, m)
    BY <1>1 DEF GapInv
  <2>4. Marked(chunks')
    <3> SUFFICES ASSUME NEW i \in 1..(n + m - 1) PROVE GapAt(chunks', i)
      BY <1>4 DEF Marked
    <3>1. CASE i < n
      <4>1. /\ i \in 1..(n - 1) /\ chunks'[i] = chunks[i]
            /\ chunks'[i + 1] = chunks[i + 1]
        BY <1>2, <1>4, <3>1
      <4>2. GapAt(chunks, i)
        BY <2>1, <4>1 DEF Marked
      <4>3. QED
        BY <4>1, <4>2 DEF GapAt
    <3>2. CASE i = n
      <4>1. chunks'[i + 1] = restored[1]
        BY <1>2, <1>4, <3>2
      <4>2. QED
        BY <2>2, <4>1 DEF GapAt
    <3>3. CASE i > n
      <4> DEFINE k == i - n + 1
      <4>1. /\ k \in 2..m /\ k - 1 \in 1..m /\ n + k = i + 1 /\ n + (k - 1) = i
            /\ k \in 1..m
        BY <1>2, <3>3
      <4>2. chunks'[n + k] = restored[k] /\ chunks'[n + (k - 1)] = restored[k - 1]
        BY <1>4, <4>1
      <4> HIDE DEF k
      <4>3. chunks'[i + 1] = restored[k] /\ chunks'[i] = restored[k - 1]
        BY <4>1, <4>2
      <4>4. Breach(restored[k], restored[k - 1]) => restored[k].gap
        BY <2>3, <4>1 DEF MarkedTo
      <4>5. Wide(restored[k], restored[k - 1]) => Breach(restored[k], restored[k - 1])
        <5>1. restored[k] \in Chunk /\ restored[k - 1] \in Chunk
          BY <1>2, <4>1, ElementOfSeq
        <5>2. Dist(restored[k].first, restored[k - 1].last) \in Nat
          BY <5>1, DistType DEF Chunk
        <5>3. QED
          BY <5>2, Windows DEF Wide, Breach
      <4>6. QED
        BY <4>3, <4>4, <4>5 DEF GapAt, Wide
    <3>4. QED
      BY <1>2, <3>1, <3>2, <3>3
  <2>5. parsed # <<>> => chunks # <<>> /\ chunks'[1] = chunks[1]
    <3>1. parsed # <<>> => n >= 3
      BY DEF IInv, AheadInv
    <3>2. n >= 3 => chunks # <<>> /\ 1 \in 1..n
      BY <1>2
    <3>3. QED
      BY <1>4, <3>1, <3>2
  <2>6. parsed' # <<>> /\ chunks' # <<>> => (Wide(chunks'[1], parsed'[1]) => chunks'[1].gap)
    BY <1>1, <2>1, <2>5
  <2>7. IInv'
    BY AddRestoredIInv
  <2>8. (GapFlagged <=>
           /\ Marked(chunks)
           /\ parsed # <<>> /\ chunks # <<>> =>
                (Wide(chunks[1], parsed[1]) => chunks[1].gap))'
    BY <2>7, GapFlaggedLists, PTL
  <2>9. QED
    BY <2>4, <2>6, <2>8
<1>9. med_ticks' = StdMed
  BY <1>1 DEF GapInv
<1>10. QED
  BY <1>1, <1>3, <1>6, <1>7, <1>8, <1>9 DEF GapInv, WalkMarks

(* parse_chunk raises a flag and never takes one down.                     *)
LEMMA ParseChunkGap ==
    ASSUME IInv, GapInv, ParseChunk, stream' = stream
    PROVE  GapInv'
<1> DEFINE n == Len(chunks)
<1>1. PICK carried \in {Head(chunks).gap, FALSE} :
        chunks' = Tail(WithGap(chunks, 2, chunks[2].gap \/ carried))
  BY DEF ParseChunk
<1>2. /\ pc = "parse" /\ pc' = "parse" /\ n > 3 /\ parsed' = <<Head(chunks)>>
      /\ UNCHANGED <<junk_chunks, last_tick, med_ticks, cleared>>
  BY DEF ParseChunk, chunk_okay_to_parse, sync, history
<1>3. chunks \in Seq(Chunk) /\ n \in Nat /\ chunks # <<>> /\ 2 \in 1..n
  BY <1>2, LenProperties DEF IInv, TypeOK
<1> DEFINE v == chunks[2].gap \/ carried
           r == WithGap(chunks, 2, v)
<1>4. v \in BOOLEAN /\ (chunks[2].gap => v) /\ chunks' = Tail(r)
  BY <1>1
<1> HIDE DEF v
<1>5. Reflagged(r, chunks, 2, v)
  BY <1>3, <1>4, GapFields
<1> HIDE DEF r
<1>6. /\ r \in Seq(Chunk) /\ Len(r) = n /\ r[2].gap = v
      /\ \A k \in 1..n : Alike(r[k], chunks[k]) /\ (k # 2 => r[k].gap = chunks[k].gap)
  BY <1>5 DEF Reflagged
<1>7. Len(chunks') = n - 1 /\ \A k \in 1..(n - 1) : chunks'[k] = r[k + 1]
  BY <1>2, <1>3, <1>4, <1>6
<1>8. Alike(Newest(chunks'), Newest(chunks))
  <2>1. n - 1 \in 1..(n - 1) /\ (n - 1) + 1 = n /\ n \in 1..n
    BY <1>2, <1>3
  <2>2. chunks'[n - 1] = r[n]
    BY <1>7, <2>1
  <2>3. QED
    BY <1>6, <1>7, <2>1, <2>2 DEF Newest
<1>9. Aside = junk_chunks /\ Aside' = junk_chunks
  BY <1>2 DEF Aside
<1>10. ASSUME ~cleared PROVE GapFlagged'
  <2>1. Marked(chunks)
    BY <1>10, GapFlaggedLists DEF GapInv
  <2>2. Marked(chunks')
    <3> SUFFICES ASSUME NEW i \in 1..(n - 1 - 1) PROVE GapAt(chunks', i)
      BY <1>7 DEF Marked
    <3>1. /\ i + 1 \in 1..(n - 1) /\ i \in 1..(n - 1)
          /\ i + 1 \in 1..n /\ i + 1 + 1 \in 1..n /\ i + 1 + 1 # 2
      BY <1>2, <1>3
    <3>2. chunks'[i] = r[i + 1] /\ chunks'[i + 1] = r[i + 1 + 1]
      BY <1>7, <3>1
    <3>3. /\ Alike(r[i + 1], chunks[i + 1]) /\ Alike(r[i + 1 + 1], chunks[i + 1 + 1])
          /\ r[i + 1 + 1].gap = chunks[i + 1 + 1].gap
      BY <1>6, <3>1
    <3>4. GapAt(chunks, i + 1)
      BY <2>1, <3>1 DEF Marked
    <3>5. QED
      BY <3>2, <3>3, <3>4 DEF GapAt, Alike
  <2>3. Wide(chunks'[1], parsed'[1]) => chunks'[1].gap
    <3>1. chunks'[1] = r[2] /\ parsed'[1] = chunks[1]
      BY <1>2, <1>3, <1>7
    <3>2. GapAt(chunks, 1)
      BY <1>2, <1>3, <2>1 DEF Marked
    <3>3. Alike(r[2], chunks[2]) /\ (chunks[2].gap => r[2].gap)
      BY <1>3, <1>4, <1>6
    <3>4. QED
      BY <3>1, <3>2, <3>3 DEF GapAt, Alike, Wide
  <2>4. IInv'
    BY ParseChunkIInv
  <2>5. (GapFlagged <=>
           /\ Marked(chunks)
           /\ parsed # <<>> /\ chunks # <<>> =>
                (Wide(chunks[1], parsed[1]) => chunks[1].gap))'
    BY <2>4, GapFlaggedLists, PTL
  <2>6. QED
    BY <2>2, <2>3, <2>5
<1>11. Seen(stream', Newest(chunks')) /\ last_tick' = Newest(chunks').last
  BY <1>2, <1>3, <1>8 DEF GapInv, Seen, Alike
<1>12. Aside' # <<>> => Wide(Aside'[1], Newest(chunks')) /\ (cleared' \/ Aside'[1].gap)
  BY <1>2, <1>3, <1>8, <1>9 DEF GapInv, Wide, Alike
<1>13. med_ticks' = StdMed /\ \A i \in 1..Len(Aside') : FromStream(stream', Aside'[i])
  BY <1>2, <1>9 DEF GapInv
<1>14. cleared' \/ GapFlagged'
  BY <1>2, <1>10
<1>15. QED
  BY <1>2, <1>11, <1>12, <1>13, <1>14 DEF GapInv, WalkMarks

LEMMA JunkWalkGap ==
    ASSUME IInv, GapInv, JunkWalk, stream' = stream
    PROVE  GapInv'
<1>1. CASE JunkNoLuck \/ JunkLast
  <2>1. /\ Walking /\ junk_chunks' = junk_chunks
        /\ pc' \in {"junk", "exited", "crashed"} /\ (pc' = "junk" => out_of_sync' # 0)
        /\ UNCHANGED <<chunks, parsed, last_tick, med_ticks, cleared>>
    BY <1>1, IdleStep
  <2>2. pc = "junk" /\ junk_chunks # <<>>
    BY <2>1, WalkingFacts
  <2>3. WalkMarks'
    BY <2>1 DEF WalkMarks
  <2>4. \A x : Alike(x, x)
    BY DEF Alike
  <2>5. QED
    BY <2>1, <2>2, <2>3, <2>4, WalkGap
<1>2. CASE JunkInSync \/ JunkHole \/ JunkOss \/ JunkDone
  BY <1>2, JunkInSyncGap, JunkHoleGap, JunkOssGap, JunkDoneGap
<1>3. QED
  BY <1>1, <1>2 DEF JunkWalk

LEMMA NextGap ==
    ASSUME IInv, Ordinary => GapInv, [Next]_vars
    PROVE  (Ordinary => GapInv)'
<1>1. stream' = stream
  BY DEF Next, vars
<1> SUFFICES ASSUME Ordinary PROVE GapInv'
  BY <1>1 DEF Ordinary
<1>2. GapInv
  OBVIOUS
<1>3. CASE Unreadable
  BY <1>1, <1>2, <1>3, StillGap DEF Unreadable, Read, lists, sync, history
<1>4. CASE NoVideo
  BY <1>1, <1>2, <1>4, StillGap DEF NoVideo, Read
<1>5. CASE Admit
  BY <1>1, <1>2, <1>5, AdmitGap
<1>6. CASE Junk
  BY <1>1, <1>2, <1>6, JunkGap
<1>7. CASE JunkWalk
  BY <1>1, <1>2, <1>7, JunkWalkGap
<1>8. CASE AddRestored
  BY <1>1, <1>2, <1>8, AddRestoredGap
<1>9. CASE ParseChunk
  BY <1>1, <1>2, <1>9, ParseChunkGap
<1>10. CASE ParseDone
  BY <1>1, <1>2, <1>10, StillGap DEF ParseDone, lists, sync, history
<1>11. CASE Stop \/ UNCHANGED vars
  <2>1. UNCHANGED vars
    BY <1>11 DEF Stop
  <2>2. QED
    BY <1>2, <2>1
    DEF vars, lists, sync, walk, history, GapInv, Aside, GapFlagged, GapAt, WalkMarks
<1>12. QED
  BY <1>3, <1>4, <1>5, <1>6, <1>7, <1>8, <1>9, <1>10, <1>11 DEF Next, GetChunk

(* GapFlaggedUnlessCleared, for every stream: of an ordinary stream two    *)
(* admitted chunks that do not follow each other always have a gap flag    *)
(* between them, unless check_junk took it down.                           *)
THEOREM GapsAreFlagged == Spec => []GapFlaggedUnlessCleared
<1>1. Init => IInv /\ (Ordinary => GapInv)
  BY InitIInv, InitGap
<1>2. IInv /\ (Ordinary => GapInv) /\ [Next]_vars => IInv' /\ (Ordinary => GapInv)'
  BY NextIInv, NextGap
<1>3. (Ordinary => GapInv) => GapFlaggedUnlessCleared
  BY DEF GapFlaggedUnlessCleared, GapInv
<1>4. QED
  BY <1>1, <1>2, <1>3, PTL DEF Spec
=============================================================================

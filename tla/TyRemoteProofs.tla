--------------------------- MODULE TyRemoteProofs ---------------------------
(***************************************************************************)
(* Proofs about TyRemote, the client library and the server talking to     *)
(* each other: for every set of recordings, every program of the client    *)
(* and every size of a block.                                              *)
(*                                                                         *)
(* What has to be found is how the lines in the socket relate to the lines *)
(* that the client still wants (Answered, Refused, CutOff), for each way   *)
(* out of each command of the server, and what the two will agree on once  *)
(* these lines have been read (HandleAfter, Agrees).                       *)
(***************************************************************************)
EXTENDS TyRemote, ChunkSourceProofs

-----------------------------------------------------------------------------
Wants == {"200", "300", "skip", "text", "frame_rate", "chunks", "data", "list", "all"}
Values == {"chunks", "data"}

(* In call c the line t is what the client wants next, and the value, if   *)
(* there is one in it, is v.                                               *)
Matches(c, want, t, v) ==
    /\ CASE want = "200" -> t.k = "200"
         [] want = "skip" -> t.k = "300"
         [] want = "300" -> t.k = "300" /\ (c.cmd = "SCTX" => t.of = "block")
         [] want = "frame_rate" -> t.k = "text" /\ t.data # <<-1>>
         [] want \in {"text", "chunks"} -> t.k = "text"
         [] want = "data" -> t.k = "data"
         [] want = "list" -> t.k = "list" /\
              t.of = (IF c.cmd = "LITY" THEN "recordings" ELSE "gops")
         [] OTHER -> FALSE
    /\ want \in Values => t.data = v

(* The lines t are a whole reply, or the rest of one, to a client that     *)
(* wants e: d lines more than that, all of them 200 lines in front of the  *)
(* 300 line that it skips to.                                              *)
FitsAt(c, t, e, v, p, d) ==
    /\ Len(t) = Len(e) + d
    /\ d > 0 => p <= Len(e) /\ e[p] = "skip"
    /\ \A i \in 1..(p - 1) : Matches(c, e[i], t[i], v)
    /\ \A i \in p..(p + d - 1) : t[i].k = "200"
    /\ \A i \in p..Len(e) : Matches(c, e[i], t[i + d], v)
Fits(c, t, e, v) == \E p \in 1..(Len(e) + 1), d \in Nat : FitsAt(c, t, e, v, p, d)

(* The value is read already, or still to come.                            *)
Carries(e, v) == got = v \/ \E i \in 1..Len(e) : e[i] \in Values

(* The reply of a command that fails.                                      *)
Refused(t, e) ==
    \/ Len(t) = 1 /\ t[1].k = "400" /\ e[1] \in {"200", "skip"}
    \/ /\ Len(t) = 2 /\ t[1].k = "200" /\ t[2].k = "400"
       /\ Len(e) > 1 /\ e[1] = "200" /\ e[2] \in {"200", "skip"}

(* The reply of a server that has gone or hangs.                           *)
CutOff(t, e) ==
    \/ t = <<>>
    \/ Len(t) = 1 /\ t[1].k = "200" /\ (e[1] = "skip" \/ (e[1] = "200" /\ Len(e) # 1))
    \/ Len(t) = 2 /\ t[1].k = "200" /\ t[2].k = "200" /\ Len(e) > 1 /\ e[1] = "200" /\ e[2] = "skip"
    \/ Len(e) = 1 /\ e[1] = "all" /\ Len(t) = 1
    \/ Len(e) = 2 /\ e[1] = "300" /\ e[2] = "all" /\ Len(t) = 2 /\ t[1].k = "300"
    \/ /\ Len(e) = 3 /\ e[1] = "200" /\ e[2] = "300" /\ e[3] = "all"
       /\ Len(t) = 3 /\ t[1].k = "200" /\ t[2].k = "300"

(* Client and server agree on what is open.                                *)
Agrees(h) ==
    IF h = NoHandle THEN ~infile
    ELSE /\ infile /\ h.fsid \in DOMAIN Recordings /\ fsid = h.fsid
         /\ tystream = [of |-> h.fsid, start_chunk |-> Recordings[h.fsid].start,
                        index |-> IF h.index THEN h.fsid ELSE -1]
         /\ h.nr = NumberOfChunks(h.fsid)

(* The handle that the client will have when its call returns.             *)
HandleAfter(ok) ==
    CASE call.cmd = "OPTY" /\ ok ->
           [fsid |-> call.arg, nr |-> NumberOfChunks(call.arg), index |-> FALSE]
      [] call.cmd = "COTY" -> NoHandle
      [] call.cmd = "CITY" /\ ok -> [handle EXCEPT !.index = TRUE]
      [] OTHER -> handle

Synced == request = <<>> /\ to_client = <<>> /\ Agrees(handle)
Asked ==
    /\ request = <<call>> /\ to_client = <<>> /\ Agrees(handle)
    /\ MayCall(call) /\ expects = Reply(call.cmd) /\ got = <<>>
Served(v) ==
    /\ Fits(call, to_client, expects, v) /\ Carries(expects, v)
    /\ call.cmd = "OPTY" =>
         call.arg \in DOMAIN Recordings /\ v = <<NumberOfChunks(call.arg)>>
    /\ call.cmd = "SCTY" => Len(v) = 1
    /\ call.cmd = "CITY" => handle # NoHandle
    /\ Agrees(HandleAfter(TRUE))
Failed == Refused(to_client, expects) /\ Agrees(HandleAfter(FALSE))
Answered == request = <<>> /\ (Failed \/ \E v : Served(v))

Lines(t) == \E S : t \in Seq(S)
Handles == {NoHandle} \cup [fsid : DOMAIN Recordings, nr : Int, index : BOOLEAN]
ClientOK ==
    /\ call \in Calls \cup {Idle} /\ socket \in {"open", "closed"}
    /\ expects \in Seq(Wants)
    /\ call # Idle <=> expects # <<>>
    /\ call.cmd # "PLTY" => \A i \in 1..Len(expects) : expects[i] # "all"
    /\ answer.to.cmd = "SCTY" => Len(answer.data) = 1
    /\ handle \in Handles

ServerOK ==
    /\ alive \in {"up", "hung", "exited", "crashed"}
    /\ alive = "up" => Len(buf) = 1

SyncInv ==
    /\ ClientOK /\ ServerOK
    /\ socket = "closed" => call = Idle
    /\ socket = "open" => Lines(to_client)
    /\ socket = "open" /\ alive = "up" =>
         IF call = Idle THEN Synced ELSE Asked \/ Answered
    /\ socket = "open" /\ alive # "up" =>
         IF call = Idle THEN to_client = <<>> ELSE CutOff(to_client, expects)

-----------------------------------------------------------------------------
(* Sequences of a few lines.                                               *)
LEMMA NothingBefore == ASSUME NEW t, Lines(t) PROVE <<>> \o t = t
BY DEF Lines

LEMMA LinesJoin ==
    ASSUME NEW s, NEW t, Lines(s), Lines(t)
    PROVE  Lines(s \o t) /\ Joined(s \o t, s, t)
<1>1. PICK S : s \in Seq(S)
  BY DEF Lines
<1>2. PICK T : t \in Seq(T)
  BY DEF Lines
<1>3. s \in Seq(S \cup T) /\ t \in Seq(S \cup T)
  BY <1>1, <1>2
<1>4. s \o t \in Seq(S \cup T) /\ Joined(s \o t, s, t)
  BY <1>3, ConcatPlaces
<1>5. QED
  BY <1>4 DEF Lines

LEMMA OneLine == ASSUME NEW a PROVE Lines(<<a>>) /\ Len(<<a>>) = 1 /\ <<a>>[1] = a
<1>1. <<a>> \in Seq({a})
  OBVIOUS
<1>2. QED
  BY <1>1 DEF Lines

LEMMA TwoLines ==
    ASSUME NEW a, NEW b
    PROVE  LET t == <<a>> \o <<b>> IN
           Lines(t) /\ Len(t) = 2 /\ t[1] = a /\ t[2] = b
<1> DEFINE x == <<a>>
           y == <<b>>
           t == x \o y
<1>1. Lines(x) /\ Len(x) = 1 /\ x[1] = a /\ Lines(y) /\ Len(y) = 1 /\ y[1] = b
  BY OneLine
<1> HIDE DEF x, y
<1>2. Lines(t) /\ Joined(t, x, y)
  BY <1>1, LinesJoin
<1> HIDE DEF t
<1>3. Len(t) = 2 /\ t[1] = a /\ t[1 + 1] = b
  BY <1>1, <1>2 DEF Joined
<1>4. QED
  BY <1>2, <1>3 DEF t, x, y

LEMMA ThreeLines ==
    ASSUME NEW a, NEW b, NEW c
    PROVE  LET t == <<a>> \o <<b>> \o <<c>> IN
           Lines(t) /\ Len(t) = 3 /\ t[1] = a /\ t[2] = b /\ t[3] = c
<1> DEFINE s == <<a>> \o <<b>>
           t == s \o <<c>>
<1>1. Lines(s) /\ Len(s) = 2 /\ s[1] = a /\ s[2] = b
  BY TwoLines
<1>2. Lines(<<c>>) /\ Len(<<c>>) = 1 /\ <<c>>[1] = c
  BY OneLine
<1> HIDE DEF s
<1>3. Lines(t) /\ Joined(t, s, <<c>>)
  BY <1>1, <1>2, LinesJoin
<1> HIDE DEF t
<1>4. Len(t) = 3 /\ t[1] = a /\ t[2] = b /\ t[2 + 1] = c
  BY <1>1, <1>2, <1>3 DEF Joined
<1>5. QED
  BY <1>3, <1>4 DEF t, s

LEMMA FourLines ==
    ASSUME NEW a, NEW b, NEW c, NEW d
    PROVE  LET t == <<a>> \o <<b>> \o <<c>> \o <<d>> IN
           Lines(t) /\ Len(t) = 4 /\ t[1] = a /\ t[2] = b /\ t[3] = c /\ t[4] = d
<1> DEFINE s == <<a>> \o <<b>> \o <<c>>
           t == s \o <<d>>
<1>1. Lines(s) /\ Len(s) = 3 /\ s[1] = a /\ s[2] = b /\ s[3] = c
  BY ThreeLines
<1>2. Lines(<<d>>) /\ Len(<<d>>) = 1 /\ <<d>>[1] = d
  BY OneLine
<1> HIDE DEF s
<1>3. Lines(t) /\ Joined(t, s, <<d>>)
  BY <1>1, <1>2, LinesJoin
<1> HIDE DEF t
<1>4. Len(t) = 4 /\ t[1] = a /\ t[2] = b /\ t[3] = c /\ t[3 + 1] = d
  BY <1>1, <1>2, <1>3 DEF Joined
<1>5. QED
  BY <1>3, <1>4 DEF t, s

(* The lines of the replies that are short.                                *)
LEMMA ShortReplies ==
    /\ Lines(<<>>)
    /\ Lines(Ok) /\ Len(Ok) = 1 /\ Ok[1].k = "200"
    /\ Lines(Error) /\ Len(Error) = 1 /\ Error[1].k = "400"
    /\ Lines(Ok \o Error) /\ Len(Ok \o Error) = 2
    /\ (Ok \o Error)[1].k = "200" /\ (Ok \o Error)[2].k = "400"
    /\ Lines(Ok \o Ok) /\ Len(Ok \o Ok) = 2
    /\ (Ok \o Ok)[1].k = "200" /\ (Ok \o Ok)[2].k = "200"
<1>1. Lines(<<>>)
  <2>1. <<>> \in Seq({})
    OBVIOUS
  <2>2. QED
    BY <2>1 DEF Lines
<1>2. Lines(Ok) /\ Len(Ok) = 1 /\ Ok[1].k = "200"
  BY OneLine DEF Ok, Token
<1>3. Lines(Error) /\ Len(Error) = 1 /\ Error[1].k = "400"
  BY OneLine DEF Error, Token
<1>4. /\ Lines(Ok \o Error) /\ Len(Ok \o Error) = 2
      /\ (Ok \o Error)[1].k = "200" /\ (Ok \o Error)[2].k = "400"
  BY TwoLines DEF Ok, Error, Token
<1>5. /\ Lines(Ok \o Ok) /\ Len(Ok \o Ok) = 2
      /\ (Ok \o Ok)[1].k = "200" /\ (Ok \o Ok)[2].k = "200"
  BY TwoLines DEF Ok, Token
<1>6. QED
  BY <1>1, <1>2, <1>3, <1>4, <1>5

LEMMA ListReply ==
    LET t == RecordingList IN
    /\ Lines(t) /\ Len(t) = 3
    /\ t[1].k = "200" /\ t[2].k = "300" /\ t[3].k = "list" /\ t[3].of = "recordings"
BY ThreeLines DEF RecordingList, Ok, Announce, Token

LEMMA GopsReply ==
    ASSUME NEW r
    PROVE  LET t == GopList(r) IN
           /\ Lines(t) /\ Len(t) = 4
           /\ t[1].k = "200" /\ t[2].k = "300" /\ t[3].k = "list" /\ t[3].of = "gops"
           /\ t[4].k = "200"
BY FourLines DEF GopList, Ok, Announce, Token

LEMMA SentReply ==
    ASSUME NEW of, NEW data
    PROVE  LET t == Sent(of, data) IN
           /\ Lines(t) /\ Len(t) = 4
           /\ t[1].k = "200" /\ t[2].k = "300" /\ t[2].of = of
           /\ t[3].k = "data" /\ t[3].data = data /\ t[4].k = "200"
BY FourLines DEF Sent, Ok, Announce, Token

LEMMA PlayReply ==
    ASSUME NEW data
    PROVE  LET t == Ok \o Announce("none") \o Token("data", "stream", data) IN
           /\ Lines(t) /\ Len(t) = 3
           /\ t[1].k = "200" /\ t[2].k = "300" /\ t[3].k = "data"
BY ThreeLines DEF Ok, Announce, Token

-----------------------------------------------------------------------------
LEMMA LineNumbers ==
    ASSUME NEW i \in 1..7, NEW j \in 1..3
    PROVE  /\ 3 * i - 3 + j \in 1..21 /\ 3 * i + 1 + j \in 1..25
           /\ 4 + (3 * i - 3 + j) = 3 * i + 1 + j
OBVIOUS

(* Seven times three lines.                                                *)
SevenTriples(f, S) ==
    /\ f = [i \in 1..7 |-> f[i]]
    /\ \A i \in 1..7 : f[i] \in Seq(S) /\ Len(f[i]) = 3

LEMMA Triples ==
    ASSUME NEW S, NEW f, SevenTriples(f, S)
    PROVE  /\ FlattenSeq(f) \in Seq(S) /\ Len(FlattenSeq(f)) = 21
           /\ \A i \in 1..7 : \A j \in 1..3 : FlattenSeq(f)[3 * i - 3 + j] = f[i][j]
<1> DEFINE n == [i \in 1..8 |-> 3 * i - 3]
<1>1. /\ f \in Seq(Seq(S)) /\ Len(f) = 7
      /\ \A i \in 1..7 : f[i] \in Seq(S) /\ Len(f[i]) = 3
  BY DEF SevenTriples
<1>2. n \in [1..(Len(f) + 1) -> Int] /\ n[1] = 0
  BY <1>1
<1>3. \A i \in 1..Len(f) : n[i + 1] = n[i] + Len(f[i])
  <2>1. ASSUME NEW i \in 1..7 PROVE n[i + 1] = n[i] + 3
    OBVIOUS
  <2>2. QED
    BY <1>1, <2>1
<1>4. n[8] = 21 /\ \A i \in 1..7 : n[i] = 3 * i - 3
  OBVIOUS
<1> HIDE DEF n
<1>5. /\ FlattenSeq(f) \in Seq(S)
      /\ Len(FlattenSeq(f)) = n[Len(f) + 1]
      /\ \A i \in 1..Len(f) : \A j \in 1..Len(f[i]) : FlattenSeq(f)[n[i] + j] = f[i][j]
  <2>1. /\ n \in [1..(Len(f) + 1) -> Int] /\ n[1] = 0
        /\ \A i \in 1..Len(f) : n[i + 1] = n[i] + Len(f[i])
    BY <1>2, <1>3
  <2>2. f \in Seq(Seq(S))
    BY <1>1
  <2>3. QED
    BY <2>1, <2>2, FlattenPlaces
<1>6. Len(FlattenSeq(f)) = 21
  <2>1. Len(f) + 1 = 8
    BY <1>1
  <2>2. QED
    BY <1>4, <1>5, <2>1
<1>7. ASSUME NEW i \in 1..7, NEW j \in 1..3
      PROVE  FlattenSeq(f)[3 * i - 3 + j] = f[i][j]
  <2>1. i \in 1..Len(f) /\ j \in 1..Len(f[i])
    BY <1>1
  <2>2. FlattenSeq(f)[n[i] + j] = f[i][j]
    BY <1>5, <2>1
  <2>3. QED
    BY <1>4, <2>2
<1>8. QED
  BY <1>5, <1>6, <1>7

(* What an open reads, and what the server writes when the probe goes well:*)
(* four 200 lines, seven values of three lines, and a 200 line.            *)
Framed(s, f) ==
    /\ Len(s) = 26
    /\ \A i \in 1..7 : /\ s[3 * i + 2] = f[i][1]
                       /\ s[3 * i + 3] = f[i][2]
                       /\ s[3 * i + 4] = f[i][3]

Encloses(s, a, f, z) == s = a \o FlattenSeq(f) \o z

LEMMA Frames ==
    ASSUME NEW S, NEW f, SevenTriples(f, S),
           NEW a \in Seq(S), Len(a) = 4, NEW z \in Seq(S), Len(z) = 1,
           NEW s, Encloses(s, a, f, z)
    PROVE  /\ s \in Seq(S) /\ Framed(s, f)
           /\ \A i \in 1..4 : s[i] = a[i]
           /\ s[26] = z[1]
<1> DEFINE m == FlattenSeq(f)
           b == a \o m
<1>1. /\ m \in Seq(S) /\ Len(m) = 21
      /\ \A i \in 1..7 : \A j \in 1..3 : m[3 * i - 3 + j] = f[i][j]
  BY Triples
<1> HIDE DEF m
<1>2. b \in Seq(S) /\ Joined(b, a, m)
  BY <1>1, ConcatPlaces
<1>3. s \in Seq(S) /\ Joined(s, b, z)
  <2>1. s = b \o z
    BY DEF b, m, Encloses
  <2> HIDE DEF b
  <2>2. QED
    BY <1>2, <2>1, ConcatPlaces
<1> HIDE DEF b
<1>4. Len(b) = 25 /\ Len(s) = 26
  BY <1>1, <1>2, <1>3 DEF Joined
<1>5. \A i \in 1..25 : s[i] = b[i]
  BY <1>3, <1>4 DEF Joined
<1>6. \A i \in 1..4 : b[i] = a[i]
  BY <1>2 DEF Joined
<1>7. \A i \in 1..21 : b[4 + i] = m[i]
  BY <1>1, <1>2 DEF Joined
<1>8. s[25 + 1] = z[1]
  BY <1>3, <1>4 DEF Joined
<1>9. ASSUME NEW i \in 1..7
      PROVE  s[3 * i + 2] = f[i][1] /\ s[3 * i + 3] = f[i][2] /\ s[3 * i + 4] = f[i][3]
  <2>1. ASSUME NEW j \in 1..3 PROVE s[3 * i + 1 + j] = f[i][j]
    <3>1. 3 * i - 3 + j \in 1..21 /\ 4 + (3 * i - 3 + j) = 3 * i + 1 + j
          /\ 3 * i + 1 + j \in 1..25
      BY LineNumbers
    <3>2. b[4 + (3 * i - 3 + j)] = m[3 * i - 3 + j]
      BY <1>7, <3>1
    <3>3. m[3 * i - 3 + j] = f[i][j]
      BY <1>1
    <3>4. QED
      BY <1>5, <3>1, <3>2, <3>3
  <2>2. 3 * i + 1 + 1 = 3 * i + 2 /\ 3 * i + 1 + 2 = 3 * i + 3 /\ 3 * i + 1 + 3 = 3 * i + 4
    OBVIOUS
  <2>3. s[3 * i + 1 + 1] = f[i][1] /\ s[3 * i + 1 + 2] = f[i][2] /\ s[3 * i + 1 + 3] = f[i][3]
    BY <2>1
  <2>4. QED
    BY <2>2, <2>3
<1>10. QED
  BY <1>3, <1>4, <1>5, <1>6, <1>8, <1>9 DEF Framed

LEMMA OpenWants ==
    LET e == Reply("OPTY") IN
    /\ e \in Seq(Wants) /\ Framed(e, [i \in 1..7 |-> <<"200", "300", Value(i)>>])
    /\ \A i \in 1..4 : e[i] = "200"
    /\ e[26] = "200"
<1> DEFINE f == [i \in 1..7 |-> <<"200", "300", Value(i)>>]
           a == <<"200", "200", "200", "200">>
           z == <<"200">>
<1>1. ASSUME NEW i \in 1..7 PROVE f[i] \in Seq(Wants) /\ Len(f[i]) = 3
  <2>1. Value(i) \in Wants /\ "200" \in Wants /\ "300" \in Wants
    BY DEF Value, Wants
  <2>2. f[i] = <<"200", "300", Value(i)>>
    OBVIOUS
  <2> HIDE DEF f
  <2>3. QED
    BY <2>1, <2>2
<1>2. SevenTriples(f, Wants)
  <2>1. f = [i \in 1..7 |-> f[i]]
    OBVIOUS
  <2>2. QED
    BY <1>1, <2>1 DEF SevenTriples
<1>3. a \in Seq(Wants) /\ Len(a) = 4 /\ \A i \in 1..4 : a[i] = "200"
  BY DEF Wants
<1>4. z \in Seq(Wants) /\ Len(z) = 1 /\ z[1] = "200"
  BY DEF Wants
<1>5. Reply("OPTY") = a \o FlattenSeq(f) \o z
  BY DEF Reply
<1> HIDE DEF f, a, z
<1> DEFINE e == a \o FlattenSeq(f) \o z
<1>6. /\ e \in Seq(Wants) /\ Framed(e, f)
      /\ \A i \in 1..4 : e[i] = a[i]
      /\ e[26] = z[1]
  <2>1. SevenTriples(f, Wants) /\ a \in Seq(Wants) /\ Len(a) = 4
        /\ z \in Seq(Wants) /\ Len(z) = 1 /\ Encloses(e, a, f, z)
    BY <1>2, <1>3, <1>4 DEF Encloses
  <2> HIDE DEF e
  <2>2. QED
    BY <2>1, Frames
<1> HIDE DEF e
<1>7. e \in Seq(Wants) /\ Framed(e, f) /\ (\A i \in 1..4 : e[i] = "200") /\ e[26] = "200"
  BY <1>3, <1>4, <1>6
<1>8. QED
  BY <1>5, <1>7 DEF e, f

Probed(r, i) == CASE i = 6 /\ Recordings[r].probe = "odd rate" -> -1
                  [] i = 7 -> NumberOfChunks(r)
                  [] OTHER -> 0
ProbeLines(r, i) == Ok \o Announce("text") \o Text(Probed(r, i))

LEMMA ThreeOfThem ==
    ASSUME NEW t, Lines(t), Len(t) = 3, NEW S, t[1] \in S, t[2] \in S, t[3] \in S
    PROVE  t \in Seq(S)
<1>1. PICK X : t \in Seq(X)
  BY DEF Lines
<1>2. \A j \in 1..Len(t) : t[j] \in S
  BY SMT
<1>3. QED
  BY <1>1, <1>2

LEMMA OpenLines ==
    ASSUME NEW r
    PROVE  LET t == Ok \o Ok \o Ok \o ProbeResult(r) IN
           /\ Lines(t) /\ Framed(t, [i \in 1..7 |-> ProbeLines(r, i)])
           /\ \A i \in 1..4 : t[i].k = "200"
           /\ t[26].k = "200"
<1> DEFINE f == [i \in 1..7 |-> ProbeLines(r, i)]
           m == FlattenSeq(f)
           a == Ok \o Ok \o Ok \o Ok
           T == UNION {{f[i][1], f[i][2], f[i][3]} : i \in 1..7}
           S == T \cup {Ok[1]}
<1>1. ASSUME NEW i \in 1..7 PROVE f[i] \in Seq(S) /\ Len(f[i]) = 3
  <2>1. Lines(f[i]) /\ Len(f[i]) = 3
    BY ThreeLines DEF ProbeLines, Ok, Announce, Text, Token
  <2> DEFINE T3(k) == {f[k][1], f[k][2], f[k][3]}
  <2>2. f[i][1] \in S /\ f[i][2] \in S /\ f[i][3] \in S
    <3>1. \A x \in T3(i) : x \in S
      <4> HIDE DEF f
      <4>1. QED
        OBVIOUS
    <3>2. f[i][1] \in T3(i) /\ f[i][2] \in T3(i) /\ f[i][3] \in T3(i)
      <4> HIDE DEF f
      <4>1. QED
        OBVIOUS
    <3>3. QED
      BY <3>1, <3>2
  <2> HIDE DEF f
  <2> HIDE DEF S
  <2>3. QED
    BY <2>1, <2>2, ThreeOfThem
<1>2. SevenTriples(f, S)
  <2>1. f = [i \in 1..7 |-> f[i]]
    OBVIOUS
  <2>2. QED
    BY <1>1, <2>1 DEF SevenTriples
<1>3. Ok \in Seq(S) /\ Len(Ok) = 1
  <2>1. Ok[1] \in S
    <3> HIDE DEF T
    <3>1. QED
      OBVIOUS
  <2> HIDE DEF S
  <2>2. Ok = <<Ok[1]>>
    BY DEF Ok, Token
  <2>3. QED
    BY <2>1, <2>2, ShortReplies
<1>4. ProbeResult(r) = Ok \o m \o Ok
  BY DEF ProbeResult, ProbeLines, Probed
<1> HIDE DEF f, S
<1>5. m \in Seq(S)
  BY <1>1, <1>2, Triples
<1> HIDE DEF m
<1>6. Ok \o Ok \o Ok \o ProbeResult(r) = a \o m \o Ok
  <2> DEFINE k == Ok
  <2>1. k \in Seq(S) /\ m \in Seq(S)
    BY <1>3, <1>5
  <2> HIDE DEF k
  <2>2. k \o k \o k \o (k \o m \o k) = k \o k \o k \o k \o m \o k
    BY <2>1
  <2>3. QED
    BY <1>4, <2>2 DEF k, a
<1>7. a \in Seq(S) /\ Len(a) = 4 /\ \A i \in 1..4 : a[i].k = "200"
  <2>1. a \in Seq(S)
    BY <1>3
  <2>2. Len(a) = 4 /\ \A i \in 1..4 : a[i].k = "200"
    BY FourLines DEF Ok, Token
  <2>3. QED
    BY <2>1, <2>2
<1> HIDE DEF a
<1> DEFINE t == a \o FlattenSeq(f) \o Ok
<1>8. /\ t \in Seq(S) /\ Framed(t, f)
      /\ \A i \in 1..4 : t[i] = a[i]
      /\ t[26] = Ok[1]
  <2>1. SevenTriples(f, S) /\ a \in Seq(S) /\ Len(a) = 4 /\ Ok \in Seq(S) /\ Len(Ok) = 1
        /\ Encloses(t, a, f, Ok)
    BY <1>2, <1>3, <1>7 DEF Encloses
  <2> HIDE DEF t
  <2>2. QED
    BY <2>1, Frames
<1> HIDE DEF t
<1>9. Lines(t) /\ Framed(t, f) /\ (\A i \in 1..4 : t[i].k = "200") /\ t[26].k = "200"
  BY <1>7, <1>8, ShortReplies DEF Lines
<1>10. QED
  BY <1>6, <1>9 DEF t, m, f

-----------------------------------------------------------------------------
(* What each call reads.                                                   *)
LEMMA FourWants ==
    ASSUME NEW a \in Wants, NEW b \in Wants, NEW c \in Wants, NEW d \in Wants
    PROVE  LET e == <<a, b, c, d>> IN
           /\ e \in Seq(Wants) /\ Len(e) = 4
           /\ e[1] = a /\ e[2] = b /\ e[3] = c /\ e[4] = d
BY DEF Wants

LEMMA ThreeWants ==
    ASSUME NEW a \in Wants, NEW b \in Wants, NEW c \in Wants
    PROVE  LET e == <<a, b, c>> IN
           /\ e \in Seq(Wants) /\ Len(e) = 3 /\ e[1] = a /\ e[2] = b /\ e[3] = c
BY DEF Wants

LEMMA TwoWants ==
    ASSUME NEW a \in Wants, NEW b \in Wants
    PROVE  LET e == <<a, b>> IN e \in Seq(Wants) /\ Len(e) = 2 /\ e[1] = a /\ e[2] = b
BY DEF Wants

LEMMA OneWant ==
    ASSUME NEW a \in Wants
    PROVE  LET e == <<a>> IN e \in Seq(Wants) /\ Len(e) = 1 /\ e[1] = a
BY DEF Wants

LEMMA ListWants ==
    LET e == Reply("LITY") IN
    /\ e \in Seq(Wants) /\ Len(e) = 2 /\ e[1] = "skip" /\ e[2] = "list"
<1>1. Reply("LITY") = <<"skip", "list">>
  BY DEF Reply
<1>2. "skip" \in Wants /\ "list" \in Wants
  BY DEF Wants
<1> DEFINE e == <<"skip", "list">>
<1>3. e \in Seq(Wants) /\ Len(e) = 2 /\ e[1] = "skip" /\ e[2] = "list"
  BY <1>2, TwoWants
<1> HIDE DEF e
<1>4. QED
  BY <1>1, <1>3 DEF e

LEMMA IndexWants ==
    LET e == Reply("CITY") IN
    /\ e \in Seq(Wants) /\ Len(e) = 4
    /\ e[1] = "200" /\ e[2] = "skip" /\ e[3] = "list" /\ e[4] = "200"
<1>1. Reply("CITY") = <<"200", "skip", "list", "200">>
  BY DEF Reply
<1>2. "skip" \in Wants /\ "list" \in Wants /\ "200" \in Wants
  BY DEF Wants
<1> DEFINE e == <<"200", "skip", "list", "200">>
<1>3. e \in Seq(Wants) /\ Len(e) = 4 /\ e[1] = "200" /\ e[2] = "skip" /\ e[3] = "list" /\ e[4] = "200"
  BY <1>2, FourWants
<1> HIDE DEF e
<1>4. QED
  BY <1>1, <1>3 DEF e

LEMMA DataWants ==
    ASSUME NEW cmd \in {"SCTY", "SCTX", "GSTY", "GITY"}
    PROVE  LET e == Reply(cmd) IN
           /\ e \in Seq(Wants) /\ Len(e) = 4
           /\ e[1] = "200" /\ e[2] = "300" /\ e[3] = "data" /\ e[4] = "200"
<1>1. Reply(cmd) = <<"200", "300", "data", "200">>
  BY DEF Reply
<1>2. "300" \in Wants /\ "data" \in Wants /\ "200" \in Wants
  BY DEF Wants
<1> DEFINE e == <<"200", "300", "data", "200">>
<1>3. e \in Seq(Wants) /\ Len(e) = 4 /\ e[1] = "200" /\ e[2] = "300" /\ e[3] = "data" /\ e[4] = "200"
  BY <1>2, FourWants
<1> HIDE DEF e
<1>4. QED
  BY <1>1, <1>3 DEF e

LEMMA PlayWants ==
    LET e == Reply("PLTY") IN
    /\ e \in Seq(Wants) /\ Len(e) = 3
    /\ e[1] = "200" /\ e[2] = "300" /\ e[3] = "all"
<1>1. Reply("PLTY") = <<"200", "300", "all">>
  BY DEF Reply
<1>2. "300" \in Wants /\ "all" \in Wants /\ "200" \in Wants
  BY DEF Wants
<1> DEFINE e == <<"200", "300", "all">>
<1>3. e \in Seq(Wants) /\ Len(e) = 3 /\ e[1] = "200" /\ e[2] = "300" /\ e[3] = "all"
  BY <1>2, ThreeWants
<1> HIDE DEF e
<1>4. QED
  BY <1>1, <1>3 DEF e

LEMMA CloseWants ==
    LET e == Reply("COTY") IN e \in Seq(Wants) /\ Len(e) = 1 /\ e[1] = "200"
<1>1. Reply("COTY") = <<"200">>
  BY DEF Reply
<1>2. "200" \in Wants
  BY DEF Wants
<1> DEFINE e == <<"200">>
<1>3. e \in Seq(Wants) /\ Len(e) = 1 /\ e[1] = "200"
  BY <1>2, OneWant
<1> HIDE DEF e
<1>4. QED
  BY <1>1, <1>3 DEF e

(* A place in the reply to an open.                                        *)
LEMMA OpenPlace ==
    ASSUME NEW i \in 1..26
    PROVE  \/ i \in 1..4 \/ i = 26
           \/ \E k \in 1..7 : i = 3 * k + 2 \/ i = 3 * k + 3 \/ i = 3 * k + 4
<1>1. ASSUME i \in 5..25
      PROVE  \E k \in 1..7 : i = 3 * k + 2 \/ i = 3 * k + 3 \/ i = 3 * k + 4
  <2>1. CASE i \in 5..7
    <3>1. i = 3 * 1 + 2 \/ i = 3 * 1 + 3 \/ i = 3 * 1 + 4
      BY <2>1
    <3>2. QED
      BY <3>1
  <2>2. CASE i \in 8..10
    <3>1. i = 3 * 2 + 2 \/ i = 3 * 2 + 3 \/ i = 3 * 2 + 4
      BY <2>2
    <3>2. QED
      BY <3>1
  <2>3. CASE i \in 11..13
    <3>1. i = 3 * 3 + 2 \/ i = 3 * 3 + 3 \/ i = 3 * 3 + 4
      BY <2>3
    <3>2. QED
      BY <3>1
  <2>4. CASE i \in 14..16
    <3>1. i = 3 * 4 + 2 \/ i = 3 * 4 + 3 \/ i = 3 * 4 + 4
      BY <2>4
    <3>2. QED
      BY <3>1
  <2>5. CASE i \in 17..19
    <3>1. i = 3 * 5 + 2 \/ i = 3 * 5 + 3 \/ i = 3 * 5 + 4
      BY <2>5
    <3>2. QED
      BY <3>1
  <2>6. CASE i \in 20..22
    <3>1. i = 3 * 6 + 2 \/ i = 3 * 6 + 3 \/ i = 3 * 6 + 4
      BY <2>6
    <3>2. QED
      BY <3>1
  <2>7. CASE i \in 23..25
    <3>1. i = 3 * 7 + 2 \/ i = 3 * 7 + 3 \/ i = 3 * 7 + 4
      BY <2>7
    <3>2. QED
      BY <3>1
  <2>8. QED
    BY <1>1, <2>1, <2>2, <2>3, <2>4, <2>5, <2>6, <2>7
<1>2. QED
  BY <1>1

LEMMA OpenEntries ==
    LET e == Reply("OPTY") IN
    /\ Len(e) = 26
    /\ \A k \in 1..7 : e[3 * k + 2] = "200" /\ e[3 * k + 3] = "300" /\ e[3 * k + 4] = Value(k)
<1> DEFINE e == Reply("OPTY")
           f == [i \in 1..7 |-> <<"200", "300", Value(i)>>]
<1>1. Framed(e, f)
  BY OpenWants
<1>2. \A k \in 1..7 : f[k][1] = "200" /\ f[k][2] = "300" /\ f[k][3] = Value(k)
  OBVIOUS
<1> HIDE DEF e, f
<1>3. /\ Len(e) = 26
      /\ \A k \in 1..7 : e[3 * k + 2] = "200" /\ e[3 * k + 3] = "300" /\ e[3 * k + 4] = Value(k)
  BY <1>1, <1>2 DEF Framed
<1>4. QED
  BY <1>3 DEF e

LEMMA ReplyType ==
    ASSUME NEW cmd \in Commands
    PROVE  /\ Reply(cmd) \in Seq(Wants)
           /\ Reply(cmd) = <<>> <=> cmd = "EXIT"
           /\ cmd # "PLTY" => \A i \in 1..Len(Reply(cmd)) : Reply(cmd)[i] # "all"
<1>1. CASE cmd = "LITY"
  <2>1. cmd # "PLTY" => \A i \in 1..2 : Reply(cmd)[i] # "all"
    BY <1>1, ListWants
  <2>2. QED
    BY <1>1, <2>1, ListWants
<1>2. CASE cmd = "CITY"
  <2>1. cmd # "PLTY" => \A i \in 1..4 : Reply(cmd)[i] # "all"
    BY <1>2, IndexWants
  <2>2. QED
    BY <1>2, <2>1, IndexWants
<1>3. CASE cmd \in {"SCTY", "SCTX", "GSTY", "GITY"}
  <2>1. cmd # "PLTY" => \A i \in 1..4 : Reply(cmd)[i] # "all"
    BY <1>3, DataWants
  <2>2. QED
    BY <1>3, <2>1, DataWants
<1>4. CASE cmd = "PLTY"
  BY <1>4, PlayWants
<1>5. CASE cmd = "COTY"
  <2>1. cmd # "PLTY" => \A i \in 1..1 : Reply(cmd)[i] # "all"
    BY <1>5, CloseWants
  <2>2. QED
    BY <1>5, <2>1, CloseWants
<1>6. CASE cmd = "EXIT"
  <2>1. Reply(cmd) = <<>>
    BY <1>6 DEF Reply
  <2> DEFINE e == <<>>
  <2>2. e \in Seq(Wants) /\ \A i \in 1..Len(e) : FALSE
    OBVIOUS
  <2>3. Reply(cmd) = e
    BY <2>1
  <2> HIDE DEF e
  <2>4. \A i \in 1..Len(Reply(cmd)) : Reply(cmd)[i] # "all"
    BY <2>2, <2>3
  <2>5. QED
    BY <1>6, <2>1, <2>2, <2>3, <2>4
<1>7. CASE cmd = "OPTY"
  <2>1. ASSUME NEW i \in 1..26 PROVE Reply("OPTY")[i] # "all"
    <3>1. \A k \in 1..7 : Value(k) # "all"
      BY DEF Value
    <3>2. QED
      BY <3>1, OpenPlace, OpenWants, OpenEntries
  <2>2. Len(Reply("OPTY")) = 26 /\ Reply("OPTY") \in Seq(Wants)
    BY OpenWants, OpenEntries
  <2>3. Reply("OPTY") # <<>>
    <3> DEFINE e == Reply("OPTY")
    <3>1. Len(<<>>) = 0 /\ 0 # 26 /\ Len(e) = 26
      BY <2>2
    <3> HIDE DEF e
    <3>2. e # <<>>
      BY <3>1
    <3>3. QED
      BY <3>2 DEF e
  <2>4. QED
    BY <1>7, <2>1, <2>2, <2>3
<1>8. QED
  BY <1>1, <1>2, <1>3, <1>4, <1>5, <1>6, <1>7 DEF Commands

-----------------------------------------------------------------------------
(* The replies are what the calls want.                                    *)
LEMMA FitsWhole ==
    ASSUME NEW c, NEW t, NEW e, NEW v, Len(e) \in Nat, Len(t) = Len(e),
           \A i \in 1..Len(e) : Matches(c, e[i], t[i], v)
    PROVE  Fits(c, t, e, v)
<1>1. FitsAt(c, t, e, v, Len(e) + 1, 0)
  BY DEF FitsAt
<1>2. Len(e) + 1 \in 1..(Len(e) + 1) /\ 0 \in Nat
  OBVIOUS
<1>3. QED
  BY <1>1, <1>2 DEF Fits

LEMMA SentFits ==
    ASSUME NEW c, NEW of, NEW data, c.cmd \in {"SCTY", "SCTX", "GSTY", "GITY"},
           c.cmd = "SCTX" => of = "block"
    PROVE  /\ Fits(c, Sent(of, data), Reply(c.cmd), data)
           /\ \E i \in 1..Len(Reply(c.cmd)) : Reply(c.cmd)[i] \in Values
<1> DEFINE e == Reply(c.cmd)
           t == Sent(of, data)
<1>1. /\ Len(e) = 4
      /\ e[1] = "200" /\ e[2] = "300" /\ e[3] = "data" /\ e[4] = "200"
  BY DataWants
<1>2. /\ Len(t) = 4
      /\ t[1].k = "200" /\ t[2].k = "300" /\ t[2].of = of
      /\ t[3].k = "data" /\ t[3].data = data /\ t[4].k = "200"
  BY SentReply
<1> HIDE DEF e, t
<1>3. \A i \in 1..4 : Matches(c, e[i], t[i], data)
  BY <1>1, <1>2 DEF Matches, Values
<1>4. Fits(c, t, e, data)
  BY <1>1, <1>2, <1>3, FitsWhole
<1>5. 3 \in 1..Len(e) /\ e[3] \in Values
  BY <1>1 DEF Values
<1>6. QED
  BY <1>4, <1>5 DEF e, t

LEMMA CloseFits == ASSUME NEW c, c.cmd = "COTY", NEW v PROVE Fits(c, Ok, Reply(c.cmd), v)
<1>1. Len(Reply(c.cmd)) = 1 /\ Reply(c.cmd)[1] = "200"
  BY CloseWants
<1>2. Matches(c, "200", Ok[1], v)
  BY ShortReplies DEF Matches, Values
<1>3. QED
  BY <1>1, <1>2, ShortReplies, FitsWhole

LEMMA ListFits ==
    ASSUME NEW c, c.cmd = "LITY", NEW v
    PROVE  Fits(c, RecordingList, Reply(c.cmd), v)
<1> DEFINE e == Reply(c.cmd)
           t == RecordingList
<1>1. Len(e) = 2 /\ e[1] = "skip" /\ e[2] = "list"
  BY ListWants
<1>2. /\ Len(t) = 3
      /\ t[1].k = "200" /\ t[2].k = "300" /\ t[3].k = "list" /\ t[3].of = "recordings"
  BY ListReply
<1> HIDE DEF e, t
<1>3. Matches(c, e[1], t[1 + 1], v) /\ Matches(c, e[2], t[2 + 1], v)
  BY <1>1, <1>2 DEF Matches, Values
<1>4. FitsAt(c, t, e, v, 1, 1)
  BY <1>1, <1>2, <1>3 DEF FitsAt
<1>5. 1 \in 1..(Len(e) + 1) /\ 1 \in Nat
  BY <1>1
<1>6. QED
  BY <1>4, <1>5 DEF Fits, e, t

LEMMA IndexFits ==
    ASSUME NEW c, c.cmd = "CITY", NEW v, NEW s, NEW r,
           Lines(s), Len(s) \in Nat, Len(s) > 0, \A i \in 1..Len(s) : s[i].k = "200"
    PROVE  Lines(s \o GopList(r)) /\ Fits(c, s \o GopList(r), Reply(c.cmd), v)
<1> DEFINE e == Reply(c.cmd)
           g == GopList(r)
           t == s \o g
           d == Len(s)
<1>1. Len(e) = 4 /\ e[1] = "200" /\ e[2] = "skip" /\ e[3] = "list" /\ e[4] = "200"
  BY IndexWants
<1>2. /\ Lines(g) /\ Len(g) = 4
      /\ g[1].k = "200" /\ g[2].k = "300" /\ g[3].k = "list" /\ g[3].of = "gops"
      /\ g[4].k = "200"
  BY GopsReply
<1> HIDE DEF e, g
<1>3. Lines(t) /\ Joined(t, s, g)
  BY <1>2, LinesJoin
<1> HIDE DEF t
<1>4. Len(t) = 4 + d
  BY <1>2, <1>3 DEF Joined
<1>5. \A i \in 1..d : t[i].k = "200"
  BY <1>3 DEF Joined
<1>6. \A i \in 1..4 : t[d + i] = g[i]
  BY <1>2, <1>3 DEF Joined
<1>7. t[d + 1].k = "200" /\ t[2 + d].k = "300" /\ t[3 + d].k = "list"
      /\ t[3 + d].of = "gops" /\ t[4 + d].k = "200"
  <2>1. d + 1 = 1 + d /\ d + 2 = 2 + d /\ d + 3 = 3 + d /\ d + 4 = 4 + d
    OBVIOUS
  <2>2. QED
    BY <1>2, <1>6, <2>1
<1>8. \A i \in 1..1 : Matches(c, e[i], t[i], v)
  BY <1>1, <1>5 DEF Matches, Values
<1>9. \A i \in 2..(2 + d - 1) : t[i].k = "200"
  <2>1. ASSUME NEW i \in 2..(2 + d - 1) PROVE i \in 1..d \/ i = d + 1
    OBVIOUS
  <2>2. QED
    BY <1>5, <1>7, <2>1
<1>10. \A i \in 2..4 : Matches(c, e[i], t[i + d], v)
  <2>1. Matches(c, e[2], t[2 + d], v)
    BY <1>1, <1>7 DEF Matches, Values
  <2>2. Matches(c, e[3], t[3 + d], v)
    BY <1>1, <1>7 DEF Matches, Values
  <2>3. Matches(c, e[4], t[4 + d], v)
    BY <1>1, <1>7 DEF Matches, Values
  <2>4. QED
    BY <2>1, <2>2, <2>3
<1>11. FitsAt(c, t, e, v, 2, d)
  BY <1>1, <1>4, <1>8, <1>9, <1>10 DEF FitsAt
<1>12. 2 \in 1..(Len(e) + 1) /\ d \in Nat
  BY <1>1
<1>13. QED
  BY <1>3, <1>11, <1>12 DEF Fits, e, g, t

LEMMA DifferentLines == <<0>> # <<-1>>
<1>1. <<0>>[1] = 0 /\ <<-1>>[1] = -1
  OBVIOUS
<1>2. QED
  BY <1>1

LEMMA LastValue == 7 \in 1..7 /\ 3 * 7 + 4 = 25
OBVIOUS

OddRate(r) == Recordings[r].probe = "odd rate"

LEMMA ProbeValue ==
    ASSUME NEW r, ~OddRate(r)
    PROVE  Probed(r, 6) = 0 /\ Probed(r, 7) = NumberOfChunks(r)
<1>1. 6 # 7
  OBVIOUS
<1>2. QED
  BY <1>1, Zenon DEF Probed, OddRate

LEMMA OpenFits ==
    ASSUME NEW c, c.cmd = "OPTY", NEW r, ~OddRate(r)
    PROVE  LET t == Ok \o Ok \o Ok \o ProbeResult(r) IN
           /\ Lines(t) /\ Fits(c, t, Reply(c.cmd), <<NumberOfChunks(r)>>)
           /\ \E i \in 1..Len(Reply(c.cmd)) : Reply(c.cmd)[i] \in Values
<1> DEFINE e == Reply(c.cmd)
           t == Ok \o Ok \o Ok \o ProbeResult(r)
           f == [i \in 1..7 |-> ProbeLines(r, i)]
           v == <<NumberOfChunks(r)>>
<1>1. /\ Len(e) = 26
      /\ \A k \in 1..7 : e[3 * k + 2] = "200" /\ e[3 * k + 3] = "300" /\ e[3 * k + 4] = Value(k)
      /\ \A i \in 1..4 : e[i] = "200"
      /\ e[26] = "200"
  BY OpenEntries, OpenWants
<1>2. /\ Lines(t) /\ Framed(t, f)
      /\ \A i \in 1..4 : t[i].k = "200"
      /\ t[26].k = "200"
  BY OpenLines
<1>3. ASSUME NEW k \in 1..7
      PROVE  /\ f[k][1].k = "200" /\ f[k][2].k = "300" /\ f[k][3].k = "text"
             /\ f[k][3].data = <<Probed(r, k)>>
  <2>1. f[k] = ProbeLines(r, k)
    OBVIOUS
  <2> HIDE DEF f
  <2>2. QED
    BY <2>1, ThreeLines DEF ProbeLines, Ok, Announce, Text, Token
<1> HIDE DEF e, t, f
<1>4. ASSUME NEW k \in 1..7 PROVE Matches(c, Value(k), f[k][3], v)
  <2>1. CASE k = 6
    <3>1. Probed(r, k) = 0 /\ Value(k) = "frame_rate"
      BY <2>1, ProbeValue DEF Value
    <3>2. <<0>> # <<-1>>
      BY DifferentLines
    <3>3. f[k][3].k = "text" /\ f[k][3].data = <<0>>
      BY <1>3, <3>1
    <3>4. Matches(c, "frame_rate", f[k][3], v)
      BY <3>2, <3>3 DEF Matches, Values
    <3>5. QED
      BY <3>1, <3>4
  <2>2. CASE k = 7
    <3>1. Probed(r, k) = NumberOfChunks(r) /\ Value(k) = "chunks"
      BY <2>2, ProbeValue DEF Value
    <3>2. f[k][3].k = "text" /\ f[k][3].data = v
      BY <1>3, <3>1
    <3>3. Matches(c, "chunks", f[k][3], v)
      BY <3>2 DEF Matches, Values
    <3>4. QED
      BY <3>1, <3>3
  <2>3. CASE k # 6 /\ k # 7
    <3>1. Value(k) = "text"
      BY <2>3 DEF Value
    <3>2. Matches(c, "text", f[k][3], v)
      BY <1>3 DEF Matches, Values
    <3>3. QED
      BY <3>1, <3>2
  <2>4. QED
    BY <2>1, <2>2, <2>3
<1>5. Len(t) = 26
  BY <1>2 DEF Framed
<1>6. ASSUME NEW i \in 1..26 PROVE Matches(c, e[i], t[i], v)
  <2>1. CASE i \in 1..4 \/ i = 26
    BY <1>1, <1>2, <2>1 DEF Matches, Values
  <2>2. CASE \E k \in 1..7 : i = 3 * k + 2 \/ i = 3 * k + 3 \/ i = 3 * k + 4
    <3>1. PICK k \in 1..7 : i = 3 * k + 2 \/ i = 3 * k + 3 \/ i = 3 * k + 4
      BY <2>2
    <3>2. t[3 * k + 2] = f[k][1] /\ t[3 * k + 3] = f[k][2] /\ t[3 * k + 4] = f[k][3]
      BY <1>2 DEF Framed
    <3>3. e[3 * k + 2] = "200" /\ e[3 * k + 3] = "300" /\ e[3 * k + 4] = Value(k)
      BY <1>1
    <3>4. Matches(c, "200", f[k][1], v) /\ Matches(c, "300", f[k][2], v)
      BY <1>3 DEF Matches, Values
    <3>5. Matches(c, Value(k), f[k][3], v)
      BY <1>4
    <3>6. QED
      BY <3>1, <3>2, <3>3, <3>4, <3>5
  <2>3. QED
    BY <2>1, <2>2, OpenPlace
<1>7. Fits(c, t, e, v)
  <2>1. Len(e) \in Nat /\ Len(t) = Len(e) /\ \A i \in 1..Len(e) : Matches(c, e[i], t[i], v)
    BY <1>1, <1>5, <1>6
  <2>2. QED
    BY <2>1, FitsWhole
<1>8. 25 \in 1..Len(e) /\ e[25] \in Values
  <2>1. 7 \in 1..7 /\ 3 * 7 + 4 = 25
    BY LastValue
  <2>2. e[3 * 7 + 4] = Value(7)
    BY <1>1, <2>1
  <2>3. Value(7) = "chunks"
    BY DEF Value
  <2>4. QED
    BY <1>1, <2>1, <2>2, <2>3 DEF Values
<1>9. QED
  BY <1>2, <1>7, <1>8 DEF e, t

-----------------------------------------------------------------------------
(* A line is read off a reply.                                             *)
LEMMA TailPlaces ==
    ASSUME NEW S, NEW t \in Seq(S), t # <<>>
    PROVE  /\ Tail(t) \in Seq(S) /\ Len(t) \in Nat \ {0} /\ Len(Tail(t)) = Len(t) - 1
           /\ Head(t) = t[1]
           /\ \A i \in 1..(Len(t) - 1) : Tail(t)[i] = t[i + 1]
OBVIOUS

(* s is t without its first element.                                       *)
Shifted(s, t) ==
    /\ Len(t) \in Nat \ {0} /\ Len(s) = Len(t) - 1
    /\ \A i \in 1..(Len(t) - 1) : s[i] = t[i + 1]

LEMMA FitsPlaces ==
    ASSUME NEW l \in Nat \ {0}, NEW d \in Nat, NEW p \in 1..(l + 1), p > 1,
           NEW i \in (p - 1)..(l - 1)
    PROVE  /\ i \in 1..(l - 1) /\ i + d \in 1..(l + d - 1)
           /\ (i + d) + 1 = (i + 1) + d /\ i + 1 \in p..l
OBVIOUS

LEMMA FitsStep ==
    ASSUME NEW c, NEW t, NEW s, Shifted(s, t), NEW e, NEW f, Shifted(f, e), NEW v,
           Fits(c, t, e, v)
    PROVE  \/ e[1] = "skip" /\ t[1].k = "200" /\ Fits(c, s, e, v)
           \/ Matches(c, e[1], t[1], v) /\ Fits(c, s, f, v)
<1>1. PICK p \in 1..(Len(e) + 1), d \in Nat : FitsAt(c, t, e, v, p, d)
  BY DEF Fits
<1>2. /\ Len(t) = Len(e) + d
      /\ d > 0 => p <= Len(e) /\ e[p] = "skip"
      /\ \A i \in 1..(p - 1) : Matches(c, e[i], t[i], v)
      /\ \A i \in p..(p + d - 1) : t[i].k = "200"
      /\ \A i \in p..Len(e) : Matches(c, e[i], t[i + d], v)
  BY <1>1 DEF FitsAt
<1>3. /\ Len(t) \in Nat \ {0} /\ Len(s) = Len(t) - 1
      /\ \A i \in 1..(Len(t) - 1) : s[i] = t[i + 1]
      /\ Len(e) \in Nat \ {0} /\ Len(f) = Len(e) - 1
      /\ \A i \in 1..(Len(e) - 1) : f[i] = e[i + 1]
  BY DEF Shifted
<1>4. CASE p = 1 /\ d > 0
  <2>1. e[1] = "skip" /\ t[1].k = "200"
    BY <1>2, <1>4
  <2>2. \A i \in 1..(d - 1) : s[i].k = "200"
    <3>1. ASSUME NEW i \in 1..(d - 1)
          PROVE  i \in 1..(Len(t) - 1) /\ i + 1 \in p..(p + d - 1)
      BY <1>2, <1>3, <1>4
    <3>2. QED
      BY <1>2, <1>3, <3>1
  <2>3. \A i \in 1..Len(e) : Matches(c, e[i], s[i + (d - 1)], v)
    <3>1. ASSUME NEW i \in 1..Len(e)
          PROVE  /\ i + (d - 1) \in 1..(Len(t) - 1) /\ (i + (d - 1)) + 1 = i + d
                 /\ i \in p..Len(e)
      BY <1>2, <1>3, <1>4
    <3>2. QED
      BY <1>2, <1>3, <3>1
  <2>4. FitsAt(c, s, e, v, 1, d - 1)
    <3>1. Len(s) = Len(e) + (d - 1) /\ 1 + (d - 1) - 1 = d - 1 /\ 1 <= Len(e)
      BY <1>2, <1>3
    <3>2. \A i \in 1..(1 - 1) : Matches(c, e[i], s[i], v)
      OBVIOUS
    <3>3. QED
      BY <2>1, <2>2, <2>3, <3>1, <3>2 DEF FitsAt
  <2>5. 1 \in 1..(Len(e) + 1) /\ d - 1 \in Nat
    BY <1>3, <1>4
  <2>6. QED
    BY <2>1, <2>4, <2>5 DEF Fits
<1>5. CASE p = 1 /\ d = 0
  <2>1. Matches(c, e[1], t[1], v)
    <3>1. 1 \in p..Len(e) /\ 1 + d = 1
      BY <1>3, <1>5
    <3>2. QED
      BY <1>2, <3>1
  <2>2. \A i \in 1..Len(f) : Matches(c, f[i], s[i + 0], v)
    <3>1. ASSUME NEW i \in 1..Len(f)
          PROVE  /\ i \in 1..(Len(e) - 1) /\ i \in 1..(Len(t) - 1) /\ i + 1 \in p..Len(e)
                 /\ (i + 1) + d = i + 1 /\ i + 0 = i
      BY <1>2, <1>3, <1>5
    <3>2. QED
      BY <1>2, <1>3, <3>1
  <2>3. FitsAt(c, s, f, v, 1, 0)
    <3>1. Len(s) = Len(f) + 0
      BY <1>2, <1>3, <1>5
    <3>2. QED
      BY <2>2, <3>1 DEF FitsAt
  <2>4. 1 \in 1..(Len(f) + 1) /\ 0 \in Nat
    BY <1>3
  <2>5. QED
    BY <2>1, <2>3, <2>4 DEF Fits
<1>6. CASE p > 1
  <2>1. Matches(c, e[1], t[1], v)
    <3>1. 1 \in 1..(p - 1)
      BY <1>6
    <3>2. QED
      BY <1>2, <3>1
  <2>2. d > 0 => p - 1 <= Len(f) /\ f[p - 1] = "skip"
    <3>1. d > 0 => p - 1 \in 1..(Len(e) - 1) /\ (p - 1) + 1 = p
      BY <1>2, <1>3, <1>6
    <3>2. QED
      BY <1>2, <1>3, <3>1
  <2>3. \A i \in 1..((p - 1) - 1) : Matches(c, f[i], s[i], v)
    <3>1. ASSUME NEW i \in 1..((p - 1) - 1)
          PROVE  i \in 1..(Len(e) - 1) /\ i \in 1..(Len(t) - 1) /\ i + 1 \in 1..(p - 1)
      BY <1>2, <1>3, <1>6
    <3>2. QED
      BY <1>2, <1>3, <3>1
  <2>4. \A i \in (p - 1)..((p - 1) + d - 1) : s[i].k = "200"
    <3>1. ASSUME NEW i \in (p - 1)..((p - 1) + d - 1)
          PROVE  i \in 1..(Len(t) - 1) /\ i + 1 \in p..(p + d - 1)
      BY <1>2, <1>3, <1>6
    <3>2. QED
      BY <1>2, <1>3, <3>1
  <2>5. \A i \in (p - 1)..Len(f) : Matches(c, f[i], s[i + d], v)
    <3>1. ASSUME NEW i \in (p - 1)..Len(f)
          PROVE  /\ i \in 1..(Len(e) - 1) /\ i + d \in 1..(Len(t) - 1)
                 /\ (i + d) + 1 = (i + 1) + d /\ i + 1 \in p..Len(e)
      <4>1. /\ Len(e) \in Nat \ {0} /\ Len(t) = Len(e) + d /\ p > 1
            /\ p \in 1..(Len(e) + 1) /\ d \in Nat /\ i \in (p - 1)..(Len(e) - 1)
        BY <1>2, <1>3, <1>6
      <4>2. QED
        BY <4>1, FitsPlaces
    <3>2. QED
      BY <1>2, <1>3, <3>1
  <2>6. Len(s) = Len(f) + d
    BY <1>2, <1>3
  <2>7. FitsAt(c, s, f, v, p - 1, d)
    BY <2>2, <2>3, <2>4, <2>5, <2>6 DEF FitsAt
  <2>8. p - 1 \in 1..(Len(f) + 1)
    BY <1>3, <1>6
  <2>9. QED
    BY <2>1, <2>7, <2>8 DEF Fits
<1>7. QED
  BY <1>4, <1>5, <1>6

LEMMA FitsLength ==
    ASSUME NEW c, NEW t, NEW e, NEW v, Fits(c, t, e, v), Len(e) \in Nat
    PROVE  Len(t) >= Len(e) /\ (Len(e) = 0 => Len(t) = 0)
<1>1. PICK p \in 1..(Len(e) + 1), d \in Nat : FitsAt(c, t, e, v, p, d)
  BY DEF Fits
<1>2. Len(t) = Len(e) + d /\ (d > 0 => p <= Len(e))
  BY <1>1 DEF FitsAt
<1>3. QED
  BY <1>2

(* The function takes a line that matches.                                 *)
LEMMA MatchesTaken ==
    ASSUME NEW v, wanted \in Wants, Matches(call, wanted, token, v)
    PROVE  /\ Accepted /\ Readable /\ ~(wanted = "skip" /\ token.k = "200")
           /\ wanted # "all"
           /\ wanted \in Values => token.data = v
<1> DEFINE w == wanted
           k == token.k
           t == token
<1>1. w \in Wants
  OBVIOUS
<1>2. w \in Values => t.data = v
  BY DEF Matches
<1>3. CASE w = "200"
  BY <1>2, <1>3 DEF Matches, Accepted, Readable
<1>4. CASE w = "skip"
  BY <1>2, <1>4 DEF Matches, Accepted, Readable
<1>5. CASE w = "300"
  BY <1>2, <1>5 DEF Matches, Accepted, Readable
<1>6. CASE w = "frame_rate"
  BY <1>2, <1>6 DEF Matches, Accepted, Readable
<1>7. CASE w = "text"
  BY <1>2, <1>7 DEF Matches, Accepted, Readable
<1>8. CASE w = "chunks"
  BY <1>2, <1>8 DEF Matches, Accepted, Readable
<1>9. CASE w = "data"
  BY <1>2, <1>9 DEF Matches, Accepted, Readable
<1>10. CASE w = "list"
  BY <1>2, <1>10 DEF Matches, Accepted, Readable
<1>11. CASE w = "all"
  BY <1>11 DEF Matches
<1>12. QED
  BY <1>1, <1>3, <1>4, <1>5, <1>6, <1>7, <1>8, <1>9, <1>10, <1>11 DEF Wants

-----------------------------------------------------------------------------
(* The client reads.                                                       *)
LEMMA EmptyLines ==
    ASSUME NEW t, Lines(t)
    PROVE  Len(t) \in Nat /\ (Len(t) = 0 <=> t = <<>>)
BY DEF Lines

LEMMA ShiftedLines ==
    ASSUME NEW t, Lines(t), t # <<>>
    PROVE  Lines(Tail(t)) /\ Shifted(Tail(t), t) /\ Head(t) = t[1]
<1>1. PICK S : t \in Seq(S)
  BY DEF Lines
<1>2. QED
  BY <1>1, TailPlaces DEF Lines, Shifted

LEMMA Wanting ==
    ASSUME ClientOK, call # Idle
    PROVE  /\ call \in Calls
           /\ expects \in Seq(Wants) /\ expects # <<>> /\ Len(expects) \in Nat \ {0}
           /\ wanted = expects[1] /\ wanted \in Wants
           /\ Shifted(Tail(expects), expects) /\ Tail(expects) \in Seq(Wants)
           /\ call.cmd # "PLTY" => wanted # "all"
<1>1. expects \in Seq(Wants) /\ expects # <<>> /\ call \in Calls
  BY DEF ClientOK
<1>2. /\ Tail(expects) \in Seq(Wants) /\ Len(expects) \in Nat \ {0}
      /\ Shifted(Tail(expects), expects) /\ Head(expects) = expects[1]
  BY <1>1, TailPlaces DEF Shifted
<1>3. 1 \in 1..Len(expects)
  BY <1>2
<1>4. expects[1] \in Wants
  BY <1>1, <1>3
<1>5. call.cmd # "PLTY" => expects[1] # "all"
  BY <1>3 DEF ClientOK
<1>6. QED
  BY <1>1, <1>2, <1>4, <1>5 DEF wanted

LEMMA ChunksToAsk ==
    ASSUME NEW r \in DOMAIN Recordings
    PROVE  NumberOfChunks(r) \in Int
<1>1. Recordings[r].start \in Nat
  BY ServerAssumption, Zenon
<1>2. Chunks(r) \in Nat
  BY StreamPlaces
<1>3. QED
  BY <1>1, <1>2 DEF NumberOfChunks

LEMMA AgreesKept ==
    ASSUME NEW h, Agrees(h), UNCHANGED <<infile, fsid, tystream>>
    PROVE  Agrees(h)'
BY DEF Agrees

(* A call that returns may give a value.                                   *)
Returns(ok, data) ==
    /\ ok /\ call.cmd = "OPTY" =>
         call.arg \in DOMAIN Recordings /\ data = <<NumberOfChunks(call.arg)>>
    /\ ok /\ call.cmd = "CITY" => handle # NoHandle
    /\ ok /\ call.cmd = "SCTY" => Len(data) = 1

LEMMA ReturnKeeps ==
    ASSUME ClientOK, call # Idle, socket' \in {"open", "closed"},
           NEW ok \in BOOLEAN, NEW data, Return(ok, data), Returns(ok, data)
    PROVE  ClientOK' /\ call' = Idle /\ handle' = HandleAfter(ok)
<1>1. /\ call' = Idle /\ expects' = <<>>
      /\ answer' = (IF ok THEN [to |-> call, data |-> data] ELSE NoAnswer)
  BY DEF Return
<1>2. handle' = HandleAfter(ok) /\ handle' \in Handles
  <2>1. CASE call.cmd = "OPTY" /\ ok
    <3>1. call.arg \in DOMAIN Recordings /\ data[1] = NumberOfChunks(call.arg)
      BY <2>1 DEF Returns
    <3>2. handle' = [fsid |-> call.arg, nr |-> data[1], index |-> FALSE]
      BY <2>1 DEF Return
    <3>3. NumberOfChunks(call.arg) \in Int
      BY <3>1, ChunksToAsk
    <3>4. HandleAfter(ok) = [fsid |-> call.arg, nr |-> NumberOfChunks(call.arg),
                             index |-> FALSE]
      BY <2>1 DEF HandleAfter
    <3>5. QED
      BY <3>1, <3>2, <3>3, <3>4 DEF Handles
  <2>2. CASE call.cmd = "COTY"
    <3>1. handle' = NoHandle /\ HandleAfter(ok) = NoHandle
      BY <2>2 DEF Return, HandleAfter
    <3>2. QED
      BY <3>1 DEF Handles
  <2>3. CASE call.cmd = "CITY" /\ ok
    <3>1. handle \in [fsid : DOMAIN Recordings, nr : Int, index : BOOLEAN]
      BY <2>3 DEF Returns, ClientOK, Handles
    <3>2. /\ handle' = [handle EXCEPT !.index = TRUE]
          /\ HandleAfter(ok) = [handle EXCEPT !.index = TRUE]
      BY <2>3 DEF Return, HandleAfter
    <3>3. QED
      BY <3>1, <3>2 DEF Handles
  <2>4. CASE ~(call.cmd = "OPTY" /\ ok) /\ call.cmd # "COTY" /\ ~(call.cmd = "CITY" /\ ok)
    <3>1. handle' = handle /\ HandleAfter(ok) = handle
      BY <2>4 DEF Return, HandleAfter
    <3>2. QED
      BY <3>1 DEF ClientOK
  <2>5. QED
    BY <2>1, <2>2, <2>3, <2>4
<1>3. (answer.to.cmd = "SCTY" => Len(answer.data) = 1)'
  <2>1. CASE ok
    BY <1>1, <2>1 DEF Returns
  <2>2. CASE ~ok
    BY <1>1, <2>2 DEF NoAnswer, Idle
  <2>3. QED
    BY <2>1, <2>2
<1>4. (expects \in Seq(Wants))' /\ (\A i \in 1..Len(expects) : expects[i] # "all")'
  <2>1. <<>> \in Seq(Wants) /\ \A i \in 1..Len(<<>>) : <<>>[i] # "all"
    OBVIOUS
  <2>2. QED
    BY <1>1, <2>1
<1>5. QED
  BY <1>1, <1>2, <1>3, <1>4 DEF ClientOK

LEMMA AdvanceKeeps ==
    ASSUME ClientOK, call # Idle, socket' \in {"open", "closed"}, Len(expects) # 1,
           expects' = Tail(expects), UNCHANGED <<call, handle, answer>>
    PROVE  ClientOK'
<1>1. /\ expects \in Seq(Wants) /\ Len(expects) \in Nat \ {0}
      /\ Shifted(Tail(expects), expects) /\ Tail(expects) \in Seq(Wants)
  BY Wanting
<1>2. Len(Tail(expects)) = Len(expects) - 1 /\ Tail(expects) # <<>>
  <2>1. Len(Tail(expects)) = Len(expects) - 1
    BY <1>1 DEF Shifted
  <2>2. Len(Tail(expects)) # 0
    BY <1>1, <2>1
  <2>3. Len(<<>>) = 0
    OBVIOUS
  <2>4. QED
    BY <2>1, <2>2, <2>3
<1>3. call.cmd # "PLTY" => \A i \in 1..Len(Tail(expects)) : Tail(expects)[i] # "all"
  <2>1. SUFFICES ASSUME call.cmd # "PLTY", NEW i \in 1..Len(Tail(expects))
                 PROVE  Tail(expects)[i] # "all"
    OBVIOUS
  <2>2. i \in 1..(Len(expects) - 1) /\ i + 1 \in 1..Len(expects)
    BY <1>1, <1>2
  <2>3. Tail(expects)[i] = expects[i + 1]
    BY <1>1, <2>2 DEF Shifted
  <2>4. expects[i + 1] # "all"
    BY <2>1, <2>2 DEF ClientOK
  <2>5. QED
    BY <2>3, <2>4
<1>4. QED
  BY <1>1, <1>2, <1>3 DEF ClientOK

(* A line that the function takes, of a reply with the value v.            *)
LEMMA ServedLine ==
    ASSUME SyncInv, ReadNext, NEW v, Served(v), request = <<>>, alive = "up"
    PROVE  SyncInv'
<1>1. /\ call # Idle /\ socket = "open" /\ to_client # <<>> /\ ClientOK /\ ServerOK
      /\ Lines(to_client)
  BY DEF SyncInv, ReadNext, Reading
<1>2. /\ to_client' = Tail(to_client) /\ request' = <<>>
      /\ UNCHANGED <<infile, fsid, tystream, alive, buf>>
  BY DEF ReadNext, serverVars
<1>3. /\ call \in Calls /\ expects \in Seq(Wants) /\ Len(expects) \in Nat \ {0}
      /\ wanted = expects[1] /\ wanted \in Wants
      /\ Shifted(Tail(expects), expects) /\ Tail(expects) \in Seq(Wants)
  BY <1>1, Wanting
<1>4. /\ Lines(Tail(to_client)) /\ Shifted(Tail(to_client), to_client)
      /\ token = to_client[1]
  BY <1>1, ShiftedLines DEF token
<1>5. ServerOK' /\ (socket = "open" => Lines(to_client))'
  BY <1>1, <1>2, <1>4 DEF ServerOK
<1>6. /\ Fits(call, to_client, expects, v) /\ Carries(expects, v)
      /\ call.cmd = "OPTY" =>
           call.arg \in DOMAIN Recordings /\ v = <<NumberOfChunks(call.arg)>>
      /\ call.cmd = "SCTY" => Len(v) = 1
      /\ call.cmd = "CITY" => handle # NoHandle
      /\ Agrees(HandleAfter(TRUE))
  BY DEF Served
<1>7. PICK h : h = HandleAfter(TRUE) /\ Agrees(h)
  BY <1>6
<1>8. Agrees(h)'
  BY <1>2, <1>7, AgreesKept
<1>9. CASE /\ expects[1] = "skip" /\ to_client[1].k = "200"
           /\ Fits(call, Tail(to_client), expects, v)
  <2>1. Readable
    BY <1>3, <1>4, <1>9 DEF Readable
  <2>2. socket' = "open" /\ UNCHANGED <<call, expects, got, handle, answer>>
    BY <1>3, <1>4, <1>9, <2>1 DEF ReadNext
  <2>3. ClientOK'
    BY <1>1, <2>2 DEF ClientOK
  <2>4. Served(v)'
    <3>1. HandleAfter(TRUE)' = h
      BY <1>7, <2>2 DEF HandleAfter
    <3>2. QED
      BY <1>2, <1>6, <1>8, <1>9, <2>2, <3>1 DEF Served, Carries
  <2>5. QED
    BY <1>1, <1>2, <1>5, <2>2, <2>3, <2>4 DEF SyncInv, Answered
<1>10. CASE /\ Matches(call, expects[1], to_client[1], v)
            /\ Fits(call, Tail(to_client), Tail(expects), v)
  <2>1. /\ Accepted /\ Readable /\ ~(wanted = "skip" /\ token.k = "200")
        /\ wanted \in Values => token.data = v
    <3>1. wanted \in Wants /\ Matches(call, wanted, token, v)
      BY <1>3, <1>4, <1>10
    <3>2. QED
      BY <3>1, MatchesTaken
  <2>2. PICK d : d = IF wanted \in {"chunks", "data"} THEN token.data ELSE got
    OBVIOUS
  <2>3. socket' = "open" /\ Advance(d)
    BY <2>1, <2>2 DEF ReadNext
  <2>4. wanted \in Values => d = v
    BY <2>1, <2>2 DEF Values
  <2>5. wanted \notin Values => d = got
    BY <2>2 DEF Values
  <2>6. CASE Len(expects) = 1
    <3>1. d = v
      <4>1. CASE wanted \in Values
        BY <2>4, <4>1
      <4>2. CASE wanted \notin Values
        <5>1. got = v
          BY <1>3, <1>6, <2>6, <4>2 DEF Carries
        <5>2. QED
          BY <2>5, <4>2, <5>1
      <4>3. QED
        BY <4>1, <4>2
    <3>2. Return(TRUE, d) /\ Returns(TRUE, d)
      BY <1>6, <2>3, <2>6, <3>1 DEF Advance, Returns
    <3>3. ClientOK' /\ call' = Idle /\ handle' = HandleAfter(TRUE)
      BY <1>1, <2>3, <3>2, ReturnKeeps
    <3>4. Tail(to_client) = <<>>
      <4>1. Len(Tail(expects)) = 0
        BY <1>3, <2>6 DEF Shifted
      <4>2. Len(Tail(to_client)) = 0
        <5>1. Fits(call, Tail(to_client), Tail(expects), v) /\ Len(Tail(expects)) \in Nat
          BY <1>10, <4>1
        <5>2. Len(Tail(expects)) = 0 => Len(Tail(to_client)) = 0
          BY <5>1, FitsLength
        <5>3. QED
          BY <4>1, <5>2
      <4>3. QED
        BY <1>4, <4>2, EmptyLines
    <3>5. Synced'
      BY <1>2, <1>7, <1>8, <3>3, <3>4 DEF Synced
    <3>6. QED
      BY <1>1, <1>2, <1>5, <2>3, <3>3, <3>5 DEF SyncInv
  <2>7. CASE Len(expects) # 1
    <3>1. expects' = Tail(expects) /\ got' = d /\ UNCHANGED <<call, handle, answer>>
      BY <2>3, <2>7 DEF Advance
    <3>2. ClientOK'
      BY <1>1, <2>3, <2>7, <3>1, AdvanceKeeps
    <3>3. d = v \/ \E i \in 1..Len(Tail(expects)) : Tail(expects)[i] \in Values
      <4>1. CASE wanted \in Values
        BY <2>4, <4>1
      <4>2. CASE wanted \notin Values /\ got = v
        BY <2>5, <4>2
      <4>3. CASE wanted \notin Values /\ \E i \in 1..Len(expects) : expects[i] \in Values
        <5>1. PICK i \in 1..Len(expects) : expects[i] \in Values
          BY <4>3
        <5>2. i # 1
          BY <1>3, <4>3, <5>1
        <5>3. /\ i - 1 \in 1..(Len(expects) - 1) /\ (i - 1) + 1 = i
              /\ i - 1 \in 1..Len(Tail(expects))
          BY <1>3, <5>2 DEF Shifted
        <5>4. Tail(expects)[i - 1] = expects[i]
          BY <1>3, <5>3 DEF Shifted
        <5>5. QED
          BY <5>1, <5>3, <5>4
      <4>4. QED
        BY <1>6, <4>1, <4>2, <4>3 DEF Carries
    <3>4. Served(v)'
      <4>1. HandleAfter(TRUE)' = h
        BY <1>7, <3>1 DEF HandleAfter
      <4>2. Carries(expects, v)'
        BY <3>1, <3>3 DEF Carries
      <4>3. Fits(call, to_client, expects, v)'
        BY <1>2, <1>10, <3>1
      <4>4. QED
        BY <1>6, <1>8, <3>1, <4>1, <4>2, <4>3 DEF Served
    <3>5. call' # Idle
      BY <1>1, <3>1
    <3>6. QED
      BY <1>1, <1>2, <1>5, <2>3, <3>2, <3>4, <3>5 DEF SyncInv, Answered
  <2>8. QED
    BY <2>6, <2>7
<1>11. QED
  BY <1>3, <1>4, <1>6, <1>9, <1>10, FitsStep

(* A line of a reply that says that the command has failed.                *)
LEMMA FailedLine ==
    ASSUME SyncInv, ReadNext, Failed, request = <<>>, alive = "up"
    PROVE  SyncInv'
<1>1. /\ call # Idle /\ socket = "open" /\ to_client # <<>> /\ ClientOK /\ ServerOK
      /\ Lines(to_client)
  BY DEF SyncInv, ReadNext, Reading
<1>2. /\ to_client' = Tail(to_client) /\ request' = <<>>
      /\ UNCHANGED <<infile, fsid, tystream, alive, buf>>
  BY DEF ReadNext, serverVars
<1>3. /\ Len(expects) \in Nat \ {0} /\ wanted = expects[1]
      /\ Shifted(Tail(expects), expects)
  BY <1>1, Wanting
<1>4. /\ Lines(Tail(to_client)) /\ Shifted(Tail(to_client), to_client)
      /\ token = to_client[1]
  BY <1>1, ShiftedLines DEF token
<1>5. ServerOK' /\ (socket = "open" => Lines(to_client))'
  BY <1>1, <1>2, <1>4 DEF ServerOK
<1>6. PICK h : h = HandleAfter(FALSE) /\ Agrees(h)
  BY DEF Failed
<1>7. Agrees(h)'
  BY <1>2, <1>6, AgreesKept
<1>8. CASE Len(to_client) = 1 /\ to_client[1].k = "400" /\ expects[1] \in {"200", "skip"}
  <2>1. /\ Readable /\ ~Accepted /\ ~(wanted = "skip" /\ token.k = "200")
    BY <1>3, <1>4, <1>8 DEF Readable, Accepted
  <2>2. socket' = "open" /\ Return(FALSE, <<>>)
    BY <2>1 DEF ReadNext
  <2>3. ClientOK' /\ call' = Idle /\ handle' = HandleAfter(FALSE)
    <3>1. Returns(FALSE, <<>>)
      BY DEF Returns
    <3>2. QED
      BY <1>1, <2>2, <3>1, ReturnKeeps
  <2>4. Tail(to_client) = <<>>
    <3>1. Len(Tail(to_client)) = 0
      BY <1>4, <1>8 DEF Shifted
    <3>2. QED
      BY <1>4, <3>1, EmptyLines
  <2>5. Synced'
    BY <1>2, <1>6, <1>7, <2>3, <2>4 DEF Synced
  <2>6. QED
    BY <1>1, <1>2, <1>5, <2>2, <2>3, <2>5 DEF SyncInv
<1>9. CASE /\ Len(to_client) = 2 /\ to_client[1].k = "200" /\ to_client[2].k = "400"
           /\ Len(expects) > 1 /\ expects[1] = "200" /\ expects[2] \in {"200", "skip"}
  <2>1. /\ Readable /\ Accepted /\ wanted = "200"
    BY <1>3, <1>4, <1>9 DEF Readable, Accepted
  <2>2. PICK d : d = IF wanted \in {"chunks", "data"} THEN token.data ELSE got
    OBVIOUS
  <2>3. socket' = "open" /\ Advance(d)
    BY <2>1, <2>2 DEF ReadNext
  <2>4. Len(expects) # 1
    BY <1>9
  <2>5. expects' = Tail(expects) /\ UNCHANGED <<call, handle, answer>>
    BY <2>3, <2>4 DEF Advance
  <2>6. ClientOK'
    BY <1>1, <2>3, <2>4, <2>5, AdvanceKeeps
  <2>7. /\ Len(Tail(to_client)) = 1 /\ Tail(to_client)[1] = to_client[2]
        /\ Tail(expects)[1] = expects[2]
    <3>1. 1 \in 1..(Len(to_client) - 1) /\ 1 \in 1..(Len(expects) - 1) /\ 1 + 1 = 2
      BY <1>3, <1>9
    <3>2. QED
      BY <1>4, <1>3, <1>9, <3>1 DEF Shifted
  <2>8. Refused(to_client, expects)'
    BY <1>2, <1>9, <2>5, <2>7 DEF Refused
  <2>9. HandleAfter(FALSE)' = h
    BY <1>6, <2>5 DEF HandleAfter
  <2>10. Failed'
    BY <1>7, <2>8, <2>9 DEF Failed
  <2>11. call' # Idle
    BY <1>1, <2>5
  <2>12. QED
    BY <1>1, <1>2, <1>5, <2>3, <2>6, <2>10, <2>11 DEF SyncInv, Answered
<1>10. QED
  BY <1>8, <1>9 DEF Failed, Refused

(* A line of a reply that the server has not finished.                     *)
LEMMA CutOffLine ==
    ASSUME SyncInv, ReadNext, alive # "up"
    PROVE  SyncInv'
<1>1. /\ call # Idle /\ socket = "open" /\ to_client # <<>> /\ ClientOK /\ ServerOK
      /\ Lines(to_client) /\ CutOff(to_client, expects) /\ wanted # "all"
  BY DEF SyncInv, ReadNext, Reading
<1>2. /\ to_client' = Tail(to_client)
      /\ UNCHANGED <<alive, buf>>
  BY DEF ReadNext, serverVars
<1>3. /\ Len(expects) \in Nat \ {0} /\ wanted = expects[1]
      /\ Shifted(Tail(expects), expects)
  BY <1>1, Wanting
<1>4. /\ Lines(Tail(to_client)) /\ Shifted(Tail(to_client), to_client)
      /\ token = to_client[1]
  BY <1>1, ShiftedLines DEF token
<1>5. ServerOK' /\ (socket = "open" => Lines(to_client))'
  BY <1>1, <1>2, <1>4 DEF ServerOK
<1>6. CASE Len(to_client) = 1 /\ to_client[1].k = "200" /\ expects[1] = "skip"
  <2>1. Readable
    BY <1>3, <1>4, <1>6 DEF Readable
  <2>2. socket' = "open" /\ UNCHANGED <<call, expects, got, handle, answer>>
    BY <1>3, <1>4, <1>6, <2>1 DEF ReadNext
  <2>3. ClientOK'
    BY <1>1, <2>2 DEF ClientOK
  <2>4. Tail(to_client) = <<>>
    <3>1. Len(Tail(to_client)) = 0
      BY <1>4, <1>6 DEF Shifted
    <3>2. QED
      BY <1>4, <3>1, EmptyLines
  <2>5. CutOff(to_client, expects)'
    BY <1>2, <2>4 DEF CutOff
  <2>6. QED
    BY <1>1, <1>2, <1>5, <2>2, <2>3, <2>5 DEF SyncInv
<1>7. ASSUME Len(expects) # 1, Accepted, Readable, wanted # "skip",
             CutOff(Tail(to_client), Tail(expects))
      PROVE  SyncInv'
  <2>1. PICK d : d = IF wanted \in {"chunks", "data"} THEN token.data ELSE got
    OBVIOUS
  <2>2. socket' = "open" /\ Advance(d)
    BY <1>7, <2>1 DEF ReadNext
  <2>3. Len(expects) # 1
    BY <1>7
  <2>4. expects' = Tail(expects) /\ UNCHANGED <<call, handle, answer>>
    BY <2>2, <2>3 DEF Advance
  <2>5. ClientOK'
    BY <1>1, <2>2, <2>3, <2>4, AdvanceKeeps
  <2>6. CutOff(to_client, expects)' /\ call' # Idle
    BY <1>1, <1>2, <1>7, <2>4
  <2>7. QED
    BY <1>1, <1>2, <1>5, <2>2, <2>5, <2>6 DEF SyncInv
<1>8. CASE /\ Len(to_client) = 1 /\ to_client[1].k = "200"
           /\ expects[1] = "200" /\ Len(expects) # 1
  <2>1. Accepted /\ Readable /\ wanted # "skip"
    BY <1>3, <1>4, <1>8 DEF Accepted, Readable
  <2>2. Tail(to_client) = <<>>
    <3>1. Len(Tail(to_client)) = 0
      BY <1>4, <1>8 DEF Shifted
    <3>2. QED
      BY <1>4, <3>1, EmptyLines
  <2>3. Len(expects) # 1
    BY <1>8
  <2>4. CutOff(Tail(to_client), Tail(expects))
    BY <2>2 DEF CutOff
  <2>5. QED
    BY <1>7, <2>1, <2>3, <2>4
<1>9. CASE /\ Len(to_client) = 2 /\ to_client[1].k = "200" /\ to_client[2].k = "200"
           /\ Len(expects) > 1 /\ expects[1] = "200" /\ expects[2] = "skip"
  <2>1. Accepted /\ Readable /\ wanted # "skip"
    BY <1>3, <1>4, <1>9 DEF Accepted, Readable
  <2>2. 1 \in 1..(Len(to_client) - 1) /\ 1 \in 1..(Len(expects) - 1) /\ 1 + 1 = 2
    BY <1>3, <1>9
  <2>3. /\ Len(Tail(to_client)) = 1 /\ Tail(to_client)[1].k = "200"
        /\ Tail(expects)[1] = "skip"
    BY <1>3, <1>4, <1>9, <2>2 DEF Shifted
  <2>4. QED
    BY <1>7, <1>9, <2>1, <2>3 DEF CutOff
<1>10. ASSUME wanted = "300", Len(expects) > 1, expects[2] = "all"
       PROVE  call.cmd # "SCTX"
  <2>1. 2 \in 1..Len(expects)
    BY <1>3, <1>10
  <2>2. call.cmd = "PLTY"
    BY <1>1, <1>10, <2>1 DEF ClientOK
  <2>3. QED
    BY <2>2
<1>11. CASE /\ Len(expects) = 2 /\ expects[1] = "300" /\ expects[2] = "all"
            /\ Len(to_client) = 2 /\ to_client[1].k = "300"
  <2>1. Accepted /\ Readable /\ wanted # "skip"
    BY <1>3, <1>4, <1>10, <1>11 DEF Accepted, Readable
  <2>2. 1 \in 1..(Len(to_client) - 1) /\ 1 \in 1..(Len(expects) - 1) /\ 1 + 1 = 2
    BY <1>3, <1>11
  <2>3. /\ Len(Tail(to_client)) = 1 /\ Len(Tail(expects)) = 1
        /\ Tail(expects)[1] = "all"
    BY <1>3, <1>4, <1>11, <2>2 DEF Shifted
  <2>4. QED
    BY <1>7, <1>11, <2>1, <2>3 DEF CutOff
<1>12. CASE /\ Len(expects) = 3 /\ expects[1] = "200" /\ expects[2] = "300"
            /\ expects[3] = "all"
            /\ Len(to_client) = 3 /\ to_client[1].k = "200" /\ to_client[2].k = "300"
  <2>1. Accepted /\ Readable /\ wanted # "skip"
    BY <1>3, <1>4, <1>12 DEF Accepted, Readable
  <2>2. /\ 1 \in 1..(Len(to_client) - 1) /\ 1 \in 1..(Len(expects) - 1) /\ 1 + 1 = 2
        /\ 2 \in 1..(Len(expects) - 1) /\ 2 + 1 = 3
    BY <1>3, <1>12
  <2>3. /\ Len(Tail(to_client)) = 2 /\ Len(Tail(expects)) = 2
        /\ Tail(expects)[1] = "300" /\ Tail(expects)[2] = "all"
        /\ Tail(to_client)[1].k = "300"
    BY <1>3, <1>4, <1>12, <2>2 DEF Shifted
  <2>4. QED
    BY <1>7, <1>12, <2>1, <2>3 DEF CutOff
<1>13. CASE Len(expects) = 1 /\ expects[1] = "all"
  BY <1>1, <1>3, <1>13
<1>14. QED
  BY <1>1, <1>6, <1>8, <1>9, <1>11, <1>12, <1>13 DEF CutOff

(* Nothing is left to be read of what an asked server has not answered.    *)
LEMMA ReadsAnAnswer ==
    ASSUME SyncInv, Reading, alive = "up"
    PROVE  request = <<>> /\ (Failed \/ \E v : Served(v))
BY DEF SyncInv, Reading, Asked, Answered

LEMMA NextLine == ASSUME SyncInv, ReadNext PROVE SyncInv'
<1>1. CASE alive # "up"
  BY <1>1, CutOffLine
<1>2. CASE alive = "up"
  <2>1. request = <<>> /\ (Failed \/ \E v : Served(v))
    BY <1>2, ReadsAnAnswer DEF ReadNext
  <2>2. CASE Failed
    BY <1>2, <2>1, <2>2, FailedLine
  <2>3. CASE \E v : Served(v)
    BY <1>2, <2>1, <2>3, ServedLine
  <2>4. QED
    BY <2>1, <2>2, <2>3
<1>3. QED
  BY <1>1, <1>2

(* Only the end of the connection ends a stream that is played.            *)
LEMMA AllOfIt == ASSUME SyncInv, ReadAll PROVE SyncInv'
<1>1. /\ call # Idle /\ socket = "open" /\ to_client # <<>> /\ ClientOK /\ ServerOK
      /\ Lines(to_client) /\ wanted = "all"
  BY DEF SyncInv, ReadAll, Reading
<1>2. /\ to_client' = Tail(to_client)
      /\ UNCHANGED <<alive, buf, call, expects, handle, answer, socket>>
  BY DEF ReadAll, serverVars
<1>3. /\ Len(expects) \in Nat \ {0} /\ wanted = expects[1]
      /\ Shifted(Tail(expects), expects)
  BY <1>1, Wanting
<1>4. Lines(Tail(to_client)) /\ Shifted(Tail(to_client), to_client)
  BY <1>1, ShiftedLines
<1>5. alive # "up"
  <2>1. SUFFICES ASSUME alive = "up" PROVE FALSE
    OBVIOUS
  <2>2. Failed \/ \E v : Served(v)
    BY <2>1, ReadsAnAnswer DEF ReadAll
  <2>3. CASE Failed
    BY <1>1, <1>3, <2>3 DEF Failed, Refused
  <2>4. CASE \E v : Served(v)
    <3>1. PICK v : Fits(call, to_client, expects, v)
      BY <2>4 DEF Served
    <3>2. expects[1] = "skip" \/ Matches(call, expects[1], to_client[1], v)
      BY <1>3, <1>4, <3>1, FitsStep
    <3>3. QED
      BY <1>1, <1>3, <3>2 DEF Matches
  <2>5. QED
    BY <2>2, <2>3, <2>4
<1>6. Tail(to_client) = <<>>
  <2>1. Len(to_client) = 1
    BY <1>1, <1>3, <1>5 DEF SyncInv, CutOff
  <2>2. Len(Tail(to_client)) = 0
    BY <1>4, <2>1 DEF Shifted
  <2>3. QED
    BY <1>4, <2>2, EmptyLines
<1>7. CutOff(to_client, expects)' /\ Lines(to_client)'
  BY <1>2, <1>4, <1>6 DEF CutOff
<1>8. ClientOK' /\ ServerOK'
  BY <1>1, <1>2 DEF ClientOK, ServerOK
<1>9. QED
  BY <1>1, <1>2, <1>5, <1>7, <1>8 DEF SyncInv

LEMMA TheEnd == ASSUME SyncInv, EndOfFile PROVE SyncInv'
<1>1. /\ call # Idle /\ socket = "open" /\ to_client = <<>> /\ ClientOK /\ ServerOK
      /\ alive # "up"
  BY DEF SyncInv, EndOfFile
<1>2. UNCHANGED <<to_client, alive, buf, socket>>
  BY DEF EndOfFile, serverVars
<1>3. PICK ok, d : ok = AtEnd /\ d = got
  OBVIOUS
<1>4. Return(ok, d) /\ ok \in BOOLEAN
  BY <1>3 DEF EndOfFile, AtEnd
<1>5. ok => call.cmd = "PLTY"
  BY <1>1, <1>3, Wanting DEF AtEnd
<1>6. Returns(ok, d)
  BY <1>5 DEF Returns
<1>7. ClientOK' /\ call' = Idle
  BY <1>1, <1>2, <1>4, <1>6, ReturnKeeps
<1>8. ServerOK'
  BY <1>1, <1>2 DEF ServerOK
<1>9. QED
  BY <1>1, <1>2, <1>7, <1>8, ShortReplies DEF SyncInv

-----------------------------------------------------------------------------
(* The client calls.                                                       *)
LEMMA NoneIsNoCommand == ASSUME NEW c \in Calls PROVE c # Idle /\ c.cmd \in Commands
<1>1. c.cmd \in Commands
  BY CallsAssumption
<1>2. "none" \notin Commands
  BY DEF Commands
<1>3. QED
  BY <1>1, <1>2 DEF Idle

LEMMA NothingReadAhead ==
    ASSUME NEW n \in 0..Len(<<>>)
    PROVE  SubSeq(<<>>, n + 1, Len(<<>>)) = <<>>
OBVIOUS

LEMMA Calling == ASSUME SyncInv, Call PROVE SyncInv'
<1>1. PICK c \in Calls :
        /\ call = Idle /\ socket = "open" /\ MayCall(c)
        /\ request' = (IF alive = "up" THEN Append(request, c) ELSE request)
        /\ call' = (IF c.cmd = "EXIT" THEN Idle ELSE c)
        /\ socket' = (IF c.cmd = "EXIT" THEN "closed" ELSE socket)
        /\ expects' = Reply(c.cmd) /\ got' = <<>> /\ answer' = NoAnswer
        /\ IF c.cmd = "LITY"
           THEN \E n \in 0..Len(to_client) :
                  to_client' = SubSeq(to_client, n + 1, Len(to_client))
           ELSE UNCHANGED to_client
        /\ UNCHANGED <<sourceVars, serverVars, handle>>
  BY DEF Call
<1>2. UNCHANGED <<infile, fsid, tystream, alive, buf, handle>>
  BY <1>1 DEF serverVars
<1>3. c # Idle /\ c.cmd \in Commands
  BY NoneIsNoCommand
<1>4. /\ ClientOK /\ ServerOK /\ to_client = <<>>
      /\ alive = "up" => request = <<>> /\ Agrees(handle)
  BY <1>1 DEF SyncInv, Synced
<1>5. to_client' = <<>>
  BY <1>1, <1>4, NothingReadAhead
<1>6. /\ Reply(c.cmd) \in Seq(Wants)
      /\ Reply(c.cmd) = <<>> <=> c.cmd = "EXIT"
      /\ c.cmd # "PLTY" => \A i \in 1..Len(Reply(c.cmd)) : Reply(c.cmd)[i] # "all"
  BY <1>3, ReplyType
<1>7. (answer.to.cmd = "SCTY" => Len(answer.data) = 1)'
  BY <1>1 DEF NoAnswer, Idle
<1>8. ServerOK' /\ Lines(to_client)'
  BY <1>2, <1>4, <1>5, ShortReplies DEF ServerOK
<1>9. CASE c.cmd = "EXIT"
  <2>1. /\ call' = Idle /\ socket' = "closed"
        /\ expects' = Reply(c.cmd) /\ Reply(c.cmd) = <<>>
    BY <1>1, <1>6, <1>9
  <2>2. \A i \in 1..Len(Reply(c.cmd)) : Reply(c.cmd)[i] # "all"
    BY <1>6, <1>9
  <2>3. ClientOK'
    BY <1>1, <1>4, <1>6, <1>7, <2>1, <2>2 DEF ClientOK
  <2>4. QED
    BY <1>8, <2>1, <2>3 DEF SyncInv
<1>10. CASE c.cmd # "EXIT"
  <2>1. call' = c /\ socket' = "open" /\ expects' = Reply(c.cmd) /\ Reply(c.cmd) # <<>>
    BY <1>1, <1>6, <1>10
  <2>2. ClientOK'
    BY <1>1, <1>3, <1>4, <1>6, <1>7, <2>1 DEF ClientOK
  <2>3. CASE alive = "up"
    <3>1. request' = <<c>>
      <4>1. request' = Append(<<>>, c)
        BY <1>1, <1>4, <2>3
      <4>2. Append(<<>>, c) = <<c>>
        OBVIOUS
      <4>3. QED
        BY <4>1, <4>2
    <3>2. Agrees(handle)'
      <4>1. PICK h : h = handle /\ Agrees(h)
        BY <1>4, <2>3
      <4>2. Agrees(h)'
        BY <1>2, <4>1, AgreesKept
      <4>3. QED
        BY <1>2, <4>1, <4>2
    <3>3. MayCall(call)'
      BY <1>1, <1>2, <2>1 DEF MayCall
    <3>4. Asked'
      BY <1>1, <1>5, <2>1, <3>1, <3>2, <3>3 DEF Asked
    <3>5. QED
      BY <1>2, <1>3, <1>8, <2>1, <2>2, <2>3, <3>4 DEF SyncInv
  <2>4. CASE alive # "up"
    <3>1. CutOff(to_client, expects)'
      BY <1>5 DEF CutOff
    <3>2. QED
      BY <1>2, <1>3, <1>8, <2>1, <2>2, <2>4, <3>1 DEF SyncInv
  <2>5. QED
    BY <2>3, <2>4
<1>11. QED
  BY <1>9, <1>10

-----------------------------------------------------------------------------
(* The server keeps one chunk in buf.                                      *)
LEMMA ReadLength ==
    ASSUME NEW n, NEW works, NEW torn, NEW old, Len(old) = 1
    PROVE  Len(ReadChunk(n, works, torn, old)) = 1
<1>1. CASE ReadChunk(n, works, torn, old) = mfs_multifsid_pread(n)
           /\ mfs_multifsid_pread(n) # <<>>
  <2>1. Holding(n) # {}
    BY <1>1 DEF mfs_multifsid_pread
  <2>2. PICK f, m : mfs_multifsid_pread(n) = OnDisk(f, m, 1)
    BY <2>1 DEF mfs_multifsid_pread
  <2>3. Len(OnDisk(f, m, 1)) = 1
    BY DEF OnDisk
  <2>4. QED
    BY <1>1, <2>2, <2>3
<1>2. CASE ReadChunk(n, works, torn, old) \in {old, <<Blank>>}
  BY <1>2
<1>3. QED
  BY <1>1, <1>2 DEF ReadChunk

(* The ways out that do not touch buf, and leave the process running.      *)
LEMMA ServerKeeps == ASSUME ServerOK, ServerStep PROVE ServerOK'
<1>1. CASE SendChunk
  <2>1. PICK works \in Works, workstoo \in Works, torn \in BOOLEAN, torntoo \in BOOLEAN :
          LET sent == IF chunk_in_buf = chk THEN buf ELSE ReadChunk(chk, works, torn, buf)
          IN  /\ IF chk + 1 < totalchunks
                 THEN /\ chunk_in_buf' = chk + 1
                      /\ buf' = ReadChunk(chk + 1, workstoo, torntoo, sent)
                 ELSE chunk_in_buf' = chk /\ buf' = sent
              /\ UNCHANGED alive
    BY <1>1 DEF SendChunk
  <2> DEFINE sent == IF chunk_in_buf = chk THEN buf ELSE ReadChunk(chk, works, torn, buf)
  <2>2. buf' = ReadChunk(chk + 1, workstoo, torntoo, sent) \/ buf' = sent
    BY <2>1
  <2>3. alive' = "up" => Len(buf) = 1
    BY <2>1 DEF ServerOK
  <2>4. alive' = "up" => Len(sent) = 1
    BY <2>3, ReadLength
  <2> HIDE DEF sent
  <2>5. alive' = "up" => Len(buf') = 1
    BY <2>2, <2>4, ReadLength
  <2>6. QED
    BY <2>1, <2>5 DEF ServerOK
<1>2. ASSUME UNCHANGED buf, alive' \in {alive, "crashed", "exited", "hung"} PROVE ServerOK'
  BY <1>2 DEF ServerOK
<1>3. ASSUME NEW cmd, NEW reply, Refuse(cmd, reply) \/ Crash(cmd, reply) PROVE ServerOK'
  BY <1>2, <1>3 DEF Refuse, Crash, serverVars
<1>4. CASE List \/ NoChunk \/ NoBlock \/ Unrecognised
  BY <1>3, <1>4 DEF List, NoChunk, NoBlock, Unrecognised
<1>5. CASE IndexedAlready \/ IndexNoFsid \/ IndexOneGop
  BY <1>3, <1>5 DEF IndexedAlready, IndexNoFsid, IndexOneGop
<1>6. CASE SendSeq \/ SeqNotIndexed \/ SendIFrame \/ IFrameNotIndexed
  BY <1>3, <1>6 DEF SendSeq, SeqNotIndexed, SendIFrame, IFrameNotIndexed
<1>7. CASE NotOpen
  BY <1>3, <1>7 DEF NotOpen
<1>8. CASE Exit \/ Close \/ OpenRefused
  BY <1>2, <1>8 DEF Exit, Close, OpenRefused
<1>9. CASE OpenHangs \/ OpenProbeFails \/ Open
  BY <1>2, <1>9 DEF OpenHangs, OpenProbeFails, Open
<1>10. CASE SendBlock \/ BlockUnreadable
  BY <1>2, <1>10 DEF SendBlock, BlockUnreadable
<1>11. CASE IndexCached \/ CreateIndex
  BY <1>2, <1>11 DEF IndexCached, CreateIndex
<1>12. CASE PlayStream
  <2>1. alive' = "exited"
    BY <1>12 DEF PlayStream
  <2>2. QED
    BY <2>1 DEF ServerOK
<1>13. QED
  BY <1>1, <1>4, <1>5, <1>6, <1>7, <1>8, <1>9, <1>10, <1>11, <1>12 DEF ServerStep

-----------------------------------------------------------------------------
(* The server answers the command that the client waits for.               *)
Waiting ==
    /\ call \in Calls /\ call.cmd \in Commands /\ call.cmd # "EXIT"
    /\ alive = "up" /\ handle \in Handles
    /\ request = <<call>> /\ to_client = <<>> /\ Agrees(handle)
    /\ MayCall(call) /\ expects = Reply(call.cmd) /\ got = <<>>

Well ==
    /\ request = <<>> /\ Lines(to_client)
    /\ IF alive = "up" THEN Failed \/ \E v : Served(v) ELSE CutOff(to_client, expects)

LEMMA ServerAsked ==
    ASSUME SyncInv, ServerStep, socket = "open"
    PROVE  Waiting /\ call # Idle
<1>1. ClientOK /\ alive = "up" /\ request # <<>>
  BY DEF SyncInv, ServerStep
<1>2. call # Idle /\ Asked
  BY <1>1 DEF SyncInv, Synced, Answered
<1>3. call \in Calls /\ call.cmd \in Commands /\ expects # <<>>
  BY <1>1, <1>2, NoneIsNoCommand DEF ClientOK
<1>4. call.cmd # "EXIT"
  BY <1>2, <1>3, ReplyType DEF Asked
<1>5. QED
  BY <1>1, <1>2, <1>3, <1>4 DEF Waiting, Asked, ClientOK

LEMMA OneCommand == ASSUME NEW c PROVE Head(<<c>>) = c /\ Tail(<<c>>) = <<>>
OBVIOUS

LEMMA AskedFor == ASSUME Waiting PROVE Head(request) = call /\ arg = call.arg
BY OneCommand DEF Waiting, arg

LEMMA Handled ==
    ASSUME Waiting, NEW cmd, NEW reply, Handle(cmd, reply), Lines(reply)
    PROVE  call.cmd = cmd /\ request' = <<>> /\ to_client' = reply
<1>1. Head(request) = call /\ Tail(request) = <<>> /\ to_client = <<>>
  BY OneCommand DEF Waiting
<1>2. call.cmd = cmd /\ request' = <<>> /\ to_client' = <<>> \o reply
  BY <1>1 DEF Handle
<1>3. QED
  BY <1>2, NothingBefore

(* What the client wants first, and what it has open.                      *)
LEMMA WantsFirst ==
    ASSUME Waiting
    PROVE  expects[1] = (IF call.cmd = "LITY" THEN "skip" ELSE "200")
<1>1. CASE call.cmd \in {"SCTY", "SCTX", "GSTY", "GITY"}
  <2>1. expects[1] = "200"
    BY <1>1, DataWants DEF Waiting
  <2>2. QED
    BY <1>1, <2>1
<1>2. CASE call.cmd = "LITY"
  BY <1>2, ListWants DEF Waiting
<1>3. CASE call.cmd = "CITY"
  BY <1>3, IndexWants DEF Waiting
<1>4. CASE call.cmd = "PLTY"
  BY <1>4, PlayWants DEF Waiting
<1>5. CASE call.cmd = "COTY"
  BY <1>5, CloseWants DEF Waiting
<1>6. CASE call.cmd = "OPTY"
  <2>1. 1 \in 1..4
    OBVIOUS
  <2>2. Reply("OPTY")[1] = "200"
    BY <2>1, OpenWants
  <2>3. QED
    BY <1>6, <2>2 DEF Waiting
<1>7. QED
  BY <1>1, <1>2, <1>3, <1>4, <1>5, <1>6 DEF Waiting, Commands

LEMMA NothingIsOpen ==
    ASSUME Waiting, call.cmd = "OPTY"
    PROVE  handle = NoHandle /\ ~infile
<1>1. handle = NoHandle
  BY DEF Waiting, MayCall
<1>2. QED
  BY <1>1 DEF Waiting, Agrees

LEMMA StreamIsOpen ==
    ASSUME Waiting, call.cmd \in {"SCTY", "SCTX", "CITY", "GSTY", "GITY", "PLTY"}
    PROVE  /\ infile /\ handle # NoHandle
           /\ handle \in [fsid : DOMAIN Recordings, nr : Int, index : BOOLEAN]
           /\ fsid = handle.fsid /\ handle.nr = NumberOfChunks(handle.fsid)
           /\ tystream = [of |-> handle.fsid, start_chunk |-> Recordings[handle.fsid].start,
                          index |-> IF handle.index THEN handle.fsid ELSE -1]
           /\ handle.fsid # -1
           /\ call.cmd = "CITY" => handle.index = FALSE
           /\ call.cmd \in {"GSTY", "GITY"} => handle.index = TRUE
<1>1. /\ call.cmd \in {"SCTY", "SCTX", "CITY", "PLTY"} => handle # NoHandle
      /\ call.cmd = "CITY" => ~handle.index
      /\ call.cmd \in {"GSTY", "GITY"} => handle.index
  BY DEF Waiting, MayCall
<1>2. handle # NoHandle
  <2>1. CASE call.cmd \in {"GSTY", "GITY"}
    <3>1. NoHandle.index = FALSE
      BY DEF NoHandle
    <3>2. handle.index
      BY <1>1, <2>1
    <3>3. QED
      BY <3>1, <3>2
  <2>2. QED
    BY <1>1, <2>1
<1>3. handle \in [fsid : DOMAIN Recordings, nr : Int, index : BOOLEAN]
  BY <1>2 DEF Waiting, Handles
<1>4. handle.fsid \in DOMAIN Recordings /\ handle.index \in BOOLEAN
  BY <1>3
<1>5. handle.fsid # -1
  <2>1. DOMAIN Recordings \subseteq Nat
    BY ServerAssumption, Zenon
  <2>2. QED
    BY <1>4, <2>1
<1>6. /\ infile /\ fsid = handle.fsid /\ handle.nr = NumberOfChunks(handle.fsid)
      /\ tystream = [of |-> handle.fsid, start_chunk |-> Recordings[handle.fsid].start,
                     index |-> IF handle.index THEN handle.fsid ELSE -1]
  BY <1>2 DEF Waiting, Agrees
<1>7. /\ call.cmd = "CITY" => handle.index = FALSE
      /\ call.cmd \in {"GSTY", "GITY"} => handle.index = TRUE
  BY <1>1, <1>4
<1>8. QED
  BY <1>2, <1>3, <1>5, <1>6, <1>7

-----------------------------------------------------------------------------
(* A reply that says no.                                                   *)
LEMMA SaysNo ==
    ASSUME Waiting, UNCHANGED clientVars, NEW cmd, NEW reply, Handle(cmd, reply),
           reply = Error \/ (reply = Ok \o Error /\ cmd = "OPTY"),
           Agrees(HandleAfter(FALSE))', UNCHANGED alive
    PROVE  Well'
<1>1. Lines(reply)
  BY ShortReplies
<1>2. call.cmd = cmd /\ request' = <<>> /\ to_client' = reply
  BY <1>1, Handled
<1>3. expects' = expects /\ expects[1] \in {"200", "skip"}
  BY WantsFirst DEF clientVars
<1>4. Refused(reply, expects)
  <2>1. CASE reply = Error
    BY <1>3, <2>1, ShortReplies DEF Refused
  <2>2. CASE reply = Ok \o Error /\ cmd = "OPTY"
    <3>1. /\ Len(reply) = 2 /\ reply[1].k = "200" /\ reply[2].k = "400"
      BY <2>2, ShortReplies
    <3>2. Len(expects) = 26
      BY <1>2, <2>2, OpenEntries DEF Waiting
    <3>3. 1 \in 1..4 /\ 2 \in 1..4
      OBVIOUS
    <3>4. expects[1] = "200" /\ expects[2] = "200"
      BY <1>2, <2>2, <3>3, OpenWants DEF Waiting
    <3>5. Len(expects) > 1
      BY <3>2
    <3>6. QED
      BY <3>1, <3>4, <3>5 DEF Refused
  <2>3. QED
    BY <2>1, <2>2
<1>5. Failed'
  BY <1>2, <1>3, <1>4 DEF Failed
<1>6. alive' = "up"
  BY DEF Waiting
<1>7. QED
  BY <1>1, <1>2, <1>5, <1>6 DEF Well

(* Nothing has been opened or closed.                                      *)
LEMMA SaysNoOnly ==
    ASSUME Waiting, UNCHANGED clientVars, NEW cmd, Handle(cmd, Error), cmd # "COTY",
           UNCHANGED <<infile, fsid, tystream, alive>>
    PROVE  Well'
<1>1. call.cmd = cmd
  BY Handled, ShortReplies
<1>2. PICK h : h = handle /\ Agrees(h)
  BY DEF Waiting
<1>3. Agrees(h)'
  BY <1>2, AgreesKept
<1>4. HandleAfter(FALSE)' = h
  BY <1>1, <1>2 DEF HandleAfter, clientVars
<1>5. Agrees(HandleAfter(FALSE))'
  BY <1>3, <1>4
<1>6. QED
  BY <1>5, SaysNo

(* A whole reply.                                                          *)
LEMMA SaysYes ==
    ASSUME Waiting, UNCHANGED clientVars, UNCHANGED alive,
           NEW cmd, NEW reply, Handle(cmd, reply), Lines(reply),
           NEW v, Fits(call, reply, Reply(cmd), v),
           v = <<>> \/ \E i \in 1..Len(Reply(cmd)) : Reply(cmd)[i] \in Values,
           cmd = "OPTY" => call.arg \in DOMAIN Recordings /\ v = <<NumberOfChunks(call.arg)>>,
           cmd = "SCTY" => Len(v) = 1,
           cmd = "CITY" => handle # NoHandle,
           Agrees(HandleAfter(TRUE))'
    PROVE  Well'
<1>1. call.cmd = cmd /\ request' = <<>> /\ to_client' = reply
  BY Handled
<1>2. /\ expects = Reply(cmd) /\ got = <<>>
      /\ UNCHANGED <<call, expects, got, handle>>
  BY <1>1 DEF Waiting, clientVars
<1>3. Carries(expects, v)'
  BY <1>2 DEF Carries
<1>4. Served(v)'
  BY <1>1, <1>2, <1>3 DEF Served
<1>5. alive' = "up"
  BY DEF Waiting
<1>6. QED
  BY <1>1, <1>4, <1>5 DEF Well

LEMMA Sends ==
    ASSUME Waiting, UNCHANGED clientVars,
           NEW cmd \in {"SCTY", "SCTX", "GSTY", "GITY"}, NEW of, NEW data,
           Handle(cmd, Sent(of, data)),
           cmd = "SCTX" => of = "block", cmd = "SCTY" => Len(data) = 1,
           UNCHANGED <<infile, fsid, tystream, alive>>
    PROVE  Well'
<1>1. Lines(Sent(of, data))
  BY SentReply
<1>2. call.cmd = cmd
  BY <1>1, Handled
<1>3. /\ Fits(call, Sent(of, data), Reply(cmd), data)
      /\ \E i \in 1..Len(Reply(cmd)) : Reply(cmd)[i] \in Values
  BY <1>2, SentFits
<1>4. PICK h : h = handle /\ Agrees(h)
  BY DEF Waiting
<1>5. Agrees(h)'
  BY <1>4, AgreesKept
<1>6. HandleAfter(TRUE)' = h
  BY <1>2, <1>4 DEF HandleAfter, clientVars
<1>7. Agrees(HandleAfter(TRUE))'
  BY <1>5, <1>6
<1>8. QED
  BY <1>1, <1>3, <1>7, SaysYes

-----------------------------------------------------------------------------
(* LITY, COTY and OPTY *)
LEMMA ListWell == ASSUME Waiting, UNCHANGED clientVars, List PROVE Well'
<1>1. PICK available \in Listings :
        Refuse("LITY", IF available THEN RecordingList ELSE Error)
  BY DEF List
<1>2. UNCHANGED <<infile, fsid, tystream, alive>>
  BY <1>1 DEF Refuse, serverVars
<1>3. CASE ~available
  <2>1. Handle("LITY", Error)
    BY <1>1, <1>3 DEF Refuse
  <2>2. QED
    BY <1>2, <2>1, SaysNoOnly
<1>4. CASE available
  <2>1. Handle("LITY", RecordingList)
    BY <1>1, <1>4 DEF Refuse
  <2>2. Lines(RecordingList)
    BY ListReply
  <2>3. call.cmd = "LITY"
    BY <2>1, <2>2, Handled
  <2>4. Fits(call, RecordingList, Reply("LITY"), <<>>)
    BY <2>3, ListFits
  <2>5. PICK h : h = handle /\ Agrees(h)
    BY DEF Waiting
  <2>6. Agrees(h)'
    BY <1>2, <2>5, AgreesKept
  <2>7. HandleAfter(TRUE)' = h
    BY <2>3, <2>5 DEF HandleAfter, clientVars
  <2>8. Agrees(HandleAfter(TRUE))'
    BY <2>6, <2>7
  <2>9. QED
    BY <1>2, <2>1, <2>2, <2>4, <2>8, SaysYes
<1>5. QED
  BY <1>3, <1>4

LEMMA CloseWell == ASSUME Waiting, UNCHANGED clientVars, Close PROVE Well'
<1>1. Handle("COTY", Ok) /\ infile' = FALSE /\ UNCHANGED alive
  BY DEF Close
<1>2. Lines(Ok)
  BY ShortReplies
<1>3. call.cmd = "COTY"
  BY <1>1, <1>2, Handled
<1>4. Fits(call, Ok, Reply("COTY"), <<>>)
  BY <1>3, CloseFits
<1>5. HandleAfter(TRUE)' = NoHandle
  BY <1>3 DEF HandleAfter, clientVars
<1>6. Agrees(HandleAfter(TRUE))'
  BY <1>1, <1>5 DEF Agrees
<1>7. QED
  BY <1>1, <1>2, <1>4, <1>6, SaysYes

LEMMA OpenWell ==
    ASSUME Waiting, UNCHANGED clientVars, \A r \in DOMAIN Recordings : ~OddRate(r),
           OpenRefused \/ OpenHangs \/ OpenProbeFails \/ Open
    PROVE  Well'
<1>1. arg = call.arg /\ UNCHANGED <<call, handle>>
  BY AskedFor DEF clientVars
<1>2. CASE OpenRefused \/ OpenProbeFails
  <2>1. /\ Handle("OPTY", Error) \/ Handle("OPTY", Ok \o Error)
        /\ infile' = infile \/ infile' = FALSE
        /\ UNCHANGED alive
    BY <1>2 DEF OpenRefused, OpenProbeFails, Opened
  <2>2. call.cmd = "OPTY"
    BY <2>1, Handled, ShortReplies
  <2>3. handle = NoHandle /\ ~infile
    BY <2>2, NothingIsOpen
  <2>4. HandleAfter(FALSE)' = NoHandle
    BY <1>1, <2>2, <2>3 DEF HandleAfter
  <2>5. Agrees(HandleAfter(FALSE))'
    BY <2>1, <2>3, <2>4 DEF Agrees
  <2>6. QED
    BY <2>1, <2>5, SaysNo
<1>3. CASE OpenHangs
  <2>1. Handle("OPTY", Ok) /\ alive' = "hung"
    BY <1>3 DEF OpenHangs, Opened
  <2>2. /\ call.cmd = "OPTY" /\ request' = <<>> /\ to_client' = Ok
        /\ Lines(Ok) /\ Len(Ok) = 1 /\ Ok[1].k = "200"
    BY <2>1, Handled, ShortReplies
  <2>3. Len(expects) # 1
    <3>1. Len(expects) = 26
      BY <2>2, OpenEntries DEF Waiting
    <3>2. QED
      BY <3>1
  <2>4. expects[1] = "200" /\ expects' = expects
    BY <2>2, WantsFirst DEF clientVars
  <2>5. CutOff(to_client, expects)'
    BY <2>2, <2>3, <2>4 DEF CutOff
  <2>6. QED
    BY <2>1, <2>2, <2>5 DEF Well
<1>4. CASE Open
  <2>1. /\ arg \in DOMAIN Recordings /\ UNCHANGED alive
        /\ Handle("OPTY", Ok \o Ok \o Ok \o ProbeResult(arg))
        /\ tystream' = [of |-> arg, start_chunk |-> Recordings[arg].start, index |-> -1]
        /\ infile' = TRUE /\ fsid' = arg
    BY <1>4 DEF Open, Opened
  <2>2. PICK r \in DOMAIN Recordings : r = arg
    BY <2>1
  <2> DEFINE reply == Ok \o Ok \o Ok \o ProbeResult(r)
             h == [fsid |-> r, nr |-> NumberOfChunks(r), index |-> FALSE]
  <2>3. Handle("OPTY", reply) /\ Lines(reply)
    BY <2>1, <2>2, OpenLines
  <2> HIDE DEF reply
  <2>4. call.cmd = "OPTY"
    BY <2>3, Handled
  <2>5. ~OddRate(r)
    OBVIOUS
  <2>6. /\ Fits(call, reply, Reply("OPTY"), <<NumberOfChunks(r)>>)
        /\ \E i \in 1..Len(Reply("OPTY")) : Reply("OPTY")[i] \in Values
    BY <2>4, <2>5, OpenFits DEF reply
  <2>7. HandleAfter(TRUE)' = h
    BY <1>1, <2>2, <2>4 DEF HandleAfter
  <2>8. h # NoHandle
    <3>1. DOMAIN Recordings \subseteq Nat
      BY ServerAssumption, Zenon
    <3>2. h.fsid # NoHandle.fsid
      BY <3>1 DEF NoHandle
    <3>3. QED
      BY <3>2
  <2>9. Agrees(h)'
    BY <2>1, <2>2, <2>8 DEF Agrees
  <2>10. Agrees(HandleAfter(TRUE))'
    BY <2>7, <2>9
  <2>11. call.arg \in DOMAIN Recordings /\ <<NumberOfChunks(r)>> = <<NumberOfChunks(call.arg)>>
    BY <1>1, <2>2
  <2>12. QED
    BY <2>1, <2>3, <2>6, <2>10, <2>11, SaysYes
<1>5. QED
  BY <1>2, <1>3, <1>4

-----------------------------------------------------------------------------
(* Chunks, blocks and frames                                               *)
LEMMA ChunkWell ==
    ASSUME Waiting, UNCHANGED clientVars, ServerOK, SendChunk \/ NoChunk
    PROVE  Well'
<1>1. CASE NoChunk
  <2>1. Handle("SCTY", Error) /\ UNCHANGED <<infile, fsid, tystream, alive>>
    BY <1>1 DEF NoChunk, Refuse, serverVars
  <2>2. QED
    BY <2>1, SaysNoOnly
<1>2. CASE SendChunk
  <2>1. PICK works \in Works, torn \in BOOLEAN :
          /\ Handle("SCTY", Sent("chunk", IF chunk_in_buf = chk THEN buf
                                          ELSE ReadChunk(chk, works, torn, buf)))
          /\ UNCHANGED <<infile, fsid, tystream, alive>>
    BY <1>2 DEF SendChunk
  <2>2. PICK sent : sent = IF chunk_in_buf = chk THEN buf ELSE ReadChunk(chk, works, torn, buf)
    OBVIOUS
  <2>3. Len(sent) = 1
    <3>1. Len(buf) = 1
      BY DEF ServerOK, Waiting
    <3>2. QED
      BY <2>2, <3>1, ReadLength
  <2>4. Handle("SCTY", Sent("chunk", sent))
    BY <2>1, <2>2
  <2>5. QED
    BY <2>1, <2>3, <2>4, Sends
<1>3. QED
  BY <1>1, <1>2

LEMMA BlockWell ==
    ASSUME Waiting, UNCHANGED clientVars, SendBlock \/ BlockUnreadable \/ NoBlock
    PROVE  Well'
<1>1. CASE NoBlock \/ BlockUnreadable
  <2>1. Handle("SCTX", Error) /\ UNCHANGED <<infile, fsid, tystream, alive>>
    BY <1>1 DEF NoBlock, BlockUnreadable, Refuse, serverVars
  <2>2. QED
    BY <2>1, SaysNoOnly
<1>2. CASE SendBlock
  <2>1. PICK data : /\ Handle("SCTX", Sent("block", data))
                    /\ UNCHANGED <<infile, fsid, tystream, alive>>
    BY <1>2 DEF SendBlock
  <2>2. QED
    BY <2>1, Sends
<1>3. QED
  BY <1>1, <1>2

LEMMA FrameWell ==
    ASSUME Waiting, UNCHANGED clientVars,
           SendSeq \/ SeqNotIndexed \/ SendIFrame \/ IFrameNotIndexed
    PROVE  Well'
<1>1. CASE SeqNotIndexed \/ IFrameNotIndexed
  <2>1. /\ tystream.index = -1
        /\ Handle("GSTY", Error \o Error) \/ Handle("GITY", Error)
    BY <1>1 DEF SeqNotIndexed, IFrameNotIndexed, Refuse, Crash
  <2>2. call.cmd \in {"GSTY", "GITY"}
    <3>1. Lines(Error \o Error)
      BY ShortReplies, LinesJoin
    <3>2. QED
      BY <2>1, <3>1, Handled, ShortReplies
  <2>3. handle.index = TRUE /\ tystream.index = handle.fsid /\ handle.fsid # -1
    <3>1. /\ tystream = [of |-> handle.fsid,
                          start_chunk |-> Recordings[handle.fsid].start,
                          index |-> IF handle.index THEN handle.fsid ELSE -1]
          /\ handle.fsid # -1 /\ handle.index = TRUE
      BY <2>2, StreamIsOpen
    <3>2. tystream.index = IF handle.index THEN handle.fsid ELSE -1
      BY <3>1
    <3>3. QED
      BY <3>1, <3>2
  <2>4. QED
    BY <2>1, <2>3
<1>2. CASE SendSeq \/ SendIFrame
  <2>1. PICK cmd, of, data :
          /\ cmd \in {"GSTY", "GITY"}
          /\ Handle(cmd, Sent(of, data)) \/ Handle(cmd, Error)
          /\ UNCHANGED <<infile, fsid, tystream, alive>>
    <3>1. CASE SendSeq
      <4>1. PICK works \in Works :
              Refuse("GSTY", IF works THEN Sent("seq", <<Frame(0)>>) ELSE Error)
        BY <3>1 DEF SendSeq
      <4>2. QED
        BY <4>1 DEF Refuse, serverVars
    <3>2. CASE SendIFrame
      <4>1. PICK works \in Works :
              Refuse("GITY", IF arg \in 1..(Recordings[tystream.index].gops - 1) /\ works
                             THEN Sent("frame", <<Frame(arg)>>) ELSE Error)
        BY <3>2 DEF SendIFrame
      <4>2. QED
        BY <4>1 DEF Refuse, serverVars
    <3>3. QED
      BY <1>2, <3>1, <3>2
  <2>2. cmd # "SCTX" /\ cmd # "SCTY" /\ cmd # "COTY"
        /\ cmd \in {"SCTY", "SCTX", "GSTY", "GITY"}
    BY <2>1
  <2>3. CASE Handle(cmd, Error)
    BY <2>1, <2>2, <2>3, SaysNoOnly
  <2>4. CASE Handle(cmd, Sent(of, data))
    BY <2>1, <2>2, <2>4, Sends
  <2>5. QED
    BY <2>1, <2>3, <2>4
<1>3. QED
  BY <1>1, <1>2

(* CITY *)
LEMMA IndexedWell ==
    ASSUME Waiting, UNCHANGED clientVars, UNCHANGED <<infile, fsid, alive>>,
           NEW r, r = handle.fsid, NEW s, Handle("CITY", s \o GopList(r)),
           Lines(s), Len(s) \in Nat, Len(s) > 0, \A i \in 1..Len(s) : s[i].k = "200",
           tystream' = [tystream EXCEPT !.index = r], call.cmd = "CITY"
    PROVE  Well'
<1>1. /\ infile /\ handle # NoHandle
      /\ handle \in [fsid : DOMAIN Recordings, nr : Int, index : BOOLEAN]
      /\ fsid = r /\ handle.nr = NumberOfChunks(r)
      /\ tystream = [of |-> r, start_chunk |-> Recordings[r].start,
                     index |-> IF handle.index THEN r ELSE -1]
      /\ r # -1
  BY StreamIsOpen
<1>2. /\ Lines(s \o GopList(r))
      /\ Fits(call, s \o GopList(r), Reply("CITY"), <<>>)
  BY IndexFits
<1>3. PICK h : h = [handle EXCEPT !.index = TRUE]
  OBVIOUS
<1>4. /\ h.fsid = r /\ h.nr = handle.nr /\ h.index = TRUE /\ r \in DOMAIN Recordings
      /\ h # NoHandle
  <2>1. h.fsid = r /\ h.nr = handle.nr /\ h.index = TRUE /\ r \in DOMAIN Recordings
    BY <1>1, <1>3
  <2>2. h.fsid # NoHandle.fsid
    BY <1>1, <2>1 DEF NoHandle
  <2>3. QED
    BY <2>1, <2>2
<1>5. tystream' = [of |-> r, start_chunk |-> Recordings[r].start, index |-> r]
  BY <1>1
<1>6. Agrees(h)'
  BY <1>1, <1>4, <1>5 DEF Agrees
<1>7. HandleAfter(TRUE)' = h
  BY <1>3 DEF HandleAfter, clientVars
<1>8. Agrees(HandleAfter(TRUE))'
  BY <1>6, <1>7
<1>9. QED
  BY <1>1, <1>2, <1>8, SaysYes

LEMMA IndexAsked ==
    ASSUME Waiting, call.cmd = "CITY"
    PROVE  /\ handle.fsid \in DOMAIN Recordings /\ fsid = handle.fsid
           /\ tystream.of = handle.fsid /\ tystream.index = -1
           /\ infile
<1>1. /\ infile /\ fsid = handle.fsid /\ handle.index = FALSE
      /\ handle \in [fsid : DOMAIN Recordings, nr : Int, index : BOOLEAN]
      /\ tystream = [of |-> handle.fsid, start_chunk |-> Recordings[handle.fsid].start,
                     index |-> IF handle.index THEN handle.fsid ELSE -1]
  BY StreamIsOpen
<1>2. /\ tystream.of = handle.fsid
      /\ tystream.index = IF handle.index THEN handle.fsid ELSE -1
  BY <1>1
<1>3. QED
  BY <1>1, <1>2

LEMMA IndexWell ==
    ASSUME Waiting, UNCHANGED clientVars,
           \/ IndexedAlready \/ IndexNoFsid \/ IndexCached \/ CreateIndex \/ IndexOneGop
    PROVE  Well'
<1>1. Head(request).cmd = "CITY"
  BY DEF IndexedAlready, IndexNoFsid, IndexCached, CreateIndex, IndexOneGop,
         Refuse, Crash, Handle
<1>2. call.cmd = "CITY"
  BY <1>1, AskedFor
<1>3. /\ handle.fsid \in DOMAIN Recordings /\ fsid = handle.fsid
      /\ tystream.of = handle.fsid /\ tystream.index = -1
  BY <1>2, IndexAsked
<1>4. PICK r \in DOMAIN Recordings : r = handle.fsid
  BY <1>3
<1>5. CASE IndexedAlready
  BY <1>3, <1>5 DEF IndexedAlready
<1>6. CASE IndexNoFsid
  <2>1. Handle("CITY", Error) /\ UNCHANGED <<infile, fsid, tystream, alive>>
    BY <1>6 DEF IndexNoFsid, Refuse, serverVars
  <2>2. QED
    BY <2>1, SaysNoOnly
<1>7. CASE IndexCached
  <2>1. /\ Handle("CITY", Ok \o Ok \o GopList(fsid))
        /\ tystream' = [tystream EXCEPT !.index = fsid]
        /\ UNCHANGED <<infile, fsid, alive>>
    BY <1>7 DEF IndexCached
  <2>2. PICK s : s = Ok \o Ok
    OBVIOUS
  <2>3. Handle("CITY", s \o GopList(r)) /\ tystream' = [tystream EXCEPT !.index = r]
    BY <1>3, <1>4, <2>1, <2>2
  <2>4. Lines(s) /\ Len(s) = 2 /\ s[1].k = "200" /\ s[2].k = "200"
    BY <2>2, ShortReplies
  <2>5. Len(s) \in Nat /\ Len(s) > 0 /\ \A i \in 1..Len(s) : s[i].k = "200"
    BY <2>4
  <2>6. QED
    BY <1>2, <1>4, <2>1, <2>3, <2>4, <2>5, IndexedWell
<1>8. CASE CreateIndex
  <2>1. /\ Handle("CITY", [i \in 1..(3 + Recordings[tystream.of].waits) |-> Ok[1]]
                            \o GopList(tystream.of))
        /\ tystream' = [tystream EXCEPT !.index = tystream.of]
        /\ UNCHANGED <<infile, fsid, alive>>
    BY <1>8 DEF CreateIndex
  <2>2. PICK n : n = 3 + Recordings[r].waits
    OBVIOUS
  <2>3. n \in Nat /\ n > 0
    <3>1. Recordings[r].waits \in Nat
      BY ServerAssumption, Zenon
    <3>2. QED
      BY <2>2, <3>1
  <2>4. PICK s : s = [i \in 1..n |-> Ok[1]]
    OBVIOUS
  <2>5. Handle("CITY", s \o GopList(r)) /\ tystream' = [tystream EXCEPT !.index = r]
    BY <1>3, <1>4, <2>1, <2>2, <2>4
  <2>6. Lines(s) /\ Len(s) = n /\ \A i \in 1..n : s[i].k = "200"
    <3>1. PICK a : a = Ok[1]
      OBVIOUS
    <3>2. s = [i \in 1..n |-> a]
      BY <2>4, <3>1
    <3>3. s \in Seq({a}) /\ Len(s) = n /\ \A i \in 1..n : s[i] = a
      BY <2>3, <3>2
    <3>4. a.k = "200"
      BY <3>1, ShortReplies
    <3>5. QED
      BY <3>3, <3>4 DEF Lines
  <2>7. Len(s) \in Nat /\ Len(s) > 0 /\ \A i \in 1..Len(s) : s[i].k = "200"
    BY <2>3, <2>6
  <2>8. QED
    BY <1>2, <1>4, <2>1, <2>5, <2>6, <2>7, IndexedWell
<1>9. CASE IndexOneGop
  <2>1. Handle("CITY", Ok \o Ok) /\ alive' = "crashed"
    BY <1>9 DEF IndexOneGop, Crash
  <2>2. PICK s : s = Ok \o Ok
    OBVIOUS
  <2>3. Lines(s) /\ Len(s) = 2 /\ s[1].k = "200" /\ s[2].k = "200"
    BY <2>2, ShortReplies
  <2>4. request' = <<>> /\ to_client' = s
    BY <2>1, <2>2, <2>3, Handled
  <2>5. /\ Len(expects) = 4 /\ expects[1] = "200" /\ expects[2] = "skip"
        /\ expects' = expects
    BY <1>2, IndexWants DEF Waiting, clientVars
  <2>6. Len(expects) > 1
    BY <2>5
  <2>7. CutOff(to_client, expects)'
    BY <2>3, <2>4, <2>5, <2>6 DEF CutOff
  <2>8. QED
    BY <2>1, <2>3, <2>4, <2>7 DEF Well
<1>10. QED
  BY <1>5, <1>6, <1>7, <1>8, <1>9

-----------------------------------------------------------------------------
(* PLTY, and what cannot happen.                                           *)
LEMMA PlayWell == ASSUME Waiting, UNCHANGED clientVars, PlayStream PROVE Well'
<1>1. PICK sent :
        /\ Handle("PLTY", Ok \o Announce("none") \o Token("data", "stream", sent))
        /\ alive' = "exited"
  BY DEF PlayStream
<1>2. PICK t : t = Ok \o Announce("none") \o Token("data", "stream", sent)
  OBVIOUS
<1>3. Lines(t) /\ Len(t) = 3 /\ t[1].k = "200" /\ t[2].k = "300"
  BY <1>2, PlayReply
<1>4. call.cmd = "PLTY" /\ request' = <<>> /\ to_client' = t
  BY <1>1, <1>2, <1>3, Handled
<1>5. /\ Len(expects) = 3 /\ expects[1] = "200" /\ expects[2] = "300"
      /\ expects[3] = "all" /\ expects' = expects
  BY <1>4, PlayWants DEF Waiting, clientVars
<1>6. CutOff(to_client, expects)'
  BY <1>3, <1>4, <1>5 DEF CutOff
<1>7. QED
  BY <1>1, <1>3, <1>4, <1>6 DEF Well

LEMMA NeverHere ==
    ASSUME Waiting, Exit \/ NotOpen \/ Unrecognised
    PROVE  FALSE
<1>1. CASE Exit
  <2>1. Head(request).cmd = "EXIT"
    BY <1>1 DEF Exit, Handle
  <2>2. QED
    BY <2>1, AskedFor DEF Waiting
<1>2. CASE NotOpen
  <2>1. Head(request).cmd \in {"SCTY", "SCTX", "CITY", "GSTY", "GITY", "PLTY"} /\ ~infile
    BY <1>2 DEF NotOpen, Crash, Handle
  <2>2. call.cmd \in {"SCTY", "SCTX", "CITY", "GSTY", "GITY", "PLTY"}
    BY <2>1, AskedFor
  <2>3. infile
    BY <2>2, StreamIsOpen
  <2>4. QED
    BY <2>1, <2>3
<1>3. CASE Unrecognised
  BY <1>3, AskedFor DEF Unrecognised, Waiting
<1>4. QED
  BY <1>1, <1>2, <1>3

-----------------------------------------------------------------------------
(* A recording with a frame rate that the client does not know is one the  *)
(* open gives up in the middle of the reply: from then on the two are not  *)
(* in step (tydemux_remote.c:1258).                                        *)
NoOddRates == \A r \in DOMAIN Recordings : ~OddRate(r)

LEMMA Serving == ASSUME NoOddRates, SyncInv, Serve PROVE SyncInv'
<1>1. ClientOK /\ ServerOK /\ ServerStep /\ UNCHANGED clientVars
  BY DEF SyncInv, Serve
<1>2. ClientOK'
  BY <1>1 DEF ClientOK, clientVars
<1>3. ServerOK'
  BY <1>1, ServerKeeps
<1>4. CASE socket # "open"
  <2>1. socket' # "open" /\ (socket' = "closed" => call' = Idle)
    BY <1>1, <1>4 DEF SyncInv, clientVars
  <2>2. QED
    BY <1>2, <1>3, <2>1 DEF SyncInv
<1>5. CASE socket = "open"
  <2>1. Waiting /\ call # Idle
    BY <1>1, <1>5, ServerAsked
  <2>2. Well'
    <3>1. CASE List
      BY <1>1, <2>1, <3>1, ListWell
    <3>2. CASE Close
      BY <1>1, <2>1, <3>2, CloseWell
    <3>3. CASE OpenRefused \/ OpenHangs \/ OpenProbeFails \/ Open
      BY <1>1, <2>1, <3>3, OpenWell DEF NoOddRates
    <3>4. CASE SendChunk \/ NoChunk
      BY <1>1, <2>1, <3>4, ChunkWell
    <3>5. CASE SendBlock \/ BlockUnreadable \/ NoBlock
      BY <1>1, <2>1, <3>5, BlockWell
    <3>6. CASE IndexedAlready \/ IndexNoFsid \/ IndexCached \/ CreateIndex \/ IndexOneGop
      BY <1>1, <2>1, <3>6, IndexWell
    <3>7. CASE SendSeq \/ SeqNotIndexed \/ SendIFrame \/ IFrameNotIndexed
      BY <1>1, <2>1, <3>7, FrameWell
    <3>8. CASE PlayStream
      BY <1>1, <2>1, <3>8, PlayWell
    <3>9. CASE Exit \/ NotOpen \/ Unrecognised
      BY <2>1, <3>9, NeverHere
    <3>10. QED
      BY <1>1, <3>1, <3>2, <3>3, <3>4, <3>5, <3>6, <3>7, <3>8, <3>9 DEF ServerStep
  <2>3. call' # Idle /\ socket' = "open"
    BY <1>1, <1>5, <2>1 DEF clientVars
  <2>4. alive' = "up" => Answered'
    BY <2>2 DEF Well, Answered
  <2>5. alive' # "up" => CutOff(to_client, expects)'
    BY <2>2 DEF Well
  <2>6. Lines(to_client)'
    BY <2>2 DEF Well
  <2>7. QED
    BY <1>2, <1>3, <2>3, <2>4, <2>5, <2>6 DEF SyncInv
<1>6. QED
  BY <1>4, <1>5

LEMMA Starts == ASSUME Init PROVE SyncInv
<1>1. /\ infile = FALSE /\ alive = "up" /\ buf = <<Blank>>
      /\ request = <<>> /\ to_client = <<>>
      /\ call = Idle /\ expects = <<>> /\ handle = NoHandle /\ answer = NoAnswer
      /\ socket = "open"
  BY DEF Init, ServerInit
<1>2. ClientOK
  <2>1. expects \in Seq(Wants) /\ \A i \in 1..Len(expects) : expects[i] # "all"
    BY <1>1
  <2>2. answer.to.cmd # "SCTY"
    BY <1>1 DEF NoAnswer, Idle
  <2>3. handle \in Handles
    BY <1>1 DEF Handles
  <2>4. QED
    BY <1>1, <2>1, <2>2, <2>3 DEF ClientOK
<1>3. ServerOK
  BY <1>1, OneLine DEF ServerOK
<1>4. Synced
  BY <1>1 DEF Synced, Agrees
<1>5. Lines(to_client)
  BY <1>1, ShortReplies
<1>6. QED
  BY <1>1, <1>2, <1>3, <1>4, <1>5 DEF SyncInv

LEMMA StepKeeps == ASSUME NoOddRates, SyncInv, [Next]_vars PROVE SyncInv'
<1>1. CASE Call
  BY <1>1, Calling
<1>2. CASE Read
  BY <1>2, NextLine, AllOfIt, TheEnd DEF Read
<1>3. CASE Serve
  BY <1>3, Serving
<1>4. CASE UNCHANGED vars
  <2>1. UNCHANGED <<infile, fsid, tystream, buf, alive, request, to_client,
                    call, expects, got, handle, answer, socket>>
    BY <1>4 DEF vars, serverVars, clientVars
  <2>2. ClientOK' /\ ServerOK'
    BY <2>1 DEF SyncInv, ClientOK, ServerOK
  <2>3. Synced => Synced'
    BY <2>1 DEF Synced, Agrees
  <2>4. Asked => Asked'
    BY <2>1 DEF Asked, Agrees, MayCall
  <2>5. HandleAfter(TRUE)' = HandleAfter(TRUE) /\ HandleAfter(FALSE)' = HandleAfter(FALSE)
    BY <2>1 DEF HandleAfter
  <2>6. Failed => Failed'
    BY <2>1, <2>5 DEF Failed, Agrees
  <2>7. ASSUME NEW v, Served(v) PROVE Served(v)'
    BY <2>1, <2>5, <2>7 DEF Served, Carries, Agrees
  <2>8. Answered => Answered'
    BY <2>1, <2>6, <2>7 DEF Answered
  <2>9. QED
    BY <2>1, <2>2, <2>3, <2>4, <2>8 DEF SyncInv
<1>5. QED
  BY <1>1, <1>2, <1>3, <1>4 DEF Next

LEMMA InStep == ASSUME SyncInv PROVE RepliesSound
<1>1. ClientOK
  BY DEF SyncInv
<1>2. expects \in Seq(Wants) /\ \A i \in 1..Len(expects) : expects[i] \in Wants
  BY <1>1 DEF ClientOK
<1>3. handle = NoHandle \/ (handle.fsid \in DOMAIN Recordings /\ handle.nr \in Int)
  BY <1>1 DEF ClientOK, Handles
<1>4. TypeOK
  BY <1>1, <1>2, <1>3 DEF TypeOK, ClientOK, Wants
<1>5. InSync
  BY <1>1 DEF InSync, Between, SyncInv, Synced, ClientOK
<1>6. QED
  BY <1>4, <1>5 DEF RepliesSound

LEMMA OneStream == ASSUME SyncInv PROVE HandleIsOpen
<1> SUFFICES ASSUME Between PROVE IF handle = NoHandle THEN ~infile
      ELSE /\ infile /\ tystream.of = handle.fsid
           /\ handle.nr = Len(Stream(handle.fsid)) - tystream.start_chunk
           /\ tystream.index = (IF handle.index THEN handle.fsid ELSE -1)
  BY DEF HandleIsOpen
<1>1. Agrees(handle)
  BY DEF Between, SyncInv, Synced
<1>2. CASE handle = NoHandle
  BY <1>1, <1>2 DEF Agrees
<1>3. CASE handle # NoHandle
  <2>1. /\ infile /\ handle.fsid \in DOMAIN Recordings
        /\ tystream = [of |-> handle.fsid, start_chunk |-> Recordings[handle.fsid].start,
                       index |-> IF handle.index THEN handle.fsid ELSE -1]
        /\ handle.nr = NumberOfChunks(handle.fsid)
    BY <1>1, <1>3 DEF Agrees
  <2>2. /\ tystream.of = handle.fsid
        /\ tystream.start_chunk = Recordings[handle.fsid].start
        /\ tystream.index = IF handle.index THEN handle.fsid ELSE -1
    BY <2>1
  <2>3. Chunks(handle.fsid) = Len(Stream(handle.fsid))
    BY <2>1, StreamPlaces
  <2>4. handle.nr = Len(Stream(handle.fsid)) - tystream.start_chunk
    BY <2>1, <2>2, <2>3 DEF NumberOfChunks
  <2>5. QED
    BY <1>3, <2>1, <2>2, <2>4
<1>4. QED
  BY <1>2, <1>3

-----------------------------------------------------------------------------
(* With recordings whose frame rate the client knows the two programs stay *)
(* in step, whichever way the server takes through a command and however   *)
(* much of an old reply init and refresh_fsid throw away.                  *)
THEOREM InStepAlways == NoOddRates => (Spec => []SyncInv)
<1>1. Init => SyncInv
  BY Starts
<1>2. NoOddRates /\ SyncInv /\ [Next]_vars => SyncInv'
  BY StepKeeps
<1>3. ASSUME NoOddRates PROVE SyncInv /\ [Next]_vars => SyncInv'
  BY <1>2, <1>3
<1>4. ASSUME NoOddRates PROVE Spec => []SyncInv
  BY <1>1, <1>3, <1>4, PTL DEF Spec
<1>5. QED
  BY <1>4

(* Between two calls there is nothing in the socket, and a line is never   *)
(* taken for data or data for a line (the read functions of                *)
(* tydemux_remote.c against the replies of tyserver.c).                    *)
THEOREM RepliesAreRead == NoOddRates => (Spec => []RepliesSound)
<1>1. SyncInv => RepliesSound
  BY InStep
<1>2. QED
  BY <1>1, InStepAlways, PTL

(* Through opens that fail half way, closes and reopens, the handle of the *)
(* client (tystream_holder_t) stands for the stream that the server has    *)
(* open: the same recording, number of chunks and index.                   *)
THEOREM HandlesAreOpen == NoOddRates => (Spec => []HandleIsOpen)
<1>1. SyncInv => HandleIsOpen
  BY OneStream
<1>2. QED
  BY <1>1, InStepAlways, PTL
=============================================================================

---------------------------- MODULE VideoPasses ----------------------------
(***************************************************************************)
(* The main loop of tydemux (tydemux.c) around the list of video PES       *)
(* holders: get_pes_holders adds holders at its end, tystream_init looks   *)
(* for the first usable sequence, repair_tystream cuts out what lies       *)
(* around a gap, check_fix_pes_holder_video lets six passes walk over the  *)
(* list, one behind the other, and write_pes_holders writes and frees its  *)
(* front.  The passes share nothing but the list and the frontier of the   *)
(* pass before them (lf_..._pes_holder, a pointer into the list).          *)
(*                                                                         *)
(* A holder is reduced to its picture type, whether it carries the         *)
(* sequence and GOP header, and its flags.  Time stamps, fields and        *)
(* temporal references are left out: a decision that depends on them is    *)
(* nondeterministic.  So is everything about the audio list.               *)
(***************************************************************************)
EXTENDS Integers, Sequences, FiniteSets, SequencesExt

CONSTANTS
    Series,      \* subset of {"S1", "S2"}: recorders (S1 with software 2.x)
    Modes,       \* values of std_alone: to files, or to the pipes of threads
    Rounds,      \* [Series -> what get_pes_holders usually adds per round]
    OddRounds,   \* [Series -> what it may add now and then]
    InitMin,     \* the 400 (70 on S2) of tystream_init
    RepairMin,   \* the 100 of repair_tystream
    GopMin,      \* the 4 of check_start_seq_pes_okay
    AfterGapMin, \* the 5 of find_seq_holder
    CloseTries,  \* the 10 of fix_seq_header
    KeepFrames,  \* the 60 of write_pes_holders
    ChunkStarts, \* where in a round a chunk may start
    MaxRounds,   \* bound: rounds of the main loop
    MaxOdd       \* bound: odd rounds, gaps, failed starts and frames added or removed

Frames == {"I", "P", "B", "none"}

Parsed == [frame : Frames, seq : BOOLEAN, close : BOOLEAN]

ASSUME VideoAssumption ==
    /\ Series \subseteq {"S1", "S2"} /\ Modes \subseteq BOOLEAN
    /\ \A s \in Series : Rounds[s] \subseteq Seq(Parsed) /\ OddRounds[s] \subseteq Seq(Parsed)
    /\ {InitMin, RepairMin, GopMin, AfterGapMin, CloseTries, KeepFrames} \subseteq Nat
    /\ ChunkStarts \subseteq Nat /\ {MaxRounds, MaxOdd} \subseteq Nat

(* In the order in which check_fix_pes_holder_video runs them.             *)
Passes == {"seq", "p_frame", "tmp_ref", "field", "av_drift", "gop_counter"}

MutBefore(p) ==
    CASE p = "p_frame" -> "seq"
      [] p = "tmp_ref" -> "p_frame"
      [] p \in {"field", "av_drift"} -> "tmp_ref"
      [] p = "gop_counter" -> "av_drift"
Before(p) ==
    CASE p = "p_frame" -> "seq"
      [] p = "tmp_ref" -> "p_frame"
      [] p = "field" -> "tmp_ref"
      [] p = "av_drift" -> "field"
      [] p = "gop_counter" -> "av_drift"

(* The passes from p on, and the writer behind them.                       *)
Following(p) ==
    LET order == <<"seq", "p_frame", "tmp_ref", "field", "av_drift", "gop_counter", "write">>
        i == CHOOSE k \in DOMAIN order : order[k] = p
    IN  {order[k] : k \in i..7}

(* Positive ids in the order of the stream, negative ones for the holders  *)
(* that the passes insert.  done is a history variable: which passes have  *)
(* dealt with the GOP that starts here?                                    *)
Holder == [id : Int, frame : Frames, seq : BOOLEAN, close : BOOLEAN, gap : BOOLEAN,
           fixed : BOOLEAN, done : SUBSET Passes]

VARIABLES
    series, std_alone,
    video,       \* the list from tystream->pes_holder_video on
    kept,        \* the holder in front of it, not yet freed, if any
    junk,        \* lists cut out by a repair that a frontier points into
    lf,          \* the frontiers lf_..._pes_holder; 0 is NULL
    repair, find_seq,
    counter,     \* static counter of fix_seq_header
    tmp,         \* fix_seq_header: the sequence it looks at, 0 at the end
    pc,          \* "read", "init", "repair", a pass, "write", "stopped"
                 \* (repair failed), "exited" (given up elsewhere) or
                 \* "undefined" (a freed holder is used)
    nr, new,     \* holders read so far, holders made by the passes
    rounds, odd  \* the bounded counts

input == <<nr, rounds>>
count == <<new, odd>>
mode == <<series, std_alone>>
list == <<video, kept, junk>>
vars == <<mode, list, lf, repair, find_seq, counter, tmp, pc, input, count>>

Init ==
    /\ series \in Series /\ std_alone \in Modes
    /\ video = <<>> /\ kept = <<>> /\ junk = {}
    /\ lf = [p \in Passes |-> 0]
    /\ repair = FALSE /\ find_seq = FALSE
    /\ counter = 0 /\ tmp = 0 /\ pc = "read"
    /\ nr = 0 /\ new = 0 /\ rounds = 0 /\ odd = 0

-----------------------------------------------------------------------------
(* Walking over a list.                                                    *)
Ids(l) == {l[i].id : i \in DOMAIN l}

(* The list a holder is in, and its index there.                           *)
ListOf(id) == CHOOSE l \in {video} \cup junk : id \in Ids(l)
Index(l, id) == CHOOSE i \in DOMAIN l : l[i].id = id

SeqsIn(l, from, to) == {k \in from..to : l[k].seq}
Least(S, default) == IF S = {} THEN default ELSE CHOOSE k \in S : \A m \in S : k <= m

(* next_seq_holder, on indices; 0 is NULL.                                 *)
NextSeq(l, i) == Least(SeqsIn(l, i + 1, Len(l)), 0)

IdAt(l, i) == IF i = 0 THEN 0 ELSE l[i].id

next_seq_holder(id) ==
    IF id = 0 THEN 0 ELSE LET l == ListOf(id) IN IdAt(l, NextSeq(l, Index(l, id)))

FirstId(l) == IF l = <<>> THEN 0 ELSE l[1].id

(* How many sequences lie between a holder and a later one?                *)
MutIsOkay(id, to_check) ==
    IF id # 0 /\ id = to_check THEN 1
    ELSE IF id = 0 \/ to_check = 0 \/ ~(to_check \in Ids(ListOf(id))) THEN 0
    ELSE LET l == ListOf(id) IN Cardinality(SeqsIn(l, Index(l, id), Index(l, to_check) - 1))
is_okay(id, to_check) ==
    IF id = 0 \/ to_check = 0 THEN 0
    ELSE LET l == ListOf(id) IN
         IF l[Index(l, id)].seq /\ to_check \in Ids(l)
         THEN Cardinality(SeqsIn(l, Index(l, id), Index(l, to_check) - 1))
         ELSE 0

(* The list l becomes another one.                                         *)
Replace(l, changed) ==
    IF l = video THEN video' = changed /\ UNCHANGED <<kept, junk>>
    ELSE junk' = (junk \ {l}) \cup {changed} /\ UNCHANGED <<video, kept>>

(* A holder copied or made by a pass.                                      *)
NewHolder(frame, seq) ==
    [id |-> -(new + 1), frame |-> frame, seq |-> seq, close |-> FALSE, gap |-> FALSE,
     fixed |-> FALSE, done |-> {}]

-----------------------------------------------------------------------------
(* get_chunk and get_pes_holders: new holders at the end of the list.      *)
(* Then tystream_init is tried if the stream has not started, and          *)
(* repair_tystream called if there is a gap.  Without a first sequence, or *)
(* with another gap, neither the passes nor the writer run in this round.  *)
(* parse_chunk_video puts the gap flag of a chunk on its first holder and  *)
(* asks for a repair, even if no holder of the chunk could be parsed.      *)
AfterInit(gap, started) ==
    IF gap THEN "repair" ELSE IF started THEN "seq" ELSE "read"

GetPesHolders ==
    /\ pc = "read" /\ rounds < MaxRounds
    /\ \E r \in Rounds[series] \cup OddRounds[series] :
       \E gaps \in SUBSET (DOMAIN r \cap ChunkStarts), lostgap \in BOOLEAN :
         /\ lostgap => gaps = {} /\ r = <<>>
         /\ \A i \in gaps : ~r[i].close
         /\ odd' = odd + Cardinality(gaps) + (IF lostgap THEN 1 ELSE 0)
                       + (IF r \in Rounds[series] THEN 0 ELSE 1)
         /\ odd' <= MaxOdd
         /\ video' = video \o [i \in DOMAIN r |->
                [id |-> nr + i, frame |-> r[i].frame, seq |-> r[i].seq,
                 close |-> r[i].close, gap |-> i \in gaps, fixed |-> FALSE, done |-> {}]]
         /\ nr' = nr + Len(r)
         /\ repair' = (repair \/ gaps # {} \/ lostgap)
    /\ rounds' = rounds + 1
    /\ pc' = IF find_seq THEN AfterInit(repair', TRUE) ELSE "init"
    /\ UNCHANGED <<mode, kept, junk, lf, find_seq, counter, tmp, new>>

-----------------------------------------------------------------------------
(* gop_make_closed: from the sequence on drop the pictures that depend on  *)
(* an earlier one, up to the first P picture, or I picture, after the      *)
(* first I picture.  Only the payloads are dropped, the holders stay.      *)
FirstI(l, i) == Least({k \in i..Len(l) : l[k].frame = "I"}, Len(l) + 1)
ClosedUpTo(l, i) ==
    Least({k \in (FirstI(l, i) + 1)..Len(l) : l[k].frame \in {"I", "P"}}, Len(l) + 1)

Closed(l, i) ==
    [k \in DOMAIN l |->
       IF k \in i..(ClosedUpTo(l, i) - 1) /\ k # FirstI(l, i)
       THEN [l[k] EXCEPT !.frame = "none"] ELSE l[k]]

(* check_start_seq_pes_okay                                                *)
LongEnough(l, i) == Least(SeqsIn(l, i + 1, Len(l)), Len(l) + 1) - i > GopMin

CanClose(l, i) == LongEnough(l, i) /\ ClosedUpTo(l, i) <= Len(l)

(* What becomes of the list: closed, or, when that failed, as it was or,   *)
(* if no P picture came, without the dropped ones.  Its temporal           *)
(* references may always be wrong.                                         *)
CloseResults(l, i) ==
    (IF CanClose(l, i) THEN {[ok |-> TRUE, list |-> Closed(l, i)]} ELSE {})
      \cup {[ok |-> FALSE, list |-> l]}
      \cup (IF LongEnough(l, i) /\ ~CanClose(l, i)
            THEN {[ok |-> FALSE, list |-> Closed(l, i)]} ELSE {})

(* move_seq_to_i_frame, for the holder at i.  It does not fail later on:   *)
(* every holder that was parsed begins with a PES header.                  *)
CanMove(l, i) == i < Len(l) /\ l[i].seq /\ l[i + 1].frame = "I"
MoveSeq(l, i) ==
    [l EXCEPT ![i].seq = FALSE, ![i + 1].seq = TRUE, ![i + 1].fixed = TRUE]

-----------------------------------------------------------------------------
(* tystream_init                                                           *)

(* init_find_seq_holder                                                    *)
InitSeq(l) ==
    LET usable == {k \in DOMAIN l : l[k].seq /\ ((k < Len(l) /\ l[k + 1].frame = "I")
                                                  \/ l[k].frame = "I")}
        stops == {k \in DOMAIN l : l[k].gap /\ ~l[k].seq}
        first == Least(usable, 0)
    IN  IF first # 0 /\ \A k \in stops : first < k THEN first ELSE 0

(* The sequence the stream starts with, and the list; the second sequence  *)
(* is tried when the first one cannot be closed.                           *)
InitTries ==
    IF InitSeq(video) = 0 THEN {}
    ELSE LET i == InitSeq(video) IN
         UNION { IF r.ok THEN {[ok |-> TRUE, list |-> r.list, at |-> i]}
                 ELSE IF NextSeq(r.list, i) = 0
                      THEN {[ok |-> FALSE, list |-> r.list, at |-> 0]}
                 ELSE {[ok |-> s.ok, list |-> s.list, at |-> NextSeq(r.list, i)] :
                          s \in CloseResults(r.list, NextSeq(r.list, i))}
                 : r \in CloseResults(video, i) }

NoStart ==
    /\ pc = "init"
    /\ Len(video) <= InitMin \/ InitTries = {}
    /\ pc' = AfterInit(repair, FALSE)
    /\ UNCHANGED <<mode, list, lf, repair, find_seq, counter, tmp, input, count>>

(* No sequence could be closed, or there is no audio for it.               *)
StartFailed ==
    /\ pc = "init" /\ Len(video) > InitMin
    /\ \E t \in InitTries :
         /\ video' = t.list
         /\ odd' = IF \E u \in InitTries : u.ok THEN odd + 1 ELSE odd
    /\ odd' <= MaxOdd
    /\ pc' = AfterInit(repair, FALSE)
    /\ UNCHANGED <<mode, kept, junk, lf, repair, find_seq, counter, tmp, input, new>>

Start ==
    /\ pc = "init" /\ Len(video) > InitMin
    /\ \E t \in InitTries :
         /\ t.ok
         /\ LET l == SubSeq(t.list, t.at, Len(t.list)) IN
            IF series = "S1" /\ CanMove(l, 1)
            THEN /\ video' = Tail(MoveSeq(l, 1))
                 /\ kept' = <<MoveSeq(l, 1)[1]>>
                 /\ lf' = [lf EXCEPT !["seq"] = l[2].id]
            ELSE /\ video' = l /\ kept' = <<>>
                 /\ UNCHANGED lf
    /\ find_seq' = TRUE
    /\ pc' = AfterInit(repair, TRUE)
    /\ UNCHANGED <<mode, junk, repair, counter, tmp, input, count>>

-----------------------------------------------------------------------------
(* repair_tystream                                                         *)
FirstGap == Least({k \in DOMAIN video : video[k].gap}, 0)

(* nr_pes_holders_after_gap                                                *)
FarFromGap(k) ==
    Least({m \in k..Len(video) : video[m].gap}, Len(video) + 1) - k > AfterGapMin

(* find_seq_holder: each search ends at a sequence that the audio covers,  *)
(* before it looks whether there is a gap, and the next search starts      *)
(* behind it if it is too near to a gap, or carries one.  So another gap   *)
(* on the way ends the search, unless its holder, or the one in front of   *)
(* it, is such a sequence.                                                 *)
NewStarts ==
    LET near(k) == video[k].seq /\ ~FarFromGap(k)
    IN  {k \in FirstGap..Len(video) :
            /\ video[k].seq /\ FarFromGap(k)
            /\ \A g \in (FirstGap + 1)..k : video[g].gap => near(g) \/ near(g - 1)}

(* find_pi_frame_holder: the P or I picture to cut from, behind two B      *)
(* pictures, where the audio before the gap still reaches.                 *)
CutPoints ==
    LET front == kept \o video
        before(k, n) == k + Len(kept) - n
    IN  {k \in 2..(FirstGap - 1) :
            /\ video[k].frame \in {"I", "P"} /\ before(k, 2) > 0
            /\ front[before(k, 1)].frame = "B" /\ front[before(k, 2)].frame = "B"}

EnoughToRepair == Len(video) > RepairMin /\ FirstGap # 0

(* check_gaps                                                              *)
MutCheckGaps(l, from) == FALSE
CheckGaps(l, from) == \E k \in from..Len(l) : l[k].gap

Repair ==
    /\ pc = "repair" /\ EnoughToRepair
    /\ \E seq_at \in NewStarts, pi_at \in CutPoints :
         /\ CanClose(video, seq_at)
         /\ LET l == Closed(video, seq_at)
                out == SubSeq(l, pi_at, seq_at - 1) IN
            /\ video' = SubSeq(l, 1, pi_at - 1) \o SubSeq(l, seq_at, Len(l))
            /\ junk' = IF \E p \in Passes : lf[p] \in Ids(out) THEN junk \cup {out} ELSE junk
            /\ repair' = CheckGaps(l, seq_at)
    /\ pc' = IF find_seq /\ ~repair' THEN "seq" ELSE "read"
    /\ UNCHANGED <<mode, kept, lf, find_seq, counter, tmp, input, count>>

(* Too few holders, no gap among them, no sequence, no picture to cut      *)
(* from, a GOP that cannot be closed, or audio that does not fit: the main *)
(* loop ends (std_alone) or the process does.                              *)
RepairFailed ==
    /\ pc = "repair"
    /\ pc' = "stopped"
    /\ UNCHANGED <<mode, list, lf, repair, find_seq, counter, tmp, input, count>>

-----------------------------------------------------------------------------
(* fix_seq_header, called over and over until it returns NULL: on S1 it    *)
(* moves the sequence header from the last B or P picture of a GOP to the  *)
(* I picture behind it.  tmp goes from sequence to sequence; 0 is a call   *)
(* from the frontier.  Behind the holder kept comes the list.              *)
Cur ==
    IF tmp # 0 THEN tmp
    ELSE IF lf["seq"] \in {0} \cup Ids(kept)
    THEN IdAt(video, Least(SeqsIn(video, 1, Len(video)), 0))
    ELSE next_seq_holder(lf["seq"])

(* Has the writer freed the holder that the frontier points to?            *)
Freed(id) == id # 0 /\ \A l \in {video, kept} \cup junk : id \notin Ids(l)

NextPass == pc' = "p_frame" /\ tmp' = 0

(* The next sequence is the one at index i; there may be none.             *)
GoOn(l, i) == IF i = 0 THEN NextPass ELSE pc' = "seq" /\ tmp' = l[i].id

Misplaced(h) == ~h.close /\ h.frame \in {"B", "P"}

(* A cut wants this GOP closed: not without the sequence behind it.        *)
CloseLater(l, i) ==
    /\ l[i].close /\ NextSeq(l, i) = 0
    /\ counter' = counter + 1
    /\ IF counter' > CloseTries THEN pc' = "exited" /\ tmp' = 0 ELSE NextPass
    /\ UNCHANGED <<list, lf, new>>

CloseCut(l, i) ==
    /\ l[i].close /\ NextSeq(l, i) # 0
    /\ counter' = 0
    /\ \E r \in CloseResults(l, i) :
         /\ Replace(l, IF r.ok THEN [r.list EXCEPT ![i].fixed = TRUE, ![i].close = FALSE]
                       ELSE r.list)
         /\ pc' = IF r.ok THEN "seq" ELSE "exited"
    /\ tmp' = 0
    /\ UNCHANGED <<lf, new>>

MoveSeqHeader(l, i) ==
    /\ Misplaced(l[i]) /\ CanMove(l, i)
    /\ Replace(l, MoveSeq(l, i))
    /\ lf' = [lf EXCEPT !["seq"] = l[i + 1].id]
    /\ GoOn(l, NextSeq(l, i))
    /\ UNCHANGED <<counter, new>>

(* The I picture is missing: the sequence goes to a copy of the last one.  *)
MutIsMissing(l, i) == FALSE
IsMissing(l, i) == i < Len(l) /\ l[i + 1].frame # "I" /\ ~l[i + 1].gap

AddMissingI(l, i) ==
    /\ Misplaced(l[i]) /\ IsMissing(l, i)
    /\ IF \E h \in Range(IF l = video THEN kept \o l ELSE l) : h.frame = "I"
       THEN LET added == MoveSeq(InsertAt(l, i + 1, NewHolder("I", FALSE)), i) IN
            /\ new' = new + 1
            /\ Replace(l, added)
            /\ lf' = [lf EXCEPT !["seq"] = added[i + 1].id]
            /\ GoOn(l, NextSeq(l, i))
       ELSE /\ NextPass
            /\ UNCHANGED <<list, lf, new>>
    /\ UNCHANGED counter

AlreadyFixed(l, i) ==
    /\ ~l[i].close /\ ~Misplaced(l[i]) /\ l[i].fixed
    /\ lf' = [lf EXCEPT !["seq"] = l[i].id]
    /\ GoOn(l, NextSeq(l, i))
    /\ UNCHANGED <<list, counter, new>>

(* The picture behind it has not come yet, or there is nothing to do.      *)
SkipSeq(l, i) ==
    /\ IF Misplaced(l[i]) THEN ~CanMove(l, i) /\ ~IsMissing(l, i)
       ELSE ~l[i].close /\ ~l[i].fixed
    /\ GoOn(l, NextSeq(l, i))
    /\ UNCHANGED <<list, lf, counter, new>>

(* S2: every sequence with an I picture is fine.  The frontier stays where *)
(* it is when none comes; the passes behind it do not wait for it, and so  *)
(* the writer may free it.                                                 *)
SeqPassS2(l, i) ==
    /\ LET good == {k \in i..Len(l) : l[k].seq /\ l[k].frame = "I"} IN
       /\ lf' = IF good = {} THEN lf
                ELSE [lf EXCEPT !["seq"] = l[CHOOSE k \in good : \A m \in good : m <= k].id]
       /\ Replace(l, [k \in DOMAIN l |-> IF k \in good THEN [l[k] EXCEPT !.fixed = TRUE]
                                         ELSE l[k]])
    /\ NextPass
    /\ UNCHANGED <<counter, new>>

FixSeqHeader ==
    /\ pc = "seq"
    /\ IF Freed(lf["seq"])
       THEN pc' = "undefined" /\ UNCHANGED <<list, lf, counter, tmp, new>>
       ELSE IF Cur = 0
       THEN NextPass /\ UNCHANGED <<list, lf, counter, new>>
       ELSE \E l \in {ListOf(Cur)} : \E i \in {Index(l, Cur)} :
              IF series = "S2" THEN SeqPassS2(l, i)
              ELSE \/ CloseLater(l, i) \/ CloseCut(l, i)
                   \/ MoveSeqHeader(l, i) \/ AddMissingI(l, i)
                   \/ AlreadyFixed(l, i) \/ SkipSeq(l, i)
    /\ UNCHANGED <<mode, repair, find_seq, input, odd>>

-----------------------------------------------------------------------------
(* The other passes: check_fix_p_frame, _tmp_ref, _fields, _av_drift and   *)
(* _gop_frame_counter handle the GOP behind their frontier if the pass     *)
(* before them is beyond it.                                               *)
StartOf(p) == IF lf[p] = 0 THEN FirstId(video) ELSE next_seq_holder(lf[p])

Ready(p) ==
    LET id == StartOf(p) IN
    /\ lf[Before(p)] # 0 /\ id # 0
    /\ (p = "p_frame" /\ series = "S2") \/ is_okay(id, lf[Before(p)]) > 0
    /\ LET l == ListOf(id)
           n == NextSeq(l, Index(l, id)) IN
       n # 0 /\ l[n].frame # "B"

(* correct_underflow_in_frames and fix_drift copy a picture of the GOP or  *)
(* drop one; correct_overflow_in_frames turns it into two GOPs.            *)
Inner(l, i) == (i + 1)..(NextSeq(l, i) - 1)
Copied(l, k) == InsertAt(l, k + 1, NewHolder(l[k].frame, FALSE))
WithCopy(l, ks, frames) == {Copied(l, k) : k \in {m \in ks : l[m].frame \in frames}}
WithoutOne(l, ks, frames) == {RemoveAt(l, k) : k \in {m \in ks : l[m].frame \in frames}}
WithSeq(l, i) ==
    {IF l[k].frame = "I" THEN [l EXCEPT ![k].seq = TRUE]
     ELSE InsertAt(l, k, NewHolder(l[i].frame, TRUE)) : k \in Inner(l, i)}

Fixed(p, l, i) ==
    CASE p = "tmp_ref" -> WithCopy(l, Inner(l, i), {"P", "B"})
                            \cup WithoutOne(l, Inner(l, i), {"P", "B"}) \cup WithSeq(l, i)
      [] p = "av_drift" -> WithCopy(l, Inner(l, i), {"B"}) \cup WithoutOne(l, Inner(l, i), {"B"})
      [] OTHER -> {}

CheckFix(p) ==
    /\ pc' = p
    /\ LET id == StartOf(p)
           l == ListOf(id)
           i == Index(l, id) IN
       \E fixed \in {l} \cup (IF odd < MaxOdd THEN Fixed(p, l, i) ELSE {}) :
         /\ Replace(l, [fixed EXCEPT ![i].done = @ \cup {p}])
         /\ odd' = IF fixed = l THEN odd ELSE odd + 1
         /\ new' = IF Len(fixed) > Len(l) THEN new + 1 ELSE new
         /\ lf' = [lf EXCEPT ![p] = id]

(* The temporal references of the GOP cannot be repaired.                  *)
GiveUp(p) ==
    /\ p = "tmp_ref" /\ odd < MaxOdd
    /\ pc' = "exited"
    /\ UNCHANGED <<list, lf, count>>

(* remove_dup_frame drops the first picture with a doubled reference, even *)
(* when that is the holder the GOP starts with, which is used from then on.*)
DropStart(p) ==
    /\ p = "tmp_ref" /\ odd < MaxOdd
    /\ pc' = "undefined"
    /\ UNCHANGED <<list, lf, count>>

(* A pass ends when it is not ready, and the next one has its turn.        *)
CheckFixPesHolders ==
    /\ pc \in Passes \ {"seq"}
    /\ LET ready == {p \in Following(pc) : p # "write" /\ Ready(p)} IN
       IF ready = {}
       THEN pc' = "write" /\ UNCHANGED <<list, lf, count>>
       ELSE \E p \in {q \in ready : ready \subseteq Following(q)} :
              CheckFix(p) \/ GiveUp(p) \/ DropStart(p)
    /\ UNCHANGED <<mode, repair, find_seq, counter, tmp, input>>

-----------------------------------------------------------------------------
(* write_pes_holders writes from the front of the list.  A holder is freed *)
(* when the one behind it has been written.                                *)
Written(n) ==
    /\ video' = SubSeq(video, n + 1, Len(video))
    /\ kept' = IF n = 0 THEN kept ELSE <<video[n]>>

MutLastChecked == lf["seq"]
LastChecked == lf["gop_counter"]

(* To files: all but the last of the GOPs before the frontier.             *)
WriteGops ==
    /\ pc = "write" /\ std_alone
    /\ LET okay == IF video = <<>> THEN 0 ELSE is_okay(video[1].id, LastChecked) IN
       IF okay < 2 THEN Written(0)
       ELSE LET seqs == SeqsIn(video, 1, Index(video, LastChecked) - 1) IN
            Written((CHOOSE k \in seqs : \A m \in seqs : m <= k) - 1)
    /\ pc' = "read"
    /\ UNCHANGED <<mode, junk, lf, repair, find_seq, counter, tmp, input, count>>

(* To pipes: as many holders as the audio and the pipes allow, but not the *)
(* last KeepFrames ones before the frontier.                               *)
WriteFrames ==
    /\ pc = "write" /\ ~std_alone
    /\ LET okay == IF LastChecked \in Ids(video) THEN Index(video, LastChecked) - 1 ELSE 0 IN
       \E n \in 0..(IF okay > KeepFrames THEN okay - KeepFrames ELSE 0) : Written(n)
    /\ pc' = "read"
    /\ UNCHANGED <<mode, junk, lf, repair, find_seq, counter, tmp, input, count>>

-----------------------------------------------------------------------------
(* The end of the recording, or of the process.                            *)
Ended ==
    /\ pc \in {"stopped", "exited", "undefined"} \/ (pc = "read" /\ rounds = MaxRounds)
    /\ UNCHANGED vars

Next ==
    \/ GetPesHolders \/ NoStart \/ StartFailed \/ Start
    \/ Repair \/ RepairFailed
    \/ FixSeqHeader \/ CheckFixPesHolders
    \/ WriteGops \/ WriteFrames \/ Ended

Spec == Init /\ [][Next]_vars

-----------------------------------------------------------------------------
TypeOK ==
    /\ series \in Series /\ std_alone \in Modes
    /\ video \in Seq(Holder) /\ kept \in Seq(Holder) /\ Len(kept) <= 1
    /\ \A l \in junk : l \in Seq(Holder)
    /\ lf \in [Passes -> Int] /\ tmp \in Int
    /\ repair \in BOOLEAN /\ find_seq \in BOOLEAN
    /\ counter \in 0..(CloseTries + 1)
    /\ pc \in Passes \cup {"read", "init", "repair", "write", "stopped", "exited", "undefined"}
    /\ nr \in Nat /\ new \in Nat /\ rounds \in 0..MaxRounds /\ odd \in 0..MaxOdd

(* No frontier ever points to a holder that the writer has passed, though  *)
(* the passes and the writer share nothing but the list (S2: but for the   *)
(* first pass).                                                            *)
FrontiersKept ==
    \A p \in Passes :
        lf[p] # 0 /\ ~(p = "seq" /\ series = "S2")
        => \E l \in {video} \cup junk : lf[p] \in Ids(l)

(* Each pass stays strictly behind the one before it, also when GOPs are   *)
(* added or cut out between them (S2: but for the first two passes).       *)
FrontierOrder ==
    \A p \in Passes \ {"seq"} :
        /\ ~(p = "p_frame" /\ series = "S2")
        /\ lf[p] \in Ids(video) /\ lf[Before(p)] \in Ids(video)
        => Index(video, lf[p]) < Index(video, lf[Before(p)])

(* The frontiers stay where they can be followed, and in their order.      *)
FrontiersSound == TypeOK /\ FrontiersKept /\ FrontierOrder

(* A gap in the list never goes unnoticed: no picture behind one reaches   *)
(* the passes and the writer, however many gaps there were.                *)
GapMeansRepair ==
    pc \in Passes \cup {"write"} => \A k \in DOMAIN video : ~video[k].gap

(* On S1 no sequence header is left at a B or P picture behind the         *)
(* frontier of the first pass: later passes would stop at it, or count its *)
(* picture to the wrong GOP.                                               *)
NoSeqLeftBehind ==
    (series = "S1" /\ lf["seq"] \in Ids(video)) =>
        \A k \in 1..Index(video, lf["seq"]) :
            video[k].seq => video[k].frame \notin {"B", "P"}

(* When all passes have run, the last one is exactly four sequences behind *)
(* the second one: nothing can bring the passes out of step, unless a      *)
(* repair has cut a frontier out of the list.                              *)
Stranded == \E p \in Passes : lf[p] # 0 /\ lf[p] \notin Ids(video)

NoneLags ==
    (pc = "write" /\ ~Stranded /\ lf["gop_counter"] # 0) =>
        Cardinality(SeqsIn(video, Index(video, lf["gop_counter"]),
                           Index(video, lf["p_frame"]) - 1)) = 4

(* A sequence that is written has been through all the passes that check   *)
(* and renumber its pictures.                                              *)
GopsChecked ==
    [][pc = "write" =>
         \A k \in DOMAIN video :
            video[k].seq /\ video[k].id \notin Ids(video') =>
                {"tmp_ref", "field", "av_drift", "gop_counter"} \subseteq video[k].done]_vars
=============================================================================

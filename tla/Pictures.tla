------------------------------ MODULE Pictures ------------------------------
(***************************************************************************)
(* The list of video holders as the passes over GOPs see it, and their     *)
(* helpers for looking pictures up by temporal reference (tmp_ref_help.c,  *)
(* tmp_ref_check.c, picture.c).  Each holder has one picture, and one that *)
(* starts a GOP has its headers too; gaps have been repaired before.       *)
(*                                                                         *)
(* A position in the list stands for a pointer to a holder; 0 is NULL.     *)
(***************************************************************************)
EXTENDS Integers, Sequences, SequencesExt, FiniteSetsExt

CONSTANTS
    StrayGap     \* a reference that far above all others is a stray (50)

ASSUME PicturesAssumption == StrayGap \in Nat \ {0}

Frames == {"I", "P", "B"}
Anchors == {"I", "P"}

(* head: "seq" has a sequence and a GOP header, "gop" a GOP header only.   *)
(* top and repeat are top_field_first and repeat_first_field, three what   *)
(* payload->fields says.  tc is the time code in the GOP header.           *)
Holder ==
    [id : Nat, type : Frames, head : {"none", "gop", "seq"}, closed : BOOLEAN,
     ref : Int, time : Nat, top : BOOLEAN, repeat : BOOLEAN, three : BOOLEAN,
     added : BOOLEAN, seq_added : BOOLEAN, repaired : BOOLEAN, drift : Int, tc : Seq(Nat)]

Least(S, otherwise) == IF S = {} THEN otherwise ELSE Min(S)

(* The holder behind a GOP and behind a sequence: one past the end if none.*)
GopAfter(L, i) == Least({j \in (i + 1)..Len(L) : L[j].head # "none"}, Len(L) + 1)
SeqAfter(L, i) == Least({j \in (i + 1)..Len(L) : L[j].head = "seq"}, Len(L) + 1)
InGop(L, i) == i..(GopAfter(L, i) - 1)
InSeq(L, i) == i..(SeqAfter(L, i) - 1)

next_seq_holder(L, i) == IF SeqAfter(L, i) > Len(L) THEN 0 ELSE SeqAfter(L, i)
previous_seq_holder(L, i) == Max({j \in 1..(i - 1) : L[j].head = "seq"} \cup {0})

RefsOf(L, i) == {L[j].ref : j \in InGop(L, i)}
get_highest_tmp_ref(L, i) == Max(RefsOf(L, i) \cup {0})
get_second_highest_tmp_ref(L, i, r) == Max({x \in RefsOf(L, i) : x < r} \cup {0})

(* The first holder of the GOP with that reference.                        *)
Frame(L, i, r) == Least({j \in InGop(L, i) : L[j].ref = r}, 0)

get_frame_type_of_tmp_ref(L, i, r) ==
    LET j == Frame(L, i, r) IN IF j = 0 THEN "unknown" ELSE L[j].type

(* The time of a picture, also of one in the next sequence; 0 is no time.  *)
(* The time behind a repair says nothing about the one before it.          *)
get_time_of_tmp_ref(L, i, r) ==
    LET h == get_highest_tmp_ref(L, i)
        n == SeqAfter(L, i)
        At(k, ref) == LET j == Frame(L, k, ref) IN IF j = 0 THEN 0 ELSE L[j].time
    IN  IF r <= h THEN At(i, r)
        ELSE IF L[n].repaired \/ L[n + 1].repaired THEN 0 ELSE At(n, r - h - 1)

(* A picture that nothing stands in front of, or behind, is not removed.   *)
remove_frame(L, i, r) ==
    LET j == Frame(L, i, r) IN IF j \in 2..(Len(L) - 1) THEN RemoveAt(L, j) ELSE L

-----------------------------------------------------------------------------
(* check_temporal_reference: the references of the sequence, in the order  *)
(* they come.  counter is the reference that is next in display order; the *)
(* one of an anchor (stored) is due when the next anchor comes.            *)
Start == [i |-> FALSE, p |-> FALSE, b |-> FALSE, counter |-> 0, stored |-> 0,
          row |-> 0, previous |-> "none", closed |-> FALSE, error |-> 0]

CheckGop(s, h) ==
    IF h.head = "none" THEN s
    ELSE IF s.previous = "none" THEN [s EXCEPT !.closed = h.closed]
    ELSE [s EXCEPT !.i = FALSE, !.p = FALSE, !.b = FALSE, !.counter = 0, !.closed = h.closed]

Bad(s, wrong) == IF wrong THEN s.error + 1 ELSE s.error

CheckFirstI(s, h) ==
    IF s.closed
    THEN [s EXCEPT !.error = Bad(s, h.ref # 0), !.counter = 0, !.i = TRUE, !.previous = "I"]
    ELSE [s EXCEPT !.stored = h.ref, !.i = TRUE, !.previous = "I"]

CheckFirstP(s, h) ==
    IF s.closed THEN [s EXCEPT !.stored = h.ref, !.p = TRUE, !.previous = "P"]
    ELSE [s EXCEPT !.counter = @ + 1, !.error = Bad(s, s.stored # s.counter + 1),
                   !.stored = h.ref, !.p = TRUE, !.previous = "P"]

CheckAnchor(s, h) ==
    LET row == IF s.previous = "B" THEN 0 ELSE s.row + 1 IN
    [s EXCEPT !.counter = @ + 1, !.row = row, !.stored = h.ref, !.previous = "P",
              !.error = Bad(s, IF row > 0 THEN s.stored + 1 # h.ref ELSE s.stored # s.counter + 1)]

CheckB(s, h) ==
    LET counter == IF s.b /\ s.closed THEN s.counter
                   ELSE IF s.b \/ s.closed THEN s.counter + 1 ELSE 0
        first == [s EXCEPT !.counter = counter, !.previous = "B",
                           !.error = Bad(s, h.ref # counter - s.row)]
    IN  IF s.b THEN first ELSE [first EXCEPT !.b = TRUE, !.closed = FALSE]

CheckPicture(s, h) ==
    IF h.type = "B" THEN CheckB(s, h)
    ELSE IF h.type = "I" /\ ~s.i THEN CheckFirstI(s, h)
    ELSE IF h.type = "P" /\ s.i /\ ~s.p THEN CheckFirstP(s, h)
    ELSE IF s.i /\ s.p THEN CheckAnchor(s, h)
    ELSE s

CheckAll(L, i) ==
    FoldLeft(LAMBDA t, h : CheckPicture(CheckGop(t, h), h), Start,
             SubSeq(L, i, SeqAfter(L, i) - 1))

MutCheckTemporal(L, i) == CheckAll(L, i).error
check_temporal_reference(L, i) ==
    LET s == CheckAll(L, i) IN
    Bad(s, s.previous # "none" /\ s.stored # s.counter + 1)

(* check_nr_frames_tmp_ref: a stray is dropped, and the pictures counted.  *)
(* freed: the stray was the picture the sequence starts with, which is     *)
(* used from then on.                                                      *)
MutCheckNr(L, i) ==
    LET h == get_highest_tmp_ref(L, i)
        second == get_second_highest_tmp_ref(L, i, h)
        list == remove_frame(L, i, h)
    IN  [list |-> list, freed |-> Frame(L, i, h) = i /\ list # L,
         nr |-> SeqAfter(list, i) - i - second - 1]

check_nr_frames_tmp_ref(L, i) ==
    LET h == get_highest_tmp_ref(L, i)
        second == get_second_highest_tmp_ref(L, i, h)
        stray == h - second > StrayGap
        list == IF stray THEN remove_frame(L, i, h) ELSE L
    IN  [list |-> list, freed |-> stray /\ Frame(L, i, h) = i /\ list # L,
         nr |-> SeqAfter(list, i) - i - (IF stray THEN second ELSE h) - 1]
=============================================================================

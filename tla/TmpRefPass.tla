----------------------------- MODULE TmpRefPass -----------------------------
(***************************************************************************)
(* check_fix_tmp_ref (pes_holder_video_check.c): one sequence is checked   *)
(* and, if its temporal references are wrong, sorted, completed with       *)
(* copies of other pictures (correct_underflow_in_frames) or cut in two    *)
(* (correct_overflow_in_frames).  An outcome is the list with the number   *)
(* of errors left, -1 for a failure, or Undefined when the code uses a     *)
(* holder it has freed or follows NULL.                                    *)
(***************************************************************************)
EXTENDS Pictures

CONSTANTS
    FrameTick    \* ticks of a picture with two fields

Undefined == -99
Freed(L) == [list |-> L, result |-> Undefined]
Checked(L, i) == [list |-> L, result |-> check_temporal_reference(L, i)]

NewId(L) == Max({h.id : h \in Range(L)}) + 1
duplicate_pes_holder(L, j) ==
    [L[j] EXCEPT !.id = NewId(L), !.seq_added = FALSE, !.repaired = FALSE, !.drift = 0]

-----------------------------------------------------------------------------
(* fix_tmp_ref moves the holders of a sequence, one by one, behind its I   *)
(* picture: in each round the anchors and then the B pictures whose turn   *)
(* has come.  A holder of the next sequence ends it (none is taken); a     *)
(* round that takes none, too, after 1025 repetitions.  When it fails, the *)
(* moved ones (out) are a list of their own.                               *)
LeastFrame(rest, types) ==
    LET own == 1..(GopAfter(rest, 1) - 1)
        some == {k \in own : rest[k].type \in types}
        least == Min({rest[k].ref : k \in some})
    IN  IF rest = <<>> \/ some = {} THEN 0 ELSE Min({k \in some : rest[k].ref = least})

Take(s, k, prev, first) ==
    [s EXCEPT !.rest = RemoveAt(@, k), !.out = Append(@, s.rest[k]), !.prev = prev,
              !.first = first, !.took = TRUE]

AnchorDue(s, ref) == IF s.first THEN ref > s.prev ELSE ref = s.prev + 1

(* The phases: "closed" (only before the first round), "P1", "B" and "P2". *)
SortStep(s) ==
    LET B == s.phase = "B"
        k == LeastFrame(s.rest, IF B THEN {"B"} ELSE Anchors)
        ref == s.rest[k].ref
    IN  IF s.rest = <<>> \/ s.phase = "failed" THEN s
        ELSE IF k # 0 /\ B /\ ref < s.prev THEN Take(s, k, ref + 2, TRUE)
        ELSE IF k # 0 /\ ~B /\ AnchorDue(s, ref) THEN Take(s, k, ref, FALSE)
        ELSE IF s.phase = "closed"
             THEN [s EXCEPT !.phase = IF k = 0 THEN "failed" ELSE "P1", !.took = FALSE]
        ELSE IF s.phase = "P1" THEN [s EXCEPT !.phase = "B"]
        ELSE IF B THEN [s EXCEPT !.phase = "P2"]
        ELSE [s EXCEPT !.phase = IF s.took THEN "P1" ELSE "failed", !.took = FALSE]

fix_tmp_ref(L, i) ==
    LET n == SeqAfter(L, i)
        old == SubSeq(L, i, n - 1)
        start == LeastFrame(old, Anchors)
        init == [rest |-> RemoveAt(old, start), out |-> <<old[start]>>, prev |-> old[start].ref,
                 first |-> old[start].ref = 0, took |-> FALSE,
                 phase |-> IF old[start].ref = 0 THEN "closed" ELSE "P1"]
        end == FoldLeft(LAMBDA s, x : SortStep(s), init, [k \in 1..(4 * Len(old)) |-> k])
    IN  IF n > Len(L) \/ start = 0 THEN [list |-> L, ok |-> FALSE, out |-> <<>>]
        ELSE IF old[start].type # "I" \/ end.rest # <<>>
             THEN [list |-> SubSeq(L, 1, i - 1) \o end.rest \o SubSeq(L, n, Len(L)),
                   ok |-> FALSE, out |-> end.out]
        ELSE [list |-> SubSeq(L, 1, i - 1) \o end.out \o SubSeq(L, n, Len(L)),
              ok |-> TRUE, out |-> <<>>]

-----------------------------------------------------------------------------
(* correct_overflow_in_frames: the header of a GOP was lost.  Its first    *)
(* picture is looked for with a reference that comes twice.                *)
Second(L, i, r) ==
    LET js == {j \in InSeq(L, i) : L[j].ref = r} IN Least(js \ {Least(js, 0)}, 0)

find_first_frame_missing_seq(L, i, r) ==
    LET m == Second(L, i, r) IN
    IF L[m - 1].type = "P" /\ L[m - 1].ref \in (r + 1)..(r + 3) THEN m - 1 ELSE m

(* Better guesses, by time, type and reference.                            *)
find_first_frame_missing_seq_2(L, i, m, r) ==
    LET type == get_frame_type_of_tmp_ref(L, i, r)
        first == get_time_of_tmp_ref(L, i, r)
        seen == Min({j \in InSeq(L, i) : L[j].ref = r})
        better == {j \in (seen + 1)..(m - 1) :
                     \/ L[j].type = type /\ L[j].time > first /\ L[j].ref < r
                     \/ type \in Anchors /\ L[m].time < L[j].time
                     \/ type = "B" /\ L[j].time < L[m].time /\ L[j].ref < r
                     \/ L[j].type = "I" /\ L[j].ref < 3}
    IN  IF L[m].time = 0 \/ type = "unknown" \/ first = 0 THEN m ELSE Least(better, m)

(* An I picture gets a sequence header and, if it has none, a GOP header;  *)
(* before any other the holder the sequence starts with is copied.         *)
SplitAt(L, i, m) ==
    IF L[m].type = "I"
    THEN [L EXCEPT ![m].head = "seq", ![m].closed = IF L[m].head = "gop" THEN @ ELSE L[i].closed]
    ELSE InsertAt(L, m, [duplicate_pes_holder(L, i) EXCEPT !.seq_added = TRUE])

correct_overflow_in_frames(L, i) ==
    LET twice == {r \in 0..get_highest_tmp_ref(L, i) : Second(L, i, r) # 0}
        dup == Max({r \in twice : Second(L, i, r) <= Second(L, i, Min(twice))})
        m == find_first_frame_missing_seq(L, i, dup)
    IN  IF twice = {} THEN [list |-> L, result |-> 0]
        ELSE Checked(SplitAt(L, i, find_first_frame_missing_seq_2(L, i, m, dup)), i)

-----------------------------------------------------------------------------
(* correct_underflow_in_frames: pictures were lost.  Every reference up to *)
(* the highest is looked for, and beyond it when that is a B picture.      *)
Wanted(L, i) ==
    LET h == get_highest_tmp_ref(L, i) IN
    IF get_frame_type_of_tmp_ref(L, i, h) # "B" THEN h
    ELSE IF get_frame_type_of_tmp_ref(L, i, h - 1) = "P" THEN h + 2 ELSE h + 1

(* The first one of two is dropped, even the one the sequence starts with. *)
Occurs(L, i, r) == {j \in InGop(L, i) : L[j].ref = r}
MutRemoveDup(L, i, r) ==
    IF Occurs(L, i, r) # {} THEN RemoveAt(L, Frame(L, i, r)) ELSE L
remove_dup_frame(L, i, r) ==
    IF Cardinality(Occurs(L, i, r)) > 1 THEN RemoveAt(L, Frame(L, i, r)) ELSE L

(* What a missing picture is, when nothing is known of it.                 *)
Guessed(r) == IF r = 2 THEN "I" ELSE IF r # 0 /\ (r + 1) % 3 = 0 THEN "P" ELSE "B"

(* A picture of that type, one with a higher reference if there is any,    *)
(* else one from before.  The search back starts at the first picture with *)
(* a higher reference only in the last sequence of the list: with another  *)
(* one behind it the flag of the first search is still set, and it starts  *)
(* at the holder the sequence starts with.                                 *)
fetch_next_avaliable_frame(L, i, r, type) ==
    LET later == {j \in InSeq(L, i) : L[j].type = type /\ L[j].ref > r}
        beyond == {j \in InSeq(L, i) : L[j].ref > r}
        from == IF next_seq_holder(L, i) # 0 THEN i ELSE Least(beyond, 0)
    IN  IF later # {} THEN Min(later) ELSE Max({j \in 1..from : L[j].type = type} \cup {0})

(* insert_pes_holder: not close to the I picture; it is sorted later on.   *)
PlaceFor(L, i) ==
    Min({j \in i..Len(L) : L[j].ref > 2 \/ (j > i /\ L[j].head = "seq")})

Insert(s, r) ==
    LET j == fetch_next_avaliable_frame(s.list, s.i, r, Guessed(r))
        at == PlaceFor(s.list, s.i)
    IN  IF ~s.ok THEN s
        ELSE IF j = 0 THEN [s EXCEPT !.ok = FALSE]
        ELSE [s EXCEPT !.list = InsertAt(@, at, [duplicate_pes_holder(@, j) EXCEPT !.ref = r]),
                       !.i = IF at = @ THEN @ + 1 ELSE @, !.crash = @ \/ at = 1, !.sort = TRUE]

(* One run over the references; missing are those that were not there.     *)
FillIn(s) ==
    LET refs == [k \in 1..(Wanted(s.list, s.i) + 1) |-> k - 1]
        first == {r \in Range(refs) : Cardinality(Occurs(s.list, s.i, r)) > 1
                                      /\ Frame(s.list, s.i, r) = s.i}
        clean == FoldLeft(LAMBDA l, r : remove_dup_frame(l, s.i, r), s.list, refs)
        missing == SelectSeq(refs, LAMBDA r : Occurs(s.list, s.i, r) = {})
    IN  IF s.crash \/ first # {} THEN [s EXCEPT !.crash = TRUE]
        ELSE FoldLeft(Insert, [s EXCEPT !.list = clean, !.missing = Range(missing)], missing)

(* The second run is meant for a wrong guess of the last reference, but it *)
(* takes place when the number of pictures is right.                       *)
FillAgain(once, nr) ==
    LET counted == [once EXCEPT !.list = nr.list, !.crash = @ \/ nr.freed] IN
    IF nr.nr = 0 THEN FillIn(counted) ELSE counted

FillMore(once) ==
    IF once.crash \/ ~once.ok THEN once
    ELSE FillAgain(once, check_nr_frames_tmp_ref(once.list, once.i))

FillTwice(s) == FillMore(FillIn(s))

(* repair_frame_time: pictures without a time get one, and two or three    *)
(* fields, to fill the time between their neighbours.                      *)
Fields(repeat) == IF repeat THEN 3 ELSE 2
Quotient(a, b) == IF a < 0 THEN -((-a) \div b) ELSE a \div b

(* get_time_field_info; without a previous sequence there is no time.      *)
FieldInfo(L, i, r) ==
    LET h == get_highest_tmp_ref(L, i)
        p == previous_seq_holder(L, i)
        k == IF r > h THEN SeqAfter(L, i) ELSE IF r < 0 THEN p ELSE i
        ref == IF r > h THEN r - h - 1
               ELSE IF r < 0 /\ p # 0 THEN get_highest_tmp_ref(L, p) + r + 1 ELSE r
        j == IF k = 0 THEN 0 ELSE Frame(L, k, ref)
    IN  IF j = 0 THEN [time |-> 0, top |-> FALSE, repeat |-> FALSE]
        ELSE [time |-> L[j].time, top |-> L[j].top, repeat |-> L[j].repeat]

(* The next picture starts with a top field.                               *)
TopNext(top, repeat) == top # repeat

SetPicture(L, i, r, time, top, repeat) ==
    LET j == Frame(L, i, r) IN
    IF j = 0 THEN L ELSE [L EXCEPT ![j].time = time, ![j].top = top, ![j].repeat = repeat]

(* b and o are the first missing picture of a run and the first behind it, *)
(* gap how many half pictures the time between has room for.               *)
Fill(L, i, b, o, before, break, gap) ==
    LET half == FrameTick \div 2
        Step(s, r) ==
            LET repeat == s.two <= s.three IN
            [list |-> SetPicture(s.list, i, r, s.time, s.top, repeat),
             time |-> s.time + FrameTick + (IF repeat THEN half ELSE 0),
             two |-> IF repeat THEN s.two ELSE s.two - 1,
             three |-> IF repeat THEN s.three - 1 ELSE s.three,
             top |-> TopNext(s.top, repeat)]
        init == [list |-> L, time |-> break, two |-> 3 * (o - b) - gap, three |-> gap - 2 * (o - b),
                 top |-> TopNext(before.top, before.repeat)]
    IN  FoldLeft(Step, init, [k \in 1..(o - b) |-> b + k - 1]).list

FillBetween(L, i, b, o, before, behind) ==
    LET half == FrameTick \div 2
        break == before.time + FrameTick + (Fields(before.repeat) % 2) * half
    IN  Fill(L, i, b, o, before, break, Quotient(behind.time - break, half))

RepairRun(L, i, missing, b) ==
    LET o == Min({r \in (b + 1)..(Max(missing) + 1) : r \notin missing}) IN
    FillBetween(L, i, b, o, FieldInfo(L, i, b - 1), FieldInfo(L, i, o))

repair_frame_time(L, i, missing) ==
    LET starts == SetToSortSeq({b \in missing : b - 1 \notin missing}, <) IN
    FoldLeft(LAMBDA l, b : RepairRun(l, i, missing, b), L, starts)

Timed(L, i, s, list) ==
    LET missing == s.missing \cup (IF L[i].seq_added THEN {2} ELSE {}) IN
    Checked(repair_frame_time(list, s.i, missing), s.i)

(* A failed sort leaves the rest of the list without the sequence that is  *)
(* worked on; that is fatal unless its check, or the caller, overlooks it. *)
Resorted(L, i, s, sorted) ==
    IF sorted.out # <<>> /\ Head(sorted.out).id = L[i].id
    THEN [list |-> L, result |-> IF 0 \in {check_temporal_reference(sorted.out, 1),
                                           check_temporal_reference(L, i)}
                                 THEN Undefined ELSE 1]
    ELSE Timed(L, i, s, sorted.list)

Filled(L, i, s) ==
    IF s.crash THEN Freed(L)
    ELSE IF ~s.ok THEN [list |-> s.list, result |-> -1]
    ELSE IF s.sort THEN Resorted(L, i, s, fix_tmp_ref(s.list, s.i))
    ELSE Timed(L, i, s, s.list)

Underflow(L, i) ==
    Filled(L, i, FillTwice([list |-> L, i |-> i, ok |-> TRUE, crash |-> FALSE, missing |-> {},
                            sort |-> FALSE]))

(* A second stray is dropped, without a look at the order of the rest.     *)
AfterStray(L, nr, i) ==
    IF nr.freed THEN Freed(L)
    ELSE IF nr.nr >= 0 THEN [list |-> nr.list, result |-> IF nr.nr = 0 THEN 0 ELSE -1]
    ELSE Underflow(nr.list, i)

correct_underflow_in_frames(L, i) ==
    LET h == get_highest_tmp_ref(L, i) IN
    IF h - get_second_highest_tmp_ref(L, i, h) <= StrayGap THEN Underflow(L, i)
    ELSE IF Frame(L, i, h) = i THEN Freed(L)
    ELSE AfterStray(L, check_nr_frames_tmp_ref(remove_frame(L, i, h), i), i)

-----------------------------------------------------------------------------
(* check_fix_tmp_ref: "done" with the list that is passed on, "exit" or    *)
(* "undefined".                                                            *)
Verdict(r) ==
    [list |-> r.list, result |-> IF r.result = Undefined THEN "undefined"
                                 ELSE IF r.result = 0 THEN "done" ELSE "exit"]

Recounted(L, i, nr) ==
    IF nr.freed THEN Verdict(Freed(L))
    ELSE IF nr.nr < 0 THEN Verdict(correct_underflow_in_frames(nr.list, i))
    ELSE [list |-> nr.list, result |-> "exit"]

Split(L, i, r) ==
    IF r.result = 0 THEN Verdict(r)
    ELSE Recounted(L, i, check_nr_frames_tmp_ref(r.list, i))

Overflow(L, i) == Split(L, i, correct_overflow_in_frames(L, i))

Sorted(r) == [list |-> r.list, result |-> IF r.ok THEN "done" ELSE "exit"]

Counted(L, i, nr) ==
    IF nr.freed THEN Verdict(Freed(L))
    ELSE IF nr.nr > 0 THEN Overflow(nr.list, i)
    ELSE IF nr.nr < 0 THEN Verdict(correct_underflow_in_frames(nr.list, i))
    ELSE Sorted(fix_tmp_ref(nr.list, i))

Repair(L, i) == Counted(L, i, check_nr_frames_tmp_ref(L, i))

check_fix_tmp_ref(L, i) ==
    IF check_temporal_reference(L, i) # 0 THEN Repair(L, i)
    ELSE IF L[i].seq_added
         THEN LET r == correct_underflow_in_frames(L, i) IN
              [r EXCEPT !.result = IF @ = Undefined THEN "undefined" ELSE "done"]
    ELSE [list |-> L, result |-> "done"]
=============================================================================

----------------------------- MODULE GopPasses ------------------------------
(***************************************************************************)
(* The passes of check_fix_pes_holder_video that look at the pictures of a *)
(* sequence, one behind the other over one list: temporal references,      *)
(* fields, drift between sound and video, and time codes.  VideoPasses has *)
(* them too, together with reading, cutting and writing, but leaves open   *)
(* what they do to a sequence; here the pictures are there.                *)
(*                                                                         *)
(* The list is a part of a recording that begins with a sequence.  The     *)
(* recording goes on behind it: the pass before (check_fix_p_frame) has    *)
(* handled its last sequence.                                              *)
(***************************************************************************)
EXTENDS DriftPass

CONSTANTS
    Cases,        \* what the recording may be
    Stream(_)     \* the holders of a case

VARIABLES
    input,                  \* the case
    list,                   \* tystream->pes_holder_video
    pc,                     \* the pass that runs
    front,                  \* lf_tmp_ref_pes_holder and so on: ids, or 0
    drift, reminder_field,
    frame_counter, frame_field_reminder

counters == <<frame_counter, frame_field_reminder>>
vars == <<input, list, pc, front, drift, reminder_field, counters>>

Order == <<"tmp_ref", "field", "av_drift", "gop_counter">>
Passes == Range(Order)
Nr(p) == CHOOSE k \in DOMAIN Order : Order[k] = p

FirstReminder == 1501

Init ==
    /\ input \in Cases
    /\ list = Stream(input)
    /\ pc = "tmp_ref"
    /\ front = [p \in Passes |-> 0]
    /\ drift = 0 /\ reminder_field = FirstReminder
    /\ frame_counter = 0 /\ frame_field_reminder = 0

Position(id) == Least({j \in DOMAIN list : list[j].id = id}, 0)

(* The sequence a pass is to handle next, and whether it may.              *)
StartOf(p) ==
    IF front[p] = 0 THEN 1
    ELSE IF Position(front[p]) = 0 THEN 0 ELSE next_seq_holder(list, Position(front[p]))

Ahead(p, i) ==
    IF p = Head(Order) THEN TRUE ELSE i < Position(front[Order[Nr(p) - 1]])

Ready(p) ==
    LET i == StartOf(p) IN
    /\ i # 0 /\ Ahead(p, i)
    /\ next_seq_holder(list, i) # 0 /\ list[next_seq_holder(list, i)].type # "B"

Handled(p, i) == front' = [front EXCEPT ![p] = list[i].id]

CheckFixTmpRef ==
    /\ pc = "tmp_ref" /\ Ready(pc)
    /\ \E i \in {StartOf(pc)} : \E r \in {check_fix_tmp_ref(list, i)} :
        /\ list' = r.list
        /\ pc' = IF r.result = "done" THEN pc ELSE r.result
        /\ Handled(pc, i)
    /\ UNCHANGED <<input, drift, reminder_field, counters>>

CheckFixFields ==
    /\ pc = "field" /\ Ready(pc)
    /\ \E i \in {StartOf(pc)} : list' = check_fields_in_seq(list, i) /\ Handled(pc, i)
    /\ UNCHANGED <<input, pc, drift, reminder_field, counters>>

CheckFixAvDrift ==
    /\ pc = "av_drift" /\ Ready(pc)
    /\ \E i \in {StartOf(pc)} :
       \E r \in {check_fix_av_drift(list, i, drift, reminder_field)} :
        /\ list' = r.list
        /\ drift' = r.drift
        /\ reminder_field' = r.reminder
        /\ Handled(pc, i)
    /\ UNCHANGED <<input, pc, counters>>

CheckFixGopFrameCounter ==
    /\ pc = "gop_counter" /\ Ready(pc)
    /\ \E i \in {StartOf(pc)} :
       \E r \in {count_frame_fix_gop(list, i, frame_counter, frame_field_reminder)} :
        /\ list' = r.list
        /\ frame_counter' = r.frames
        /\ frame_field_reminder' = r.rest
        /\ Handled(pc, i)
    /\ UNCHANGED <<input, pc, drift, reminder_field>>

(* Each pass goes as far as it may before the next one has its turn.       *)
NextPass ==
    /\ pc \in Passes /\ ~Ready(pc)
    /\ pc' = IF Nr(pc) = Len(Order) THEN "written" ELSE Order[Nr(pc) + 1]
    /\ UNCHANGED <<input, list, front, drift, reminder_field, counters>>

Done == pc \in {"written", "exit", "undefined"} /\ UNCHANGED vars

Next ==
    \/ CheckFixTmpRef \/ CheckFixFields \/ CheckFixAvDrift \/ CheckFixGopFrameCounter
    \/ NextPass \/ Done

Spec == Init /\ [][Next]_vars

-----------------------------------------------------------------------------
(* The GOPs that the pass has handled, and all of their pictures.          *)
Gops(p) == {i \in 1..(SeqAfter(list, Position(front[p])) - 1) : list[i].head # "none"}
Pictures(p) == 1..(SeqAfter(list, Position(front[p])) - 1)

(* A GOP as the standard has it: its references are consecutive, anchors   *)
(* and B pictures come in display order, and a B picture behind the anchor *)
(* that is shown after it.                                                 *)
WellFormed(L, i) ==
    LET js == InGop(L, i)
        Before(j, types) == {k \in js : k < j /\ L[k].type \in types} IN
    /\ {L[j].ref : j \in js} = 0..(Cardinality(js) - 1)
    /\ \A j \in js : \A k \in Before(j, IF L[j].type = "B" THEN {"B"} ELSE Anchors) :
            L[k].ref < L[j].ref
    /\ \A j \in js : L[j].type = "B" => \E a \in Before(j, Anchors) : L[j].ref < L[a].ref

(* A sequence that a pass has handled, sorted or completed or with copies, *)
(* ends with a well formed GOP, unless the program gave up: the checks by  *)
(* counting (check_temporal_reference) accept nothing else of a GOP that   *)
(* was well formed before the damage.                                      *)
RefsSound ==
    pc \in Passes /\ front[pc] # 0 =>
        \A i \in Gops(pc) :
            Position(front[pc]) <= i /\ GopAfter(list, i) = SeqAfter(list, i) => WellFormed(list, i)

(* No repair of references drops a picture whose reference is in its GOP   *)
(* only once and not a stray: sorting moves the holders one by one.        *)
Once(L, j, i) == \A k \in InGop(L, i) : L[k].ref = L[j].ref => k = j
Plain(L, i) ==
    LET h == get_highest_tmp_ref(L, i) IN
    h - get_second_highest_tmp_ref(L, i, h) <= StrayGap

OnlyDoublesDropped ==
    [][pc = "tmp_ref" /\ pc' \notin {"exit", "undefined"} =>
        \A i \in DOMAIN list : list[i].head # "none" /\ Plain(list, i) =>
            \A j \in InGop(list, i) : Once(list, j, i) =>
                \E k \in DOMAIN list' : list'[k].id = list[j].id]_vars

(* The holder a sequence starts with is freed only if its reference is a   *)
(* stray or comes twice (remove_dup_frame takes the first of two), and no  *)
(* frontier is left on a holder that is not in the list.                   *)
StartKept ==
    [][/\ pc' = "undefined" =>
            LET i == StartOf("tmp_ref") IN ~Once(list, i, i) \/ ~Plain(list, i)
       /\ pc' # "exit" =>
            \A p \in Passes : front'[p] # 0 => \E j \in DOMAIN list' : list'[j].id = front'[p]]_vars

(* What the next properties say holds for recordings that nothing is       *)
(* missing from, only time jumps; and if three-field pictures come in      *)
(* turn, for jumps that are filled, as the fields of those dropped are not *)
(* looked at.                                                              *)
Undamaged(kinds) == \A e \in Range(input.damage) : e[1] \in kinds
OnlyFilled == input.film => \A e \in Range(input.damage) : e[3] >= 0

(* Copies and drops leave the fields in turn: a picture starts with the    *)
(* field that the one shown before it did not end with.                    *)
ShownNext(j) ==
    LET i == Max({k \in 1..j : list[k].head # "none"}) IN
    IF list[j].ref < get_highest_tmp_ref(list, i) THEN Frame(list, i, list[j].ref + 1)
    ELSE Frame(list, GopAfter(list, i), 0)

FieldsAlternate ==
    pc = "gop_counter" /\ Undamaged({"jump", "cut"}) /\ OnlyFilled =>
        \A j \in Pictures("av_drift") :
            list[ShownNext(j)].top = TopNext(list[j].top, list[j].repeat)

(* The drift the program works with is the time that what it shows is      *)
(* late, a tick for each rounding aside, and so it stays below the         *)
(* threshold, as long as a GOP has room for the copies that are planned    *)
(* (three in one of six pictures, or a still picture).                     *)
FieldsOf(js) == MapThenSumSet(LAMBDA j : Fields(list[j].repeat), js)
StartTime(L, i) == L[Frame(L, i, 0)].time
Late ==
    StartTime(Stream(input), 1) + (FieldsOf(Pictures("av_drift")) * FrameTick) \div 2
        - StartTime(list, SeqAfter(list, Position(front["av_drift"])))
Fits == \A e \in Range(input.damage) : e[3] \div FrameTick # StillFrames
Rounding == 4

DriftTrue ==
    front["av_drift"] # 0 /\ Undamaged({"jump"}) /\ OnlyFilled /\ Fits =>
        Distance(drift - Late) <= Rounding /\ Distance(Late) < threshold + Rounding

(* The time codes count every field of the pictures before, those added on *)
(* the way included and those dropped not, if each sequence has one GOP:   *)
(* the pictures of a second one are not counted.                           *)
TimeCodeCountsFields ==
    front["gop_counter"] # 0 /\ (\A j \in DOMAIN list : list[j].head # "gop") =>
        LET i == Position(front["gop_counter"]) IN
        /\ 2 * frame_counter + frame_field_reminder = FieldsOf(Pictures("gop_counter"))
        /\ list[i].tc = frametotc(FieldsOf(1..(i - 1)) \div 2)
=============================================================================

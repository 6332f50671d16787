----------------------------- MODULE DriftPass ------------------------------
(***************************************************************************)
(* What the passes behind TmpRefPass do to a sequence: the fields of each  *)
(* picture are noted (check_fields_in_seq, picture.c), sound and video are *)
(* kept together by copying or dropping B pictures (sync_drift.c), and the *)
(* pictures are counted for the time codes (gop.c).                        *)
(***************************************************************************)
EXTENDS TmpRefPass

CONSTANTS
    Fps          \* pictures per second of a time code

ASSUME DriftAssumption == FrameTick \in Nat \ {0} /\ Fps \in Nat \ {0}

threshold == FrameTick \div 2 + FrameTick \div 20
Distance(x) == IF x < 0 THEN -x ELSE x

(* The pictures of a GOP in display order, as far as none is missing.      *)
Known(L, i) ==
    LET h == get_highest_tmp_ref(L, i) IN
    {r \in 0..h : \A x \in 0..r : Frame(L, i, x) # 0}

(* check_fields_in_seq: what is wrong with the fields is only logged.      *)
check_fields_in_seq(L, i) ==
    LET js == {Frame(L, i, r) : r \in Known(L, i)} IN
    [j \in DOMAIN L |-> IF j \in js THEN [L[j] EXCEPT !.three = L[j].repeat] ELSE L[j]]

-----------------------------------------------------------------------------
(* check_av_drift_in_seq: how far the pictures of a GOP, as many fields as *)
(* they have, miss the time of the next one.  No time, no drift.           *)
FieldsIn(L, i) == MapThenSumSet(LAMBDA r : Fields(L[Frame(L, i, r)].repeat), Known(L, i))

Measurable(L, i) ==
    \A r \in 0..(get_highest_tmp_ref(L, i) + 1) : get_time_of_tmp_ref(L, i, r) # 0

NextReminder(reminder) ==
    IF FrameTick # 3003 THEN FrameTick \div 2 ELSE IF reminder = 1502 THEN 1501 ELSE 1502

check_av_drift_in_seq(L, i, reminder) ==
    LET fields == FieldsIn(L, i)
        odd == fields % 2
        met == get_time_of_tmp_ref(L, i, 0) + (fields \div 2) * FrameTick + odd * reminder
        due == get_time_of_tmp_ref(L, i, get_highest_tmp_ref(L, i) + 1)
    IN  IF ~Measurable(L, i) THEN [drift |-> 0, reminder |-> reminder]
        ELSE [drift |-> met - due, reminder |-> IF odd = 1 THEN NextReminder(reminder) ELSE reminder]

-----------------------------------------------------------------------------
(* add_frame: a copy behind the picture, with the fields that are due.     *)
Shifted(L, i, from, by) ==
    [j \in DOMAIN L |->
        IF j \notin InGop(L, i) \/ L[j].ref < from THEN L[j]
        ELSE IF by > 0 /\ L[j].added THEN [L[j] EXCEPT !.added = FALSE]
        ELSE [L[j] EXCEPT !.ref = @ + by]]

MutAddFrame(L, i, r) ==
    LET j == Frame(L, i, r)
        copy == [duplicate_pes_holder(L, j) EXCEPT
                    !.ref = r + 1, !.added = TRUE, !.repeat = FALSE, !.three = FALSE]
    IN  Shifted(InsertAt(L, j + 1, copy), i, r + 1, 1)

add_frame(L, i, r) ==
    LET j == Frame(L, i, r)
        copy == [duplicate_pes_holder(L, j) EXCEPT
                    !.ref = r + 1, !.added = TRUE, !.repeat = FALSE, !.three = FALSE,
                    !.top = TopNext(L[j].top, L[j].repeat)]
    IN  Shifted(InsertAt(L, j + 1, copy), i, r + 1, 1)

Drop(L, i, r) == Shifted(remove_frame(L, i, r), i, r, -1)

(* The pictures that fix_drift wants to add or to drop.                    *)
MutPlanned(drift) == Distance(drift) \div FrameTick
Planned(drift) ==
    Distance(drift) \div FrameTick
        + (IF Distance(drift) % FrameTick >= threshold THEN 1 ELSE 0)

(* They are spread over the B pictures the GOP had before.                 *)
Spread(L, i, n, Change(_, _, _)) ==
    LET h == get_highest_tmp_ref(L, i)
        freq == (h + 1) \div (n + 1)
        Step(s, x) ==
            IF s.at > h \/ s.done = n THEN s
            ELSE IF get_frame_type_of_tmp_ref(s.list, i, s.at) = "B"
                 THEN [s EXCEPT !.list = Change(@, i, s.at), !.done = @ + 1,
                                !.at = @ + freq - s.seeked + 1]
                 ELSE [s EXCEPT !.seeked = @ + 1, !.at = @ + 1]
    IN  FoldLeft(Step, [list |-> L, at |-> 0, done |-> 0, seeked |-> 0],
                 [k \in 1..((h + 1) * (n + 1)) |-> k]).list

(* Too many for that: a still picture, made of the first B picture.        *)
StillFrames == 4
Still(L, i, n) ==
    LET bs == {r \in 0..(get_highest_tmp_ref(L, i) - 1) :
                  get_frame_type_of_tmp_ref(L, i, r) = "B"}
    IN  IF bs = {} THEN L
        ELSE FoldLeft(LAMBDA l, x : add_frame(l, i, Min(bs)), L, [k \in 1..n |-> k])

fix_drift(L, i, drift) ==
    LET n == Planned(drift) IN
    IF drift > 0 THEN [list |-> Spread(L, i, n, Drop), drift |-> drift - n * FrameTick]
    ELSE [list |-> IF n > StillFrames THEN Still(L, i, n) ELSE Spread(L, i, n, add_frame),
          drift |-> drift + n * FrameTick]

(* check_fix_av_drift: a drift that a cut or a repair has left at the      *)
(* sequence, or at the holder behind it, has the other sign.               *)
check_fix_av_drift(L, i, drift, reminder) ==
    LET object == IF L[i].drift # 0 THEN L[i].drift ELSE L[i + 1].drift
        noted == [L EXCEPT ![i].drift = object]
        m == check_av_drift_in_seq(L, i, reminder)
        total == drift - object + m.drift
        fix == fix_drift(noted, i, total)
    IN  [list |-> IF Distance(total) >= threshold THEN fix.list ELSE noted,
         drift |-> IF Distance(total) >= threshold THEN fix.drift ELSE total,
         reminder |-> m.reminder]

-----------------------------------------------------------------------------
(* count_frame_fix_gop: the GOP header gets the time of the pictures so    *)
(* far, then those of the GOP are counted; an odd field is kept.           *)
frametotc(frame) ==
    LET seconds == frame \div Fps IN
    <<(seconds \div 3600) % 24, (seconds \div 60) % 60, seconds % 60, frame % Fps>>

CountedFields(L, i) ==
    MapThenSumSet(LAMBDA j : Fields(L[j].three), InGop(L, i))

MutReminder(odd, rest) == rest
Reminder(odd, rest) == (odd + rest) % 2

count_frame_fix_gop(L, i, frames, rest) ==
    LET fields == CountedFields(L, i) IN
    [list |-> [L EXCEPT ![i].tc = frametotc(frames)],
     frames |-> frames + fields \div 2 + (rest * (fields % 2)),
     rest |-> Reminder(fields % 2, rest)]
=============================================================================

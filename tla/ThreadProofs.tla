---------------------------- MODULE ThreadProofs ----------------------------
(***************************************************************************)
(* The two halves of threads that hand data over.                          *)
(*                                                                         *)
(* libs/threadlib.c: the write buffer array never overruns and is a        *)
(* first-in-first-out queue whatever the size it grows by.  The invariant  *)
(* is that every slot between first and last holds a buffer and every      *)
(* other slot is NULL.                                                     *)
(*                                                                         *)
(* tydemux_thread: the hand-over between the demultiplexer's thread, its   *)
(* caller and mplex, for every number of chunks, size of the pipes and     *)
(* patience of the flush, and whatever stages fail.  That the caller is    *)
(* released only when the pipes have ended is not inductive: it rests on   *)
(* who holds thread_lock at which place of tydemux_thread, and on the exit *)
(* handler, which unlocks it too but only as the last thing the process    *)
(* does.                                                                   *)
(***************************************************************************)
EXTENDS DemuxThread, WriteRing, SequenceTheorems, TLAPS

-----------------------------------------------------------------------------
(* The array of write buffers.                                             *)

RingIInv == RingTypeOK /\ HeldExactly

waiting == [i \in 1..Used |-> write_buffers[Slot(i - 1)]]

(* Where the indices point while there is an array: fewer buffers than     *)
(* slots, one slot per buffer, and the next one goes to a free slot.       *)
LEMMA Positions ==
    ASSUME RingTypeOK, ~NoArray
    PROVE  /\ Used \in 0..(write_buffers_count - 1)
           /\ \A i \in 0..(write_buffers_count - 1) :
                Slot(i) \in 0..(write_buffers_count - 1)
           /\ \A i, j \in 0..(write_buffers_count - 1) : Slot(i) = Slot(j) => i = j
           /\ Slot(Used) = last_write_buffer
           /\ Slot(0) = first_write_buffer
           /\ Empty <=> Used = 0
           /\ Full <=> Used = write_buffers_count - 1
  <1>1. /\ write_buffers_count \in Nat /\ write_buffers_count >= 2
        /\ first_write_buffer \in 0..(write_buffers_count - 1)
        /\ last_write_buffer \in 0..(write_buffers_count - 1)
    BY DEF RingTypeOK
  <1>2. Used \in 0..(write_buffers_count - 1)
    BY <1>1 DEF Used
  <1>3. \A i \in 0..(write_buffers_count - 1) : Slot(i) \in 0..(write_buffers_count - 1)
    BY <1>1 DEF Slot
  <1>4. \A i, j \in 0..(write_buffers_count - 1) : Slot(i) = Slot(j) => i = j
    BY <1>1 DEF Slot
  <1>5. Slot(Used) = last_write_buffer /\ Slot(0) = first_write_buffer
    BY <1>1 DEF Slot, Used
  <1>6. Empty <=> Used = 0
    BY <1>1 DEF Empty, NoArray, Used
  <1>7. Full <=> Used = write_buffers_count - 1
    BY <1>1 DEF Full, Used
  <1> QED  BY <1>2, <1>3, <1>4, <1>5, <1>6, <1>7

(* The same, to be used of the state after a step.                         *)
Placed ==
    /\ Used \in 0..(write_buffers_count - 1)
    /\ \A i \in 0..(write_buffers_count - 1) : Slot(i) \in 0..(write_buffers_count - 1)

LEMMA PlacedNow == RingTypeOK /\ ~NoArray => Placed
  BY Positions DEF Placed

LEMMA NoPositions ==
    ASSUME RingTypeOK, NoArray
    PROVE  Used = 0 /\ Empty
  BY DEF RingTypeOK, NoArray, Used, Empty

LEMMA UsedIsNat == RingTypeOK => Used \in Nat
  <1>1. CASE NoArray  BY <1>1, NoPositions
  <1>2. CASE ~NoArray  BY <1>2, Positions
  <1> QED  BY <1>1, <1>2

(* A new array is larger than the old one.                                 *)
LEMMA Grows == RingTypeOK => newnumber \in Nat /\ newnumber > write_buffers_count
  <1> SUFFICES ASSUME RingTypeOK PROVE newnumber \in Nat /\ newnumber > write_buffers_count
    OBVIOUS
  <1>1. Grow \in Nat \ {0}  BY RingAssumption
  <1>2. write_buffers_count \in Nat  BY DEF RingTypeOK
  <1>3. \A g \in Nat \ {0}, c \in Nat :
          (c \div g + 1) * g \in Nat /\ (c \div g + 1) * g > c
    OBVIOUS
  <1> QED  BY <1>1, <1>2, <1>3 DEF newnumber

-----------------------------------------------------------------------------
(* What each way of adding a buffer does: the type, and what became of the *)
(* positions and of the buffers that were there.                           *)
Added ==
    /\ added' = added + 1
    /\ Used' = Used + 1
    /\ RingTypeOK' /\ ~NoArray'
    /\ \A i \in 0..Used : write_buffers'[Slot(i)'] =
                             IF i < Used THEN write_buffers[Slot(i)] ELSE added + 1
    /\ \A n \in 0..(write_buffers_count' - 1) :
         (\A i \in 0..Used : n # Slot(i)') => write_buffers'[n] = NULL

LEMMA FirstAdds ==
    ASSUME RingIInv, PutFirst
    PROVE  Added
  <1>1. /\ RingTypeOK /\ NoArray /\ Used = 0
        /\ first_write_buffer = 0 /\ last_write_buffer = 0 /\ added \in Nat
    BY NoPositions DEF RingIInv, PutFirst, RingTypeOK, NoArray
  <1>2. /\ write_buffers' = [[n \in 0..(Grow - 1) |-> NULL] EXCEPT ![0] = added + 1]
        /\ write_buffers_count' = Grow
        /\ first_write_buffer' = 0 /\ last_write_buffer' = 1 /\ added' = added + 1
    BY <1>1, RingAssumption DEF PutFirst, PutAt, Step
  <1>3. Used' = 1
    BY <1>2, RingAssumption DEF Used
  <1>4. \A i \in 0..0 : Slot(i)' = 0
    BY <1>2, RingAssumption DEF Slot
  <1>5. RingTypeOK' /\ ~NoArray'
    BY <1>1, <1>2, RingAssumption DEF RingTypeOK, NoArray, NULL
  <1> QED  BY <1>1, <1>2, <1>3, <1>4, <1>5, RingAssumption DEF Added, NULL

LEMMA RoomAdds ==
    ASSUME RingIInv, PutInRoom
    PROVE  Added
  <1>1. RingTypeOK /\ HeldExactly /\ ~NoArray /\ ~Full /\ added \in Nat
    BY DEF RingIInv, PutInRoom, RingTypeOK
  <1>2. /\ write_buffers' = [write_buffers EXCEPT ![last_write_buffer] = added + 1]
        /\ write_buffers_count' = write_buffers_count
        /\ first_write_buffer' = first_write_buffer
        /\ last_write_buffer' = Step(last_write_buffer, write_buffers_count)
        /\ added' = added + 1
    BY <1>1 DEF PutInRoom, PutAt
  <1>3. /\ write_buffers_count \in Nat /\ write_buffers_count >= 2
        /\ first_write_buffer \in 0..(write_buffers_count - 1)
        /\ last_write_buffer \in 0..(write_buffers_count - 1)
        /\ write_buffers \in [0..(write_buffers_count - 1) -> 0..added]
    BY <1>1 DEF RingTypeOK
  <1>4. Used \in 0..(write_buffers_count - 2)
    BY <1>1, <1>3, Positions
  <1>5. Used' = Used + 1
    BY <1>2, <1>3, <1>4 DEF Used, Step
  <1>6. \A i \in Nat : Slot(i)' = Slot(i)
    BY <1>2 DEF Slot
  <1>7. RingTypeOK' /\ ~NoArray'
    <2>1. write_buffers' \in [0..(write_buffers_count' - 1) -> 0..added']
      BY <1>1, <1>2, <1>3
    <2>2. last_write_buffer' \in 0..(write_buffers_count' - 1)
      BY <1>2, <1>3 DEF Step
    <2> QED  BY <2>1, <2>2, <1>1, <1>2, <1>3 DEF RingTypeOK, NoArray
  <1>8. ASSUME NEW i \in 0..Used
        PROVE  write_buffers'[Slot(i)'] =
                 IF i < Used THEN write_buffers[Slot(i)] ELSE added + 1
    <2>1. /\ Slot(i)' = Slot(i) /\ Slot(i) \in 0..(write_buffers_count - 1)
          /\ Slot(Used) = last_write_buffer
          /\ i # Used => Slot(i) # last_write_buffer
      <3>1. /\ i \in Nat /\ i \in 0..(write_buffers_count - 1)
            /\ Used \in 0..(write_buffers_count - 1)
        BY <1>3, <1>4
      <3> QED  BY <3>1, <1>1, <1>6, Positions
    <2> QED  BY <2>1, <1>2, <1>3, <1>4
  <1>9. ASSUME NEW n \in 0..(write_buffers_count' - 1), \A i \in 0..Used : n # Slot(i)'
        PROVE  write_buffers'[n] = NULL
    <2>1. \A i \in 0..Used : n # Slot(i)
      BY <1>4, <1>6, <1>9
    <2>2. n # last_write_buffer
      BY <2>1, <1>1, <1>4, Positions
    <2>3. write_buffers[n] = NULL
      BY <2>1, <1>1, <1>2, <1>4 DEF HeldExactly, InUse
    <2> QED  BY <2>2, <2>3, <1>2, <1>3
  <1> QED  BY <1>2, <1>5, <1>7, <1>8, <1>9 DEF Added

LEMMA ReorganisingAdds ==
    ASSUME RingIInv, PutReorganised
    PROVE  Added
  <1>1. /\ RingTypeOK /\ HeldExactly /\ ~NoArray /\ Full /\ added \in Nat
        /\ write_buffers_count \in Nat /\ write_buffers_count >= 2
        /\ write_buffers \in [0..(write_buffers_count - 1) -> 0..added]
    BY DEF RingIInv, PutReorganised, RingTypeOK
  <1>2. newnumber \in Nat /\ newnumber > write_buffers_count
    BY <1>1, Grows
  <1>3. Used = write_buffers_count - 1
    BY <1>1, Positions
  <1>4. /\ write_buffers' = [Reorganised EXCEPT ![Used] = added + 1]
        /\ write_buffers_count' = newnumber
        /\ first_write_buffer' = 0
        /\ last_write_buffer' = write_buffers_count
        /\ added' = added + 1
    BY <1>1, <1>2, <1>3 DEF PutReorganised, PutAt, LastOfFull, Step
  <1>5. Used' = Used + 1
    <2>1. first_write_buffer' = 0 /\ last_write_buffer' = write_buffers_count
      BY <1>4
    <2>2. Used' = write_buffers_count
      BY <2>1, <1>1 DEF Used
    <2> QED  BY <2>2, <1>1, <1>3
  <1>6. \A i \in 0..(newnumber - 1) : Slot(i)' = i
    BY <1>2, <1>4 DEF Slot
  <1>7. \A i \in 0..(Used - 1) : write_buffers[Slot(i)] \in 0..added
    BY <1>1, <1>3, Positions
  <1>8. \A n \in 0..(newnumber - 1) :
          write_buffers'[n] = IF n < Used THEN write_buffers[Slot(n)]
                              ELSE IF n = Used THEN added + 1 ELSE NULL
    BY <1>1, <1>2, <1>3, <1>4 DEF Reorganised
  <1>9. RingTypeOK' /\ ~NoArray'
    <2>1. write_buffers' = [n \in 0..(newnumber - 1) |-> write_buffers'[n]]
      BY <1>4 DEF Reorganised
    <2>2. \A n \in 0..(newnumber - 1) : write_buffers'[n] \in 0..added'
      BY SMTT(30), <1>1, <1>3, <1>4, <1>7, <1>8 DEF NULL
    <2>3. write_buffers' \in [0..(write_buffers_count' - 1) -> 0..added']
      BY <2>1, <2>2, <1>4
    <2> QED  BY <2>3, <1>1, <1>2, <1>4 DEF RingTypeOK, NoArray
  <1>10. /\ \A i \in 0..Used : i \in 0..(newnumber - 1)
         /\ \A n \in 0..(newnumber - 1) : (\A i \in 0..Used : n # i) => n > Used
    BY <1>1, <1>2, <1>3
  <1>11. \A i \in 0..Used : write_buffers'[Slot(i)'] =
           IF i < Used THEN write_buffers[Slot(i)] ELSE added + 1
    BY <1>1, <1>3, <1>6, <1>8, <1>10
  <1>12. \A n \in 0..(write_buffers_count' - 1) :
           (\A i \in 0..Used : n # Slot(i)') => write_buffers'[n] = NULL
    BY <1>1, <1>3, <1>4, <1>6, <1>8, <1>10
  <1> QED  BY <1>4, <1>5, <1>9, <1>11, <1>12 DEF Added

LEMMA Adding ==
    ASSUME RingIInv, PutFirst \/ PutInRoom \/ PutReorganised
    PROVE  Added
  BY FirstAdds, RoomAdds, ReorganisingAdds

-----------------------------------------------------------------------------
(* Taking a buffer.                                                        *)
Taken ==
    /\ added' = added /\ Used > 0 /\ Used' = Used - 1
    /\ RingTypeOK'
    /\ \A i \in 0..(Used - 2) : write_buffers'[Slot(i)'] = write_buffers[Slot(i + 1)]
    /\ \A n \in 0..(write_buffers_count' - 1) :
         (\A i \in 0..(Used - 2) : n # Slot(i)') => write_buffers'[n] = NULL

LEMMA Taking ==
    ASSUME RingIInv, Take
    PROVE  Taken
  <1>1. /\ RingTypeOK /\ HeldExactly /\ ~NoArray /\ ~Empty /\ added \in Nat
        /\ write_buffers_count \in Nat /\ write_buffers_count >= 2
        /\ first_write_buffer \in 0..(write_buffers_count - 1)
        /\ last_write_buffer \in 0..(write_buffers_count - 1)
        /\ write_buffers \in [0..(write_buffers_count - 1) -> 0..added]
    BY DEF RingIInv, Take, RingTypeOK, Empty
  <1>2. /\ write_buffers' = [write_buffers EXCEPT ![first_write_buffer] = NULL]
        /\ write_buffers_count' = write_buffers_count
        /\ first_write_buffer' = Step(first_write_buffer, write_buffers_count)
        /\ last_write_buffer' = last_write_buffer
        /\ added' = added
    BY DEF Take
  <1>3. Used \in 1..(write_buffers_count - 1)
    BY <1>1, Positions
  <1>4. Used' = Used - 1
    BY <1>1, <1>2 DEF Used, Step, Empty
  <1>5. RingTypeOK'
    <2>1. write_buffers' \in [0..(write_buffers_count' - 1) -> 0..added']
      BY <1>1, <1>2 DEF NULL
    <2>2. first_write_buffer' \in 0..(write_buffers_count' - 1)
      BY <1>1, <1>2 DEF Step
    <2> QED  BY <2>1, <2>2, <1>1, <1>2 DEF RingTypeOK, NoArray
  <1>6. \A i \in 0..(write_buffers_count - 2) : Slot(i)' = Slot(i + 1)
    BY <1>1, <1>2 DEF Slot, Step
  <1>7. ASSUME NEW i \in 0..(Used - 2)
        PROVE  write_buffers'[Slot(i)'] = write_buffers[Slot(i + 1)]
    <2>1. /\ i \in 0..(write_buffers_count - 2)
          /\ i + 1 \in 0..(write_buffers_count - 1) /\ i + 1 # 0
          /\ 0 \in 0..(write_buffers_count - 1)
      BY <1>1, <1>3
    <2>2. Slot(i + 1) \in 0..(write_buffers_count - 1) /\ Slot(i + 1) # Slot(0)
      BY <2>1, <1>1, Positions
    <2>3. Slot(0) = first_write_buffer
      BY <1>1, Positions
    <2> QED  BY <2>1, <2>2, <2>3, <1>1, <1>2, <1>6
  <1>8. ASSUME NEW n \in 0..(write_buffers_count' - 1),
               \A i \in 0..(Used - 2) : n # Slot(i)'
        PROVE  write_buffers'[n] = NULL
    <2>1. CASE n = first_write_buffer
      BY <2>1, <1>1, <1>2
    <2>2. CASE n # first_write_buffer
      <3>1. \A i \in 0..(Used - 1) : n # Slot(i)
        <4> SUFFICES ASSUME NEW i \in 0..(Used - 1), n = Slot(i) PROVE FALSE
          OBVIOUS
        <4>1. CASE i = 0
          BY <4>1, <2>2, <1>1, Positions
        <4>2. CASE i # 0
          <5>1. /\ i - 1 \in 0..(Used - 2) /\ i - 1 \in 0..(write_buffers_count - 2)
                /\ (i - 1) + 1 = i
            BY <4>2, <1>1, <1>3
          <5>2. Slot(i - 1)' = Slot(i)
            <6>1. \A j \in 0..(write_buffers_count - 2) : j + 1 = i => Slot(j)' = Slot(i)
              BY <1>6
            <6> QED  BY <6>1, <5>1
          <5> QED  BY <5>1, <5>2, <1>8
        <4> QED  BY <4>1, <4>2
      <3>2. write_buffers[n] = NULL
        BY <3>1, <1>1, <1>2 DEF HeldExactly, InUse
      <3> QED  BY <3>2, <2>2, <1>1, <1>2
    <2> QED  BY <2>1, <2>2
  <1> QED  BY <1>2, <1>3, <1>4, <1>5, <1>7, <1>8 DEF Taken

-----------------------------------------------------------------------------
(* The invariant.                                                          *)

LEMMA AddedKeepsHeld ==
    ASSUME RingIInv, Added
    PROVE  HeldExactly'
  <1>1. /\ Used \in Nat /\ added \in Nat /\ RingTypeOK /\ RingTypeOK' /\ ~NoArray'
        /\ Used' = Used + 1
    BY UsedIsNat DEF RingIInv, Added, RingTypeOK
  <1>2. Placed'
    BY <1>1, PlacedNow, PTL
  <1>3. ASSUME NEW i \in 0..(Used - 1) PROVE write_buffers[Slot(i)] # NULL
    <2>1. CASE NoArray  BY <2>1, <1>1, <1>3, NoPositions
    <2>2. CASE ~NoArray
      <3>1. /\ i \in 0..(write_buffers_count - 1)
            /\ Slot(i) \in 0..(write_buffers_count - 1)
        <4>1. write_buffers_count \in Nat /\ Used \in 0..(write_buffers_count - 1)
          BY <2>2, <1>1, Positions DEF RingTypeOK
        <4>2. i \in 0..(write_buffers_count - 1)
          BY <4>1
        <4> QED  BY <4>2, <2>2, <1>1, Positions
      <3> QED  BY <3>1 DEF RingIInv, HeldExactly, InUse
    <2> QED  BY <2>1, <2>2
  <1>4. \A i \in 0..Used : write_buffers'[Slot(i)'] # NULL
    <2> SUFFICES ASSUME NEW i \in 0..Used PROVE write_buffers'[Slot(i)'] # NULL
      OBVIOUS
    <2>1. CASE i < Used
      <3>1. write_buffers[Slot(i)] # NULL  BY <2>1, <1>1, <1>3
      <3> QED  BY <3>1, <2>1 DEF Added
    <2>2. CASE ~(i < Used)
      <3>1. write_buffers'[Slot(i)'] = added + 1  BY <2>2 DEF Added
      <3> QED  BY <3>1, <1>1 DEF NULL
    <2> QED  BY <2>1, <2>2
  <1>5. \A i \in 0..(Used' - 1) : i \in 0..Used
    BY <1>1
  <1>6. \A i \in 0..Used : i \in 0..(Used' - 1)
    BY <1>1
  <1> SUFFICES ASSUME NEW n \in 0..(write_buffers_count' - 1)
               PROVE  write_buffers'[n] # NULL <=>
                        \E i \in 0..(Used' - 1) : n = Slot(i)'
    BY DEF HeldExactly, InUse
  <1>7. CASE \E i \in 0..Used : n = Slot(i)'
    BY <1>7, <1>4, <1>6
  <1>8. CASE \A i \in 0..Used : n # Slot(i)'
    BY <1>8, <1>5 DEF Added
  <1> QED  BY <1>7, <1>8

LEMMA TakenKeepsHeld ==
    ASSUME RingIInv, Taken, ~NoArray
    PROVE  HeldExactly'
  <1>1. /\ Used \in Nat /\ Used > 0 /\ RingTypeOK /\ write_buffers_count \in Nat
        /\ Used' = Used - 1 /\ Used < write_buffers_count
    <2>1. RingTypeOK /\ write_buffers_count \in Nat /\ Used > 0 /\ Used' = Used - 1
      BY DEF RingIInv, Taken, RingTypeOK
    <2>2. Used \in 0..(write_buffers_count - 1)
      BY <2>1, Positions
    <2> QED  BY <2>1, <2>2
  <1>2. \A i \in 0..(Used - 2) : write_buffers'[Slot(i)'] # NULL
    <2> SUFFICES ASSUME NEW i \in 0..(Used - 2) PROVE write_buffers'[Slot(i)'] # NULL
      OBVIOUS
    <2>1. i + 1 \in 0..(Used - 1) /\ i + 1 \in 0..(write_buffers_count - 1)
      BY <1>1
    <2>2. Slot(i + 1) \in 0..(write_buffers_count - 1)
      BY <2>1, <1>1, Positions
    <2>3. write_buffers[Slot(i + 1)] # NULL
      BY <2>1, <2>2 DEF RingIInv, HeldExactly, InUse
    <2> QED  BY <2>3 DEF Taken
  <1>3. Used' - 1 = Used - 2
    BY <1>1
  <1> SUFFICES ASSUME NEW n \in 0..(write_buffers_count' - 1)
               PROVE  write_buffers'[n] # NULL <=>
                        \E i \in 0..(Used - 2) : n = Slot(i)'
    BY <1>3 DEF HeldExactly, InUse
  <1>4. CASE \E i \in 0..(Used - 2) : n = Slot(i)'
    BY <1>4, <1>2
  <1>5. CASE \A i \in 0..(Used - 2) : n # Slot(i)'
    BY <1>5 DEF Taken
  <1> QED  BY <1>4, <1>5

LEMMA InvInit == RingInit => RingIInv
  <1> SUFFICES ASSUME RingInit PROVE RingIInv
    OBVIOUS
  <1>1. RingTypeOK  BY DEF RingInit, RingTypeOK, NoArray
  <1>2. HeldExactly  BY DEF RingInit, HeldExactly
  <1> QED  BY <1>1, <1>2 DEF RingIInv

LEMMA InvUnchanged == RingIInv /\ UNCHANGED ringVars => RingIInv'
  BY DEF RingIInv, RingTypeOK, HeldExactly, InUse, Slot, Used, NoArray, ringVars

LEMMA InvNext == RingIInv /\ [RingNext]_ringVars => RingIInv'
  <1> SUFFICES ASSUME RingIInv, [RingNext]_ringVars PROVE RingIInv'
    OBVIOUS
  <1>1. CASE PutFirst \/ PutInRoom \/ PutReorganised
    <2>1. Added  BY <1>1, Adding
    <2> QED  BY <2>1, AddedKeepsHeld DEF Added, RingIInv
  <1>2. CASE Take
    <2>1. Taken /\ ~NoArray  BY <1>2, Taking DEF Take, Empty
    <2> QED  BY <2>1, TakenKeepsHeld DEF Taken, RingIInv
  <1>3. CASE UNCHANGED ringVars  BY <1>3, InvUnchanged
  <1> QED  BY <1>1, <1>2, <1>3 DEF RingNext

(* The invariant holds in every state.                                     *)
THEOREM RingInvariant == RingSpec => []RingIInv
  BY InvInit, InvNext, PTL DEF RingSpec

(* The indices of the array never leave it and it holds nothing that was   *)
(* not added (RingTypeOK), however often it wraps round and grows.             *)
THEOREM RingTypeCorrect == RingSpec => []RingTypeOK
  <1>1. RingIInv => RingTypeOK  BY DEF RingIInv
  <1> QED  BY <1>1, RingInvariant, PTL

(* Between first and last every slot holds a buffer and outside none does  *)
(* (HeldExactly): refill_write_pipe's assert(pbuffer) never fails and      *)
(* thread_pipe_free frees each waiting buffer once.                        *)
THEOREM RingHeldExactly == RingSpec => []HeldExactly
  <1>1. RingIInv => HeldExactly  BY DEF RingIInv
  <1> QED  BY <1>1, RingInvariant, PTL

(* The array, its indices and its slots are sound together (SlotsHeld).    *)
THEOREM RingSlotsHeld == RingSpec => []SlotsHeld
  <1>1. RingIInv => SlotsHeld  BY DEF RingIInv, SlotsHeld
  <1> QED  BY <1>1, RingInvariant, PTL

(* Adding a buffer never makes the list look empty (NeverLooksEmpty): the  *)
(* last assert of add_to_write_buffer holds.                               *)
THEOREM RingNeverLooksEmpty == RingSpec => NeverLooksEmpty
  <1>1. RingIInv /\ RingIInv' /\ [RingNext]_ringVars
            => [added' # added => ~Empty' /\ Used' = Used + 1]_ringVars
    <2> SUFFICES ASSUME RingIInv, RingIInv', RingNext, added' # added
                 PROVE  ~Empty' /\ Used' = Used + 1
      OBVIOUS
    <2>1. Added
      BY Adding DEF RingNext, Take
    <2>2. ~Empty'
      <3>1. Used' = Used + 1 /\ Used \in Nat /\ ~NoArray'
        BY <2>1, UsedIsNat DEF Added, RingIInv
      <3>2. first_write_buffer' # last_write_buffer'
        <4>1. first_write_buffer' \in Int /\ last_write_buffer' \in Int
          BY <3>1 DEF RingIInv, RingTypeOK
        <4>2. ASSUME first_write_buffer' = last_write_buffer' PROVE Used' = 0
          <5>1. last_write_buffer' >= first_write_buffer'
            BY <4>1, <4>2
          <5>2. Used' = last_write_buffer' - first_write_buffer'
            BY <5>1 DEF Used
          <5>3. last_write_buffer' - first_write_buffer' = 0
            <6>1. \A m, n \in Int : m = n => n - m = 0
              OBVIOUS
            <6> QED  BY <6>1, <4>1, <4>2
          <5> QED  BY <5>2, <5>3
        <4> QED  BY <4>2, <3>1
      <3> QED  BY <3>1, <3>2 DEF Empty
    <2> QED  BY <2>1, <2>2 DEF Added
  <1> QED  BY <1>1, RingInvariant, PTL DEF NeverLooksEmpty, RingSpec

-----------------------------------------------------------------------------
(* The refinement.                                                         *)

(* A sequence is determined by its length and elements.                    *)
LEMMA IsAppend ==
    ASSUME NEW q \in Seq(Nat), NEW q2 \in Seq(Nat), NEW e \in Nat,
           Len(q2) = Len(q) + 1,
           \A i \in 1..Len(q) : q2[i] = q[i],
           q2[Len(q) + 1] = e
    PROVE  q2 = Append(q, e)
  OBVIOUS

LEMMA IsTail ==
    ASSUME NEW q \in Seq(Nat), NEW q2 \in Seq(Nat),
           Len(q) > 0, Len(q2) = Len(q) - 1,
           \A i \in 1..Len(q2) : q2[i] = q[i + 1]
    PROVE  q2 = Tail(q)
  BY SMTT(30)

Waiting ==
    /\ waiting \in Seq(Nat) /\ Len(waiting) = Used
    /\ \A i \in 1..Used : waiting[i] = write_buffers[Slot(i - 1)]

LEMMA WaitingType == RingTypeOK => Waiting
  <1> SUFFICES ASSUME RingTypeOK PROVE Waiting
    OBVIOUS
  <1>1. Used \in Nat  BY UsedIsNat
  <1>2. ASSUME NEW i \in 1..Used PROVE write_buffers[Slot(i - 1)] \in Nat
    <2>1. ~NoArray  BY <1>1, NoPositions
    <2>2. /\ write_buffers_count \in Nat /\ added \in Nat
          /\ write_buffers \in [0..(write_buffers_count - 1) -> 0..added]
      BY DEF RingTypeOK
    <2>3. i - 1 \in 0..(write_buffers_count - 1)
      BY <2>1, <2>2, Positions
    <2>4. Slot(i - 1) \in 0..(write_buffers_count - 1)
      BY <2>1, <2>3, Positions
    <2> QED  BY <2>2, <2>4
  <1>3. waiting \in [1..Used -> Nat]
    BY <1>2 DEF waiting
  <1> QED  BY <1>1, <1>3 DEF Waiting, waiting

LEMMA PutRefines ==
    ASSUME RingIInv, Added
    PROVE  waiting' = Append(waiting, added + 1)
  <1>1. /\ RingTypeOK /\ RingTypeOK' /\ added \in Nat /\ Used \in Nat /\ Used' = Used + 1
    BY UsedIsNat DEF RingIInv, Added, RingTypeOK
  <1>2. /\ waiting \in Seq(Nat) /\ Len(waiting) = Used
        /\ \A i \in 1..Used : waiting[i] = write_buffers[Slot(i - 1)]
    BY <1>1, WaitingType DEF Waiting
  <1>3. /\ waiting' \in Seq(Nat) /\ Len(waiting') = Used'
        /\ \A i \in 1..Used' : waiting'[i] = write_buffers'[Slot(i - 1)']
    <2>1. Waiting'  BY <1>1, WaitingType, PTL
    <2> QED  BY <2>1 DEF Waiting
  <1>4. \A i \in 0..Used : write_buffers'[Slot(i)'] =
           IF i < Used THEN write_buffers[Slot(i)] ELSE added + 1
    BY DEF Added
  <1>5. ASSUME NEW i \in 1..Used PROVE waiting'[i] = waiting[i]
    <2>1. i - 1 \in 0..Used /\ i - 1 < Used /\ i \in 1..Used'
      BY <1>1
    <2> QED  BY <2>1, <1>2, <1>3, <1>4
  <1>6. waiting'[Used + 1] = added + 1
    <2>1. /\ Used + 1 \in 1..Used' /\ (Used + 1) - 1 \in 0..Used
          /\ ~((Used + 1) - 1 < Used)
      BY <1>1
    <2> QED  BY <2>1, <1>3, <1>4
  <1> HIDE DEF waiting
  <1> QED  BY <1>1, <1>2, <1>3, <1>5, <1>6, IsAppend

LEMMA TakeRefines ==
    ASSUME RingIInv, Taken
    PROVE  waiting # <<>> /\ waiting' = Tail(waiting)
  <1>1. /\ RingTypeOK /\ RingTypeOK' /\ Used \in Nat /\ Used > 0 /\ Used' = Used - 1
    BY UsedIsNat DEF RingIInv, Taken
  <1>2. /\ waiting \in Seq(Nat) /\ Len(waiting) = Used
        /\ \A i \in 1..Used : waiting[i] = write_buffers[Slot(i - 1)]
    BY <1>1, WaitingType DEF Waiting
  <1>3. /\ waiting' \in Seq(Nat) /\ Len(waiting') = Used'
        /\ \A i \in 1..Used' : waiting'[i] = write_buffers'[Slot(i - 1)']
    <2>1. Waiting'  BY <1>1, WaitingType, PTL
    <2> QED  BY <2>1 DEF Waiting
  <1>4. \A i \in 0..(Used - 2) : write_buffers'[Slot(i)'] = write_buffers[Slot(i + 1)]
    BY DEF Taken
  <1>5. ASSUME NEW i \in 1..Used' PROVE waiting'[i] = waiting[i + 1]
    <2>1. /\ i - 1 \in 0..(Used - 2) /\ i + 1 \in 1..Used
          /\ (i - 1) + 1 = i /\ (i + 1) - 1 = i
      BY <1>1
    <2>2. waiting'[i] = write_buffers'[Slot(i - 1)']
      BY <1>3
    <2>3. write_buffers'[Slot(i - 1)'] = write_buffers[Slot((i - 1) + 1)]
      BY <2>1, <1>4
    <2>4. waiting[i + 1] = write_buffers[Slot((i + 1) - 1)]
      BY <2>1, <1>2
    <2> QED  BY <2>1, <2>2, <2>3, <2>4
  <1>6. Len(waiting) > 0 /\ Len(waiting') = Len(waiting) - 1
    BY <1>1, <1>2, <1>3
  <1>7. \A i \in 1..Len(waiting') : waiting'[i] = waiting[i + 1]
    BY <1>3, <1>5
  <1>8. waiting # <<>>
    BY <1>6
  <1> HIDE DEF waiting
  <1> QED  BY <1>2, <1>3, <1>6, <1>7, <1>8, IsTail

(* The array implements the unbounded queue (IsQueue): buffers are handed  *)
(* to the kernel in the order in which thread_pipe_write added them.       *)
THEOREM RingIsQueue == RingSpec => IsQueue
  <1>1. RingInit => Queue!Init
    BY DEF RingInit, Queue!Init, Used
  <1>2. RingIInv /\ [RingNext]_ringVars => [Queue!Next]_<<waiting, added>>
    <2> SUFFICES ASSUME RingIInv, [RingNext]_ringVars
                 PROVE  [Queue!Next]_<<waiting, added>>
      OBVIOUS
    <2>1. CASE PutFirst \/ PutInRoom \/ PutReorganised
      <3>1. Added  BY <2>1, Adding
      <3>2. waiting' = Append(waiting, added + 1) /\ added' = added + 1
        BY <3>1, PutRefines DEF Added
      <3>3. added < MaxBuffers
        BY <2>1 DEF PutFirst, PutInRoom, PutReorganised
      <3> QED  BY <3>2, <3>3 DEF Queue!Next, Queue!Put, waiting
    <2>2. CASE Take
      <3>1. Taken  BY <2>2, Taking
      <3>2. waiting # <<>> /\ waiting' = Tail(waiting) /\ added' = added
        BY <3>1, TakeRefines DEF Taken
      <3> QED  BY <3>2 DEF Queue!Next, Queue!Take, waiting
    <2>3. CASE UNCHANGED ringVars
      BY <2>3 DEF ringVars, waiting, Used, Slot
    <2> QED  BY <2>1, <2>2, <2>3 DEF RingNext
  <1> QED  BY <1>1, <1>2, RingInvariant, PTL DEF RingSpec, IsQueue, Queue!Spec, waiting
-----------------------------------------------------------------------------
(* The thread of the demultiplexer.                                        *)

IsEnded(p) == pipe[p].eof /\ pipe[p].buffered = 0
PipesEnded == \A p \in Pipes : IsEnded(p)

(* The flush has rounds left as long as it goes on.                        *)
RoundsInv ==
    demux \in {"start", "locked", "probe", "args", "offset", "read", "offset_known", "repair",
               "flush"} => rounds < FlushRounds

(* Who holds the lock: the demultiplexer, from its first step to the       *)
(* unlock, unless the process is gone; then the caller, if anyone.         *)
LockInv ==
    /\ demux \notin {"start", "unlocked", "returned"} /\ Alive => thread_lock = "demux"
    /\ demux = "start" => ~running
    /\ caller # "start" => running
    /\ caller = "released" => thread_lock # "demux"
    /\ running /\ thread_lock # "demux" => PipesEnded \/ ~Alive

(* What has been ended at which place.                                     *)
EndInv ==
    /\ demux \in {"eof_video", "unlock", "unlocked"} => IsEnded("audio")
    /\ demux \in {"unlock", "unlocked"} => PipesEnded
    /\ caller = "released" => PipesEnded

(* mplex is let go before anything is written for it.                      *)
ReleaseInv ==
    /\ demux = "repair" => ~wait_for_audio_offset
    /\ wait_for_audio_offset => \A p \in Pipes : pipe[p].buffered = 0 /\ pipe[p].ready = 0

IInv == TypeOK /\ RoundsInv /\ LockInv /\ EndInv /\ ReleaseInv

-----------------------------------------------------------------------------
(* What one step does to a pipe.                                           *)
PipeState == [buffered : Nat, ready : 0..PipeSize, eof : BOOLEAN]

LEMMA TopUpKeeps ==
    ASSUME NEW q \in PipeState
    PROVE  /\ TopUp(q) \in PipeState
           /\ TopUp(q).eof = q.eof
           /\ q.buffered = 0 => TopUp(q) = q
<1>1. PipeSize \in Nat /\ q.ready \in 0..PipeSize /\ q.buffered \in Nat /\ q.eof \in BOOLEAN
  BY ThreadAssumption DEF PipeState
<1>2. q = [buffered |-> q.buffered, ready |-> q.ready, eof |-> q.eof]
  BY DEF PipeState
<1> DEFINE n == Smaller(q.buffered, PipeSize - q.ready)
<1>3. n \in Nat /\ n <= q.buffered /\ n <= PipeSize - q.ready /\ (q.buffered = 0 => n = 0)
  BY <1>1 DEF Smaller
<1>4. TopUp(q) = [buffered |-> q.buffered - n, ready |-> q.ready + n, eof |-> q.eof]
  <2> HIDE DEF n
  <2>1. TopUp(q) = [q EXCEPT !.buffered = q.buffered - n, !.ready = q.ready + n]
    BY DEF TopUp, n
  <2>2. QED
    BY <1>2, <2>1
<1>5. q.buffered - n \in Nat /\ q.ready + n \in 0..PipeSize
  BY <1>1, <1>3
<1>6. TopUp(q) \in PipeState
  BY <1>1, <1>4, <1>5 DEF PipeState
<1>7. q.buffered = 0 => TopUp(q) = q
  BY <1>1, <1>2, <1>3, <1>4
<1>8. QED
  BY <1>4, <1>6, <1>7

LEMMA EndedKeeps ==
    ASSUME NEW q \in PipeState
    PROVE  /\ Ended(q) \in PipeState
           /\ Ended(q).eof /\ Ended(q).buffered = 0 /\ Ended(q).ready = q.ready
BY DEF Ended, PipeState

LEMMA TypeOfPipe == TypeOK <=> TypeOK /\ pipe \in [Pipes -> PipeState]
BY DEF TypeOK, PipeState

-----------------------------------------------------------------------------
LEMMA InitIInv == Init => IInv
<1> SUFFICES ASSUME Init PROVE IInv
  OBVIOUS
<1>1. TypeOK
  <2>1. [buffered |-> 0, ready |-> 0, eof |-> FALSE] \in PipeState
    BY ThreadAssumption DEF PipeState
  <2>2. pipe \in [Pipes -> PipeState]
    BY <2>1 DEF Init
  <2>3. chunk_nr \in 0..Chunks /\ rounds \in 0..(FlushRounds + 1)
    BY ThreadAssumption DEF Init
  <2>4. QED
    BY <2>2, <2>3 DEF Init, TypeOK, PipeState
<1>2. RoundsInv /\ LockInv /\ EndInv /\ ReleaseInv
  BY ThreadAssumption DEF Init, RoundsInv, LockInv, EndInv, ReleaseInv, Alive
<1>3. QED
  BY <1>1, <1>2 DEF IInv

(* Steps that leave the pipes alone.                                       *)
LEMMA SamePipes ==
    ASSUME UNCHANGED pipe
    PROVE  (\A p \in Pipes : IsEnded(p)' = IsEnded(p)) /\ PipesEnded' = PipesEnded
BY DEF IsEnded, PipesEnded

LEMMA LockStepsIInv ==
    IInv /\ (TakeLock \/ SetRunning \/ Probe \/ ParseArgs \/ AdjustOffset \/ EndOfFile
             \/ ReleaseMplex \/ RepairFails \/ Unlock \/ Return) => IInv'
<1> SUFFICES ASSUME IInv, TakeLock \/ SetRunning \/ Probe \/ ParseArgs \/ AdjustOffset
                          \/ EndOfFile \/ ReleaseMplex \/ RepairFails \/ Unlock \/ Return
             PROVE  IInv'
  OBVIOUS
<1> USE DEF IInv, DemuxAt, Alive, locks, shared, loop
<1>0. UNCHANGED pipe
  BY DEF TakeLock, SetRunning, Probe, ParseArgs, AdjustOffset, EndOfFile, ReleaseMplex,
         RepairFails, Unlock, Return
<1>00. IsEnded("audio")' = IsEnded("audio") /\ PipesEnded' = PipesEnded
  BY <1>0 DEF IsEnded, PipesEnded
<1>1. CASE TakeLock
  BY <1>0, <1>1, SamePipes DEF TakeLock, TypeOK, RoundsInv, LockInv, EndInv, ReleaseInv
<1>2. CASE SetRunning
  BY <1>0, <1>2, SamePipes DEF SetRunning, TypeOK, RoundsInv, LockInv, EndInv, ReleaseInv
<1>3. CASE Probe
  BY <1>0, <1>3, SamePipes DEF Probe, TypeOK, RoundsInv, LockInv, EndInv, ReleaseInv
<1>4. CASE ParseArgs
  BY <1>0, <1>4, SamePipes DEF ParseArgs, TypeOK, RoundsInv, LockInv, EndInv, ReleaseInv
<1>5. CASE AdjustOffset
  BY <1>0, <1>5, SamePipes DEF AdjustOffset, TypeOK, RoundsInv, LockInv, EndInv, ReleaseInv
<1>6. CASE EndOfFile
  BY <1>0, <1>6, SamePipes DEF EndOfFile, TypeOK, RoundsInv, LockInv, EndInv, ReleaseInv
<1>7. CASE ReleaseMplex
  BY <1>0, <1>7, SamePipes DEF ReleaseMplex, TypeOK, RoundsInv, LockInv, EndInv, ReleaseInv
<1>8. CASE RepairFails
  BY <1>0, <1>8, SamePipes DEF RepairFails, TypeOK, RoundsInv, LockInv, EndInv, ReleaseInv
<1>9. CASE Unlock
  BY <1>00, <1>0, <1>9 DEF Unlock, TypeOK, RoundsInv, LockInv, EndInv, ReleaseInv
<1>10. CASE Return
  <2>1. TypeOK'
    BY <1>10 DEF Return, TypeOK
  <2>2. RoundsInv' /\ EndInv' /\ ReleaseInv'
    BY <1>00, <1>0, <1>10 DEF Return, RoundsInv, EndInv, ReleaseInv
  <2>3. LockInv'
    BY <1>00, <1>0, <1>10 DEF Return, LockInv, EndInv
  <2>4. QED
    BY <2>1, <2>2, <2>3
<1>11. QED
  BY <1>1, <1>2, <1>3, <1>4, <1>5, <1>6, <1>7, <1>8, <1>9, <1>10

(* The early returns keep the lock, so that no one is released by them.    *)
LEMMA GiveUpIInv ==
    ASSUME NEW stage \in {"probe", "args", "offset"}, IInv, GiveUp(stage)
    PROVE  IInv'
<1> USE DEF IInv, DemuxAt, Alive, locks, shared, loop, GiveUp
<1>1. UNCHANGED pipe
  OBVIOUS
<1>2. QED
  BY <1>1, SamePipes DEF TypeOK, RoundsInv, LockInv, EndInv, ReleaseInv

LEMMA ReadChunkIInv ==
    ASSUME NEW sequence \in BOOLEAN, IInv, ReadChunk(sequence)
    PROVE  IInv'
<1> USE DEF IInv, DemuxAt, Alive, locks, shared, loop, ReadChunk
<1>1. UNCHANGED pipe
  OBVIOUS
<1>2. TypeOK'
  BY ThreadAssumption DEF TypeOK
<1>3. RoundsInv' /\ LockInv' /\ EndInv' /\ ReleaseInv'
  BY <1>1, SamePipes DEF RoundsInv, LockInv, EndInv, ReleaseInv
<1>4. QED
  BY <1>2, <1>3

-----------------------------------------------------------------------------
(* While the demultiplexer runs, the lock is its own, and the caller waits.*)
LEMMA CallerWaits ==
    ASSUME IInv, Alive, demux \in {"repair", "flush", "eof_audio", "eof_video"}
    PROVE  thread_lock = "demux" /\ caller # "released"
BY DEF IInv, LockInv

LEMMA WriteHoldersIInv == IInv /\ WriteHolders => IInv'
<1> SUFFICES ASSUME IInv, WriteHolders PROVE IInv'
  OBVIOUS
<1> USE DEF DemuxAt, locks, loop, WriteHolders
<1>1. thread_lock = "demux" /\ caller # "released"
  BY CallerWaits
<1>2. pipe' \in [Pipes -> PipeState]
  <2> SUFFICES ASSUME NEW p \in Pipes
               PROVE  TopUp([pipe[p] EXCEPT !.buffered = @ + 1]) \in PipeState
    OBVIOUS
  <2>1. pipe[p] \in PipeState
    BY TypeOfPipe DEF IInv
  <2>2. [pipe[p] EXCEPT !.buffered = @ + 1] \in PipeState
    BY <2>1 DEF PipeState
  <2>3. QED
    BY <2>2, TopUpKeeps
<1>3. TypeOK'
  BY <1>2 DEF IInv, TypeOK, PipeState
<1>4. RoundsInv' /\ LockInv' /\ EndInv' /\ ReleaseInv'
  BY <1>1 DEF IInv, RoundsInv, LockInv, EndInv, ReleaseInv, Alive
<1>5. QED
  BY <1>3, <1>4 DEF IInv

LEMMA FlushIInv == IInv /\ Flush => IInv'
<1> SUFFICES ASSUME IInv, Flush PROVE IInv'
  OBVIOUS
<1> USE DEF DemuxAt, locks
<1>1. thread_lock = "demux" /\ caller # "released"
  BY CallerWaits DEF Flush
<1>2. pipe \in [Pipes -> PipeState]
  BY TypeOfPipe DEF IInv
<1>3. pipe' \in [Pipes -> PipeState]
  BY <1>2, TopUpKeeps DEF Flush
<1>4. rounds \in Nat /\ rounds < FlushRounds /\ rounds' = rounds + 1 /\ FlushRounds \in Nat
  BY ThreadAssumption DEF Flush, IInv, TypeOK, RoundsInv
<1>5. demux' \in {"flush", "eof_audio"} /\ (demux' = "flush" => rounds' < FlushRounds)
  BY DEF Flush
<1>6. UNCHANGED <<thread_lock, process_lock, write_pipes, running, wait_for_audio_offset,
                  caller, mplex, handler, chunk_nr, found>>
  BY DEF Flush
<1>7. TypeOK'
  BY <1>3, <1>4, <1>5, <1>6 DEF IInv, TypeOK, PipeState
<1>8. ReleaseInv'
  <2> SUFFICES ASSUME wait_for_audio_offset, NEW p \in Pipes
               PROVE  pipe'[p].buffered = 0 /\ pipe'[p].ready = 0
    BY <1>5, <1>6 DEF ReleaseInv
  <2>1. pipe[p].buffered = 0 /\ pipe[p].ready = 0
    BY DEF IInv, ReleaseInv
  <2>2. pipe'[p] = TopUp(pipe[p])
    BY DEF Flush
  <2>3. QED
    BY <1>2, <2>1, <2>2, TopUpKeeps
<1>9. RoundsInv' /\ LockInv' /\ EndInv'
  BY <1>1, <1>4, <1>5, <1>6 DEF IInv, RoundsInv, LockInv, EndInv, Alive
<1>10. QED
  BY <1>7, <1>8, <1>9 DEF IInv

(* One pipe is ended, or both are.                                         *)
LEMMA EofIInv == IInv /\ (EofAudio \/ EofVideo) => IInv'
<1> SUFFICES ASSUME IInv, EofAudio \/ EofVideo PROVE IInv'
  OBVIOUS
<1> USE DEF DemuxAt, locks, loop
<1>1. thread_lock = "demux" /\ caller # "released"
  BY CallerWaits DEF EofAudio, EofVideo
<1>2. pipe \in [Pipes -> PipeState]
  BY TypeOfPipe DEF IInv
<1>3. PICK p \in Pipes : pipe' = [pipe EXCEPT ![p] = Ended(@)]
                         /\ p = (IF EofAudio THEN "audio" ELSE "video")
  BY DEF EofAudio, EofVideo, Pipes
<1>4. pipe' \in [Pipes -> PipeState] /\ IsEnded(p)'
  BY <1>2, <1>3, EndedKeeps DEF IsEnded
<1>5. \A q \in Pipes \ {p} : IsEnded(q)' = IsEnded(q)
  BY <1>2, <1>3 DEF IsEnded
<1>6. wait_for_audio_offset => \A q \in Pipes : pipe'[q].buffered = 0 /\ pipe'[q].ready = 0
  BY <1>2, <1>3, EndedKeeps DEF IInv, ReleaseInv
<1>7. CASE EofAudio
  <2>1. TypeOK'
    BY <1>4, <1>7 DEF EofAudio, IInv, TypeOK, PipeState
  <2>2. IsEnded("audio")'
    BY <1>3, <1>4, <1>7
  <2>3. RoundsInv' /\ LockInv' /\ EndInv' /\ ReleaseInv'
    BY <1>1, <1>6, <1>7, <2>2 DEF EofAudio, IInv, RoundsInv, LockInv, EndInv, ReleaseInv, Alive
  <2>4. QED
    BY <2>1, <2>3 DEF IInv
<1>8. CASE EofVideo /\ ~EofAudio
  <2>1. TypeOK'
    BY <1>4, <1>8 DEF EofVideo, IInv, TypeOK, PipeState
  <2>2. IsEnded("audio")' /\ PipesEnded'
    <3>1. IsEnded("audio")
      BY <1>8 DEF EofVideo, IInv, EndInv
    <3>2. IsEnded("video")'
      BY <1>3, <1>4, <1>8
    <3>3. IsEnded("audio")'
      BY <1>3, <1>5, <1>8, <3>1 DEF Pipes
    <3>4. QED
      BY <3>2, <3>3 DEF PipesEnded, Pipes
  <2>3. RoundsInv' /\ LockInv' /\ EndInv' /\ ReleaseInv'
    BY <1>1, <1>6, <1>8, <2>2 DEF EofVideo, IInv, RoundsInv, LockInv, EndInv, ReleaseInv, Alive
  <2>4. QED
    BY <2>1, <2>3 DEF IInv
<1>9. QED
  BY <1>7, <1>8

-----------------------------------------------------------------------------
(* The exit handler.  It ends pipes that may have ended before.            *)
LEMMA HandlerIInv == IInv /\ ExitHandler => IInv'
<1> SUFFICES ASSUME IInv, ExitHandler PROVE IInv'
  OBVIOUS
<1> USE DEF locks, shared, loop
<1>1. CASE HandlerEndsPipes
  <2>1. pipe \in [Pipes -> PipeState]
    BY TypeOfPipe DEF IInv
  <2>2. pipe' \in [Pipes -> PipeState]
    BY <1>1, <2>1, EndedKeeps DEF HandlerEndsPipes
  <2>3. \A p \in Pipes : IsEnded(p) => IsEnded(p)'
    BY <1>1, <2>1, EndedKeeps DEF HandlerEndsPipes, IsEnded
  <2>4. IsEnded("audio") => IsEnded("audio")'
    BY <2>3 DEF Pipes
  <2>5. PipesEnded => PipesEnded'
    BY <2>3 DEF PipesEnded
  <2>6. wait_for_audio_offset => \A p \in Pipes : pipe'[p].buffered = 0 /\ pipe'[p].ready = 0
    BY <1>1, <2>1, EndedKeeps DEF HandlerEndsPipes, IInv, ReleaseInv
  <2>7. Alive /\ Alive' /\ handler' \in [by : {"none", "demux", "caller"},
                                         at : {"none", "pipes", "lock", "done"}]
    BY <1>1 DEF HandlerEndsPipes, IInv, TypeOK, Alive
  <2>8. TypeOK'
    BY <1>1, <2>2, <2>7 DEF HandlerEndsPipes, IInv, TypeOK, PipeState
  <2>9. RoundsInv' /\ LockInv' /\ EndInv' /\ ReleaseInv'
    BY <1>1, <2>4, <2>5, <2>6, <2>7
       DEF HandlerEndsPipes, IInv, RoundsInv, LockInv, EndInv, ReleaseInv
  <2>10. QED
    BY <2>8, <2>9 DEF IInv
<1>2. CASE HandlerUnlocks
  <2>1. UNCHANGED pipe /\ ~Alive'
    BY <1>2 DEF HandlerUnlocks, IInv, TypeOK, Alive
  <2>2. IsEnded("audio")' = IsEnded("audio") /\ PipesEnded' = PipesEnded
    BY <2>1 DEF IsEnded, PipesEnded
  <2>3. TypeOK'
    BY <1>2 DEF HandlerUnlocks, IInv, TypeOK
  <2>4. RoundsInv' /\ LockInv' /\ EndInv' /\ ReleaseInv'
    BY <1>2, <2>1, <2>2 DEF HandlerUnlocks, IInv, RoundsInv, LockInv, EndInv, ReleaseInv
  <2>5. QED
    BY <2>3, <2>4 DEF IInv
<1>3. QED
  BY <1>1, <1>2 DEF ExitHandler

(* The caller is released by a lock that is nobody's, after both pipes     *)
(* have ended.                                                             *)
LEMMA CallerIInv == IInv /\ Caller => IInv'
<1> SUFFICES ASSUME IInv, Caller PROVE IInv'
  OBVIOUS
<1> USE DEF locks, shared, loop, Alive
<1>1. UNCHANGED pipe
  BY DEF Caller, CallerSeesRunning, CallerGetsLock, CallerExits
<1>2. IsEnded("audio")' = IsEnded("audio") /\ PipesEnded' = PipesEnded
  BY <1>1 DEF IsEnded, PipesEnded
<1>3. CASE CallerSeesRunning
  BY <1>1, <1>2, <1>3
     DEF CallerSeesRunning, IInv, TypeOK, RoundsInv, LockInv, EndInv, ReleaseInv
<1>4. CASE CallerGetsLock
  <2>1. TypeOK'
    BY <1>4 DEF CallerGetsLock, IInv, TypeOK
  <2>2. PipesEnded
    BY <1>4 DEF CallerGetsLock, IInv, LockInv
  <2>3. LockInv'
    BY <1>2, <1>4, <2>2 DEF CallerGetsLock, IInv, LockInv
  <2>4. RoundsInv' /\ EndInv' /\ ReleaseInv'
    BY <1>1, <1>2, <1>4, <2>2 DEF CallerGetsLock, IInv, RoundsInv, EndInv, ReleaseInv
  <2>5. QED
    BY <2>1, <2>3, <2>4 DEF IInv
<1>5. CASE CallerExits
  BY <1>1, <1>2, <1>5
     DEF CallerExits, IInv, TypeOK, RoundsInv, LockInv, EndInv, ReleaseInv
<1>6. QED
  BY <1>3, <1>4, <1>5 DEF Caller

(* mplex only takes; its refill finds nothing in a pipe that has ended.    *)
LEMMA MplexIInv == IInv /\ Mplex => IInv'
<1> SUFFICES ASSUME IInv, Mplex PROVE IInv'
  OBVIOUS
<1> USE DEF locks, shared, loop
<1>1. CASE MplexStarts \/ MplexEnds
  <2>1. UNCHANGED pipe
    BY <1>1 DEF MplexStarts, MplexEnds
  <2>2. IsEnded("audio")' = IsEnded("audio") /\ PipesEnded' = PipesEnded
    BY <2>1 DEF IsEnded, PipesEnded
  <2>3. QED
    BY <1>1, <2>1, <2>2
       DEF MplexStarts, MplexEnds, IInv, TypeOK, RoundsInv, LockInv, EndInv, ReleaseInv, Alive
<1>2. ASSUME NEW p \in Pipes, MplexReads(p) PROVE IInv'
  <2> DEFINE left == [pipe[p] EXCEPT !.ready = @ - 1]
  <2>1. pipe \in [Pipes -> PipeState]
    BY TypeOfPipe DEF IInv
  <2>2. pipe[p] \in PipeState /\ pipe[p].ready > 0
    BY <1>2, <2>1 DEF MplexReads
  <2>3. left \in PipeState /\ left.eof = pipe[p].eof /\ left.buffered = pipe[p].buffered
    <3>1. PICK q \in PipeState : q = pipe[p] /\ q.ready > 0
      BY <2>2
    <3>2. q.ready - 1 \in 0..PipeSize
      BY <3>1, ThreadAssumption DEF PipeState
    <3>3. QED
      BY <3>1, <3>2 DEF PipeState
  <2>4. PICK got \in {left, TopUp(left)} : pipe' = [pipe EXCEPT ![p] = got]
    BY <1>2 DEF MplexReads
  <2>5. got \in PipeState /\ got.eof = pipe[p].eof /\ (pipe[p].buffered = 0 => got.buffered = 0)
    <3> HIDE DEF left
    <3>1. QED
      BY <2>3, <2>4, TopUpKeeps
  <2>6. pipe' \in [Pipes -> PipeState]
    BY <2>1, <2>4, <2>5
  <2>7. \A q \in Pipes : IsEnded(q) => IsEnded(q)'
    BY <2>1, <2>4, <2>5 DEF IsEnded
  <2>8. IsEnded("audio") => IsEnded("audio")'
    BY <2>7 DEF Pipes
  <2>9. PipesEnded => PipesEnded'
    BY <2>7 DEF PipesEnded
  <2>10. ~wait_for_audio_offset
    BY <2>2 DEF IInv, ReleaseInv, PipeState
  <2>11. TypeOK'
    BY <1>2, <2>6 DEF MplexReads, IInv, TypeOK, PipeState
  <2>12. RoundsInv' /\ LockInv' /\ EndInv' /\ ReleaseInv'
    BY <1>2, <2>8, <2>9, <2>10
       DEF MplexReads, IInv, RoundsInv, LockInv, EndInv, ReleaseInv, Alive
  <2>13. QED
    BY <2>11, <2>12 DEF IInv
<1>3. QED
  BY <1>1, <1>2 DEF Mplex

-----------------------------------------------------------------------------
LEMMA StutterIInv == IInv /\ UNCHANGED vars => IInv'
<1> SUFFICES ASSUME IInv, UNCHANGED vars PROVE IInv'
  OBVIOUS
<1> USE DEF vars, locks, shared, loop
<1>1. IsEnded("audio")' = IsEnded("audio") /\ PipesEnded' = PipesEnded
  BY DEF IsEnded, PipesEnded
<1>2. QED
  BY <1>1 DEF IInv, TypeOK, RoundsInv, LockInv, EndInv, ReleaseInv, Alive

LEMMA DemuxIInv == IInv /\ Demux => IInv'
<1>1. IInv /\ (\E stage \in {"probe", "args", "offset"} : GiveUp(stage)) => IInv'
  BY GiveUpIInv
<1>2. IInv /\ (\E sequence \in BOOLEAN : ReadChunk(sequence)) => IInv'
  BY ReadChunkIInv
<1>3. QED
  BY <1>1, <1>2, LockStepsIInv, WriteHoldersIInv, FlushIInv, EofIInv DEF Demux

LEMMA SpecIInv == Spec => []IInv
<1>1. IInv /\ [Next]_vars => IInv'
  BY DemuxIInv, HandlerIInv, CallerIInv, MplexIInv, StutterIInv DEF Next
<1>2. QED
  BY <1>1, InitIInv, PTL DEF Spec

(* The caller of tydemux_thread goes on only when both pipes have been     *)
(* ended and nothing is left in them for the writer, whatever fails and    *)
(* whoever runs the exit handler.                                          *)
THEOREM ThreadHandOverSound == Spec => []HandOverSound
<1>1. IInv => HandOverSound
  BY DEF IInv, EndInv, PipesEnded, IsEnded, HandOverSound, ReleasedMeansEnded
<1>2. QED
  BY <1>1, SpecIInv, PTL

(* Nothing is written for mplex before it may read.                        *)
THEOREM ThreadOffsetBeforeData == Spec => []OffsetBeforeData
<1>1. IInv => OffsetBeforeData
  BY DEF IInv, ReleaseInv, OffsetBeforeData
<1>2. QED
  BY <1>1, SpecIInv, PTL
=============================================================================

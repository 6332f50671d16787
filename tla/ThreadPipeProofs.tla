-------------------------- MODULE ThreadPipeProofs --------------------------
(***************************************************************************)
(* Theorems about ThreadPipe for every buffer size, kernel pipe and size   *)
(* of call that satisfies PipeAssumption.                                  *)
(***************************************************************************)
EXTENDS ThreadPipe, SequenceTheorems, TLAPS

Refilling == {"refill", "kcheck", "kwrite"}

(* Where a thread is determines what its locals may hold.                  *)
LocalsInv ==
    /\ \A t \in Threads :
         IF pc[t] \in {"kcheck", "kwrite"}
         THEN Size(pbuffer[t]) > 0
         ELSE pbuffer[t] = NoBuffer
    /\ pc["reader"] # "r_post" => result = <<>>
    /\ pc["reader"] = "r_post" => Len(result) <= bytes_to_read
    /\ pc["reader"] = "r_read" => bytes_to_read > 0
    /\ pc["writer"] = "w_add" => bytes_to_write > 0
    /\ pc["writer"] \in Refilling => ret["writer"] \in {"idle", "w_added", "f_time"}
    /\ pc["reader"] \in Refilling => ret["reader"] = "r_head"

(* No listed buffer reaches past the last byte accepted.                   *)
ListBound == \A i \in 1..Len(write_buffers) : write_buffers[i].hi <= accepted

(* A writer that refills with the list over its limit is still blocking.   *)
StillBlocking ==
    pc["writer"] \in Refilling /\ ret["writer"] # "f_time"
      => block["writer"] = 2 \/ bytes_buffered < buffer_limit

(* The inductive invariant.                                                *)
IInv ==
    /\ TypeOK
    /\ LocalsInv
    /\ InPipeAccounting
    /\ Conservation
    /\ BufferListInOrder
    /\ ListBound
    /\ StillBlocking
    /\ BackPressure

-----------------------------------------------------------------------------
(* Facts about the helpers.                                                *)

LEMMA PipeSizes ==
    /\ pipe_size \in Nat
    /\ pipe_size >= 4
    /\ buffer_limit \in Nat
    /\ buffer_limit >= 4
BY PipeAssumption DEF pipe_size, buffer_limit

(* A piece written is never empty and never more than what is left.        *)
LEMMA WriteChunkBounds ==
    ASSUME bytes_to_write \in Nat
    PROVE  /\ WriteChunk \in Nat
           /\ WriteChunk <= bytes_to_write
           /\ bytes_to_write > 0 => WriteChunk > 0
<1>1. pipe_size \div 2 \in Nat /\ pipe_size \div 2 > 0
  BY PipeSizes
<1>2. QED
  BY <1>1 DEF WriteChunk, Min2

LEMMA ReadChunkBounds ==
    ASSUME bytes_to_read \in Nat
    PROVE  /\ ReadChunk \in Nat
           /\ ReadChunk <= bytes_to_read
<1>1. pipe_size \div 4 \in Nat
  BY PipeSizes
<1>2. QED
  BY <1>1 DEF ReadChunk, Min2

LEMMA ContentsType ==
    ASSUME NEW b \in Buffer, Size(b) >= 0
    PROVE  /\ Contents(b) \in Seq(Nat)
           /\ Len(Contents(b)) = Size(b)
<1>1. Size(b) \in Nat
  BY DEF Buffer, Size
<1>2. \A i \in 1..Size(b) : b.lo + i - 1 \in Nat
  BY <1>1 DEF Buffer
<1>3. Contents(b) \in [1..Size(b) -> Nat]
  BY <1>2 DEF Contents
<1>4. QED
  BY <1>1, <1>3

LEMMA NoBufferEmpty == NoBuffer \in Buffer /\ Size(NoBuffer) = 0
BY DEF NoBuffer, Buffer, Size

LEMMA ThreadNames ==
    /\ "writer" \in Threads
    /\ "reader" \in Threads
    /\ \A t \in Threads : t = "writer" \/ t = "reader"
BY DEF Threads

(* Every place is one of the writer's or of the reader's.                  *)
LEMMA GotoType ==
    ASSUME TypeOK, NEW t \in Threads, NEW l, Goto(t, l),
           t = "writer" => l \in WriterPlaces,
           t = "reader" => l \in ReaderPlaces
    PROVE  /\ pc' \in [Threads -> WriterPlaces \cup ReaderPlaces]
           /\ pc'["writer"] \in WriterPlaces
           /\ pc'["reader"] \in ReaderPlaces
           /\ pc'[t] = l
           /\ \A s \in Threads \ {t} : pc'[s] = pc[s]
BY ThreadNames DEF TypeOK, Goto

-----------------------------------------------------------------------------
(* The initial state.                                                      *)

LEMMA InitIInv == Init => IInv
<1> SUFFICES ASSUME Init PROVE IInv
  OBVIOUS
<1> USE ThreadNames, NoBufferEmpty, PipeSizes DEF Init
<1>1. TypeOK
  <2>1. /\ write_buffers \in Seq(Buffer) /\ kernel \in Seq(Nat)
        /\ result \in Seq(Nat) /\ received \in Seq(Nat)
    OBVIOUS
  <2>2. /\ pc \in [Threads -> WriterPlaces \cup ReaderPlaces]
        /\ pc["writer"] \in WriterPlaces /\ pc["reader"] \in ReaderPlaces
    BY DEF WriterPlaces, ReaderPlaces
  <2>3. QED
    BY <2>1, <2>2 DEF TypeOK
<1>2. LocalsInv
  BY DEF LocalsInv, Refilling
<1>3. InPipeAccounting /\ Conservation
  BY DEF InPipeAccounting, Conservation
<1>4. BufferListInOrder /\ ListBound
  BY DEF BufferListInOrder, ListBound
<1>5. StillBlocking /\ BackPressure
  BY DEF StillBlocking, BackPressure, Refilling
<1>6. QED
  BY <1>1, <1>2, <1>3, <1>4, <1>5 DEF IInv

-----------------------------------------------------------------------------
(* refill_write_pipe, one lemma for each of its actions.                   *)

LEMMA RefillTakeIInv ==
    ASSUME IInv, NEW t \in Threads, RefillTake(t)
    PROVE  IInv'
<1> DEFINE b == FirstBuffer
<1> USE ThreadNames, NoBufferEmpty, PipeSizes
<1>1. /\ write_buffers \in Seq(Buffer) /\ Len(write_buffers) > 0
      /\ b = write_buffers[1] /\ b \in Buffer
  BY DEF IInv, TypeOK, RefillTake, MayWrite, FirstBuffer
<1>2. Size(b) \in Nat /\ Size(b) > 0 /\ Size(b) <= bytes_buffered
  <2>1. Size(b) > 0 /\ b.lo = accepted - bytes_buffered + 1 /\ b.hi <= accepted
    BY <1>1 DEF IInv, BufferListInOrder, ListBound
  <2>2. bytes_buffered \in Nat /\ accepted \in Nat
    BY DEF IInv, TypeOK
  <2>3. b.lo \in Nat /\ b.hi \in Nat
    BY <1>1 DEF Buffer
  <2>4. QED
    BY <2>1, <2>2, <2>3 DEF Size
<1>3. /\ pbuffer[t] = NoBuffer /\ pbuffer' = [pbuffer EXCEPT ![t] = b]
      /\ pbuffer \in [Threads -> Buffer]
      /\ bytes_in_pipe' = bytes_in_pipe + Size(b)
      /\ bytes_buffered' = bytes_buffered - Size(b)
      /\ write_buffers' = Tail(write_buffers)
      /\ block' = [block EXCEPT ![t] = EffectiveBlock(t)]
  BY DEF IInv, TypeOK, LocalsInv, RefillTake
<1>4. /\ Len(write_buffers') = Len(write_buffers) - 1
      /\ \A i \in 1..Len(write_buffers') : write_buffers'[i] = write_buffers[i + 1]
      /\ write_buffers' \in Seq(Buffer)
  BY <1>1, <1>3
<1>5. Goto(t, "kcheck")
  BY DEF RefillTake
<1>6. EffectiveBlock(t) \in {0, 1, 2}
  BY DEF EffectiveBlock, IInv, TypeOK
<1>7. TypeOK'
  <2>1. pc[t] = "refill"
    BY DEF RefillTake
  <2>2. /\ pc' \in [Threads -> WriterPlaces \cup ReaderPlaces]
        /\ pc'["writer"] \in WriterPlaces /\ pc'["reader"] \in ReaderPlaces
    BY <1>5, GotoType DEF IInv, WriterPlaces, ReaderPlaces
  <2>3. bytes_in_pipe' \in Nat /\ bytes_buffered' \in Nat
    BY <1>2, <1>3 DEF IInv, TypeOK
  <2>4. pbuffer' \in [Threads -> Buffer] /\ block' \in [Threads -> {0, 1, 2}]
    BY <1>1, <1>3, <1>6 DEF IInv, TypeOK
  <2>5. raced' \in BOOLEAN
    BY DEF RefillTake
  <2>6. QED
    BY <1>4, <2>2, <2>3, <2>4, <2>5
    DEF IInv, TypeOK, RefillTake, writerVars, readerVars
<1>8. LocalsInv'
  BY <1>1, <1>2, <1>3, <1>5
  DEF IInv, TypeOK, LocalsInv, RefillTake, Goto, Refilling, writerVars, readerVars
<1>9. InPipeAccounting'
  <2>1. \A s \in Threads \ {t} : pbuffer'[s] = pbuffer[s]
    BY <1>3
  <2>2. pbuffer'[t] = b
    BY <1>3
  <2>3. bytes_in_pipe \in Nat /\ Len(kernel) \in Nat /\ Len(result) \in Nat
    <3>1. bytes_in_pipe \in Nat /\ kernel \in Seq(Nat) /\ result \in Seq(Nat)
      BY DEF IInv, TypeOK
    <3>2. QED
      BY <3>1
  <2>4. \A s \in Threads : Size(pbuffer[s]) \in Int
    <3>1. \A s \in Threads : pbuffer[s] \in Buffer
      BY <1>3
    <3>2. \A x \in Buffer : Size(x) \in Int
      BY DEF Buffer, Size
    <3>3. QED
      BY <3>1, <3>2
  <2>5. kernel' = kernel /\ result' = result
    BY DEF RefillTake, readerVars
  <2>6. InPipeAccounting
    BY DEF IInv
  <2>7. Size(pbuffer'["writer"]) + Size(pbuffer'["reader"])
          = Size(pbuffer["writer"]) + Size(pbuffer["reader"]) + Size(b)
    <3>1. Size(pbuffer[t]) = 0 /\ Size(pbuffer'[t]) = Size(b)
      BY <1>3, <2>2
    <3>2. \A s \in Threads \ {t} : Size(pbuffer'[s]) = Size(pbuffer[s])
      BY <2>1
    <3>3. CASE t = "writer"
      BY <1>2, <2>4, <3>1, <3>2, <3>3
    <3>4. CASE t = "reader"
      BY <1>2, <2>4, <3>1, <3>2, <3>4
    <3>5. QED
      BY <3>3, <3>4
  <2>8. bytes_in_pipe' = bytes_in_pipe + Size(b)
    BY <1>3
  <2>9. /\ Size(pbuffer["writer"]) \in Int /\ Size(pbuffer["reader"]) \in Int
        /\ Size(b) \in Int
    BY <1>2, <2>4
  <2>10. bytes_in_pipe' = Len(kernel') + Len(result')
                 + (Size(pbuffer'["writer"]) + Size(pbuffer'["reader"]))
    BY <2>3, <2>5, <2>6, <2>7, <2>8, <2>9 DEF InPipeAccounting
  <2>11. Size(pbuffer'["writer"]) \in Int /\ Size(pbuffer'["reader"]) \in Int
    <3>1. pbuffer'["writer"] \in Buffer /\ pbuffer'["reader"] \in Buffer
      BY <1>1, <1>3
    <3>2. QED
      BY <3>1 DEF Buffer, Size
  <2>12. Len(kernel') \in Nat /\ Len(result') \in Nat
    BY <2>3, <2>5
  <2>13. QED
    BY <2>10, <2>11, <2>12 DEF InPipeAccounting
<1>10. Conservation'
  <2>1. accepted' = accepted /\ received' = received
    BY DEF RefillTake, writerVars, readerVars
  <2>2. /\ accepted \in Nat /\ Len(received) \in Nat
        /\ bytes_in_pipe \in Nat /\ bytes_buffered \in Nat
    <3>1. received \in Seq(Nat)
      BY DEF IInv, TypeOK
    <3>2. QED
      BY <3>1 DEF IInv, TypeOK
  <2>3. Conservation
    BY DEF IInv
  <2>4. QED
    BY <1>2, <1>3, <2>1, <2>2, <2>3 DEF Conservation
<1>11. BufferListInOrder'
  <2>1. accepted' = accepted /\ accepted \in Nat /\ bytes_buffered \in Nat
    BY DEF IInv, TypeOK, RefillTake, writerVars
  <2>2. /\ b.lo = accepted - bytes_buffered + 1 /\ b.lo \in Nat /\ b.hi \in Nat
        /\ write_buffers[Len(write_buffers)].hi = accepted
    BY <1>1 DEF IInv, BufferListInOrder, Buffer
  <2>3. bytes_buffered' = accepted - b.hi
    BY <1>3, <2>1, <2>2 DEF Size
  <2>4. \A i \in 1..Len(write_buffers') :
           /\ Size(write_buffers'[i]) > 0
           /\ i > 1 => write_buffers'[i].lo = write_buffers'[i - 1].hi + 1
    BY SMTT(30), <1>1, <1>4 DEF IInv, BufferListInOrder
  <2>5. ASSUME write_buffers' = <<>> PROVE bytes_buffered' = 0
    <3>1. Len(write_buffers) = 1
      BY <1>1, <1>4, <2>5
    <3>2. QED
      BY <1>1, <2>1, <2>2, <2>3, <3>1
  <2>6. ASSUME write_buffers' # <<>>
        PROVE  /\ write_buffers'[1].lo = accepted' - bytes_buffered' + 1
               /\ write_buffers'[Len(write_buffers')].hi = accepted'
    <3>1. Len(write_buffers') > 0
      BY <1>4, <2>6
    <3>2. write_buffers'[1].lo = b.hi + 1
      BY <1>1, <1>4, <3>1 DEF IInv, BufferListInOrder
    <3>3. write_buffers'[Len(write_buffers')] = write_buffers[Len(write_buffers)]
      BY <1>1, <1>4, <3>1
    <3>4. QED
      BY <2>1, <2>2, <2>3, <3>2, <3>3
  <2>7. QED
    BY <2>4, <2>5, <2>6 DEF BufferListInOrder, Size
<1>12. ListBound'
  BY <1>1, <1>4 DEF IInv, ListBound, RefillTake, writerVars
<1>13. StillBlocking'
  BY <1>2, <1>3, <1>5
  DEF IInv, TypeOK, StillBlocking, RefillTake, Goto, Refilling, EffectiveBlock
<1>14. BackPressure'
  BY <1>2, <1>3, <1>5 DEF IInv, TypeOK, BackPressure, RefillTake, Goto
<1>15. QED
  BY <1>7, <1>8, <1>9, <1>10, <1>11, <1>12, <1>13, <1>14 DEF IInv

-----------------------------------------------------------------------------
(* Steps that move no byte only have to keep the parts about the threads.  *)

data == <<write_buffers, bytes_buffered, bytes_in_pipe, kernel, pbuffer,
          accepted, result, received>>

LEMMA DataUnmoved ==
    ASSUME IInv, UNCHANGED data, TypeOK', LocalsInv', StillBlocking', BackPressure'
    PROVE  IInv'
<1>1. InPipeAccounting' /\ Conservation'
  BY DEF IInv, InPipeAccounting, Conservation, data
<1>2. BufferListInOrder' /\ ListBound'
  BY DEF IInv, BufferListInOrder, ListBound, data
<1>3. QED
  BY <1>1, <1>2 DEF IInv

LEMMA RefillControlIInv ==
    ASSUME IInv, NEW t \in Threads,
           RefillStop(t) \/ RefillEnter(t) \/ RefillAbort(t)
    PROVE  IInv'
<1> USE ThreadNames, PipeSizes
<1>1. CASE RefillStop(t)
  <2>1. Goto(t, ret[t]) /\ pc[t] = "refill"
    BY <1>1 DEF RefillStop
  <2>2. /\ ret["writer"] \in {"idle", "w_added", "f_time"} \/ t # "writer"
        /\ ret["reader"] = "r_head" \/ t # "reader"
    BY <2>1 DEF IInv, LocalsInv, Refilling
  <2>3. UNCHANGED <<shared, ret, block, pbuffer, writerVars, readerVars, ghosts>>
    BY <1>1 DEF RefillStop
  <2>4. TypeOK'
    <3>1. /\ pc' \in [Threads -> WriterPlaces \cup ReaderPlaces]
          /\ pc'["writer"] \in WriterPlaces /\ pc'["reader"] \in ReaderPlaces
      BY <2>1, <2>2, GotoType DEF IInv, WriterPlaces, ReaderPlaces
    <3>2. QED
      BY <2>3, <3>1 DEF IInv, TypeOK, shared, writerVars, readerVars, ghosts
  <2>5. LocalsInv'
    BY <2>1, <2>2, <2>3
    DEF IInv, TypeOK, LocalsInv, Goto, Refilling, writerVars, readerVars
  <2>6. StillBlocking'
    BY <2>1, <2>2, <2>3
    DEF IInv, TypeOK, StillBlocking, Goto, Refilling, shared
  <2>7. BackPressure'
    <3>1. ASSUME t = "writer", ret["writer"] # "f_time"
          PROVE  bytes_buffered < buffer_limit
      <4>1. block["writer"] = 2 \/ bytes_buffered < buffer_limit
        BY <2>1, <3>1 DEF IInv, StillBlocking, Refilling
      <4>2. ~MayWrite("writer")
        BY <1>1, <3>1 DEF RefillStop
      <4>3. write_buffers = <<>> => bytes_buffered = 0
        BY DEF IInv, BufferListInOrder
      <4>4. QED
        BY <4>1, <4>2, <4>3 DEF MayWrite, EffectiveBlock
    <3>2. QED
      BY <2>1, <2>3, <3>1 DEF IInv, TypeOK, BackPressure, Goto, shared
  <2>8. QED
    BY <2>3, <2>4, <2>5, <2>6, <2>7, DataUnmoved
    DEF data, shared, writerVars, readerVars
<1>2. CASE RefillEnter(t)
  <2>1. Goto(t, "kwrite") /\ pc[t] = "kcheck"
    BY <1>2 DEF RefillEnter
  <2>2. UNCHANGED <<shared, ret, block, pbuffer, writerVars, readerVars, ghosts>>
    BY <1>2 DEF RefillEnter
  <2>3. TypeOK'
    <3>1. /\ pc' \in [Threads -> WriterPlaces \cup ReaderPlaces]
          /\ pc'["writer"] \in WriterPlaces /\ pc'["reader"] \in ReaderPlaces
      BY <2>1, GotoType DEF IInv, WriterPlaces, ReaderPlaces
    <3>2. QED
      BY <2>2, <3>1 DEF IInv, TypeOK, shared, writerVars, readerVars, ghosts
  <2>4. LocalsInv'
    BY <2>1, <2>2
    DEF IInv, TypeOK, LocalsInv, Goto, Refilling, writerVars, readerVars
  <2>5. StillBlocking' /\ BackPressure'
    BY <2>1, <2>2
    DEF IInv, TypeOK, StillBlocking, BackPressure, Goto, Refilling, shared
  <2>6. QED
    BY <2>2, <2>3, <2>4, <2>5, DataUnmoved DEF data, shared, writerVars, readerVars
<1>3. CASE RefillAbort(t)
  <2>1. UNCHANGED <<shared, pc, ret, block, pbuffer, writerVars, readerVars, raced>>
    BY <1>3 DEF RefillAbort
  <2>2. aborted' = TRUE
    BY <1>3 DEF RefillAbort
  <2>3. TypeOK'
    BY <2>1, <2>2 DEF IInv, TypeOK, shared, writerVars, readerVars
  <2>4. LocalsInv' /\ StillBlocking' /\ BackPressure'
    BY <2>1 DEF IInv, LocalsInv, StillBlocking, BackPressure, Refilling,
                shared, writerVars, readerVars
  <2>5. QED
    BY <2>1, <2>3, <2>4, DataUnmoved DEF data, shared, writerVars, readerVars
<1>4. QED
  BY <1>1, <1>2, <1>3

LEMMA RefillWriteIInv ==
    ASSUME IInv, NEW t \in Threads, RefillWrite(t)
    PROVE  IInv'
<1> USE ThreadNames, NoBufferEmpty
<1>1. /\ pc[t] = "kwrite" /\ Goto(t, "refill")
      /\ kernel' = kernel \o Contents(pbuffer[t])
      /\ pbuffer' = [pbuffer EXCEPT ![t] = NoBuffer]
      /\ UNCHANGED <<write_buffers, bytes_buffered, bytes_in_pipe, in_write, eof,
                     write_open, ret, block, writerVars, readerVars, ghosts>>
  BY DEF RefillWrite
<1>2. /\ pbuffer \in [Threads -> Buffer] /\ kernel \in Seq(Nat)
      /\ result \in Seq(Nat) /\ bytes_in_pipe \in Nat
      /\ Size(pbuffer[t]) > 0
  BY <1>1 DEF IInv, TypeOK, LocalsInv
<1>3. /\ Contents(pbuffer[t]) \in Seq(Nat)
      /\ Len(Contents(pbuffer[t])) = Size(pbuffer[t])
      /\ Size(pbuffer[t]) \in Nat
  <2>1. pbuffer[t] \in Buffer /\ Size(pbuffer[t]) >= 0
    BY <1>2 DEF Size, Buffer
  <2>2. Contents(pbuffer[t]) \in Seq(Nat) /\ Len(Contents(pbuffer[t])) = Size(pbuffer[t])
    BY <2>1, ContentsType
  <2>3. QED
    BY <2>1, <2>2 DEF Size, Buffer
<1>4. kernel' \in Seq(Nat) /\ Len(kernel') = Len(kernel) + Size(pbuffer[t])
  <2> DEFINE c == Contents(pbuffer[t])
  <2>1. c \in Seq(Nat) /\ Len(c) = Size(pbuffer[t])
    BY <1>3
  <2>2. kernel' = kernel \o c
    BY <1>1
  <2> HIDE DEF c
  <2>3. kernel \o c \in Seq(Nat) /\ Len(kernel \o c) = Len(kernel) + Len(c)
    BY <1>2, <2>1, ConcatProperties
  <2>4. QED
    BY <2>1, <2>2, <2>3
<1>5. TypeOK'
  <2>1. /\ pc' \in [Threads -> WriterPlaces \cup ReaderPlaces]
        /\ pc'["writer"] \in WriterPlaces /\ pc'["reader"] \in ReaderPlaces
    BY <1>1, GotoType DEF IInv, WriterPlaces, ReaderPlaces
  <2>2. pbuffer' \in [Threads -> Buffer]
    BY <1>1, <1>2
  <2>3. QED
    BY <1>1, <1>4, <2>1, <2>2 DEF IInv, TypeOK, writerVars, readerVars, ghosts
<1>6. LocalsInv'
  BY <1>1, <1>2
  DEF IInv, TypeOK, LocalsInv, Goto, Refilling, writerVars, readerVars
<1>7. InPipeAccounting'
  <2>1. /\ Size(pbuffer'[t]) = 0
        /\ \A s \in Threads \ {t} : pbuffer'[s] = pbuffer[s]
    BY <1>1, <1>2
  <2>2. \A s \in Threads : Size(pbuffer[s]) \in Int
    BY <1>2 DEF Size, Buffer
  <2>3. /\ bytes_in_pipe' = bytes_in_pipe /\ result' = result
        /\ Len(kernel) \in Nat /\ Len(result) \in Nat
    BY <1>1, <1>2 DEF readerVars
  <2>4. bytes_in_pipe = Len(kernel) + Len(result)
                          + Size(pbuffer["writer"]) + Size(pbuffer["reader"])
    BY DEF IInv, InPipeAccounting
  <2>5. Len(kernel') = Len(kernel) + Size(pbuffer[t]) /\ Size(pbuffer[t]) \in Nat
    BY <1>3, <1>4
  <2>6. CASE t = "writer"
    BY <2>1, <2>2, <2>3, <2>4, <2>5, <2>6 DEF InPipeAccounting
  <2>7. CASE t = "reader"
    BY <2>1, <2>2, <2>3, <2>4, <2>5, <2>7 DEF InPipeAccounting
  <2>8. QED
    BY <2>6, <2>7
<1>8. Conservation'
  BY <1>1 DEF IInv, Conservation, writerVars, readerVars
<1>9. BufferListInOrder' /\ ListBound'
  BY <1>1 DEF IInv, BufferListInOrder, ListBound, writerVars
<1>10. StillBlocking' /\ BackPressure'
  BY <1>1 DEF IInv, TypeOK, StillBlocking, BackPressure, Goto, Refilling
<1>11. QED
  BY <1>5, <1>6, <1>7, <1>8, <1>9, <1>10 DEF IInv

-----------------------------------------------------------------------------
(* The writing thread.                                                     *)

LEMMA AddToWriteBufferIInv ==
    ASSUME IInv, AddToWriteBuffer
    PROVE  IInv'
<1> DEFINE b == [lo |-> accepted + 1, hi |-> accepted + WriteChunk]
<1> USE ThreadNames, PipeSizes
<1>1. /\ pc["writer"] = "w_add" /\ Goto("writer", "refill")
      /\ write_buffers' = Append(write_buffers, b)
      /\ accepted' = accepted + WriteChunk
      /\ bytes_buffered' = bytes_buffered + WriteChunk
      /\ ret' = [ret EXCEPT !["writer"] = "w_added"]
      /\ block' = [block EXCEPT !["writer"] = BlockFor(bytes_buffered + WriteChunk)]
      /\ UNCHANGED <<bytes_in_pipe, in_write, eof, write_open, kernel, pbuffer,
                     bytes_to_write, topups, readerVars, ghosts>>
  BY DEF AddToWriteBuffer, CallRefill
<1>2. /\ bytes_to_write \in Nat /\ accepted \in Nat /\ bytes_buffered \in Nat
      /\ write_buffers \in Seq(Buffer)
  BY DEF IInv, TypeOK
<1>3. WriteChunk \in Nat /\ WriteChunk > 0
  BY <1>1, <1>2, WriteChunkBounds DEF IInv, LocalsInv
<1>4. b \in Buffer /\ Size(b) = WriteChunk
  BY <1>2, <1>3 DEF Buffer, Size
<1>5. /\ write_buffers' \in Seq(Buffer)
      /\ Len(write_buffers') = Len(write_buffers) + 1
      /\ \A i \in 1..Len(write_buffers) : write_buffers'[i] = write_buffers[i]
      /\ write_buffers'[Len(write_buffers')] = b
  <2> HIDE DEF b
  <2>1. QED
    BY <1>1, <1>2, <1>4
<1>6. BlockFor(bytes_buffered + WriteChunk) \in {0, 1, 2}
  BY DEF BlockFor
<1>7. TypeOK'
  <2>1. /\ pc' \in [Threads -> WriterPlaces \cup ReaderPlaces]
        /\ pc'["writer"] \in WriterPlaces /\ pc'["reader"] \in ReaderPlaces
    BY <1>1, GotoType DEF IInv, WriterPlaces, ReaderPlaces
  <2>2. accepted' \in Nat /\ bytes_buffered' \in Nat
    BY <1>1, <1>2, <1>3
  <2>3. /\ block' \in [Threads -> {0, 1, 2}]
        /\ ret' \in [Threads -> {"idle", "w_added", "f_time", "r_head"}]
    BY <1>1, <1>6 DEF IInv, TypeOK
  <2>4. QED
    BY <1>1, <1>5, <2>1, <2>2, <2>3 DEF IInv, TypeOK, readerVars, ghosts
<1>8. LocalsInv'
  BY <1>1 DEF IInv, TypeOK, LocalsInv, Goto, Refilling, readerVars
<1>9. InPipeAccounting'
  BY <1>1 DEF IInv, InPipeAccounting, readerVars
<1>10. Conservation'
  <2>1. bytes_in_pipe \in Nat /\ Len(received) \in Nat
    BY DEF IInv, TypeOK
  <2>2. QED
    BY <1>1, <1>2, <1>3, <2>1 DEF IInv, Conservation, readerVars
<1>11. BufferListInOrder'
  <2>1. \A i \in 1..Len(write_buffers') :
           /\ Size(write_buffers'[i]) > 0
           /\ i > 1 => write_buffers'[i].lo = write_buffers'[i - 1].hi + 1
    <3>1. TAKE i \in 1..Len(write_buffers')
    <3>2. CASE i <= Len(write_buffers)
      <4>1. i \in 1..Len(write_buffers) /\ write_buffers'[i] = write_buffers[i]
        BY <1>2, <1>5, <3>2
      <4>2. i > 1 => write_buffers'[i - 1] = write_buffers[i - 1]
        BY <1>2, <1>5, <3>2
      <4>3. QED
        BY <4>1, <4>2 DEF IInv, BufferListInOrder
    <3>3. CASE i = Len(write_buffers) + 1
      <4>1. i > 1 => /\ write_buffers # <<>>
                     /\ write_buffers'[i - 1] = write_buffers[Len(write_buffers)]
        BY <1>2, <1>5, <3>3
      <4>2. write_buffers'[i].lo = accepted + 1 /\ Size(write_buffers'[i]) > 0
        BY <1>3, <1>4, <1>5, <3>3
      <4>3. QED
        BY <1>2, <4>1, <4>2 DEF IInv, BufferListInOrder
    <3>4. QED
      BY <1>2, <1>5, <3>2, <3>3
  <2>2. write_buffers'[Len(write_buffers')].hi = accepted'
    BY <1>1, <1>5
  <2>3. write_buffers'[1].lo = accepted' - bytes_buffered' + 1
    <3>1. CASE write_buffers = <<>>
      BY <1>1, <1>2, <1>3, <1>5, <3>1 DEF IInv, BufferListInOrder
    <3>2. CASE write_buffers # <<>>
      <4>1. write_buffers'[1] = write_buffers[1]
        BY <1>2, <1>5, <3>2
      <4>2. QED
        BY <1>1, <1>2, <1>3, <3>2, <4>1 DEF IInv, BufferListInOrder
    <3>3. QED
      BY <3>1, <3>2
  <2>4. write_buffers' # <<>>
    BY <1>2, <1>5
  <2>5. QED
    BY <2>1, <2>2, <2>3, <2>4 DEF BufferListInOrder, Size
<1>12. ListBound'
  <2>1. SUFFICES ASSUME NEW i \in 1..Len(write_buffers')
                 PROVE  write_buffers'[i].hi <= accepted'
    BY DEF ListBound
  <2>2. CASE i <= Len(write_buffers)
    <3>1. i \in 1..Len(write_buffers) /\ write_buffers'[i] = write_buffers[i]
      BY <1>2, <1>5, <2>2
    <3>2. write_buffers[i].hi \in Nat
      <4>1. write_buffers[i] \in Buffer
        BY <1>2, <3>1
      <4>2. QED
        BY <4>1 DEF Buffer
    <3>3. write_buffers[i].hi <= accepted
      BY <3>1 DEF IInv, ListBound
    <3>4. QED
      BY <1>1, <1>2, <1>3, <3>1, <3>2, <3>3
  <2>3. CASE i = Len(write_buffers) + 1
    BY <1>1, <1>2, <1>3, <1>5, <2>3
  <2>4. QED
    BY <1>2, <1>5, <2>2, <2>3
<1>13. StillBlocking'
  BY <1>1, <1>2, <1>3 DEF IInv, TypeOK, StillBlocking, BlockFor
<1>14. BackPressure'
  BY <1>1 DEF IInv, TypeOK, BackPressure, Goto
<1>15. QED
  BY <1>7, <1>8, <1>9, <1>10, <1>11, <1>12, <1>13, <1>14 DEF IInv

LEMMA WriterControlIInv ==
    ASSUME IInv,
           \/ WriteCall \/ WriteAdded \/ BufferTopup
           \/ EofCall \/ FlushBuffers \/ FlushBuffersDone \/ FlushClock
           \/ FlushWait \/ FlushEnd \/ EofFlag \/ EofClose
    PROVE  IInv'
<1> USE ThreadNames, PipeSizes
<1>1. CASE WriteCall
  <2>1. PICK n \in WriteSizes : bytes_to_write' = n
    BY <1>1 DEF WriteCall
  <2>2. bytes_to_write' \in Nat /\ bytes_to_write' > 0
    BY <2>1, PipeAssumption
  <2>3. /\ Goto("writer", "w_add") /\ pc["writer"] = "idle" /\ in_write' = TRUE
        /\ UNCHANGED <<write_buffers, bytes_buffered, bytes_in_pipe, eof,
                       write_open, kernel, ret, block, pbuffer, accepted,
                       topups, readerVars, ghosts>>
    BY <1>1 DEF WriteCall
  <2>4. TypeOK'
    <3>1. /\ pc' \in [Threads -> WriterPlaces \cup ReaderPlaces]
          /\ pc'["writer"] \in WriterPlaces /\ pc'["reader"] \in ReaderPlaces
      BY <2>3, GotoType DEF IInv, WriterPlaces, ReaderPlaces
    <3>2. QED
      BY <2>2, <2>3, <3>1 DEF IInv, TypeOK, readerVars, ghosts
  <2>5. LocalsInv' /\ StillBlocking' /\ BackPressure'
    BY <2>2, <2>3
    DEF IInv, TypeOK, LocalsInv, StillBlocking, BackPressure, Goto, Refilling,
        readerVars
  <2>6. QED
    BY <2>3, <2>4, <2>5, DataUnmoved DEF data, readerVars
<1>2. CASE WriteAdded
  <2>1. /\ pc["writer"] = "w_added"
        /\ bytes_to_write' = bytes_to_write - WriteChunk
        /\ UNCHANGED <<write_buffers, bytes_buffered, bytes_in_pipe, eof,
                       write_open, kernel, ret, block, pbuffer, accepted,
                       topups, readerVars, ghosts>>
    BY <1>2 DEF WriteAdded
  <2>2. bytes_to_write' \in Nat
    BY <2>1, WriteChunkBounds DEF IInv, TypeOK
  <2>3. /\ bytes_to_write' > 0 => Goto("writer", "w_add")
        /\ ~(bytes_to_write' > 0) => Goto("writer", "idle")
        /\ in_write' \in BOOLEAN
    BY <1>2 DEF WriteAdded, IInv, TypeOK
  <2>4. TypeOK'
    <3>1. /\ pc' \in [Threads -> WriterPlaces \cup ReaderPlaces]
          /\ pc'["writer"] \in WriterPlaces /\ pc'["reader"] \in ReaderPlaces
      BY <2>3, GotoType DEF IInv, WriterPlaces, ReaderPlaces
    <3>2. QED
      BY <2>1, <2>2, <2>3, <3>1 DEF IInv, TypeOK, readerVars, ghosts
  <2>5. LocalsInv' /\ StillBlocking' /\ BackPressure'
    BY <2>1, <2>2, <2>3
    DEF IInv, TypeOK, LocalsInv, StillBlocking, BackPressure, Goto, Refilling,
        readerVars
  <2>6. QED
    BY <2>1, <2>4, <2>5, DataUnmoved DEF data, readerVars
<1>3. CASE BufferTopup \/ FlushBuffers
  <2>1. PICK b \in {0, 1}, l \in {"idle", "f_time"} :
          /\ CallRefill("writer", b, l)
          /\ l = "idle" => pc["writer"] = "idle"
          /\ pc["writer"] \in {"idle", "f_loop"}
    BY <1>3 DEF BufferTopup, FlushBuffers
  <2>2. UNCHANGED <<shared, pbuffer, accepted, bytes_to_write, readerVars, ghosts>>
    BY <1>3 DEF BufferTopup, FlushBuffers, writerVars
  <2>3. topups' \in Nat
    BY <1>3 DEF BufferTopup, FlushBuffers, writerVars, IInv, TypeOK
  <2>4. /\ Goto("writer", "refill")
        /\ ret' = [ret EXCEPT !["writer"] = l]
        /\ block' = [block EXCEPT !["writer"] = b]
    BY <2>1 DEF CallRefill
  <2>5. TypeOK'
    <3>1. /\ pc' \in [Threads -> WriterPlaces \cup ReaderPlaces]
          /\ pc'["writer"] \in WriterPlaces /\ pc'["reader"] \in ReaderPlaces
      BY <2>4, GotoType DEF IInv, WriterPlaces, ReaderPlaces
    <3>2. /\ ret' \in [Threads -> {"idle", "w_added", "f_time", "r_head"}]
          /\ block' \in [Threads -> {0, 1, 2}]
      BY <2>4 DEF IInv, TypeOK
    <3>3. QED
      BY <2>2, <2>3, <3>1, <3>2 DEF IInv, TypeOK, shared, readerVars, ghosts
  <2>6. LocalsInv'
    BY <2>1, <2>2, <2>4
    DEF IInv, TypeOK, LocalsInv, Goto, Refilling, readerVars
  <2>7. StillBlocking' /\ BackPressure'
    BY <2>1, <2>2, <2>4
    DEF IInv, TypeOK, StillBlocking, BackPressure, Goto, Refilling, shared
  <2>8. QED
    BY <2>2, <2>5, <2>6, <2>7, DataUnmoved DEF data, shared, readerVars
<1>4. CASE \/ EofCall \/ FlushBuffersDone \/ FlushClock
           \/ FlushWait \/ FlushEnd \/ EofFlag \/ EofClose
  <2>1. PICK l \in {"f_loop", "f_wait", "f_end", "e_flag", "e_close", "done"} :
          Goto("writer", l)
    BY <1>4 DEF EofCall, AfterEofCall, FlushBuffersDone, FlushClock, FlushWait,
                FlushEnd, EofFlag, EofClose
  <2>2. UNCHANGED <<write_buffers, bytes_buffered, bytes_in_pipe, kernel, ret,
                    block, pbuffer, writerVars, readerVars, ghosts>>
    BY <1>4 DEF EofCall, FlushBuffersDone, FlushClock, FlushWait, FlushEnd,
                EofFlag, EofClose, shared
  <2>3. in_write' \in BOOLEAN /\ eof' \in BOOLEAN /\ write_open' \in BOOLEAN
    <3>1. in_write \in BOOLEAN /\ eof \in BOOLEAN /\ write_open \in BOOLEAN
      BY DEF IInv, TypeOK
    <3>2. CASE EofCall
      BY <3>1, <3>2 DEF EofCall
    <3>3. CASE FlushBuffersDone \/ FlushClock \/ FlushWait
      BY <3>1, <3>3 DEF FlushBuffersDone, FlushClock, FlushWait, shared
    <3>4. CASE FlushEnd \/ EofFlag \/ EofClose
      BY <3>1, <3>4 DEF FlushEnd, EofFlag, EofClose
    <3>5. QED
      BY <1>4, <3>2, <3>3, <3>4
  <2>4. TypeOK'
    <3>1. /\ pc' \in [Threads -> WriterPlaces \cup ReaderPlaces]
          /\ pc'["writer"] \in WriterPlaces /\ pc'["reader"] \in ReaderPlaces
      BY <2>1, GotoType DEF IInv, WriterPlaces, ReaderPlaces
    <3>2. QED
      BY <2>2, <2>3, <3>1 DEF IInv, TypeOK, writerVars, readerVars, ghosts
  <2>5. LocalsInv'
    <3>1. pc["writer"] \notin {"kcheck", "kwrite"}
      BY <1>4 DEF EofCall, FlushBuffersDone, FlushClock, FlushWait, FlushEnd,
                  EofFlag, EofClose
    <3>2. QED
      BY <2>1, <2>2, <3>1
      DEF IInv, TypeOK, LocalsInv, Goto, Refilling, writerVars, readerVars
  <2>6. StillBlocking' /\ BackPressure'
    BY <2>1, <2>2
    DEF IInv, TypeOK, StillBlocking, BackPressure, Goto, Refilling
  <2>7. QED
    BY <2>2, <2>4, <2>5, <2>6, DataUnmoved DEF data, writerVars, readerVars
<1>5. QED
  BY <1>1, <1>2, <1>3, <1>4

-----------------------------------------------------------------------------
(* The reading thread.                                                     *)

LEMMA ReadKernelIInv ==
    ASSUME IInv, ReadKernel
    PROVE  IInv'
<1> DEFINE k == Min2(ReadChunk, Len(kernel))
<1> USE ThreadNames
<1>1. /\ pc["reader"] = "r_read" /\ Goto("reader", "r_post")
      /\ result' = SubSeq(kernel, 1, k)
      /\ kernel' = SubSeq(kernel, k + 1, Len(kernel))
      /\ read_eof' = FALSE
      /\ UNCHANGED <<write_buffers, bytes_buffered, bytes_in_pipe, in_write, eof,
                     write_open, ret, block, pbuffer, writerVars, bytes_to_read,
                     received, ghosts>>
  BY DEF ReadKernel, LeftInKernel
<1>2. kernel \in Seq(Nat) /\ bytes_to_read \in Nat /\ result = <<>>
  BY <1>1 DEF IInv, TypeOK, LocalsInv
<1>3. k \in Nat /\ k <= Len(kernel) /\ k <= bytes_to_read
  <2>1. ReadChunk \in Nat /\ ReadChunk <= bytes_to_read
    BY <1>2, ReadChunkBounds
  <2>2. Len(kernel) \in Nat
    BY <1>2
  <2>3. QED
    BY <1>2, <2>1, <2>2 DEF Min2
<1>4. /\ result' \in Seq(Nat) /\ Len(result') = k
      /\ kernel' \in Seq(Nat) /\ Len(kernel') = Len(kernel) - k
  <2> HIDE DEF k
  <2>1. SubSeq(kernel, 1, k) \in Seq(Nat) /\ Len(SubSeq(kernel, 1, k)) = k
    BY <1>2, <1>3, SubSeqProperties
  <2>2. /\ SubSeq(kernel, k + 1, Len(kernel)) \in Seq(Nat)
        /\ Len(SubSeq(kernel, k + 1, Len(kernel))) = Len(kernel) - k
    BY <1>2, <1>3, SubSeqProperties
  <2>3. QED
    BY <1>1, <2>1, <2>2
<1>5. TypeOK'
  <2>1. /\ pc' \in [Threads -> WriterPlaces \cup ReaderPlaces]
        /\ pc'["writer"] \in WriterPlaces /\ pc'["reader"] \in ReaderPlaces
    BY <1>1, GotoType DEF IInv, WriterPlaces, ReaderPlaces
  <2>2. QED
    BY <1>1, <1>4, <2>1 DEF IInv, TypeOK, writerVars, ghosts
<1>6. LocalsInv'
  BY <1>1, <1>3, <1>4 DEF IInv, TypeOK, LocalsInv, Goto, Refilling, writerVars
<1>7. InPipeAccounting'
  <2>1. /\ \A s \in Threads : Size(pbuffer[s]) \in Int
        /\ Len(kernel) \in Nat /\ bytes_in_pipe \in Nat /\ Len(result) = 0
    BY <1>2 DEF IInv, TypeOK, Size, Buffer
  <2>2. QED
    BY <1>1, <1>3, <1>4, <2>1 DEF IInv, InPipeAccounting
<1>8. Conservation'
  BY <1>1 DEF IInv, Conservation, writerVars
<1>9. BufferListInOrder' /\ ListBound'
  BY <1>1 DEF IInv, BufferListInOrder, ListBound, writerVars
<1>10. StillBlocking' /\ BackPressure'
  BY <1>1 DEF IInv, TypeOK, StillBlocking, BackPressure, Goto, Refilling
<1>11. QED
  BY <1>5, <1>6, <1>7, <1>8, <1>9, <1>10 DEF IInv

LEMMA ReadPostIInv ==
    ASSUME IInv, ReadPost
    PROVE  IInv'
<1> USE ThreadNames
<1>1. /\ pc["reader"] = "r_post" /\ eof' = read_eof
      /\ bytes_in_pipe' = bytes_in_pipe - Len(result)
      /\ bytes_to_read' = bytes_to_read - Len(result)
      /\ received' = received \o result /\ result' = <<>>
      /\ UNCHANGED <<write_buffers, bytes_buffered, in_write, write_open, kernel,
                     pbuffer, writerVars, read_eof, ghosts>>
  BY DEF ReadPost, LessInPipe
<1>2. /\ bytes_to_read \in Nat /\ bytes_in_pipe \in Nat
      /\ result \in Seq(Nat) /\ kernel \in Seq(Nat) /\ received \in Seq(Nat)
      /\ Len(result) <= bytes_to_read
  BY <1>1 DEF IInv, TypeOK, LocalsInv
<1>3. \A s \in Threads : Size(pbuffer[s]) \in Nat
  <2>1. SUFFICES ASSUME NEW s \in Threads PROVE Size(pbuffer[s]) \in Nat
    OBVIOUS
  <2>2. pbuffer[s] \in Buffer
    BY DEF IInv, TypeOK
  <2>3. Size(pbuffer[s]) >= 0
    BY <2>2, NoBufferEmpty DEF IInv, LocalsInv, Size, Buffer
  <2>4. QED
    BY <2>2, <2>3 DEF Size, Buffer
<1>4. /\ bytes_in_pipe' = Len(kernel) + Size(pbuffer["writer"]) + Size(pbuffer["reader"])
      /\ bytes_in_pipe' \in Nat /\ bytes_to_read' \in Nat
  <2>1. Len(kernel) \in Nat /\ Len(result) \in Nat
    BY <1>2
  <2>2. QED
    BY SMTT(30), <1>1, <1>2, <1>3, <2>1 DEF IInv, InPipeAccounting
<1>5. received' \in Seq(Nat) /\ Len(received') = Len(received) + Len(result)
  BY <1>1, <1>2, ConcatProperties
<1>6. /\ pc' \in [Threads -> WriterPlaces \cup ReaderPlaces]
      /\ pc'["reader"] \in {"refill", "r_head"} /\ pc'["writer"] = pc["writer"]
      /\ pc'["writer"] \in WriterPlaces
      /\ pc'["reader"] = "refill" => ret'["reader"] = "r_head"
      /\ ret'["writer"] = ret["writer"] /\ block'["writer"] = block["writer"]
      /\ ret' \in [Threads -> {"idle", "w_added", "f_time", "r_head"}]
      /\ block' \in [Threads -> {0, 1, 2}]
  <2>1. \E l \in {"refill", "r_head"} : Goto("reader", l)
    BY DEF ReadPost, CallRefill
  <2>2. /\ pc' \in [Threads -> WriterPlaces \cup ReaderPlaces]
        /\ pc'["reader"] \in {"refill", "r_head"} /\ pc'["writer"] = pc["writer"]
        /\ pc'["writer"] \in WriterPlaces
    BY <2>1, GotoType DEF IInv, WriterPlaces, ReaderPlaces
  <2>3. CASE ~in_write /\ bytes_in_pipe' = 0
    BY <2>2, <2>3 DEF ReadPost, CallRefill, IInv, TypeOK
  <2>4. CASE ~(~in_write /\ bytes_in_pipe' = 0)
    <3>1. Goto("reader", "r_head") /\ UNCHANGED <<ret, block>>
      BY <2>4 DEF ReadPost
    <3>2. QED
      BY <2>2, <3>1 DEF IInv, TypeOK, Goto
  <2>5. QED
    BY <2>3, <2>4
<1>7. TypeOK'
  BY <1>1, <1>4, <1>5, <1>6 DEF IInv, TypeOK, writerVars, ghosts, ReaderPlaces
<1>8. LocalsInv'
  BY <1>1, <1>6 DEF IInv, TypeOK, LocalsInv, Refilling, writerVars
<1>9. InPipeAccounting'
  <2>1. Len(kernel) \in Nat /\ Len(result') = 0
    BY <1>1, <1>2
  <2>2. kernel' = kernel /\ pbuffer' = pbuffer
    BY <1>1
  <2>3. QED
    BY <1>3, <1>4, <2>1, <2>2 DEF InPipeAccounting
<1>10. Conservation'
  <2>1. /\ accepted \in Nat /\ bytes_buffered \in Nat
        /\ Len(received) \in Nat /\ Len(result) \in Nat
    BY <1>2 DEF IInv, TypeOK
  <2>2. accepted' = accepted /\ bytes_buffered' = bytes_buffered
    BY <1>1 DEF writerVars
  <2>3. QED
    BY <1>1, <1>2, <1>5, <2>1, <2>2 DEF IInv, Conservation
<1>11. BufferListInOrder' /\ ListBound'
  BY <1>1 DEF IInv, BufferListInOrder, ListBound, writerVars
<1>12. StillBlocking' /\ BackPressure'
  BY <1>1, <1>6 DEF IInv, StillBlocking, BackPressure, Refilling
<1>13. QED
  BY <1>7, <1>8, <1>9, <1>10, <1>11, <1>12 DEF IInv

LEMMA ReaderControlIInv ==
    ASSUME IInv, ReadCall \/ SeeEof \/ ReadHead \/ ReadEnd
    PROVE  IInv'
<1> USE ThreadNames
<1>1. PICK l \in {"r_head", "done", "r_read", "idle", "r_post"} :
        /\ Goto("reader", l)
        /\ l = "r_read" => bytes_to_read > 0 /\ bytes_to_read' = bytes_to_read
  BY DEF ReadCall, SeeEof, ReadHead, ReadEnd, readerVars
<1>2. /\ UNCHANGED <<shared, ret, block, pbuffer, writerVars, received, ghosts>>
      /\ pc["reader"] \in {"idle", "r_head", "r_read"}
  BY DEF ReadCall, SeeEof, ReadHead, ReadEnd, readerVars
<1>3. result = <<>> /\ result' = <<>>
  BY <1>2 DEF ReadCall, SeeEof, ReadHead, ReadEnd, readerVars, IInv, LocalsInv
<1>4. bytes_to_read' \in Nat
  BY PipeAssumption DEF ReadCall, SeeEof, ReadHead, ReadEnd, readerVars, IInv, TypeOK
<1>5. read_eof' \in BOOLEAN
  <2>1. CASE ReadEnd
    BY <2>1 DEF ReadEnd
  <2>2. CASE ReadCall \/ SeeEof \/ ReadHead
    BY <2>2 DEF ReadCall, SeeEof, ReadHead, readerVars, IInv, TypeOK
  <2>3. QED
    BY <2>1, <2>2
<1>6. TypeOK'
  <2>1. /\ pc' \in [Threads -> WriterPlaces \cup ReaderPlaces]
        /\ pc'["writer"] \in WriterPlaces /\ pc'["reader"] \in ReaderPlaces
    BY <1>1, GotoType DEF IInv, WriterPlaces, ReaderPlaces
  <2>2. QED
    BY <1>2, <1>3, <1>4, <1>5, <2>1 DEF IInv, TypeOK, shared, writerVars, ghosts
<1>7. LocalsInv'
  BY <1>1, <1>2, <1>3, <1>4
  DEF IInv, TypeOK, LocalsInv, Goto, Refilling, writerVars
<1>8. StillBlocking' /\ BackPressure'
  BY <1>1, <1>2
  DEF IInv, TypeOK, StillBlocking, BackPressure, Goto, Refilling, shared
<1>9. UNCHANGED data
  BY <1>2, <1>3 DEF data, shared, writerVars
<1>10. QED
  BY <1>6, <1>7, <1>8, <1>9, DataUnmoved

-----------------------------------------------------------------------------
LEMMA NextIInv ==
    ASSUME IInv, [Next]_vars
    PROVE  IInv'
<1> USE ThreadNames
<1>1. CASE \E t \in Threads : Refill(t)
  BY <1>1, RefillTakeIInv, RefillControlIInv, RefillWriteIInv DEF Refill
<1>2. CASE AddToWriteBuffer
  BY <1>2, AddToWriteBufferIInv
<1>3. CASE \/ WriteCall \/ WriteAdded \/ BufferTopup
           \/ EofCall \/ FlushBuffers \/ FlushBuffersDone \/ FlushClock
           \/ FlushWait \/ FlushEnd \/ EofFlag \/ EofClose
  BY <1>3, WriterControlIInv
<1>4. CASE ReadKernel
  BY <1>4, ReadKernelIInv
<1>5. CASE ReadPost
  BY <1>5, ReadPostIInv
<1>6. CASE ReadCall \/ SeeEof \/ ReadHead \/ ReadEnd
  BY <1>6, ReaderControlIInv
<1>7. CASE UNCHANGED vars
  BY <1>7
  DEF IInv, TypeOK, LocalsInv, InPipeAccounting, Conservation,
      BufferListInOrder, ListBound, StillBlocking, BackPressure,
      vars, shared, writerVars, readerVars, ghosts
<1>8. QED
  BY <1>1, <1>2, <1>3, <1>4, <1>5, <1>6, <1>7
  DEF Next, Writer, Reader, Stopped

(* In every reachable state of every pipe the inductive invariant holds.   *)
THEOREM PipeInvariant == Spec => []IInv
<1>1. Init => IInv
  BY InitIInv
<1>2. IInv /\ [Next]_vars => IInv'
  BY NextIInv
<1>3. QED
  BY <1>1, <1>2, PTL DEF Spec

(* The fields keep their types; in particular the unsigned bytes_in_pipe   *)
(* and bytes_buffered never go below zero.                                 *)
THEOREM PipeTypeCorrect == Spec => []TypeOK
<1>1. IInv => TypeOK
  BY DEF IInv
<1>2. QED
  BY <1>1, PipeInvariant, PTL

(* bytes_in_pipe is exact whatever the interleaving of the two threads.    *)
THEOREM PipeInPipeAccounting == Spec => []InPipeAccounting
<1>1. IInv => InPipeAccounting
  BY DEF IInv
<1>2. QED
  BY <1>1, PipeInvariant, PTL

(* No byte is counted twice or forgotten between writer and reader.        *)
THEOREM PipeConservation == Spec => []Conservation
<1>1. IInv => Conservation
  BY DEF IInv
<1>2. QED
  BY <1>1, PipeInvariant, PTL

(* The buffer list is the gapless, ordered tail of the accepted bytes.     *)
THEOREM PipeBufferListInOrder == Spec => []BufferListInOrder
<1>1. IInv => BufferListInOrder
  BY DEF IInv
<1>2. QED
  BY <1>1, PipeInvariant, PTL

(* thread_pipe_write never returns with the buffer limit reached.          *)
THEOREM PipeBackPressure == Spec => []BackPressure
<1>1. IInv => BackPressure
  BY DEF IInv
<1>2. QED
  BY <1>1, PipeInvariant, PTL

(* What the pipe counts is what is in it, for every size of the pipe.      *)
THEOREM PipeCountersExact == Spec => []CountersExact
<1>1. IInv => CountersExact
  BY DEF IInv, CountersExact
<1>2. QED
  BY <1>1, PipeInvariant, PTL

-----------------------------------------------------------------------------
(* The order of the bytes.                                                 *)

(* While the threads never moved a buffer at the same time, one of them    *)
(* has none.                                                               *)
OneMover == ~raced => pbuffer["writer"] = NoBuffer \/ pbuffer["reader"] = NoBuffer

OrderInv == OneMover /\ FifoUnlessRaced /\ NothingLostOrInvented

(* The sequences that InFlight is made of, and their order.                *)
LEMMA PartsType ==
    ASSUME IInv
    PROVE  /\ received \in Seq(Nat) /\ result \in Seq(Nat) /\ kernel \in Seq(Nat)
           /\ \A t \in Threads : /\ pbuffer[t] \in Buffer
                                 /\ Contents(pbuffer[t]) \in Seq(Nat)
                                 /\ Len(Contents(pbuffer[t])) = Size(pbuffer[t])
<1>1. received \in Seq(Nat) /\ result \in Seq(Nat) /\ kernel \in Seq(Nat)
  BY DEF IInv, TypeOK
<1>2. ASSUME NEW t \in Threads
      PROVE  /\ pbuffer[t] \in Buffer
             /\ Contents(pbuffer[t]) \in Seq(Nat)
             /\ Len(Contents(pbuffer[t])) = Size(pbuffer[t])
  <2>1. pbuffer[t] \in Buffer
    BY DEF IInv, TypeOK
  <2>2. Size(pbuffer[t]) > 0 \/ pbuffer[t] = NoBuffer
    BY DEF IInv, LocalsInv
  <2>3. Size(pbuffer[t]) >= 0
    <3>1. Size(pbuffer[t]) \in Int
      BY <2>1 DEF Size, Buffer
    <3>2. QED
      BY <2>2, <3>1, NoBufferEmpty
  <2>4. QED
    BY <2>1, <2>3, ContentsType
<1>3. QED
  BY <1>1, <1>2

LEMMA NoContents == Contents(NoBuffer) = <<>>
<1>1. Contents(NoBuffer) \in Seq(Nat) /\ Len(Contents(NoBuffer)) = 0
  BY NoBufferEmpty, ContentsType
<1>2. QED
  BY <1>1, EmptySeq

(* The bytes of a buffer, as a set.                                        *)
LEMMA ContentsRange ==
    ASSUME NEW b \in Buffer, Size(b) >= 0
    PROVE  Range(Contents(b)) = b.lo..b.hi
<1>1. b.lo \in Nat /\ b.hi \in Nat /\ Size(b) = b.hi + 1 - b.lo
  BY DEF Buffer, Size
<1>2. DOMAIN Contents(b) = 1..Size(b) /\ \A i \in 1..Size(b) : Contents(b)[i] = b.lo + i - 1
  BY DEF Contents
<1>3. ASSUME NEW x \in b.lo..b.hi PROVE x \in Range(Contents(b))
  <2> DEFINE i == x + 1 - b.lo
  <2>1. i \in 1..Size(b) /\ b.lo + i - 1 = x
    BY <1>1
  <2>2. Contents(b)[i] = x
    <3> HIDE DEF i
    <3>1. QED
      BY <1>2, <2>1
  <2>3. QED
    BY <1>2, <2>1, <2>2 DEF Range
<1>4. ASSUME NEW x \in Range(Contents(b)) PROVE x \in b.lo..b.hi
  <2>1. PICK i \in 1..Size(b) : x = b.lo + i - 1
    BY <1>2 DEF Range
  <2>2. QED
    BY <1>1, <2>1
<1>5. QED
  BY <1>3, <1>4

(* The numbers from 1 on, followed by those of the next buffer.            *)
LEMMA NextBytes ==
    ASSUME NEW n \in Nat, NEW b \in Buffer, b.lo = n + 1, Size(b) >= 0
    PROVE  [i \in 1..n |-> i] \o Contents(b) = [i \in 1..(n + Size(b)) |-> i]
<1> DEFINE s == [i \in 1..n |-> i]
           c == Contents(b)
           r == [i \in 1..(n + Size(b)) |-> i]
<1>1. s \in Seq(Nat) /\ Len(s) = n /\ \A i \in 1..n : s[i] = i
  OBVIOUS
<1>2. Size(b) \in Nat
  BY DEF Buffer, Size
<1>3. c \in Seq(Nat) /\ Len(c) = Size(b) /\ \A i \in 1..Size(b) : c[i] = n + i
  <2>1. c \in Seq(Nat) /\ Len(c) = Size(b)
    BY ContentsType
  <2>2. \A i \in 1..Size(b) : c[i] = b.lo + i - 1
    BY DEF Contents
  <2>3. QED
    BY <2>1, <2>2
<1>4. r \in Seq(Nat) /\ Len(r) = n + Size(b) /\ \A i \in 1..(n + Size(b)) : r[i] = i
  BY <1>2
<1> HIDE DEF s, c, r
<1>5. /\ s \o c \in Seq(Nat) /\ Len(s \o c) = n + Size(b)
      /\ \A i \in 1..(n + Size(b)) : (s \o c)[i] = IF i <= n THEN s[i] ELSE c[i - n]
  <2>1. /\ s \o c \in Seq(Nat) /\ Len(s \o c) = Len(s) + Len(c)
        /\ \A i \in 1..(Len(s) + Len(c)) :
             (s \o c)[i] = IF i <= Len(s) THEN s[i] ELSE c[i - Len(s)]
    BY <1>1, <1>3, ConcatProperties
  <2>2. QED
    BY <1>1, <1>3, <2>1
<1>6. \A i \in 1..(n + Size(b)) : (s \o c)[i] = r[i]
  <2> TAKE i \in 1..(n + Size(b))
  <2>1. CASE i <= n
    BY <1>1, <1>4, <1>5, <2>1
  <2>2. CASE ~(i <= n)
    <3>1. i - n \in 1..Size(b)
      BY <1>2, <2>2
    <3>2. QED
      BY <1>3, <1>4, <1>5, <2>2, <3>1
  <2>3. QED
    BY <2>1, <2>2
<1>7. s \o c = r
  BY <1>4, <1>5, <1>6, SeqEqual
<1>8. QED
  BY <1>7 DEF s, c, r

(* The length and the elements of five sequences in a row.                 *)
LEMMA FiveParts ==
    ASSUME NEW a \in Seq(Nat), NEW b \in Seq(Nat), NEW c \in Seq(Nat),
           NEW d \in Seq(Nat), NEW e \in Seq(Nat)
    PROVE  /\ a \o b \o c \o d \o e \in Seq(Nat)
           /\ Len(a \o b \o c \o d \o e) = Len(a) + Len(b) + Len(c) + Len(d) + Len(e)
           /\ Range(a \o b \o c \o d \o e)
                = Range(a) \cup Range(b) \cup Range(c) \cup Range(d) \cup Range(e)
<1> DEFINE Joins(s, t) == /\ s \o t \in Seq(Nat)
                          /\ Len(s \o t) = Len(s) + Len(t)
                          /\ Range(s \o t) = Range(s) \cup Range(t)
<1>1. ASSUME NEW s \in Seq(Nat), NEW t \in Seq(Nat) PROVE Joins(s, t)
  <2>1. s \o t \in Seq(Nat) /\ Len(s \o t) = Len(s) + Len(t)
    BY ConcatProperties
  <2>2. Range(s \o t) = Range(s) \cup Range(t)
    BY RangeConcatenation
  <2>3. QED
    BY <2>1, <2>2
<1>2. Joins(a, b)
  BY <1>1
<1>3. Joins(a \o b, c)
  BY <1>1, <1>2
<1>4. Joins(a \o b \o c, d)
  BY <1>1, <1>3
<1>5. Joins(a \o b \o c \o d, e)
  BY <1>1, <1>4
<1>6. Len(a) \in Nat /\ Len(b) \in Nat /\ Len(c) \in Nat /\ Len(d) \in Nat /\ Len(e) \in Nat
  OBVIOUS
<1>7. QED
  BY <1>2, <1>3, <1>4, <1>5, <1>6

LEMMA Associative ==
    ASSUME NEW s \in Seq(Nat), NEW t \in Seq(Nat), NEW u \in Seq(Nat)
    PROVE  s \o (t \o u) = (s \o t) \o u
BY SMTT(30), ConcatAssociative

Moving == <<received, result, kernel, pbuffer>>
Bytes == Range(received) \cup Range(result) \cup Range(kernel)
           \cup Range(Contents(pbuffer["writer"])) \cup Range(Contents(pbuffer["reader"]))

(* By the counters, only the set of the bytes has to be looked at.         *)
LEMMA InFlightFacts ==
    ASSUME IInv
    PROVE  /\ InFlight \in Seq(Nat)
           /\ Len(InFlight) = accepted - bytes_buffered
           /\ NothingLostOrInvented <=> Bytes = 1..(accepted - bytes_buffered)
<1> DEFINE w == Contents(pbuffer["writer"])
           d == Contents(pbuffer["reader"])
<1>1. /\ received \in Seq(Nat) /\ result \in Seq(Nat) /\ kernel \in Seq(Nat)
      /\ w \in Seq(Nat) /\ d \in Seq(Nat)
      /\ Len(w) = Size(pbuffer["writer"]) /\ Len(d) = Size(pbuffer["reader"])
  BY PartsType, ThreadNames
<1>2. InFlight = received \o result \o kernel \o w \o d
  BY DEF InFlight
<1>3. Bytes = Range(received) \cup Range(result) \cup Range(kernel) \cup Range(w) \cup Range(d)
  BY DEF Bytes
<1> HIDE DEF w, d
<1>4. /\ InFlight \in Seq(Nat)
      /\ Len(InFlight) = Len(received) + Len(result) + Len(kernel) + Len(w) + Len(d)
      /\ Range(InFlight) = Bytes
  <2>1. w \in Seq(Nat) /\ d \in Seq(Nat)
    BY <1>1
  <2>2. received \in Seq(Nat) /\ result \in Seq(Nat) /\ kernel \in Seq(Nat)
    BY <1>1
  <2>3. /\ received \o result \o kernel \o w \o d \in Seq(Nat)
        /\ Len(received \o result \o kernel \o w \o d)
             = Len(received) + Len(result) + Len(kernel) + Len(w) + Len(d)
        /\ Range(received \o result \o kernel \o w \o d)
             = Range(received) \cup Range(result) \cup Range(kernel)
                 \cup Range(w) \cup Range(d)
    BY <2>1, <2>2, FiveParts
  <2>4. QED
    BY <1>2, <1>3, <2>3
<1>5. Len(InFlight) = accepted - bytes_buffered
  <2>1. /\ accepted \in Nat /\ bytes_buffered \in Nat /\ bytes_in_pipe \in Nat
        /\ Len(received) \in Nat /\ Len(result) \in Nat /\ Len(kernel) \in Nat
        /\ Len(w) \in Nat /\ Len(d) \in Nat
    BY <1>1, LenProperties DEF IInv, TypeOK
  <2>2. /\ accepted = Len(received) + bytes_in_pipe + bytes_buffered
        /\ bytes_in_pipe = Len(kernel) + Len(result) + Len(w) + Len(d)
    BY <1>1 DEF IInv, Conservation, InPipeAccounting
  <2>3. QED
    BY <1>4, <2>1, <2>2
<1>6. {InFlight[i] : i \in 1..Len(InFlight)} = Bytes
  BY <1>4, RangeEquality
<1>7. QED
  BY <1>4, <1>5, <1>6 DEF NothingLostOrInvented

-----------------------------------------------------------------------------
LEMMA InitOrder == Init => OrderInv
<1> SUFFICES ASSUME Init PROVE OrderInv
  OBVIOUS
<1>1. IInv
  BY InitIInv
<1>2. OneMover
  BY ThreadNames DEF Init, OneMover
<1>3. pbuffer["writer"] = NoBuffer /\ pbuffer["reader"] = NoBuffer
  BY ThreadNames DEF Init
<1>4. InFlight = <<>>
  <2>1. InFlight \in Seq(Nat) /\ Len(InFlight) = accepted - bytes_buffered
    BY <1>1, InFlightFacts
  <2>2. accepted = 0 /\ bytes_buffered = 0
    BY DEF Init
  <2>3. QED
    BY <2>1, <2>2, EmptySeq
<1>5. accepted - bytes_buffered = 0
  BY DEF Init
<1>6. FifoUnlessRaced
  BY <1>4, <1>5 DEF FifoUnlessRaced
<1>7. NothingLostOrInvented
  BY <1>4, <1>5 DEF NothingLostOrInvented
<1>8. QED
  BY <1>2, <1>6, <1>7 DEF OrderInv

(* A step that moves no byte and hands over none.                          *)
LEMMA OrderStays ==
    ASSUME OrderInv, InFlight' = InFlight,
           accepted' - bytes_buffered' = accepted - bytes_buffered,
           raced' = raced, OneMover'
    PROVE  OrderInv'
<1>1. FifoUnlessRaced'
  BY DEF OrderInv, FifoUnlessRaced
<1>2. NothingLostOrInvented'
  BY DEF OrderInv, NothingLostOrInvented
<1>3. QED
  BY <1>1, <1>2 DEF OrderInv

LEMMA StillOrder ==
    ASSUME OrderInv, UNCHANGED Moving, UNCHANGED raced,
           accepted' - bytes_buffered' = accepted - bytes_buffered
    PROVE  OrderInv'
<1>1. InFlight' = InFlight
  BY DEF InFlight, Moving
<1>2. OneMover'
  BY DEF OneMover, OrderInv, Moving
<1>3. QED
  BY <1>1, <1>2, OrderStays

(* refill_write_pipe takes the oldest listed buffer: its bytes follow.     *)
LEMMA RefillTakeOrder ==
    ASSUME IInv, IInv', OrderInv, NEW t \in Threads, RefillTake(t)
    PROVE  OrderInv'
<1> DEFINE b == FirstBuffer
           n == accepted - bytes_buffered
<1> USE ThreadNames, NoBufferEmpty
<1>1. /\ pc[t] = "refill" /\ write_buffers # <<>>
      /\ pbuffer' = [pbuffer EXCEPT ![t] = b]
      /\ bytes_buffered' = bytes_buffered - Size(b)
      /\ raced' = (raced \/ pbuffer[Other(t)] # NoBuffer)
      /\ accepted' = accepted /\ UNCHANGED <<received, result, kernel>>
  BY DEF RefillTake, MayWrite, writerVars, readerVars
<1>2. /\ b \in Buffer /\ Size(b) > 0 /\ b.lo = n + 1 /\ b.hi \in Nat
      /\ Size(b) = b.hi + 1 - b.lo
  <2>1. /\ write_buffers \in Seq(Buffer) /\ Len(write_buffers) > 0
        /\ b = write_buffers[1] /\ b \in Buffer
    BY <1>1 DEF IInv, TypeOK, FirstBuffer
  <2>2. Size(b) > 0 /\ b.lo = n + 1
    BY <1>1, <2>1 DEF IInv, BufferListInOrder
  <2>3. b.hi \in Nat
    BY <2>1 DEF Buffer
  <2>4. QED
    BY <2>1, <2>2, <2>3 DEF Size
<1>3. n \in Nat /\ Size(b) \in Nat /\ accepted' - bytes_buffered' = n + Size(b)
  <2>1. accepted \in Nat /\ bytes_buffered \in Nat /\ Len(InFlight) = n
    BY InFlightFacts DEF IInv, TypeOK
  <2>2. Len(InFlight) \in Nat
    BY InFlightFacts, LenProperties
  <2>3. Size(b) \in Nat
    BY <1>2 DEF Buffer
  <2>4. QED
    BY <1>1, <2>1, <2>2, <2>3
<1>4. pbuffer[t] = NoBuffer
  BY <1>1 DEF IInv, LocalsInv
<1>5. pbuffer'[t] = b /\ pbuffer'[Other(t)] = pbuffer[Other(t)] /\ Other(t) # t
  BY <1>1 DEF IInv, TypeOK, Other, Threads
<1>6. \/ t = "writer" /\ Other(t) = "reader"
      \/ t = "reader" /\ Other(t) = "writer"
  <2>1. Other(t) = "writer" \/ Other(t) = "reader"
    BY DEF Other
  <2>2. QED
    BY <1>5, <2>1
<1>7. ~raced' => /\ ~raced /\ pbuffer["writer"] = NoBuffer /\ pbuffer["reader"] = NoBuffer
                 /\ pbuffer'[Other(t)] = NoBuffer
  BY <1>1, <1>4, <1>5, <1>6
<1>8. OneMover'
  BY <1>6, <1>7 DEF OneMover
<1>9. FifoUnlessRaced'
  <2> SUFFICES ASSUME ~raced'
               PROVE  InFlight' = [i \in 1..(accepted' - bytes_buffered') |-> i]
    BY DEF FifoUnlessRaced
  <2> DEFINE r == received \o result \o kernel
             c == Contents(b)
  <2>1. r \in Seq(Nat) /\ c \in Seq(Nat)
    <3>1. received \in Seq(Nat) /\ result \in Seq(Nat) /\ kernel \in Seq(Nat)
      BY PartsType
    <3>2. r \in Seq(Nat)
      BY <3>1, ConcatProperties
    <3>3. c \in Seq(Nat)
      <4>1. b \in Buffer /\ Size(b) >= 0
        BY <1>2, <1>3
      <4>2. QED
        BY <4>1, ContentsType
    <3>4. QED
      BY <3>2, <3>3
  <2>2. InFlight = r \o <<>> \o <<>>
    BY <1>7, NoContents DEF InFlight
  <2>3. InFlight' = r \o c \o <<>> \/ InFlight' = r \o <<>> \o c
    BY <1>1, <1>5, <1>6, <1>7, NoContents DEF InFlight
  <2> HIDE DEF r, c
  <2>4. r \o <<>> = r /\ r \o c \in Seq(Nat)
    BY <2>1, ConcatEmptySeq, ConcatProperties
  <2>5. InFlight = r /\ InFlight' = r \o c
    <3>1. (r \o c) \o <<>> = r \o c
      BY <2>4, ConcatEmptySeq
    <3>2. QED
      BY <2>2, <2>3, <2>4, <3>1
  <2>6. r = [i \in 1..n |-> i]
    BY <1>7, <2>5 DEF OrderInv, FifoUnlessRaced
  <2>7. r \o c = [i \in 1..(n + Size(b)) |-> i]
    <3>1. b \in Buffer /\ b.lo = n + 1 /\ Size(b) >= 0 /\ n \in Nat
      BY <1>2, <1>3
    <3> HIDE DEF b, n
    <3>2. [i \in 1..n |-> i] \o Contents(b) = [i \in 1..(n + Size(b)) |-> i]
      BY <3>1, NextBytes
    <3>3. QED
      BY <2>6, <3>2 DEF c
  <2>8. QED
    BY <1>3, <2>5, <2>7
<1>10. NothingLostOrInvented'
  <2>1. Bytes = 1..n
    BY InFlightFacts DEF OrderInv
  <2>2. Range(Contents(b)) = (n + 1)..(n + Size(b))
    BY <1>2, <1>3, ContentsRange
  <2>3. Range(Contents(NoBuffer)) = {}
    BY NoContents DEF Range
  <2>4. Bytes' = Bytes \cup Range(Contents(b))
    BY <1>1, <1>4, <1>5, <1>6, <2>3 DEF Bytes
  <2>5. Bytes' = 1..(accepted' - bytes_buffered')
    <3> HIDE DEF n, b
    <3>1. QED
      BY <1>3, <2>1, <2>2, <2>4
  <2>6. (NothingLostOrInvented <=> Bytes = 1..(accepted - bytes_buffered))'
    BY InFlightFacts, PTL
  <2>7. QED
    BY <2>5, <2>6
<1>11. QED
  BY <1>8, <1>9, <1>10 DEF OrderInv

(* write(2) moves a thread's buffer to the end of the kernel pipe.         *)
LEMMA RefillWriteOrder ==
    ASSUME IInv, IInv', OrderInv, NEW t \in Threads, RefillWrite(t)
    PROVE  OrderInv'
<1> DEFINE c == Contents(pbuffer[t])
<1> USE ThreadNames, NoBufferEmpty
<1>1. /\ pc[t] = "kwrite" /\ kernel' = kernel \o c
      /\ pbuffer' = [pbuffer EXCEPT ![t] = NoBuffer]
      /\ UNCHANGED <<received, result, accepted, bytes_buffered, raced>>
  BY DEF RefillWrite, writerVars, readerVars, ghosts
<1>2. /\ received \in Seq(Nat) /\ result \in Seq(Nat) /\ kernel \in Seq(Nat)
      /\ c \in Seq(Nat) /\ Contents(pbuffer["writer"]) \in Seq(Nat)
      /\ Contents(pbuffer["reader"]) \in Seq(Nat)
  BY PartsType
<1>3. pbuffer'[t] = NoBuffer /\ \A s \in Threads \ {t} : pbuffer'[s] = pbuffer[s]
  BY <1>1 DEF IInv, TypeOK
<1>4. pbuffer[t] # NoBuffer
  BY <1>1 DEF IInv, LocalsInv
<1>5. OneMover'
  BY <1>1, <1>3 DEF OrderInv, OneMover
<1>6. FifoUnlessRaced'
  <2> SUFFICES ASSUME ~raced'
               PROVE  InFlight' = [i \in 1..(accepted' - bytes_buffered') |-> i]
    BY DEF FifoUnlessRaced
  <2>1. InFlight = [i \in 1..(accepted - bytes_buffered) |-> i]
    BY <1>1 DEF OrderInv, FifoUnlessRaced
  <2> DEFINE r == received \o result
  <2>2. r \in Seq(Nat)
    BY <1>2, ConcatProperties
  <2>3. \A s \in Threads \ {t} : pbuffer[s] = NoBuffer
    BY <1>1, <1>4 DEF OrderInv, OneMover
  <2>4. InFlight = r \o kernel \o c \o <<>> \/ InFlight = r \o kernel \o <<>> \o c
    <3>1. CASE t = "writer"
      BY <2>3, <3>1, NoContents DEF InFlight
    <3>2. CASE t = "reader"
      BY <2>3, <3>2, NoContents DEF InFlight
    <3>3. QED
      BY <3>1, <3>2
  <2>5. InFlight' = r \o (kernel \o c) \o <<>> \o <<>>
    <3>1. pbuffer'["writer"] = NoBuffer /\ pbuffer'["reader"] = NoBuffer
      BY <1>3, <2>3
    <3>2. QED
      BY <1>1, <3>1, NoContents DEF InFlight
  <2> HIDE DEF r, c
  <2>6. r \o kernel \in Seq(Nat) /\ kernel \o c \in Seq(Nat)
    BY <1>2, <2>2, ConcatProperties
  <2>7. r \o (kernel \o c) = (r \o kernel) \o c /\ (r \o kernel) \o c \in Seq(Nat)
    <3>1. r \o (kernel \o c) = (r \o kernel) \o c
      BY <1>2, <2>2, Associative
    <3>2. QED
      BY <1>2, <2>6, <3>1, ConcatProperties
  <2>8. InFlight = (r \o kernel) \o c
    <3>1. (r \o kernel) \o <<>> = r \o kernel
      BY <2>6, ConcatEmptySeq
    <3>2. ((r \o kernel) \o c) \o <<>> = (r \o kernel) \o c
      BY <2>7, ConcatEmptySeq
    <3>3. QED
      BY <2>4, <3>1, <3>2
  <2>9. InFlight' = (r \o kernel) \o c
    <3>1. ((r \o kernel) \o c) \o <<>> = (r \o kernel) \o c
      BY <2>7, ConcatEmptySeq
    <3>2. QED
      BY <2>5, <2>7, <3>1
  <2>10. QED
    BY <1>1, <2>1, <2>8, <2>9
<1>7. NothingLostOrInvented'
  <2>1. Bytes = 1..(accepted - bytes_buffered)
    BY InFlightFacts DEF OrderInv
  <2>2. Range(Contents(NoBuffer)) = {}
    BY NoContents DEF Range
  <2>3. Range(kernel') = Range(kernel) \cup Range(c)
    BY <1>1, <1>2, RangeConcatenation
  <2>4. Bytes' = Bytes
    <3>1. CASE t = "writer"
      BY <1>1, <1>3, <2>2, <2>3, <3>1 DEF Bytes
    <3>2. CASE t = "reader"
      BY <1>1, <1>3, <2>2, <2>3, <3>2 DEF Bytes
    <3>3. QED
      BY <3>1, <3>2
  <2>5. (NothingLostOrInvented <=> Bytes = 1..(accepted - bytes_buffered))'
    BY InFlightFacts, PTL
  <2>6. QED
    BY <1>1, <2>1, <2>4, <2>5
<1>8. QED
  BY <1>5, <1>6, <1>7 DEF OrderInv

(* read(2) takes the oldest bytes of the kernel pipe.                      *)
LEMMA ReadKernelOrder ==
    ASSUME IInv, OrderInv, ReadKernel
    PROVE  OrderInv'
<1> DEFINE k == Min2(ReadChunk, Len(kernel))
           w == Contents(pbuffer["writer"])
           d == Contents(pbuffer["reader"])
<1>1. /\ pc["reader"] = "r_read" /\ result' = SubSeq(kernel, 1, k)
      /\ kernel' = SubSeq(kernel, k + 1, Len(kernel))
      /\ UNCHANGED <<received, accepted, bytes_buffered, pbuffer, raced>>
  BY DEF ReadKernel, LeftInKernel, writerVars, ghosts
<1>2. received \in Seq(Nat) /\ kernel \in Seq(Nat) /\ result = <<>>
  BY <1>1 DEF IInv, TypeOK, LocalsInv
<1>3. k \in Nat /\ k <= Len(kernel) /\ Len(kernel) \in Nat
  <2>1. ReadChunk \in Nat /\ Len(kernel) \in Nat
    BY <1>2, ReadChunkBounds, LenProperties DEF IInv, TypeOK
  <2>2. QED
    BY <2>1 DEF Min2
<1> HIDE DEF k
<1>4. result' \in Seq(Nat) /\ kernel' \in Seq(Nat) /\ result' \o kernel' = kernel
  <2>1. result' \in Seq(Nat) /\ kernel' \in Seq(Nat)
    BY <1>1, <1>2, <1>3, SubSeqProperties
  <2>2. SubSeq(kernel, 1, k) \o SubSeq(kernel, k + 1, Len(kernel))
          = SubSeq(kernel, 1, Len(kernel))
    <3>1. /\ 1 \in 1..(Len(kernel) + 1) /\ k \in (1 - 1)..Len(kernel)
          /\ Len(kernel) \in k..Len(kernel)
      BY <1>3
    <3>2. QED
      BY <1>2, <3>1, ConcatAdjacentSubSeq
  <2>3. SubSeq(kernel, 1, Len(kernel)) = kernel
    BY <1>2, SubSeqFull
  <2>4. QED
    BY <1>1, <2>1, <2>2, <2>3
<1>5. received \o result' \o kernel' = received \o result \o kernel
  <2>1. received \o result = received
    BY <1>2, ConcatEmptySeq
  <2>2. received \o result' \o kernel' = received \o (result' \o kernel')
    BY <1>2, <1>4, Associative
  <2>3. QED
    BY <1>4, <2>1, <2>2
<1>6. InFlight' = InFlight
  <2>1. pbuffer' = pbuffer /\ received' = received
    BY <1>1
  <2>2. QED
    BY <1>5, <2>1 DEF InFlight
<1>7. OneMover'
  BY <1>1 DEF OrderInv, OneMover
<1>8. QED
  BY <1>1, <1>6, <1>7, OrderStays

LEMMA ReadPostOrder ==
    ASSUME IInv, OrderInv, ReadPost
    PROVE  OrderInv'
<1>1. /\ received' = received \o result /\ result' = <<>>
      /\ UNCHANGED <<kernel, accepted, bytes_buffered, pbuffer, raced>>
  BY DEF ReadPost, writerVars, ghosts
<1>2. received \in Seq(Nat) /\ result \in Seq(Nat)
  BY DEF IInv, TypeOK
<1>3. received' \o result' = received \o result
  <2>1. received \o result \in Seq(Nat)
    BY <1>2, ConcatProperties
  <2>2. QED
    BY <1>1, <2>1, ConcatEmptySeq
<1>4. InFlight' = InFlight
  BY <1>1, <1>3 DEF InFlight
<1>5. OneMover'
  BY <1>1 DEF OrderInv, OneMover
<1>6. QED
  BY <1>1, <1>4, <1>5, OrderStays

LEMMA AddOrder ==
    ASSUME IInv, OrderInv, AddToWriteBuffer
    PROVE  OrderInv'
<1>1. accepted \in Nat /\ bytes_buffered \in Nat /\ WriteChunk \in Nat
  BY WriteChunkBounds DEF IInv, TypeOK
<1>2. /\ accepted' = accepted + WriteChunk
      /\ bytes_buffered' = bytes_buffered + WriteChunk
      /\ UNCHANGED Moving /\ UNCHANGED raced
  BY DEF AddToWriteBuffer, Moving, readerVars, ghosts
<1>3. accepted' - bytes_buffered' = accepted - bytes_buffered
  BY <1>1, <1>2
<1>4. QED
  BY <1>2, <1>3, StillOrder

(* The other steps move nothing.                                           *)
LEMMA QuietOrder ==
    ASSUME IInv, OrderInv, UNCHANGED Moving, UNCHANGED raced,
           UNCHANGED <<accepted, bytes_buffered>>
    PROVE  OrderInv'
BY StillOrder

LEMMA RefillOrder ==
    ASSUME IInv, IInv', OrderInv, NEW t \in Threads, Refill(t)
    PROVE  OrderInv'
<1>1. CASE RefillTake(t)
  BY <1>1, RefillTakeOrder
<1>2. CASE RefillWrite(t)
  BY <1>2, RefillWriteOrder
<1>3. CASE RefillStop(t) \/ RefillEnter(t) \/ RefillAbort(t)
  BY <1>3, QuietOrder
  DEF RefillStop, RefillEnter, RefillAbort, Moving, shared, writerVars, readerVars, ghosts
<1>4. QED
  BY <1>1, <1>2, <1>3 DEF Refill

LEMMA NextOrder ==
    ASSUME IInv, IInv', OrderInv, [Next]_vars
    PROVE  OrderInv'
<1>1. CASE Writer
  <2>1. CASE Refill("writer")
    BY <2>1, RefillOrder, ThreadNames
  <2>2. CASE AddToWriteBuffer
    BY <2>2, AddOrder
  <2>3. CASE WriteCall \/ WriteAdded \/ BufferTopup
    BY <2>3, QuietOrder
    DEF WriteCall, WriteAdded, BufferTopup, Moving, shared, writerVars, readerVars, ghosts
  <2>4. CASE EofCall \/ FlushBuffers \/ FlushBuffersDone \/ FlushClock \/ FlushWait
    BY <2>4, QuietOrder
    DEF EofCall, FlushBuffers, FlushBuffersDone, FlushClock, FlushWait,
        Moving, shared, writerVars, readerVars, ghosts
  <2>5. CASE FlushEnd \/ EofFlag \/ EofClose
    BY <2>5, QuietOrder
    DEF FlushEnd, EofFlag, EofClose, Moving, shared, writerVars, readerVars, ghosts
  <2>6. QED
    BY <1>1, <2>1, <2>2, <2>3, <2>4, <2>5 DEF Writer
<1>2. CASE Reader
  <2>1. CASE Refill("reader")
    BY <2>1, RefillOrder, ThreadNames
  <2>2. CASE ReadKernel
    BY <2>2, ReadKernelOrder
  <2>3. CASE ReadPost
    BY <2>3, ReadPostOrder
  <2>4. CASE ReadEnd
    <3>1. pc["reader"] = "r_read" /\ result' = <<>>
      BY <2>4 DEF ReadEnd
    <3>2. result = <<>>
      BY <3>1 DEF IInv, LocalsInv
    <3>3. QED
      BY <2>4, <3>1, <3>2, QuietOrder DEF ReadEnd, Moving, shared, writerVars, ghosts
  <2>5. CASE ReadCall \/ SeeEof \/ ReadHead
    BY <2>5, QuietOrder
    DEF ReadCall, SeeEof, ReadHead, Moving, shared, writerVars, readerVars, ghosts
  <2>6. QED
    BY <1>2, <2>1, <2>2, <2>3, <2>4, <2>5 DEF Reader
<1>3. CASE Stopped \/ UNCHANGED vars
  BY <1>3, QuietOrder
  DEF Stopped, vars, Moving, shared, writerVars, readerVars, ghosts
<1>4. QED
  BY <1>1, <1>2, <1>3 DEF Next

(* FifoUnlessRaced, for every instance: as long as the two threads never   *)
(* held a buffer at a time, what refill_write_pipe moved and the reader    *)
(* got is the stream thread_pipe_write was given, in its order.            *)
THEOREM FirstInFirstOut == Spec => []FifoUnlessRaced
<1>1. Init => IInv /\ OrderInv
  BY InitIInv, InitOrder
<1>2. IInv /\ OrderInv /\ [Next]_vars => IInv' /\ OrderInv'
  BY NextIInv, NextOrder
<1>3. OrderInv => FifoUnlessRaced
  BY DEF OrderInv
<1>4. QED
  BY <1>1, <1>2, <1>3, PTL DEF Spec

(* NothingLostOrInvented, for every instance: even when both threads wrote *)
(* with the mutex released, every byte is there exactly once.              *)
THEOREM EveryByteOnce == Spec => []NothingLostOrInvented
<1>1. Init => IInv /\ OrderInv
  BY InitIInv, InitOrder
<1>2. IInv /\ OrderInv /\ [Next]_vars => IInv' /\ OrderInv'
  BY NextIInv, NextOrder
<1>3. OrderInv => NothingLostOrInvented
  BY DEF OrderInv
<1>4. QED
  BY <1>1, <1>2, <1>3, PTL DEF Spec

-----------------------------------------------------------------------------
(* A pipe that is flushed, with time enough.                               *)

AlwaysFlushed == FALSE \notin FlushModes /\ ~Timeouts

Ending == {"f_end", "e_flag", "e_close", "done"}

(* After its first loop thread_pipe_eof has emptied the list, after its    *)
(* second one the pipe; the handle is closed last.                         *)
FlushInv ==
    /\ AssertsHold
    /\ pc["writer"] = "f_wait" \/ pc["writer"] \in Ending => write_buffers = <<>>
    /\ pc["writer"] \in Ending => bytes_in_pipe = 0
    /\ ~write_open => pc["writer"] = "done"

LEMMA InitFlush == Init => FlushInv
BY ThreadNames DEF Init, FlushInv, AssertsHold, Ending

LEMMA FlushInvClean ==
    ASSUME IInv, FlushInv
    PROVE  FlushClean
<1>1. ASSUME pc["writer"] \in {"e_flag", "e_close", "done"}
      PROVE  Len(received) = accepted
  <2>1. bytes_in_pipe = 0 /\ bytes_buffered = 0
    BY <1>1 DEF FlushInv, Ending, IInv, BufferListInOrder
  <2>2. Len(received) \in Nat
    BY LenProperties DEF IInv, TypeOK
  <2>3. QED
    BY <2>1, <2>2 DEF IInv, Conservation
<1>2. QED
  BY <1>1 DEF FlushInv, FlushClean, FlushedBeforeEof

(* A thread about to write holds bytes that bytes_in_pipe counts.          *)
LEMMA HeldIsCounted ==
    ASSUME IInv, NEW t \in Threads, pc[t] = "kcheck"
    PROVE  bytes_in_pipe > 0
<1>1. \A s \in Threads : Size(pbuffer[s]) \in Nat
  <2> TAKE s \in Threads
  <2>1. Size(pbuffer[s]) > 0 \/ Size(pbuffer[s]) = 0
    BY NoBufferEmpty DEF IInv, LocalsInv
  <2>2. Size(pbuffer[s]) \in Int
    BY DEF IInv, TypeOK, Size, Buffer
  <2>3. QED
    BY <2>1, <2>2
<1>2. Size(pbuffer[t]) > 0
  BY DEF IInv, LocalsInv
<1>3. Len(kernel) \in Nat /\ Len(result) \in Nat
  BY LenProperties DEF IInv, TypeOK
<1>4. /\ Size(pbuffer["writer"]) \in Nat /\ Size(pbuffer["reader"]) \in Nat
      /\ Size(pbuffer["writer"]) > 0 \/ Size(pbuffer["reader"]) > 0
  BY <1>1, <1>2, ThreadNames
<1>5. QED
  BY <1>3, <1>4 DEF IInv, InPipeAccounting

(* A step that leaves the writer where it is, the list and the handle.     *)
LEMMA StillFlush ==
    ASSUME FlushInv, pc'["writer"] = pc["writer"], UNCHANGED <<write_open, aborted>>,
           write_buffers = <<>> => write_buffers' = <<>>,
           write_buffers = <<>> /\ bytes_in_pipe = 0 => bytes_in_pipe' = 0
    PROVE  FlushInv'
BY DEF FlushInv, AssertsHold, Ending

(* A step of the writer to a place before the end.                         *)
LEMMA EarlyFlush ==
    ASSUME FlushInv, pc["writer"] # "done", UNCHANGED <<write_open, aborted>>,
           pc'["writer"] \notin Ending \cup {"f_wait"}
    PROVE  FlushInv'
BY DEF FlushInv, AssertsHold, Ending

LEMMA RefillFlush ==
    ASSUME IInv, FlushInv, NEW t \in Threads, Refill(t)
    PROVE  FlushInv'
<1> USE ThreadNames
<1>1. pc \in [Threads -> WriterPlaces \cup ReaderPlaces]
  BY DEF IInv, TypeOK
<1>2. CASE RefillTake(t)
  <2>1. /\ write_buffers # <<>> /\ pc[t] = "refill"
        /\ pc' = [pc EXCEPT ![t] = "kcheck"] /\ UNCHANGED <<write_open, aborted>>
    BY <1>2 DEF RefillTake, MayWrite, Goto
  <2>2. CASE t = "writer"
    BY <1>1, <2>1, <2>2, EarlyFlush DEF Ending
  <2>3. CASE t = "reader"
    BY <1>1, <2>1, <2>3, StillFlush
  <2>4. QED
    BY <2>2, <2>3
<1>3. CASE RefillStop(t)
  <2>1. /\ pc[t] = "refill" /\ pc' = [pc EXCEPT ![t] = ret[t]]
        /\ UNCHANGED <<write_open, aborted, write_buffers, bytes_in_pipe>>
    BY <1>3 DEF RefillStop, Goto, shared, ghosts
  <2>2. CASE t = "writer"
    <3>1. ret["writer"] \in {"idle", "w_added", "f_time"}
      BY <2>1, <2>2 DEF IInv, LocalsInv, Refilling
    <3>2. QED
      BY <1>1, <2>1, <2>2, <3>1, EarlyFlush DEF Ending
  <2>3. CASE t = "reader"
    BY <1>1, <2>1, <2>3, StillFlush
  <2>4. QED
    BY <2>2, <2>3
<1>4. CASE RefillEnter(t) \/ RefillWrite(t)
  <2>1. PICK l \in {"kwrite", "refill"} :
          /\ pc[t] \in {"kcheck", "kwrite"} /\ pc' = [pc EXCEPT ![t] = l]
          /\ UNCHANGED <<write_open, aborted, write_buffers, bytes_in_pipe>>
    BY <1>4 DEF RefillEnter, RefillWrite, Goto, shared, ghosts
  <2>2. CASE t = "writer"
    BY <1>1, <2>1, <2>2, EarlyFlush DEF Ending
  <2>3. CASE t = "reader"
    BY <1>1, <2>1, <2>3, StillFlush
  <2>4. QED
    BY <2>2, <2>3
<1>5. ASSUME RefillAbort(t) PROVE FALSE
  <2>1. pc[t] = "kcheck" /\ ~write_open
    BY <1>5 DEF RefillAbort
  <2>2. bytes_in_pipe = 0
    BY <2>1 DEF FlushInv, Ending
  <2>3. QED
    BY <2>1, <2>2, HeldIsCounted
<1>6. QED
  BY <1>2, <1>3, <1>4, <1>5 DEF Refill

LEMMA WriterFlush ==
    ASSUME AlwaysFlushed, IInv, FlushInv, Writer
    PROVE  FlushInv'
<1> USE ThreadNames
<1>1. pc \in [Threads -> WriterPlaces \cup ReaderPlaces]
  BY DEF IInv, TypeOK
<1>2. CASE Refill("writer")
  BY <1>2, RefillFlush
<1>3. CASE WriteCall \/ AddToWriteBuffer \/ WriteAdded \/ BufferTopup
  BY <1>1, <1>3, EarlyFlush
  DEF WriteCall, AddToWriteBuffer, WriteAdded, BufferTopup, CallRefill, Goto,
      shared, ghosts, Ending
<1>4. CASE EofCall
  <2>1. /\ pc["writer"] = "idle" /\ pc' = [pc EXCEPT !["writer"] = "f_loop"]
        /\ UNCHANGED <<write_open, aborted>>
    BY <1>4, PipeAssumption DEF EofCall, AlwaysFlushed, AfterEofCall, Goto, ghosts
  <2>2. QED
    BY <1>1, <2>1, EarlyFlush DEF Ending
<1>5. CASE FlushBuffers \/ FlushClock
  BY <1>1, <1>5, EarlyFlush
  DEF FlushBuffers, FlushClock, AlwaysFlushed, CallRefill, Goto, shared, ghosts, Ending
<1>6. CASE FlushBuffersDone \/ FlushWait
  BY <1>1, <1>6
  DEF FlushBuffersDone, FlushWait, Drained, AlwaysFlushed, Goto, shared, ghosts,
      FlushInv, AssertsHold, Ending
<1>7. CASE FlushEnd \/ EofFlag \/ EofClose
  BY <1>1, <1>7
  DEF FlushEnd, EofFlag, EofClose, Goto, ghosts, FlushInv, AssertsHold, Ending
<1>8. QED
  BY <1>2, <1>3, <1>4, <1>5, <1>6, <1>7 DEF Writer

LEMMA ReaderFlush ==
    ASSUME IInv, IInv', FlushInv, Reader
    PROVE  FlushInv'
<1> USE ThreadNames
<1>1. pc \in [Threads -> WriterPlaces \cup ReaderPlaces]
  BY DEF IInv, TypeOK
<1>2. CASE Refill("reader")
  BY <1>2, RefillFlush
<1>3. CASE ReadPost
  <2>1. bytes_in_pipe = 0 => bytes_in_pipe' = 0
    <3>1. bytes_in_pipe' = bytes_in_pipe - Len(result) /\ bytes_in_pipe' \in Nat
      BY <1>3 DEF ReadPost, LessInPipe, IInv, TypeOK
    <3>2. Len(result) \in Nat
      BY LenProperties DEF IInv, TypeOK
    <3>3. QED
      BY <3>1, <3>2
  <2>2. pc'["writer"] = pc["writer"]
    BY <1>1, <1>3 DEF ReadPost, CallRefill, Goto
  <2>3. QED
    BY <1>3, <2>1, <2>2, StillFlush DEF ReadPost, ghosts
<1>4. CASE ReadCall \/ SeeEof \/ ReadHead \/ ReadKernel \/ ReadEnd
  <2>1. pc'["writer"] = pc["writer"]
    BY <1>1, <1>4 DEF ReadCall, SeeEof, ReadHead, ReadKernel, ReadEnd, Goto
  <2>2. UNCHANGED <<write_open, aborted, write_buffers, bytes_in_pipe>>
    BY <1>4 DEF ReadCall, SeeEof, ReadHead, ReadKernel, ReadEnd, shared, ghosts
  <2>3. QED
    BY <2>1, <2>2, StillFlush
<1>5. QED
  BY <1>2, <1>3, <1>4 DEF Reader

(* FlushClean, for every instance in which the writer ends with            *)
(* thread_pipe_eof(ph, 1) and its 15 seconds do not run out: the end is    *)
(* marked only after the reader has every byte, and no assert of           *)
(* refill_write_pipe fails because the handle was closed.                  *)
THEOREM FlushedEndIsClean == AlwaysFlushed => (Spec => []FlushClean)
<1> SUFFICES ASSUME AlwaysFlushed PROVE Spec => []FlushClean
  OBVIOUS
<1>1. Init => IInv /\ FlushInv
  BY InitIInv, InitFlush
<1>2. IInv /\ FlushInv /\ [Next]_vars => IInv' /\ FlushInv'
  <2> SUFFICES ASSUME IInv, FlushInv, [Next]_vars PROVE IInv' /\ FlushInv'
    OBVIOUS
  <2>1. IInv'
    BY NextIInv
  <2>2. CASE Writer
    BY <2>1, <2>2, WriterFlush
  <2>3. CASE Reader
    BY <2>1, <2>3, ReaderFlush
  <2>4. CASE Stopped \/ UNCHANGED vars
    BY <2>1, <2>4, StillFlush DEF Stopped, vars, shared, ghosts
  <2>5. QED
    BY <2>1, <2>2, <2>3, <2>4 DEF Next
<1>3. IInv /\ FlushInv => FlushClean
  BY FlushInvClean
<1>4. QED
  BY <1>1, <1>2, <1>3, PTL DEF Spec
=============================================================================

-------------------------- MODULE AnyClientProofs --------------------------
(***************************************************************************)
(* A session of the server, for every set of recordings, every program of  *)
(* the client and every size of the blocks: what it leaves behind, what    *)
(* the numbers of its chunks stand for, and which chunks and blocks it     *)
(* sends.                                                                  *)
(*                                                                         *)
(* Each command has several ways out, and infile, tystream, chunk_in_buf   *)
(* and the two buffers are set in different places of each.  The proofs go *)
(* through them one by one, four times: for the agreement of the first     *)
(* three (IInv), for what everything holds (ConnInv), for the chunk in buf *)
(* (ChunkAhead) and for the block in bufx (BlockAhead).                    *)
(***************************************************************************)
EXTENDS AnyClient, ChunkSourceProofs

(* An open stream is a record that NoStream cannot be taken for.           *)
Streams == [of : Nat, start_chunk : Nat, index : Int]

(* The inductive invariant.                                                *)
IInv ==
    /\ infile \in BOOLEAN
    /\ tystream \in {NoStream} \cup Streams
    /\ NothingLeftBehind

state == <<infile, tystream, chunk_in_buf>>

-----------------------------------------------------------------------------
LEMMA NoStreamIsNone == NoStream \notin Streams
BY DEF NoStream, Streams

(* A recording that can be opened has a number, and may start anywhere.    *)
LEMMA RecordingOpens ==
    ASSUME NEW r \in DOMAIN Recordings
    PROVE  /\ [of |-> r, start_chunk |-> 0, index |-> -1] \in Streams
           /\ [of |-> r, start_chunk |-> Recordings[r].start, index |-> -1] \in Streams
<1>1. r \in Nat /\ Recordings[r].start \in Nat
  BY ServerAssumption
<1>2. QED
  BY <1>1 DEF Streams

(* Most ways out leave the three variables alone.                          *)
LEMMA SameStateIInv == IInv /\ UNCHANGED state => IInv'
BY DEF IInv, NothingLeftBehind, state

LEMMA RefuseIInv ==
    ASSUME NEW cmd, NEW reply, IInv, Refuse(cmd, reply) \/ Crash(cmd, reply)
    PROVE  IInv'
BY SameStateIInv DEF Refuse, Crash, serverVars, state

-----------------------------------------------------------------------------
(* OPTY                                                                    *)
LEMMA OpenIInv == IInv /\ (OpenRefused \/ OpenHangs \/ OpenProbeFails \/ Open) => IInv'
<1> SUFFICES ASSUME IInv, OpenRefused \/ OpenHangs \/ OpenProbeFails \/ Open PROVE IInv'
  OBVIOUS
<1>1. CASE OpenRefused
  BY <1>1, SameStateIInv DEF OpenRefused, state
<1>2. CASE OpenHangs
  <2>1. arg \in DOMAIN Recordings
    BY <1>2 DEF OpenHangs, Opened
  <2>2. infile' = TRUE /\ tystream' \in Streams
    BY <1>2, <2>1, RecordingOpens DEF OpenHangs
  <2>3. QED
    BY <2>2, NoStreamIsNone DEF IInv, NothingLeftBehind
<1>3. CASE OpenProbeFails
  BY <1>3 DEF OpenProbeFails, Opened, IInv, NothingLeftBehind
<1>4. CASE Open
  <2>1. arg \in DOMAIN Recordings
    BY <1>4 DEF Open
  <2>2. infile' = TRUE /\ tystream' \in Streams
    BY <1>4, <2>1, RecordingOpens DEF Open
  <2>3. QED
    BY <2>2, NoStreamIsNone DEF IInv, NothingLeftBehind
<1>5. QED
  BY <1>1, <1>2, <1>3, <1>4

(* COTY, EXIT and PLTY                                                     *)
LEMMA CloseIInv == IInv /\ (Close \/ Exit \/ PlayStream) => IInv'
<1> SUFFICES ASSUME IInv, Close \/ Exit \/ PlayStream PROVE IInv'
  OBVIOUS
<1>1. CASE Close
  BY <1>1 DEF Close, NoCursor, IInv, NothingLeftBehind
<1>2. CASE Exit
  BY <1>2, SameStateIInv DEF Exit, state
<1>3. CASE PlayStream
  <2>1. infile' = FALSE /\ tystream' = NoStream /\ chunk_in_buf' = NoCursor
    BY <1>3 DEF PlayStream
  <2>2. QED
    BY <2>1 DEF NoCursor, IInv, NothingLeftBehind
<1>4. QED
  BY <1>1, <1>2, <1>3

(* SCTY and SCTX move the cursor of an open stream only.                   *)
LEMMA SendIInv == IInv /\ (SendChunk \/ SendBlock \/ BlockUnreadable) => IInv'
<1> SUFFICES ASSUME IInv, SendChunk \/ SendBlock \/ BlockUnreadable PROVE IInv'
  OBVIOUS
<1>1. infile /\ UNCHANGED <<infile, tystream>>
  <2>1. CASE SendChunk
    BY <2>1 DEF SendChunk
  <2>2. CASE SendBlock
    BY <2>2 DEF SendBlock
  <2>3. CASE BlockUnreadable
    BY <2>3 DEF BlockUnreadable
  <2>4. QED
    BY <2>1, <2>2, <2>3
<1>2. QED
  BY <1>1 DEF IInv, NothingLeftBehind

(* CITY gives the open stream an index.                                    *)
LEMMA IndexIInv == IInv /\ (IndexCached \/ CreateIndex) => IInv'
<1> SUFFICES ASSUME IInv, IndexCached \/ CreateIndex PROVE IInv'
  OBVIOUS
<1>1. infile /\ UNCHANGED infile
  BY DEF IndexCached, CreateIndex, Uncached
<1>2. tystream \in Streams
  BY <1>1 DEF IInv, NothingLeftBehind
<1>3. PICK i \in Nat : tystream' = [tystream EXCEPT !.index = i]
  <2>1. CASE IndexCached
    BY <2>1, ServerAssumption DEF IndexCached
  <2>2. CASE CreateIndex
    BY <2>2, <1>2 DEF CreateIndex, Streams
  <2>3. QED
    BY <2>1, <2>2
<1>4. tystream' \in Streams
  BY <1>2, <1>3 DEF Streams
<1>5. QED
  BY <1>1, <1>4, NoStreamIsNone DEF IInv, NothingLeftBehind

(* The commands that only answer, and those that crash.                    *)
OnlyAnswers ==
    \/ List \/ NoChunk \/ NoBlock \/ IndexedAlready \/ IndexNoFsid \/ IndexOneGop
    \/ SendSeq \/ SeqNotIndexed \/ SendIFrame \/ IFrameNotIndexed
    \/ NotOpen \/ Unrecognised

LEMMA OnlyAnswersReply ==
    OnlyAnswers => \E cmd, reply : Refuse(cmd, reply) \/ Crash(cmd, reply)
<1> SUFFICES ASSUME OnlyAnswers PROVE \E cmd, reply : Refuse(cmd, reply) \/ Crash(cmd, reply)
  OBVIOUS
<1>1. CASE List \/ NoChunk \/ NoBlock \/ Unrecognised
  BY <1>1 DEF List, NoChunk, NoBlock, Unrecognised
<1>2. CASE IndexedAlready \/ IndexNoFsid \/ IndexOneGop
  BY <1>2 DEF IndexedAlready, IndexNoFsid, IndexOneGop
<1>3. CASE SendSeq \/ SeqNotIndexed \/ SendIFrame \/ IFrameNotIndexed
  BY <1>3 DEF SendSeq, SeqNotIndexed, SendIFrame, IFrameNotIndexed
<1>4. CASE NotOpen
  BY <1>4 DEF NotOpen
<1>5. QED
  BY <1>1, <1>2, <1>3, <1>4 DEF OnlyAnswers

LEMMA AnswerIInv == ASSUME IInv, OnlyAnswers PROVE IInv'
BY OnlyAnswersReply, RefuseIInv

-----------------------------------------------------------------------------
LEMMA InitIInv == Init => IInv
BY DEF Init, ServerInit, IInv, NothingLeftBehind

LEMMA NextIInv == IInv /\ [Next]_vars => IInv'
<1> SUFFICES ASSUME IInv, [Next]_vars PROVE IInv'
  OBVIOUS
<1>1. CASE Ask
  BY <1>1, SameStateIInv DEF Ask, serverVars, state
<1>2. CASE ServerStep
  BY <1>2, OpenIInv, CloseIInv, SendIInv, IndexIInv, AnswerIInv DEF ServerStep, OnlyAnswers
<1>3. CASE UNCHANGED vars
  BY <1>3, SameStateIInv DEF vars, serverVars, state
<1>4. QED
  BY <1>1, <1>2, <1>3 DEF Next

(* infile, tystream and the cursor agree after every way out of every      *)
(* command: no refused or failed open, no close and no played stream       *)
(* leaves a cursor behind that the next recording could be read with.      *)
THEOREM SessionLeavesNothing == Spec => []NothingLeftBehind
<1>1. IInv => NothingLeftBehind
  BY DEF IInv
<1>2. QED
  BY <1>1, InitIInv, NextIInv, PTL DEF Spec

-----------------------------------------------------------------------------
(* What the connection holds: a buffer of one chunk and one of a block,    *)
(* and while a stream is open the list of its recording.                   *)
OpenStreams == [of : DOMAIN Recordings, start_chunk : Nat,
                index : {-1} \cup DOMAIN Recordings]
Content == OnSomeDisk \cup {Blank}
Buffers(k) == {b \in Seq(Content) : Len(b) = k}
ListOK ==
    /\ Fsid_list_count \in 0..MaxFsidList /\ totalchunks \in Nat
    /\ Fsid_list # <<>> => DOMAIN Fsid_list = 0..(MaxFsidList - 1)
ConnInv ==
    /\ fsid \in {-1} \cup Nat
    /\ tystream \in {NoStream} \cup OpenStreams
    /\ chunk_in_buf \in {-1} \cup Nat
    /\ buf \in Buffers(1) /\ bufx \in Buffers(CHUNKX)
    /\ alive \in {"up", "exited", "crashed", "hung"}
    /\ ListOK
    /\ infile => Numbered(tystream.of)

(* The server has read all but the command it was asked last.              *)
Asking ==
    /\ program \in Programs
    /\ \/ request = <<>>
       \/ request = <<asked>> /\ asked \in program /\ to_client = <<>>

(* The chunk, and the block, that were read ahead.                         *)
ChunkAhead ==
    ~Uses("SCTX") /\ infile /\ chunk_in_buf \in 0..(totalchunks - 1) =>
      buf = <<Stream(tystream.of)[chunk_in_buf + 1]>>
BlockAhead ==
    ~Uses("SCTY") /\ infile /\ chunk_in_buf # NoCursor /\ InsideAPart(chunk_in_buf, CHUNKX) =>
      bufx = Block(tystream.of, chunk_in_buf, CHUNKX)

(* The recordings that the probe gets through, and an open stream is one.  *)
Probes(r) == Chunks(r) > 1 /\ Chunks(r) \div ProbeChunks # 0
Probed ==
    infile /\ alive = "up" =>
      Probes(tystream.of) /\ tystream.start_chunk = Recordings[tystream.of].start

(* What a client that follows tyget asks for, and parts that a block does  *)
(* not reach across.                                                       *)
AsksAsTyget ==
    \A p \in Programs : \A c \in p : \A r \in DOMAIN Recordings :
      c.cmd = "SCTX" /\ Probes(r) => c.arg + CHUNKX # NumberOfChunks(r)
LongParts ==
    \A r \in DOMAIN Recordings : Probes(r) =>
      \A i \in 2..Len(Parts(r)) : Parts(r)[i] > CHUNKX + 2

-----------------------------------------------------------------------------
(* Every chunk that can be read is one of a disk.                          *)
LEMMA StreamTyped ==
    ASSUME NEW r \in DOMAIN Recordings, NEW m \in 0..(Chunks(r) - 1)
    PROVE  Stream(r)[m + 1] \in OnSomeDisk
<1>1. Chunks(r) \in Nat /\ m \in Nat /\ m < Chunks(r)
  BY StreamPlaces
<1>2. PICK i \in 1..Len(Parts(r)) : FirstNumber(r)[i] <= m /\ m < FirstNumber(r)[i + 1]
  BY <1>1, NumberInPart
<1>3. FirstNumber(r)[i] \in Int
  BY FirstNumbers, PartsType
<1>4. m + 1 - FirstNumber(r)[i] \in Nat
  BY <1>1, <1>2, <1>3
<1>5. i \in 1..MaxFsidList
  BY PartsType, ListAssumption
<1>6. Stream(r)[m + 1] = DiskChunk(r, i, m + 1 - FirstNumber(r)[i])
  BY <1>1, <1>2, StreamPlaces
<1>7. QED
  BY <1>4, <1>5, <1>6 DEF DiskChunk, OnSomeDisk

LEMMA ReadTyped ==
    ASSUME NEW r \in DOMAIN Recordings, Numbered(r), NEW m \in Nat,
           NEW works, NEW torn, NEW old \in Buffers(1)
    PROVE  ReadChunk(m, works, torn, old) \in Buffers(1)
<1>1. totalchunks = Chunks(r) /\ totalchunks \in Nat
  BY StreamPlaces DEF Numbered
<1>2. CASE m < totalchunks
  <2>1. m \in 0..(totalchunks - 1) /\ Stream(r)[m + 1] \in Content
    BY <1>1, <1>2, StreamTyped DEF Content
  <2>2. <<Stream(r)[m + 1]>> \in Buffers(1)
    BY <2>1 DEF Buffers
  <2>3. mfs_multifsid_pread(m) = <<Stream(r)[m + 1]>>
    BY <2>1, ReadOne
  <2>4. <<Blank>> \in Buffers(1)
    BY DEF Content, Buffers
  <2>5. QED
    BY <2>2, <2>3, <2>4 DEF ReadChunk
<1>3. CASE ~(m < totalchunks)
  <2>1. mfs_multifsid_pread(m) = <<>>
    BY <1>1, <1>3, ReadOne
  <2>2. QED
    BY <2>1 DEF ReadChunk
<1>4. QED
  BY <1>2, <1>3

LEMMA OverTyped ==
    ASSUME NEW read \in Seq(OnSomeDisk), Len(read) <= CHUNKX, NEW old \in Buffers(CHUNKX)
    PROVE  /\ Over(read, old) \in Buffers(CHUNKX)
           /\ Len(read) = CHUNKX => Over(read, old) = read
<1>1. CHUNKX \in Nat /\ Len(read) \in Nat
  <2>1. CHUNKX \in Nat
    BY ServerAssumption
  <2>2. Len(read) \in Nat
    OBVIOUS
  <2>3. QED
    BY <2>1, <2>2
<1>2. read \in Seq(Content) /\ old \in Seq(Content) /\ Len(old) = CHUNKX
  BY DEF Content, Buffers
<1> DEFINE rest == SubSeq(old, Len(read) + 1, CHUNKX)
<1>3. rest \in Seq(Content) /\ Len(rest) = CHUNKX - Len(read)
  BY <1>1, <1>2
<1>4. Len(read) = CHUNKX => rest = <<>>
  BY <1>3
<1> HIDE DEF rest
<1>5. read \o rest \in Seq(Content) /\ Len(read \o rest) = CHUNKX
  BY <1>1, <1>2, <1>3
<1>6. Len(read) = CHUNKX => read \o rest = read
  BY <1>2, <1>4
<1>7. Over(read, old) = read \o rest
  BY DEF Over, rest
<1>8. QED
  BY <1>5, <1>6, <1>7 DEF Buffers

LEMMA BlockTyped ==
    ASSUME NEW r \in DOMAIN Recordings, Numbered(r), NEW m \in Int, NEW works, NEW torn,
           NEW old \in Buffers(CHUNKX)
    PROVE  ReadBlock(m, works, torn, old).block \in Buffers(CHUNKX)
<1>1. CHUNKX \in Nat
  BY ServerAssumption
<1> DEFINE chain == mfs_multifsid_pread_X(m, CHUNKX)
<1>2. Over(chain.read, old) \in Buffers(CHUNKX)
  <2>1. chain.read \in Seq(OnSomeDisk) /\ Len(chain.read) <= CHUNKX
    BY <1>1, BlockType
  <2> HIDE DEF chain
  <2>2. QED
    BY <2>1, OverTyped
<1>3. Torn \in Buffers(CHUNKX)
  BY <1>1 DEF Torn, Content, Buffers
<1> HIDE DEF chain
<1>4. ReadBlock(m, works, torn, old).block \in {Over(chain.read, old), Torn, old}
  BY DEF ReadBlock, chain
<1>5. QED
  BY <1>2, <1>3, <1>4

-----------------------------------------------------------------------------
connection == <<infile, fsid, tystream, chunk_in_buf, buf, bufx>>

LEMMA ListKept == ListOK /\ UNCHANGED sourceVars => ListOK'
BY DEF ListOK, sourceVars

LEMMA NumberedKept ==
    Numbered(tystream.of) /\ UNCHANGED sourceVars /\ tystream'.of = tystream.of
      => Numbered(tystream.of)'
BY DEF Numbered, sourceVars

LEMMA SameConn ==
    ASSUME ConnInv, UNCHANGED <<sourceVars, connection>>,
           alive' \in {"up", "exited", "crashed", "hung"}
    PROVE  ConnInv'
<1>1. UNCHANGED <<infile, fsid, tystream, chunk_in_buf, buf, bufx>> /\ UNCHANGED sourceVars
  BY DEF connection
<1>2. ListOK'
  BY <1>1, ListKept DEF ConnInv
<1>3. (infile => Numbered(tystream.of))'
  BY <1>1, NumberedKept DEF ConnInv
<1>4. QED
  BY <1>1, <1>2, <1>3 DEF ConnInv

LEMMA RefuseConn ==
    ASSUME NEW cmd, NEW reply, ConnInv, Refuse(cmd, reply) \/ Crash(cmd, reply)
    PROVE  ConnInv'
<1>1. /\ UNCHANGED <<sourceVars, connection>>
      /\ alive' \in {alive, "crashed"}
  BY DEF Refuse, Crash, serverVars, connection, sourceVars
<1>2. QED
  BY <1>1, SameConn DEF ConnInv

-----------------------------------------------------------------------------
(* OPTY gives the connection the list of the recording it opens.           *)
LEMMA OpenedList ==
    ASSUME NEW reply, Opened(reply)
    PROVE  \E r \in DOMAIN Recordings : r = arg /\ ListOK' /\ Numbered(r)'
<1>1. arg \in DOMAIN Recordings /\ open_input(arg)
  BY DEF Opened
<1>2. PICK r \in DOMAIN Recordings : r = arg /\ open_input(r)
  BY <1>1
<1>3. Numbered(r)' /\ DOMAIN Fsid_list' = 0..(MaxFsidList - 1)
  BY <1>2, OpenNumbers
<1>4. Fsid_list_count' = Len(Parts(r)) /\ totalchunks' = Chunks(r)
  BY <1>3 DEF Numbered
<1>5. ListOK'
  <2>1. Fsid_list_count' \in 0..MaxFsidList
    BY <1>4, PartsType, ListAssumption
  <2>2. totalchunks' \in Nat
    BY <1>4, StreamPlaces
  <2>3. QED
    BY <1>3, <2>1, <2>2 DEF ListOK
<1>6. QED
  BY <1>2, <1>3, <1>5

(* An open stream of r.                                                    *)
LEMMA Opens ==
    ASSUME NEW r \in DOMAIN Recordings
    PROVE  /\ r \in Nat /\ Recordings[r].start \in Nat
           /\ [of |-> r, start_chunk |-> 0, index |-> -1] \in OpenStreams
           /\ [of |-> r, start_chunk |-> Recordings[r].start, index |-> -1] \in OpenStreams
<1>1. r \in Nat /\ Recordings[r].start \in Nat
  BY ServerAssumption
<1>2. QED
  BY <1>1 DEF OpenStreams

LEMMA OpenConn ==
    ASSUME ConnInv, arg \in Nat, OpenRefused \/ OpenHangs \/ OpenProbeFails \/ Open
    PROVE  ConnInv'
<1>1. CASE OpenRefused
  <2>1. /\ UNCHANGED <<Fsid_list, Fsid_list_count, totalchunks>>
        /\ UNCHANGED <<infile, tystream, chunk_in_buf, buf, bufx, alive>>
    BY <1>1 DEF OpenRefused, sourceVars
  <2>2. fsid' \in {fsid, -1, arg}
    BY <1>1 DEF OpenRefused
  <2>3. ListOK' /\ (infile => Numbered(tystream.of))'
    BY <2>1, ListKept, NumberedKept DEF ConnInv, sourceVars
  <2>4. QED
    BY <2>1, <2>2, <2>3 DEF ConnInv
<1>2. CASE OpenHangs
  <2>1. PICK r \in DOMAIN Recordings : r = arg /\ ListOK' /\ Numbered(r)'
    BY <1>2, OpenedList DEF OpenHangs
  <2>3. /\ tystream' = [of |-> r, start_chunk |-> 0, index |-> -1]
        /\ fsid' = r /\ alive' = "hung" /\ UNCHANGED <<chunk_in_buf, buf, bufx>>
    BY <1>2, <2>1 DEF OpenHangs
  <2>4. tystream' \in OpenStreams /\ fsid' \in Nat
    BY <2>3, Opens
  <2>5. Numbered(tystream.of)'
    BY <2>1, <2>3 DEF Numbered
  <2>6. QED
    BY <2>1, <2>3, <2>4, <2>5 DEF ConnInv
<1>3. CASE OpenProbeFails
  <2>1. ListOK'
    BY <1>3, OpenedList DEF OpenProbeFails
  <2>2. /\ infile' = FALSE /\ fsid' = -1 /\ tystream' = NoStream
        /\ UNCHANGED <<chunk_in_buf, buf, bufx, alive>>
    BY <1>3 DEF OpenProbeFails
  <2>3. QED
    BY <2>1, <2>2 DEF ConnInv
<1>4. CASE Open
  <2>1. PICK r \in DOMAIN Recordings : r = arg /\ ListOK' /\ Numbered(r)'
    BY <1>4, OpenedList DEF Open
  <2>3. /\ tystream' = [of |-> r, start_chunk |-> Recordings[r].start, index |-> -1]
        /\ fsid' = r /\ UNCHANGED <<chunk_in_buf, buf, bufx, alive>>
    BY <1>4, <2>1 DEF Open
  <2>4. tystream' \in OpenStreams /\ fsid' \in Nat
    BY <2>3, Opens
  <2>5. Numbered(tystream.of)'
    BY <2>1, <2>3 DEF Numbered
  <2>6. QED
    BY <2>1, <2>3, <2>4, <2>5 DEF ConnInv
<1>5. QED
  BY <1>1, <1>2, <1>3, <1>4

(* COTY, EXIT and PLTY.  Played is the chunk each chunk of the stream      *)
(* leaves in buf.                                                          *)
LEMMA CloseConn == ASSUME ConnInv, Close \/ Exit PROVE ConnInv'
<1>1. CASE Close
  <2>1. /\ tystream' = NoStream /\ infile' = FALSE /\ chunk_in_buf' = -1
        /\ totalchunks' = 0 /\ fsid' = -1
        /\ UNCHANGED <<Fsid_list, Fsid_list_count, buf, bufx, alive>>
    BY <1>1 DEF Close, NoCursor
  <2>2. ListOK'
    BY <2>1 DEF ConnInv, ListOK
  <2>3. QED
    BY <2>1, <2>2 DEF ConnInv
<1>2. CASE Exit
  BY <1>2, SameConn DEF Exit, connection, sourceVars
<1>3. QED
  BY <1>1, <1>2

(* What a play of so many chunks leaves in buf.                            *)
LeftPlayed(first, chunks, works, torn) ==
    LET played[i \in 0..chunks] ==
          IF i = 0 THEN buf ELSE ReadChunk(first + i - 1, works, torn, played[i - 1])
    IN  played[chunks]

LEMMA PlayedTyped ==
    ASSUME NEW r \in DOMAIN Recordings, Numbered(r), NEW first \in Nat, NEW chunks \in Nat,
           NEW works \in BOOLEAN, NEW torn \in BOOLEAN, buf \in Buffers(1)
    PROVE  LeftPlayed(first, chunks, works, torn) \in Buffers(1)
<1> DEFINE S == Buffers(1)
           step == [i \in 1..chunks |-> [b \in S |-> ReadChunk(first + i - 1, works, torn, b)]]
           Body(h) == [i \in 0..chunks |->
                         IF i = 0 THEN buf ELSE ReadChunk(first + i - 1, works, torn, h[i - 1])]
           played == CHOOSE h : h = Body(h)
<1>1. step \in [1..chunks -> [S -> S]]
  <2>1. ASSUME NEW i \in 1..chunks, NEW b \in S
        PROVE  ReadChunk(first + i - 1, works, torn, b) \in S
    <3>1. first + i - 1 \in Nat
      OBVIOUS
    <3>2. QED
      BY <3>1, ReadTyped
  <2> HIDE DEF S
  <2>2. QED
    BY <2>1
<1>2. PICK f \in [0..chunks -> S] : Recurses(f, chunks, buf, step)
  <2> HIDE DEF S, step
  <2>1. buf \in S
    BY DEF S
  <2>2. QED
    BY <1>1, <2>1, Recursion
<1> HIDE DEF S
<1>3. f = Body(f)
  <2>1. f[0] = buf
    BY <1>2 DEF Recurses
  <2>2. ASSUME NEW i \in 0..chunks, i # 0
        PROVE  f[i] = ReadChunk(first + i - 1, works, torn, f[i - 1])
    <3>1. i \in 1..chunks /\ i - 1 \in 0..chunks
      BY <2>2
    <3>2. f[i] = step[i][f[i - 1]] /\ f[i - 1] \in S
      BY <1>2, <3>1 DEF Recurses
    <3>3. QED
      BY <3>1, <3>2
  <2>3. QED
    BY <2>1, <2>2
<1>4. played = Body(played)
  <2> HIDE DEF Body
  <2>1. QED
    BY <1>3
<1> DEFINE T == {i \in 0..chunks : played[i] \in S}
<1> HIDE DEF played
<1>5. 0 \in T
  <2>1. played[0] = buf
    BY <1>4
  <2>2. QED
    BY <2>1 DEF S
<1>6. ASSUME NEW i \in 0..(chunks - 1), i \in T PROVE i + 1 \in T
  <2>1. i + 1 \in 1..chunks /\ (i + 1) - 1 = i /\ i + 1 # 0 /\ i + 1 \in 0..chunks
    OBVIOUS
  <2>2. played[i + 1] = ReadChunk(first + (i + 1) - 1, works, torn, played[(i + 1) - 1])
    BY <1>4, <2>1
  <2>3. step[i + 1][played[i]] = ReadChunk(first + (i + 1) - 1, works, torn, played[i])
    BY <1>6, <2>1
  <2>4. step[i + 1][played[i]] \in S
    BY <1>1, <1>6, <2>1
  <2>5. played[(i + 1) - 1] = played[i]
    BY <2>1
  <2>6. played[i + 1] \in S
    BY <2>2, <2>3, <2>4, <2>5
  <2>7. QED
    BY <2>1, <2>6
<1>7. chunks \in T
  <2> HIDE DEF T
  <2>1. \A i \in 0..(chunks - 1) : i \in T => i + 1 \in T
    BY <1>6
  <2>2. \A i \in 0..chunks : i \in T
    BY <1>5, <2>1, Induction
  <2>3. QED
    BY <2>2
<1>8. played[chunks] \in S
  BY <1>7
<1>9. QED
  BY <1>8 DEF played, S, LeftPlayed

LEMMA PlayConn == ASSUME ConnInv, arg \in Nat, IInv, PlayStream PROVE ConnInv'
<1>1. infile /\ tystream \in OpenStreams /\ Numbered(tystream.of)
  BY DEF PlayStream, ConnInv, IInv, NothingLeftBehind
<1>2. PICK r \in DOMAIN Recordings : r = tystream.of /\ Numbered(r)
  BY <1>1 DEF OpenStreams
<1> DEFINE first == tystream.start_chunk + arg
           chunks == IF totalchunks - 1 > first THEN totalchunks - 1 - first ELSE 0
<1>3. first \in Nat /\ chunks \in Nat
  <2>1. first \in Nat
    BY <1>1 DEF OpenStreams
  <2> HIDE DEF first
  <2>2. totalchunks \in Nat
    BY DEF ConnInv, ListOK
  <2>3. QED
    BY <2>1, <2>2
<1>4. \E torn \in BOOLEAN, works \in Works : buf' = LeftPlayed(first, chunks, works, torn)
  BY DEF PlayStream, LeftPlayed
<1>5. PICK works \in BOOLEAN, torn \in BOOLEAN :
        buf' = LeftPlayed(first, chunks, works, torn)
  BY <1>4, ServerAssumption
<1>6. LeftPlayed(first, chunks, works, torn) \in Buffers(1)
  <2> HIDE DEF first, chunks
  <2>1. buf \in Buffers(1)
    BY DEF ConnInv
  <2>2. QED
    BY <1>2, <1>3, <2>1, PlayedTyped
<1>7. buf' \in Buffers(1)
  BY <1>5, <1>6
<1>8. /\ alive' = "exited" /\ infile' = FALSE /\ fsid' = -1 /\ tystream' = NoStream
      /\ chunk_in_buf' = -1 /\ totalchunks' = 0
      /\ UNCHANGED <<Fsid_list, Fsid_list_count, bufx>>
  BY DEF PlayStream, NoCursor
<1>9. ListOK'
  BY <1>8 DEF ConnInv, ListOK
<1>10. QED
  BY <1>7, <1>8, <1>9 DEF ConnInv

(* SCTY and SCTX read into the buffers.                                    *)
LEMMA SendConn ==
    ASSUME ConnInv, IInv, arg \in Nat,
           SendChunk \/ NoChunk \/ SendBlock \/ BlockUnreadable \/ NoBlock
    PROVE  ConnInv'
<1>1. infile /\ tystream \in OpenStreams /\ Numbered(tystream.of)
  <2>1. infile
    BY DEF SendChunk, NoChunk, SendBlock, BlockUnreadable, NoBlock
  <2>2. QED
    BY <2>1 DEF ConnInv, IInv, NothingLeftBehind
<1>2. PICK r \in DOMAIN Recordings : r = tystream.of /\ Numbered(r)
  BY <1>1 DEF OpenStreams
<1>3. chk \in Nat
  BY <1>1 DEF chk, OpenStreams
<1>4. CHUNKX \in Nat
  BY ServerAssumption
<1>5. CASE SendChunk
  <2>1. PICK works \in Works, workstoo \in Works, torn \in BOOLEAN, torntoo \in BOOLEAN :
          LET sent == IF chunk_in_buf = chk THEN buf ELSE ReadChunk(chk, works, torn, buf)
          IN  IF chk + 1 < totalchunks
              THEN chunk_in_buf' = chk + 1 /\ buf' = ReadChunk(chk + 1, workstoo, torntoo, sent)
              ELSE chunk_in_buf' = chk /\ buf' = sent
    BY <1>5 DEF SendChunk
  <2> DEFINE sent == IF chunk_in_buf = chk THEN buf ELSE ReadChunk(chk, works, torn, buf)
  <2>2. sent \in Buffers(1)
    BY <1>2, <1>3, ReadTyped DEF ConnInv
  <2> HIDE DEF sent
  <2>3. chk + 1 \in Nat
    BY <1>3
  <2>4. ReadChunk(chk + 1, workstoo, torntoo, sent) \in Buffers(1)
    BY <1>2, <2>2, <2>3, ReadTyped
  <2>5. chunk_in_buf' \in Nat /\ buf' \in Buffers(1)
    BY <1>3, <2>1, <2>2, <2>3, <2>4 DEF sent
  <2>6. UNCHANGED <<infile, fsid, tystream, bufx, alive>> /\ UNCHANGED sourceVars
    BY <1>5 DEF SendChunk
  <2>7. ListOK' /\ (infile => Numbered(tystream.of))'
    BY <2>6, ListKept, NumberedKept DEF ConnInv
  <2>8. QED
    BY <2>5, <2>6, <2>7 DEF ConnInv
<1>6. CASE SendBlock
  <2>1. PICK works \in Works, workstoo \in Works, torn \in BOOLEAN, torntoo \in BOOLEAN :
          LET sent == IF chunk_in_buf = chk THEN [ok |-> TRUE, block |-> bufx]
                                            ELSE ReadBlock(chk, works, torn, bufx)
              next == ReadBlock(chk + CHUNKX, workstoo, torntoo, sent.block)
          IN  IF chk + CHUNKX < totalchunks
              THEN /\ chunk_in_buf' = (IF next.ok THEN chk + CHUNKX ELSE NoCursor)
                   /\ bufx' = next.block
              ELSE chunk_in_buf' = chk /\ bufx' = sent.block
    BY <1>6 DEF SendBlock
  <2> DEFINE sent == IF chunk_in_buf = chk THEN [ok |-> TRUE, block |-> bufx]
                                           ELSE ReadBlock(chk, works, torn, bufx)
             next == ReadBlock(chk + CHUNKX, workstoo, torntoo, sent.block)
  <2>2. chk + CHUNKX \in Nat /\ chk \in Int /\ chk + CHUNKX \in Int
    BY <1>3, <1>4
  <2>3. sent.block \in Buffers(CHUNKX)
    <3>1. bufx \in Buffers(CHUNKX)
      BY DEF ConnInv
    <3>2. ReadBlock(chk, works, torn, bufx).block \in Buffers(CHUNKX)
      BY <1>2, <2>2, <3>1, BlockTyped
    <3>3. QED
      BY <3>1, <3>2
  <2>4. next.block \in Buffers(CHUNKX)
    <3> HIDE DEF sent
    <3>1. QED
      BY <1>2, <2>2, <2>3, BlockTyped
  <2>6. chunk_in_buf' \in {-1} \cup Nat /\ bufx' \in Buffers(CHUNKX)
    BY <1>3, <2>1, <2>2, <2>3, <2>4 DEF NoCursor
  <2>7. UNCHANGED <<infile, fsid, tystream, buf, alive>> /\ UNCHANGED sourceVars
    BY <1>6 DEF SendBlock
  <2>8. ListOK' /\ (infile => Numbered(tystream.of))'
    BY <2>7, ListKept, NumberedKept DEF ConnInv
  <2>9. QED
    BY <2>6, <2>7, <2>8 DEF ConnInv
<1>7. CASE BlockUnreadable
  <2>1. PICK works \in Works, torn \in BOOLEAN :
          bufx' = ReadBlock(chk, works, torn, bufx).block
    BY <1>7 DEF BlockUnreadable
  <2>2. bufx \in Buffers(CHUNKX) /\ chk \in Int
    BY <1>3 DEF ConnInv
  <2>4. bufx' \in Buffers(CHUNKX)
    BY <1>2, <2>1, <2>2, BlockTyped
  <2>5. UNCHANGED <<infile, fsid, tystream, chunk_in_buf, buf, alive>>
        /\ UNCHANGED sourceVars
    BY <1>7 DEF BlockUnreadable
  <2>6. ListOK' /\ (infile => Numbered(tystream.of))'
    BY <2>5, ListKept, NumberedKept DEF ConnInv
  <2>7. QED
    BY <2>4, <2>5, <2>6 DEF ConnInv
<1>8. CASE NoChunk \/ NoBlock
  BY <1>8, RefuseConn DEF NoChunk, NoBlock
<1>9. QED
  BY <1>5, <1>6, <1>7, <1>8

(* CITY, GSTY and GITY                                                     *)
LEMMA IndexConn == ASSUME ConnInv, IInv, IndexCached \/ CreateIndex PROVE ConnInv'
<1>1. infile /\ tystream \in OpenStreams
  BY DEF IndexCached, CreateIndex, Uncached, ConnInv, IInv, NothingLeftBehind
<1>2. PICK i \in DOMAIN Recordings : tystream' = [tystream EXCEPT !.index = i]
  <2>1. CASE IndexCached
    BY <2>1, ServerAssumption DEF IndexCached
  <2>2. CASE CreateIndex
    BY <2>2, <1>1 DEF CreateIndex, OpenStreams
  <2>3. QED
    BY <2>1, <2>2
<1>3. tystream' \in OpenStreams /\ tystream'.of = tystream.of
  BY <1>1, <1>2 DEF OpenStreams
<1>4. UNCHANGED <<infile, fsid, chunk_in_buf, buf, bufx, alive>> /\ UNCHANGED sourceVars
  BY DEF IndexCached, CreateIndex
<1>5. ListOK' /\ (infile => Numbered(tystream.of))'
  BY <1>3, <1>4, ListKept, NumberedKept DEF ConnInv
<1>6. QED
  BY <1>3, <1>4, <1>5 DEF ConnInv

(* What a command is answered with is all the client has to read.          *)
LEMMA AskedNow ==
    ASSUME Asking, request # <<>>
    PROVE  /\ Head(request) = asked /\ asked \in program /\ program \in Programs
           /\ Tail(request) = <<>> /\ to_client = <<>>
           /\ arg \in Nat /\ arg = asked.arg
<1>1. request = <<asked>> /\ asked \in program /\ program \in Programs /\ to_client = <<>>
  BY DEF Asking
<1>2. Head(request) = asked /\ Tail(request) = <<>>
  BY <1>1
<1>3. QED
  BY <1>1, <1>2, ProgramsAssumption DEF arg

(* An answer is one of these.                                              *)
LEMMA AnswersHandle ==
    ServerStep => \E cmd, reply : Handle(cmd, reply)
<1> SUFFICES ASSUME ServerStep PROVE \E cmd, reply : Handle(cmd, reply)
  OBVIOUS
<1>1. CASE OnlyAnswers
  BY <1>1, OnlyAnswersReply DEF Refuse, Crash
<1>2. CASE Exit \/ Close
  BY <1>2 DEF Exit, Close
<1>3. CASE OpenRefused \/ OpenHangs \/ OpenProbeFails \/ Open
  BY <1>3 DEF OpenRefused, OpenHangs, OpenProbeFails, Open, Opened
<1>4. CASE SendChunk \/ SendBlock \/ BlockUnreadable
  BY <1>4 DEF SendChunk, SendBlock, BlockUnreadable
<1>5. CASE IndexCached \/ CreateIndex
  BY <1>5 DEF IndexCached, CreateIndex
<1>6. CASE PlayStream
  BY <1>6 DEF PlayStream
<1>7. QED
  BY <1>1, <1>2, <1>3, <1>4, <1>5, <1>6 DEF ServerStep, OnlyAnswers

LEMMA NextAsking == Asking /\ [Next]_vars => Asking'
<1> SUFFICES ASSUME Asking, [Next]_vars PROVE Asking'
  OBVIOUS
<1>1. CASE Ask
  BY <1>1 DEF Ask, Asking
<1>2. CASE ServerStep /\ UNCHANGED <<program, asked>>
  <2>1. request # <<>>
    BY <1>2 DEF ServerStep
  <2>2. request' = Tail(request)
    BY <1>2, AnswersHandle DEF Handle
  <2>3. QED
    BY <1>2, <2>1, <2>2, AskedNow DEF Asking
<1>3. CASE UNCHANGED vars
  BY <1>3 DEF vars, Asking
<1>4. QED
  BY <1>1, <1>2, <1>3 DEF Next

-----------------------------------------------------------------------------
LEMMA InitConn == Init => ConnInv /\ Asking
<1> SUFFICES ASSUME Init PROVE ConnInv /\ Asking
  OBVIOUS
<1>1. buf \in Buffers(1)
  <2>1. <<Blank>> \in Seq(Content)
    BY DEF Content
  <2>2. QED
    BY <2>1 DEF Init, ServerInit, Buffers
<1>2. bufx \in Buffers(CHUNKX)
  <2>1. CHUNKX \in Nat
    BY ServerAssumption
  <2>2. [i \in 1..CHUNKX |-> Blank] \in Seq(Content)
    BY <2>1 DEF Content
  <2>3. QED
    BY <2>1, <2>2 DEF Init, ServerInit, Buffers
<1>3. ListOK
  BY ListAssumption DEF Init, ServerInit, SourceInit, ListOK
<1>4. QED
  BY <1>1, <1>2, <1>3 DEF Init, ServerInit, ConnInv, Asking

LEMMA NextConn == ConnInv /\ Asking /\ IInv /\ [Next]_vars => ConnInv'
<1> SUFFICES ASSUME ConnInv, Asking, IInv, [Next]_vars PROVE ConnInv'
  OBVIOUS
<1>1. CASE Ask
  BY <1>1, SameConn DEF Ask, serverVars, connection, ConnInv
<1>2. CASE ServerStep
  <2>1. arg \in Nat
    BY <1>2, AskedNow DEF ServerStep
  <2>2. CASE OnlyAnswers
    BY <2>2, OnlyAnswersReply, RefuseConn
  <2>3. CASE Exit \/ Close
    BY <2>3, CloseConn
  <2>4. CASE OpenRefused \/ OpenHangs \/ OpenProbeFails \/ Open
    BY <2>1, <2>4, OpenConn
  <2>5. CASE SendChunk \/ SendBlock \/ BlockUnreadable
    BY <2>1, <2>5, SendConn
  <2>6. CASE IndexCached \/ CreateIndex
    BY <2>6, IndexConn
  <2>7. CASE PlayStream
    BY <2>1, <2>7, PlayConn
  <2>8. QED
    BY <1>2, <2>2, <2>3, <2>4, <2>5, <2>6, <2>7 DEF ServerStep, OnlyAnswers
<1>3. CASE UNCHANGED vars
  BY <1>3, SameConn DEF vars, serverVars, connection, ConnInv
<1>4. QED
  BY <1>1, <1>2, <1>3 DEF Next

LEMMA ConnNumbers == ConnInv /\ IInv => NumbersSound
<1> SUFFICES ASSUME ConnInv, IInv PROVE NumbersSound
  OBVIOUS
<1>1. OnADisk = OnSomeDisk
  BY DEF OnADisk, OnSomeDisk
<1>2. Len(buf) = 1 /\ buf[1] \in OnADisk \cup {Blank}
  BY <1>1 DEF ConnInv, Buffers, Content
<1>3. Len(bufx) = CHUNKX /\ \A i \in 1..CHUNKX : bufx[i] \in OnADisk \cup {Blank}
  BY <1>1 DEF ConnInv, Buffers, Content
<1>4. TypeOK
  BY <1>2, <1>3 DEF TypeOK, ConnInv, IInv, OpenStreams, ListOK
<1>5. ASSUME infile
      PROVE  /\ totalchunks = Len(Stream(tystream.of))
             /\ \A n \in 0..(totalchunks - 1) :
                  mfs_multifsid_pread(n) = <<Stream(tystream.of)[n + 1]>>
             /\ mfs_multifsid_pread(totalchunks) = <<>>
  <2>1. PICK r \in DOMAIN Recordings : r = tystream.of /\ Numbered(r)
    BY <1>5 DEF ConnInv, IInv, NothingLeftBehind, OpenStreams
  <2>2. totalchunks = Len(Stream(r)) /\ totalchunks \in Nat
    BY <2>1, StreamPlaces DEF Numbered
  <2>3. \A n \in 0..(totalchunks - 1) : mfs_multifsid_pread(n) = <<Stream(r)[n + 1]>>
    BY <2>1, ReadOne
  <2>4. mfs_multifsid_pread(totalchunks) = <<>>
    BY <2>1, <2>2, ReadOne
  <2>5. QED
    BY <2>1, <2>2, <2>3, <2>4
<1>6. ReadsOpenRecording
  BY <1>5 DEF ReadsOpenRecording
<1>7. QED
  BY <1>4, <1>6 DEF NumbersSound

-----------------------------------------------------------------------------
(* Tokens that carry data of kind x, if at all, with a value in V.         *)
Codes == {"200", "300", "400", "text", "list", "data"}
Subjects == {"line", "list", "text", "none", "recordings", "gops", "chunk", "block",
             "seq", "frame", "stream"}
TokensOf(x, V, D) ==
    {t \in [k : Codes, of : Subjects, data : D] : t.k = "data" /\ t.of = x => t.data \in V}
Without(x, reply) == \E D : reply \in Seq(TokensOf(x, {}, D))

LEMMA OneToken ==
    ASSUME NEW x, NEW V, NEW D, NEW k \in Codes, NEW of \in Subjects, NEW d \in D,
           k = "data" /\ of = x => d \in V
    PROVE  Token(k, of, d) \in Seq(TokensOf(x, V, D))
<1> DEFINE t == [k |-> k, of |-> of, data |-> d]
<1>1. t \in [k : Codes, of : Subjects, data : D] /\ t.k = k /\ t.of = of /\ t.data = d
  OBVIOUS
<1> HIDE DEF t
<1>2. t \in TokensOf(x, V, D)
  BY <1>1 DEF TokensOf
<1>3. <<t>> \in Seq(TokensOf(x, V, D))
  BY <1>2
<1>4. QED
  BY <1>3 DEF Token, t

LEMMA Lines ==
    ASSUME NEW x, NEW V, NEW D, <<>> \in D
    PROVE  /\ Ok \in Seq(TokensOf(x, V, D)) /\ Error \in Seq(TokensOf(x, V, D))
           /\ \A of \in Subjects : Announce(of) \in Seq(TokensOf(x, V, D))
           /\ \A d \in D : Token("list", "gops", d) \in Seq(TokensOf(x, V, D))
           /\ Token("list", "recordings", <<>>) \in Seq(TokensOf(x, V, D))
<1>1. \A k \in {"200", "300", "400", "list"}, of \in Subjects, d \in D :
         Token(k, of, d) \in Seq(TokensOf(x, V, D))
  <2>1. ASSUME NEW k \in {"200", "300", "400", "list"}, NEW of \in Subjects, NEW d \in D
        PROVE  Token(k, of, d) \in Seq(TokensOf(x, V, D))
    <3>1. k \in Codes /\ k # "data"
      BY DEF Codes
    <3>2. QED
      BY <3>1, OneToken
  <2>2. QED
    BY <2>1
<1>2. "line" \in Subjects /\ "recordings" \in Subjects /\ "gops" \in Subjects
  BY DEF Subjects
<1>3. QED
  BY <1>1, <1>2 DEF Ok, Error, Announce

LEMMA SentData ==
    ASSUME NEW x, NEW V, NEW of \in Subjects, NEW d, of = x => d \in V
    PROVE  Sent(of, d) \in Seq(TokensOf(x, V, {<<>>, d}))
<1> DEFINE S == TokensOf(x, V, {<<>>, d})
<1>1. Ok \in Seq(S) /\ Announce(of) \in Seq(S)
  BY Lines
<1>2. Token("data", of, d) \in Seq(S)
  <2>1. "data" \in Codes
    BY DEF Codes
  <2>2. QED
    BY <2>1, OneToken
<1> HIDE DEF S
<1>3. Ok \o Announce(of) \o Token("data", of, d) \o Ok \in Seq(S)
  BY <1>1, <1>2
<1>4. QED
  BY <1>3 DEF Sent, S

LEMMA ReplyData ==
    ASSUME NEW x, NEW V, NEW D, NEW cmd, NEW reply \in Seq(TokensOf(x, V, D)),
           Handle(cmd, reply), to_client = <<>>
    PROVE  \A t \in Data(x)' : t.data \in V
<1>1. to_client' = <<>> \o reply
  BY DEF Handle
<1>2. to_client' \in Seq(TokensOf(x, V, D))
  <2> DEFINE S == TokensOf(x, V, D)
  <2> HIDE DEF S
  <2>1. reply \in Seq(S)
    BY DEF S
  <2>2. <<>> \o reply \in Seq(S)
    BY <2>1
  <2>3. QED
    BY <1>1, <2>2 DEF S
<1>3. \A i \in DOMAIN to_client' : to_client'[i] \in TokensOf(x, V, D)
  BY <1>2
<1>4. QED
  BY <1>3 DEF Data, ToSet, TokensOf

(* The replies that carry no chunk and no block.                           *)
Kinds == {"chunk", "block"}

LEMMA LineReplies ==
    ASSUME NEW x
    PROVE  /\ Without(x, <<>>) /\ Without(x, Ok) /\ Without(x, Error)
           /\ Without(x, Ok \o Error) /\ Without(x, Ok \o Ok) /\ Without(x, Error \o Error)
           /\ Without(x, Error \o Ok \o Announce("none")) /\ Without(x, RecordingList)
<1> DEFINE S == TokensOf(x, {}, {<<>>})
<1>1. /\ Ok \in Seq(S) /\ Error \in Seq(S) /\ Announce("none") \in Seq(S)
      /\ Announce("list") \in Seq(S) /\ Token("list", "recordings", <<>>) \in Seq(S)
  BY Lines DEF Subjects
<1> HIDE DEF S
<1>2. /\ <<>> \in Seq(S) /\ Ok \o Error \in Seq(S) /\ Ok \o Ok \in Seq(S)
      /\ Error \o Error \in Seq(S) /\ Error \o Ok \o Announce("none") \in Seq(S)
      /\ Ok \o Announce("list") \o Token("list", "recordings", <<>>) \in Seq(S)
  BY <1>1
<1>3. \A reply \in Seq(S) : Without(x, reply)
  BY DEF Without, S
<1>4. QED
  BY <1>1, <1>2, <1>3 DEF RecordingList

LEMMA GopLists ==
    ASSUME NEW x, NEW r
    PROVE  /\ Without(x, Ok \o Ok \o GopList(r))
           /\ \A n \in Nat : Without(x, [i \in 1..n |-> Ok[1]] \o GopList(r))
<1> DEFINE S == TokensOf(x, {}, {<<>>, <<r>>})
<1>1. /\ Ok \in Seq(S) /\ Announce("list") \in Seq(S)
      /\ Token("list", "gops", <<r>>) \in Seq(S)
  BY Lines DEF Subjects
<1>2. Ok[1] \in S
  <2> HIDE DEF S
  <2>1. Len(Ok) = 1
    BY DEF Ok, Token
  <2>2. \A s \in Seq(S) : Len(s) = 1 => s[1] \in S
    OBVIOUS
  <2>3. QED
    BY <1>1, <2>1, <2>2
<1> HIDE DEF S
<1>3. GopList(r) \in Seq(S)
  BY <1>1 DEF GopList
<1>4. Ok \o Ok \o GopList(r) \in Seq(S)
  BY <1>1, <1>3
<1>5. \A n \in Nat : [i \in 1..n |-> Ok[1]] \o GopList(r) \in Seq(S)
  <2>1. ASSUME NEW n \in Nat PROVE [i \in 1..n |-> Ok[1]] \in Seq(S)
    BY <1>2
  <2>2. QED
    BY <1>3, <2>1
<1>6. \A reply \in Seq(S) : Without(x, reply)
  BY DEF Without, S
<1>7. QED
  BY <1>4, <1>5, <1>6

LEMMA ProbeReply ==
    ASSUME NEW x, NEW r \in DOMAIN Recordings
    PROVE  Without(x, Ok \o Ok \o Ok \o ProbeResult(r))
<1> DEFINE D == {<<>>} \cup {<<v>> : v \in {-1, 0, NumberOfChunks(r)}}
           S == TokensOf(x, {}, D)
           value(i) == CASE i = 6 /\ Recordings[r].probe = "odd rate" -> -1
                         [] i = 7 -> NumberOfChunks(r)
                         [] OTHER -> 0
           values == [i \in 1..7 |-> Ok \o Announce("text") \o Text(value(i))]
<1>1. /\ Ok \in Seq(S) /\ Announce("text") \in Seq(S)
  BY Lines DEF Subjects
<1>2. ASSUME NEW i \in 1..7 PROVE Text(value(i)) \in Seq(S)
  <2>1. value(i) \in {-1, 0, NumberOfChunks(r)}
    OBVIOUS
  <2> HIDE DEF value
  <2>2. <<value(i)>> \in D
    BY <2>1
  <2> HIDE DEF D
  <2>3. Token("text", "line", <<value(i)>>) \in Seq(S)
    <3>1. "text" \in Codes /\ "line" \in Subjects /\ "text" # "data"
      BY DEF Codes, Subjects
    <3>2. QED
      BY <2>2, <3>1, OneToken
  <2>4. QED
    BY <2>3 DEF Text
<1> HIDE DEF S, value
<1>3. values \in Seq(Seq(S))
  <2>1. ASSUME NEW i \in 1..7 PROVE Ok \o Announce("text") \o Text(value(i)) \in Seq(S)
    BY <1>1, <1>2
  <2>2. QED
    BY <2>1
<1> HIDE DEF values
<1>4. FlattenSeq(values) \in Seq(S)
  BY <1>3, FlattenType
<1>5. Ok \o FlattenSeq(values) \o Ok \in Seq(S)
  BY <1>1, <1>4
<1>6. ProbeResult(r) = Ok \o FlattenSeq(values) \o Ok
  BY DEF ProbeResult, values, value
<1>7. Ok \o Ok \o Ok \o ProbeResult(r) \in Seq(S)
  BY <1>1, <1>5, <1>6
<1>8. QED
  BY <1>7 DEF Without, S

LEMMA DataReplies ==
    ASSUME NEW x, NEW of \in Subjects, of # x, NEW d
    PROVE  /\ Without(x, Sent(of, d))
           /\ Without(x, Ok \o Announce("none") \o Token("data", of, d))
<1>1. Without(x, Sent(of, d))
  BY SentData DEF Without
<1>2. Without(x, Ok \o Announce("none") \o Token("data", of, d))
  <2> DEFINE S == TokensOf(x, {}, {<<>>, d})
  <2>1. Ok \in Seq(S) /\ Announce("none") \in Seq(S)
    BY Lines DEF Subjects
  <2>2. Token("data", of, d) \in Seq(S)
    <3>1. "data" \in Codes
      BY DEF Codes
    <3>2. QED
      BY <3>1, OneToken
  <2> HIDE DEF S
  <2>3. Ok \o Announce("none") \o Token("data", of, d) \in Seq(S)
    BY <2>1, <2>2
  <2>4. QED
    BY <2>3 DEF Without, S
<1>3. QED
  BY <1>1, <1>2

(* Chunks are sent by SendChunk, blocks by SendBlock, and by nothing else. *)
LEMMA AnswersWithout ==
    ASSUME NEW x \in Kinds, Asking, ConnInv, IInv, ServerStep,
           x = "chunk" => ~SendChunk, x = "block" => ~SendBlock
    PROVE  \E cmd, reply : Handle(cmd, reply) /\ Without(x, reply)
<1> DEFINE Answers(cmd, reply) == Handle(cmd, reply) /\ Without(x, reply)
<1> HIDE DEF Answers
<1>1. \A cmd, reply : Handle(cmd, reply) /\ Without(x, reply) => Answers(cmd, reply)
  BY DEF Answers
<1>2. \A cmd, reply : (Refuse(cmd, reply) \/ Crash(cmd, reply)) => Handle(cmd, reply)
  BY DEF Refuse, Crash
<1>3. \E cmd, reply : Answers(cmd, reply)
  <2>1. CASE List
    BY <1>1, <1>2, <2>1, LineReplies DEF List
  <2>2. CASE NoChunk \/ NoBlock \/ IndexNoFsid \/ Unrecognised
    BY <1>1, <1>2, <2>2, LineReplies DEF NoChunk, NoBlock, IndexNoFsid, Unrecognised
  <2>3. CASE IndexedAlready \/ IndexOneGop \/ SeqNotIndexed \/ IFrameNotIndexed
    BY <1>1, <1>2, <2>3, LineReplies
       DEF IndexedAlready, IndexOneGop, SeqNotIndexed, IFrameNotIndexed
  <2>4. CASE NotOpen
    BY <1>1, <1>2, <2>4, LineReplies DEF NotOpen
  <2>5. CASE Exit \/ Close \/ BlockUnreadable
    BY <1>1, <2>5, LineReplies DEF Exit, Close, BlockUnreadable
  <2>6. CASE OpenRefused \/ OpenHangs \/ OpenProbeFails
    BY <1>1, <2>6, LineReplies DEF OpenRefused, OpenHangs, OpenProbeFails, Opened
  <2>7. CASE Open
    BY <1>1, <2>7, ProbeReply DEF Open, Opened
  <2>8. CASE IndexCached
    BY <1>1, <2>8, GopLists DEF IndexCached
  <2>9. CASE CreateIndex
    <3>1. tystream.of \in DOMAIN Recordings
      BY <2>9 DEF CreateIndex, Uncached, ConnInv, IInv, NothingLeftBehind, OpenStreams
    <3>2. 3 + Recordings[tystream.of].waits \in Nat
      <4>1. PICK r \in DOMAIN Recordings : r = tystream.of
        BY <3>1
      <4>2. Recordings[r].waits \in Nat
        BY ServerAssumption
      <4>3. QED
        BY <4>1, <4>2
    <3>3. \E n \in Nat : \E r : Handle("CITY", [i \in 1..n |-> Ok[1]] \o GopList(r))
      BY <2>9, <3>2 DEF CreateIndex
    <3>4. QED
      BY <1>1, <3>3, GopLists
  <2>10. CASE SendSeq \/ SendIFrame
    <3>1. \A d : Without(x, Sent("seq", d)) /\ Without(x, Sent("frame", d))
      <4>1. /\ "seq" \in Subjects /\ "frame" \in Subjects
            /\ "seq" # x /\ "frame" # x
        BY DEF Subjects, Kinds
      <4>2. QED
        BY <4>1, DataReplies
    <3>2. QED
      BY <1>1, <1>2, <2>10, <3>1, LineReplies DEF SendSeq, SendIFrame
  <2>11. CASE PlayStream
    <3>1. \A d : Without(x, Ok \o Announce("none") \o Token("data", "stream", d))
      <4>1. "stream" \in Subjects /\ "stream" # x
        BY DEF Subjects, Kinds
      <4>2. QED
        BY <4>1, DataReplies
    <3>2. \E d : Handle("PLTY", Ok \o Announce("none") \o Token("data", "stream", d))
      BY <2>11 DEF PlayStream
    <3>3. QED
      BY <1>1, <3>1, <3>2
  <2>12. CASE SendChunk
    <3>1. \A d : Without(x, Sent("chunk", d))
      <4>1. "chunk" \in Subjects /\ "chunk" # x
        BY <2>12 DEF Subjects
      <4>2. QED
        BY <4>1, DataReplies
    <3>2. \E d : Handle("SCTY", Sent("chunk", d))
      BY <2>12 DEF SendChunk
    <3>3. QED
      BY <1>1, <3>1, <3>2
  <2>13. CASE SendBlock
    <3>1. \A d : Without(x, Sent("block", d))
      <4>1. "block" \in Subjects /\ "block" # x
        BY <2>13 DEF Subjects
      <4>2. QED
        BY <4>1, DataReplies
    <3>2. \E d : Handle("SCTX", Sent("block", d))
      BY <2>13 DEF SendBlock
    <3>3. QED
      BY <1>1, <3>1, <3>2
  <2>14. QED
    BY <2>1, <2>2, <2>3, <2>4, <2>5, <2>6, <2>7, <2>8, <2>9, <2>10, <2>11, <2>12, <2>13
       DEF ServerStep
<1>4. QED
  BY <1>3 DEF Answers

LEMMA NoData ==
    ASSUME NEW x \in Kinds, Asking, ConnInv, IInv, ServerStep,
           x = "chunk" => ~SendChunk, x = "block" => ~SendBlock
    PROVE  Data(x)' = {}
<1>1. to_client = <<>>
  BY AskedNow DEF ServerStep
<1>2. PICK cmd, reply : Handle(cmd, reply) /\ Without(x, reply)
  BY AnswersWithout
<1>3. PICK D : reply \in Seq(TokensOf(x, {}, D))
  BY <1>2 DEF Without
<1>4. \A t \in Data(x)' : t.data \in {}
  BY <1>1, <1>2, <1>3, ReplyData
<1>5. QED
  BY <1>4

-----------------------------------------------------------------------------
(* The chunk read ahead.  Without SCTX only SCTY moves the cursor of an    *)
(* open stream, and it reads what the cursor then stands for.              *)
DiskWorks == Works = {TRUE}

LEMMA InitAhead == Init => ChunkAhead /\ BlockAhead /\ Probed
BY DEF Init, ServerInit, SourceInit, ChunkAhead, BlockAhead, Probed

(* Opening a stream finds no cursor.                                       *)
LEMMA NewStream ==
    ASSUME IInv, OpenHangs \/ Open
    PROVE  chunk_in_buf' = NoCursor
BY DEF OpenHangs, Open, Opened, IInv, NothingLeftBehind, NoCursor

(* Every step but these leaves an open stream and both buffers alone.      *)
SameBuffers ==
    /\ UNCHANGED <<sourceVars, infile, chunk_in_buf, buf, bufx>>
    /\ tystream'.of = tystream.of /\ tystream'.start_chunk = tystream.start_chunk

LEMMA BuffersKept ==
    ASSUME ConnInv, IInv, ServerStep,
           ~(OpenHangs \/ OpenProbeFails \/ Open \/ Close \/ PlayStream
             \/ SendChunk \/ SendBlock \/ BlockUnreadable)
    PROVE  SameBuffers
<1>1. CASE OnlyAnswers
  BY <1>1, OnlyAnswersReply DEF Refuse, Crash, serverVars, SameBuffers
<1>2. CASE Exit
  BY <1>2 DEF Exit, SameBuffers
<1>3. CASE OpenRefused
  BY <1>3 DEF OpenRefused, SameBuffers
<1>4. CASE IndexCached \/ CreateIndex
  <2>1. tystream \in OpenStreams
    BY <1>4 DEF IndexCached, CreateIndex, Uncached, ConnInv, IInv, NothingLeftBehind
  <2>2. \E i : tystream' = [tystream EXCEPT !.index = i]
    BY <1>4 DEF IndexCached, CreateIndex
  <2>3. tystream'.of = tystream.of /\ tystream'.start_chunk = tystream.start_chunk
    BY <2>1, <2>2 DEF OpenStreams
  <2>4. QED
    BY <1>4, <2>3 DEF IndexCached, CreateIndex, SameBuffers
<1>5. QED
  BY <1>1, <1>2, <1>3, <1>4 DEF ServerStep, OnlyAnswers

(* Of the other commands a client that does not use it sends none.         *)
LEMMA Unused ==
    ASSUME NEW cmd, NEW reply, Asking, request # <<>>, ~Uses(cmd)
    PROVE  ~Handle(cmd, reply)
BY AskedNow DEF Uses, Handle

LEMMA StepAhead ==
    ASSUME DiskWorks, ConnInv, IInv, Asking, ChunkAhead, ServerStep,
           UNCHANGED <<program, asked>>
    PROVE  ChunkAhead'
<1> SUFFICES ASSUME ~Uses("SCTX"), infile', (chunk_in_buf \in 0..(totalchunks - 1))'
             PROVE  (buf = <<Stream(tystream.of)[chunk_in_buf + 1]>>)'
  BY DEF ChunkAhead, Uses
<1>1. request # <<>>
  BY DEF ServerStep
<1>2. ~SendBlock /\ ~BlockUnreadable
  BY <1>1, Unused DEF SendBlock, BlockUnreadable
<1>3. ~OpenHangs /\ ~Open
  <2>1. chunk_in_buf' \in Nat
    OBVIOUS
  <2>2. QED
    BY <2>1, NewStream DEF NoCursor
<1>4. ~OpenProbeFails /\ ~Close /\ ~PlayStream
  BY DEF OpenProbeFails, Close, PlayStream
<1>5. CASE SendChunk
  <2>1. /\ infile /\ UNCHANGED <<infile, tystream>>
        /\ UNCHANGED <<Fsid_list, Fsid_list_count, totalchunks>>
    BY <1>5 DEF SendChunk, sourceVars
  <2>2. PICK r \in DOMAIN Recordings : r = tystream.of /\ Numbered(r)
    BY <2>1 DEF ConnInv, IInv, NothingLeftBehind, OpenStreams
  <2>3. arg \in Nat /\ tystream.start_chunk \in Nat
    BY <1>1, <2>1, AskedNow DEF ConnInv, IInv, NothingLeftBehind, OpenStreams
  <2>4. chk \in Nat /\ totalchunks \in Nat
    BY <2>3 DEF chk, ConnInv, ListOK
  <2>5. \A m \in 0..(totalchunks - 1) : \A torn, old :
           ReadChunk(m, TRUE, torn, old) = <<Stream(r)[m + 1]>>
    <3>1. ASSUME NEW m \in 0..(totalchunks - 1), NEW torn, NEW old
          PROVE  ReadChunk(m, TRUE, torn, old) = <<Stream(r)[m + 1]>>
      <4>1. mfs_multifsid_pread(m) = <<Stream(r)[m + 1]>>
        BY <2>2, ReadOne
      <4>2. <<Stream(r)[m + 1]>> # <<>>
        OBVIOUS
      <4>3. QED
        BY <4>1, <4>2 DEF ReadChunk
    <3>2. QED
      BY <3>1
  <2>6. /\ chk + 1 < totalchunks =>
             /\ chunk_in_buf' = chk + 1
             /\ \E torn, old : buf' = ReadChunk(chk + 1, TRUE, torn, old)
        /\ ~(chk + 1 < totalchunks) =>
             /\ chunk_in_buf' = chk
             /\ \E torn : buf' = IF chunk_in_buf = chk THEN buf
                                 ELSE ReadChunk(chk, TRUE, torn, buf)
    BY <1>5 DEF SendChunk, DiskWorks
  <2>7. CASE chk + 1 < totalchunks
    <3>1. chk + 1 \in 0..(totalchunks - 1)
      BY <2>4, <2>7
    <3>2. buf' = <<Stream(r)[(chk + 1) + 1]>>
      BY <2>5, <2>6, <2>7, <3>1
    <3>3. QED
      BY <2>1, <2>2, <2>6, <2>7, <3>2
  <2>8. CASE ~(chk + 1 < totalchunks)
    <3>1. chunk_in_buf' = chk /\ chk \in 0..(totalchunks - 1)
      BY <2>1, <2>6, <2>8
    <3>2. buf' = <<Stream(r)[chk + 1]>>
      <4>1. CASE chunk_in_buf = chk
        BY <2>1, <2>2, <2>6, <2>8, <3>1, <4>1 DEF ChunkAhead
      <4>2. CASE chunk_in_buf # chk
        BY <2>5, <2>6, <2>8, <3>1, <4>2
      <4>3. QED
        BY <4>1, <4>2
    <3>3. QED
      BY <2>1, <2>2, <3>1, <3>2
  <2>9. QED
    BY <2>7, <2>8
<1>6. CASE ~SendChunk
  <2>1. SameBuffers
    BY <1>2, <1>3, <1>4, <1>6, BuffersKept
  <2>2. /\ infile' = infile /\ chunk_in_buf' = chunk_in_buf /\ buf' = buf
        /\ totalchunks' = totalchunks /\ tystream'.of = tystream.of
    BY <2>1 DEF SameBuffers, sourceVars
  <2>3. QED
    BY <2>2 DEF ChunkAhead
<1>7. QED
  BY <1>5, <1>6

(* What SCTY sends.                                                        *)
LEMMA ChunkSent ==
    ASSUME DiskWorks, ConnInv, IInv, Asking, ChunkAhead, SendChunk, ServerStep,
           UNCHANGED <<program, asked>>, ~Uses("SCTX")
    PROVE  ServedChunk'
<1>1. request # <<>> /\ to_client = <<>> /\ arg = asked.arg /\ arg \in Nat
  BY AskedNow DEF ServerStep
<1>2. /\ infile /\ UNCHANGED <<infile, tystream>>
      /\ UNCHANGED <<Fsid_list, Fsid_list_count, totalchunks>>
  BY DEF SendChunk, sourceVars
<1>3. PICK r \in DOMAIN Recordings : r = tystream.of /\ Numbered(r)
  BY <1>2 DEF ConnInv, IInv, NothingLeftBehind, OpenStreams
<1>4. tystream.start_chunk \in Nat
  BY <1>2 DEF ConnInv, IInv, NothingLeftBehind, OpenStreams
<1>5. chk \in Nat /\ totalchunks \in Nat /\ Asked' = chk
  BY <1>1, <1>2, <1>4 DEF chk, Asked, ConnInv, ListOK
<1>0. PICK torn : Handle("SCTY", Sent("chunk", IF chunk_in_buf = chk THEN buf
                                               ELSE ReadChunk(chk, TRUE, torn, buf)))
  BY DEF SendChunk, DiskWorks
<1> DEFINE sent == IF chunk_in_buf = chk THEN buf ELSE ReadChunk(chk, TRUE, torn, buf)
<1>6. Handle("SCTY", Sent("chunk", sent))
  BY <1>0
<1>7. ASSUME chk < totalchunks PROVE sent = <<Stream(r)[chk + 1]>>
  <2>1. chk \in 0..(totalchunks - 1)
    BY <1>5, <1>7
  <2>2. CASE chunk_in_buf = chk
    BY <1>2, <1>3, <2>1, <2>2 DEF ChunkAhead
  <2>3. CASE chunk_in_buf # chk
    <3>1. mfs_multifsid_pread(chk) = <<Stream(r)[chk + 1]>>
      BY <1>3, <2>1, ReadOne
    <3>2. <<Stream(r)[chk + 1]>> # <<>>
      OBVIOUS
    <3>3. QED
      BY <2>3, <3>1, <3>2 DEF ReadChunk
  <2>4. QED
    BY <2>2, <2>3
<1> HIDE DEF sent
<1>8. Sent("chunk", sent) \in Seq(TokensOf("chunk", {sent}, {<<>>, sent}))
  <2>1. "chunk" \in Subjects
    BY DEF Subjects
  <2>2. QED
    BY <2>1, SentData
<1>9. \A t \in Data("chunk")' : t.data \in {sent}
  BY <1>1, <1>6, <1>8, ReplyData
<1>10. QED
  BY <1>2, <1>3, <1>5, <1>7, <1>9 DEF ServedChunk

LEMMA NextChunk ==
    ASSUME DiskWorks, ConnInv, IInv, Asking, ChunkAhead, ServedChunk, [Next]_vars
    PROVE  ChunkAhead' /\ ServedChunk'
<1>1. CASE Ask
  <2>1. UNCHANGED <<program, sourceVars, serverVars>> /\ to_client' = <<>>
    BY <1>1 DEF Ask
  <2>2. ChunkAhead'
    BY <2>1 DEF ChunkAhead, Uses, sourceVars, serverVars
  <2>3. Data("chunk")' = {}
    BY <2>1 DEF Data, ToSet
  <2>4. QED
    BY <2>2, <2>3 DEF ServedChunk
<1>2. CASE ServerStep /\ UNCHANGED <<program, asked>>
  <2>1. ChunkAhead'
    BY <1>2, StepAhead
  <2>2. CASE SendChunk /\ ~Uses("SCTX")
    BY <1>2, <2>1, <2>2, ChunkSent
  <2>3. CASE Uses("SCTX")
    BY <1>2, <2>1, <2>3 DEF ServedChunk, Uses
  <2>4. CASE ~SendChunk
    <3>1. Data("chunk")' = {}
      BY <1>2, <2>4, NoData DEF Kinds
    <3>2. QED
      BY <2>1, <3>1 DEF ServedChunk
  <2>5. QED
    BY <2>2, <2>3, <2>4
<1>3. CASE UNCHANGED vars
  BY <1>3 DEF vars, sourceVars, serverVars, ChunkAhead, ServedChunk, Data, Asked, Uses
<1>4. QED
  BY <1>1, <1>2, <1>3 DEF Next

-----------------------------------------------------------------------------
(* The block read ahead.                                                   *)
LEMMA InsideBlock ==
    ASSUME NEW r \in DOMAIN Recordings, Numbered(r), NEW m \in Nat, InsideAPart(m, CHUNKX)
    PROVE  mfs_multifsid_pread_X(m, CHUNKX) = [ok |-> TRUE, read |-> Block(r, m, CHUNKX)]
<1>1. CHUNKX \in Nat
  BY ServerAssumption
<1>2. PICK i \in 0..(Len(Parts(r)) - 1) :
        Fsid_list[i].start_chunk <= m /\ m + CHUNKX <= Fsid_list[i].end_chunk
  BY DEF InsideAPart, Numbered
<1>3. FirstNumber(r)[i + 1] <= m /\ m + CHUNKX <= EndChunk(r, i + 1)
  BY <1>2 DEF Numbered
<1>4. QED
  BY <1>1, <1>3, BlockInPart

LEMMA StepProbed ==
    ASSUME ConnInv, IInv, Probed, ServerStep
    PROVE  Probed'
<1>1. alive = "up"
  BY DEF ServerStep
<1>2. CASE OpenHangs \/ OpenProbeFails \/ Close \/ PlayStream
  BY <1>2 DEF OpenHangs, OpenProbeFails, Close, PlayStream, Probed
<1>3. CASE Open
  <2>1. Chunks(arg) > 1 /\ Chunks(arg) \div ProbeChunks # 0
    <3>1. arg \in DOMAIN Recordings /\ ~ProbeHangs /\ ~ProbeFails
      BY <1>3 DEF Open
    <3>2. Chunks(arg) \in Nat
      BY <3>1, StreamPlaces
    <3>3. QED
      BY <3>1, <3>2 DEF ProbeHangs, ProbeFails
  <2>2. tystream'.of = arg /\ tystream'.start_chunk = Recordings[arg].start
    BY <1>3 DEF Open
  <2>3. PICK r : r = arg
    OBVIOUS
  <2>4. Probes(tystream'.of) /\ tystream'.start_chunk = Recordings[tystream'.of].start
    BY <2>1, <2>2 DEF Probes
  <2>5. QED
    BY <2>4 DEF Probed, Probes
<1>4. CASE SendChunk \/ SendBlock \/ BlockUnreadable
  <2>1. infile' = infile /\ tystream' = tystream /\ alive' = alive
    BY <1>4 DEF SendChunk, SendBlock, BlockUnreadable
  <2>2. QED
    BY <2>1 DEF Probed, Probes
<1>5. CASE ~(OpenHangs \/ OpenProbeFails \/ Open \/ Close \/ PlayStream
             \/ SendChunk \/ SendBlock \/ BlockUnreadable)
  <2>1. SameBuffers
    BY <1>5, BuffersKept
  <2>2. QED
    BY <1>1, <2>1 DEF SameBuffers, Probed, Probes
<1>6. QED
  BY <1>2, <1>3, <1>4, <1>5

(* With a disk that works a client that asks as tyget does finds no block  *)
(* unreadable: one that is would leave a buffer its number does not name.  *)
LEMMA NoneUnreadable ==
    ASSUME DiskWorks, AsksAsTyget, LongParts, ConnInv, IInv, Asking, Probed, ServerStep
    PROVE  ~BlockUnreadable
<1> SUFFICES ASSUME BlockUnreadable PROVE FALSE
  OBVIOUS
<1>1. /\ request # <<>> /\ alive = "up" /\ infile
      /\ Head(request).cmd = "SCTX" /\ chk + CHUNKX <= totalchunks
  BY DEF ServerStep, BlockUnreadable, Handle
<1>2. \E torn : ~ReadBlock(chk, TRUE, torn, bufx).ok
  BY DEF BlockUnreadable, DiskWorks
<1>3. PICK r \in DOMAIN Recordings : r = tystream.of /\ Numbered(r)
  BY <1>1 DEF ConnInv, IInv, NothingLeftBehind, OpenStreams
<1>4. Probes(r) /\ tystream.start_chunk = Recordings[r].start
  BY <1>1, <1>3 DEF Probed
<1>5. Head(request) = asked /\ asked \in program /\ program \in Programs
      /\ arg = asked.arg /\ arg \in Nat
  BY <1>1, AskedNow
<1>6. Recordings[r].start \in Nat /\ CHUNKX \in Nat
  BY ServerAssumption
<1>7. Chunks(r) \in Nat /\ totalchunks = Chunks(r)
  BY <1>3, StreamPlaces DEF Numbered
<1>8. arg + CHUNKX # NumberOfChunks(r)
  BY <1>1, <1>4, <1>5 DEF AsksAsTyget
<1>9. chk \in Nat /\ chk + CHUNKX < totalchunks
  <2>1. \A a, st, X, n \in Nat :
          a + X # n - st /\ (a + st) + X <= n => a + st \in Nat /\ (a + st) + X < n
    OBVIOUS
  <2>2. chk = arg + Recordings[r].start /\ NumberOfChunks(r) = Chunks(r) - Recordings[r].start
    BY <1>4 DEF chk, NumberOfChunks
  <2>3. QED
    BY <1>1, <1>5, <1>6, <1>7, <1>8, <2>1, <2>2
<1>10. mfs_multifsid_pread_X(chk, CHUNKX).ok
  BY <1>3, <1>4, <1>6, <1>9, BlockReadable DEF LongParts
<1>11. QED
  BY <1>2, <1>10 DEF ReadBlock

(* What SCTX sends, and what it reads ahead.                               *)
LEMMA BlockStep ==
    ASSUME ConnInv, IInv, Asking, BlockAhead, SendBlock, ServerStep,
           UNCHANGED <<program, asked>>, ~Uses("SCTY")
    PROVE  BlockAhead' /\ ServedBlock'
<1>1. request # <<>> /\ to_client = <<>> /\ arg = asked.arg /\ arg \in Nat
  BY AskedNow DEF ServerStep
<1>2. /\ infile /\ UNCHANGED <<infile, tystream>>
      /\ UNCHANGED <<Fsid_list, Fsid_list_count, totalchunks>>
  BY DEF SendBlock, sourceVars
<1>3. PICK r \in DOMAIN Recordings : r = tystream.of /\ Numbered(r)
  BY <1>2 DEF ConnInv, IInv, NothingLeftBehind, OpenStreams
<1>4. tystream.start_chunk \in Nat
  BY <1>2 DEF ConnInv, IInv, NothingLeftBehind, OpenStreams
<1>5. CHUNKX \in Nat
  BY ServerAssumption
<1>6. chk \in Nat /\ chk + CHUNKX \in Nat /\ Asked' = chk
  BY <1>1, <1>2, <1>4, <1>5 DEF chk, Asked
<1>7. \A m : InsideAPart(m, CHUNKX)' <=> InsideAPart(m, CHUNKX)
  BY <1>2 DEF InsideAPart
<1>8. PICK works \in Works, workstoo \in Works, torn \in BOOLEAN, torntoo \in BOOLEAN :
        LET sent == IF chunk_in_buf = chk THEN [ok |-> TRUE, block |-> bufx]
                                          ELSE ReadBlock(chk, works, torn, bufx)
            next == ReadBlock(chk + CHUNKX, workstoo, torntoo, sent.block)
        IN  /\ Handle("SCTX", Sent("block", sent.block)) /\ sent.ok
            /\ IF chk + CHUNKX < totalchunks
               THEN /\ chunk_in_buf' = (IF next.ok THEN chk + CHUNKX ELSE NoCursor)
                    /\ bufx' = next.block
               ELSE chunk_in_buf' = chk /\ bufx' = sent.block
  BY DEF SendBlock
<1> DEFINE sent == IF chunk_in_buf = chk THEN [ok |-> TRUE, block |-> bufx]
                                         ELSE ReadBlock(chk, works, torn, bufx)
           next == ReadBlock(chk + CHUNKX, workstoo, torntoo, sent.block)
<1>9. bufx \in Buffers(CHUNKX)
  BY DEF ConnInv
<1>10. \A m \in Nat : \A w, t : \A old \in Buffers(CHUNKX) :
         InsideAPart(m, CHUNKX) /\ ReadBlock(m, w, t, old).ok =>
           ReadBlock(m, w, t, old).block = Block(r, m, CHUNKX)
  <2>1. ASSUME NEW m \in Nat, NEW w, NEW t, NEW old \in Buffers(CHUNKX),
               InsideAPart(m, CHUNKX), ReadBlock(m, w, t, old).ok
        PROVE  ReadBlock(m, w, t, old).block = Block(r, m, CHUNKX)
    <3>1. w
      BY <2>1 DEF ReadBlock
    <3>2. mfs_multifsid_pread_X(m, CHUNKX) = [ok |-> TRUE, read |-> Block(r, m, CHUNKX)]
      BY <1>3, <2>1, InsideBlock
    <3>3. ReadBlock(m, w, t, old).block = Over(Block(r, m, CHUNKX), old)
      BY <3>1, <3>2 DEF ReadBlock
    <3>4. Block(r, m, CHUNKX) \in Seq(OnSomeDisk) /\ Len(Block(r, m, CHUNKX)) = CHUNKX
      BY <1>3, <1>5, <3>2, BlockType
    <3>5. QED
      BY <1>5, <3>3, <3>4, OverTyped
  <2>2. QED
    BY <2>1
<1>11. ASSUME InsideAPart(chk, CHUNKX) PROVE sent.block = Block(r, chk, CHUNKX)
  <2>1. CASE chunk_in_buf = chk
    <3>1. chunk_in_buf # NoCursor
      BY <1>6, <2>1 DEF NoCursor
    <3>2. bufx = Block(r, chk, CHUNKX)
      BY <1>2, <1>3, <1>11, <2>1, <3>1 DEF BlockAhead
    <3>3. QED
      BY <2>1, <3>2
  <2>2. CASE chunk_in_buf # chk
    <3>1. sent = ReadBlock(chk, works, torn, bufx) /\ sent.ok
      BY <1>8, <2>2
    <3>2. QED
      BY <1>6, <1>9, <1>10, <1>11, <3>1
  <2>3. QED
    BY <2>1, <2>2
<1>12. sent.block \in Buffers(CHUNKX)
  <2>1. chk \in Int
    BY <1>6
  <2>2. ReadBlock(chk, works, torn, bufx).block \in Buffers(CHUNKX)
    BY <1>3, <1>9, <2>1, BlockTyped
  <2>3. QED
    BY <1>9, <2>2
<1>15. BlockAhead'
  <2> SUFFICES ASSUME (chunk_in_buf # NoCursor)', InsideAPart(chunk_in_buf', CHUNKX)
               PROVE  bufx' = Block(r, chunk_in_buf', CHUNKX)
    BY <1>2, <1>3 DEF BlockAhead, InsideAPart
  <2>1. CASE chk + CHUNKX < totalchunks
    <3>1. next.ok /\ chunk_in_buf' = chk + CHUNKX
      BY <1>8, <2>1 DEF NoCursor
    <3>2. bufx' = next.block
      BY <1>8, <2>1
    <3>3. InsideAPart(chk + CHUNKX, CHUNKX)
      BY <3>1
    <3> HIDE DEF sent
    <3>4. next.block = Block(r, chk + CHUNKX, CHUNKX)
      BY <1>6, <1>10, <1>12, <3>1, <3>3
    <3>5. QED
      BY <3>1, <3>2, <3>4
  <2>2. CASE ~(chk + CHUNKX < totalchunks)
    BY <1>8, <1>11, <2>2
  <2>3. QED
    BY <2>1, <2>2
<1>16. ServedBlock'
  <2>1. Handle("SCTX", Sent("block", sent.block))
    BY <1>8
  <2> HIDE DEF sent
  <2>2. Sent("block", sent.block) \in Seq(TokensOf("block", {sent.block}, {<<>>, sent.block}))
    <3>1. "block" \in Subjects
      BY DEF Subjects
    <3>2. QED
      BY <3>1, SentData
  <2>3. \A t \in Data("block")' : t.data \in {sent.block}
    BY <1>1, <2>1, <2>2, ReplyData
  <2>4. (InsideAPart(Asked, CHUNKX))' <=> InsideAPart(chk, CHUNKX)
    BY <1>2, <1>6 DEF InsideAPart
  <2>5. Block(tystream.of, Asked, CHUNKX)' = Block(r, chk, CHUNKX)
    BY <1>2, <1>3, <1>6 DEF Block
  <2>6. QED
    BY <1>11, <2>3, <2>4, <2>5 DEF ServedBlock
<1>17. QED
  BY <1>15, <1>16

LEMMA StepBlockAhead ==
    ASSUME DiskWorks, AsksAsTyget, LongParts, ConnInv, IInv, Asking, Probed, BlockAhead,
           ServerStep, UNCHANGED <<program, asked>>, ~SendBlock
    PROVE  BlockAhead'
<1> SUFFICES ASSUME ~Uses("SCTY"), infile', chunk_in_buf' # NoCursor,
                    InsideAPart(chunk_in_buf, CHUNKX)'
             PROVE  (bufx = Block(tystream.of, chunk_in_buf, CHUNKX))'
  BY DEF BlockAhead, Uses, NoCursor
<1>1. ~SendChunk
  BY Unused DEF SendChunk, ServerStep
<1>2. ~(OpenHangs \/ Open \/ OpenProbeFails \/ Close \/ PlayStream)
  BY NewStream DEF OpenProbeFails, Close, PlayStream
<1>3. /\ UNCHANGED <<Fsid_list, Fsid_list_count, infile, chunk_in_buf, bufx>>
      /\ tystream'.of = tystream.of
  <2>1. ~BlockUnreadable
    BY NoneUnreadable
  <2>2. QED
    BY <1>1, <1>2, <2>1, BuffersKept DEF SameBuffers, sourceVars
<1>4. QED
  BY <1>3 DEF BlockAhead, InsideAPart

LEMMA NextBlock ==
    ASSUME DiskWorks, AsksAsTyget, LongParts, ConnInv, IInv, Asking, Probed, BlockAhead,
           ServedBlock, [Next]_vars
    PROVE  Probed' /\ BlockAhead' /\ ServedBlock'
<1>1. CASE Ask
  <2>1. UNCHANGED <<program, sourceVars, serverVars>> /\ to_client' = <<>>
    BY <1>1 DEF Ask
  <2>2. BlockAhead'
    BY <2>1 DEF BlockAhead, InsideAPart, Uses, NoCursor, sourceVars, serverVars
  <2>3. Probed'
    BY <2>1 DEF Probed, Probes, serverVars
  <2>4. Data("block")' = {}
    BY <2>1 DEF Data, ToSet
  <2>5. QED
    BY <2>2, <2>3, <2>4 DEF ServedBlock
<1>2. CASE ServerStep /\ UNCHANGED <<program, asked>>
  <2>1. Probed'
    BY <1>2, StepProbed
  <2>2. CASE SendBlock /\ ~Uses("SCTY")
    BY <1>2, <2>1, <2>2, BlockStep
  <2>3. CASE Uses("SCTY")
    BY <1>2, <2>1, <2>3 DEF ServedBlock, BlockAhead, Uses
  <2>4. CASE ~SendBlock
    <3>1. Data("block")' = {}
      BY <1>2, <2>4, NoData DEF Kinds
    <3>2. BlockAhead'
      BY <1>2, <2>4, StepBlockAhead
    <3>3. QED
      BY <2>1, <3>1, <3>2 DEF ServedBlock
  <2>5. QED
    BY <2>2, <2>3, <2>4
<1>3. CASE UNCHANGED vars
  BY <1>3 DEF vars, sourceVars, serverVars, BlockAhead, ServedBlock, Probed, Probes, NoCursor,
              InsideAPart, Data, Asked, Uses
<1>4. QED
  BY <1>1, <1>2, <1>3 DEF Next

-----------------------------------------------------------------------------
(* What the server keeps of an open recording and of its buffers, and that *)
(* a client asks one thing at a time: IInv, ConnInv and Asking.            *)
THEOREM SessionInv == Spec => [](IInv /\ ConnInv /\ Asking)
BY InitIInv, InitConn, NextIInv, NextConn, NextAsking, PTL DEF Spec

(* readfile.c, across any number of opens that reuse the list: every       *)
(* variable of the connection has its type, and while a stream is open the *)
(* numbers below totalchunks read the chunks of that recording, and no     *)
(* other number reads anything.                                            *)
THEOREM NumbersReadTheRecording == Spec => []NumbersSound
BY SessionInv, ConnNumbers, PTL

(* send_chunk_tydemux, with a disk that works: the chunk sent is the chunk *)
(* asked for, whatever was sent, read ahead, closed and opened before.     *)
THEOREM ChunksAreServed == DiskWorks => (Spec => []ServedChunk)
<1> SUFFICES ASSUME DiskWorks PROVE Spec => []ServedChunk
  OBVIOUS
<1>1. Init => ServedChunk
  BY DEF Init, ServerInit, ServedChunk, Data, ToSet
<1>2. /\ ChunkAhead /\ ServedChunk /\ IInv /\ ConnInv /\ Asking /\ [Next]_vars
      => ChunkAhead' /\ ServedChunk'
  BY NextChunk
<1>3. QED
  BY <1>1, <1>2, SessionInv, InitAhead, PTL DEF Spec

(* send_chunk_tydemux_X, with a disk that works, for a client that asks as *)
(* tyget does and recordings with no part so short that a block reaches    *)
(* over it: a client that asks for blocks only is sent the block it asks   *)
(* for, if that ends before its part does (ServedBlock says nothing of one *)
(* that reaches the end of its part), whatever was read ahead, refused,    *)
(* closed and opened before.                                               *)
THEOREM BlocksAreServed ==
    DiskWorks /\ AsksAsTyget /\ LongParts => (Spec => []ServedBlock)
<1> SUFFICES ASSUME DiskWorks, AsksAsTyget, LongParts PROVE Spec => []ServedBlock
  OBVIOUS
<1>1. Init => ServedBlock
  BY DEF Init, ServerInit, ServedBlock, Data, ToSet
<1>2. /\ Probed /\ BlockAhead /\ ServedBlock /\ IInv /\ ConnInv /\ Asking /\ [Next]_vars
      => Probed' /\ BlockAhead' /\ ServedBlock'
  BY NextBlock
<1>3. QED
  BY <1>1, <1>2, SessionInv, InitAhead, PTL DEF Spec
=============================================================================

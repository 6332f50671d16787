------------------------------ MODULE TyServer ------------------------------
(***************************************************************************)
(* tyserver/tyserver.c: one connection to the server.                      *)
(*                                                                         *)
(* The server forks for every connection, so what it keeps (the globals of *)
(* tyserver.c and readfile.c) belongs to one connection.  handle_request   *)
(* reads one command and answers it before it reads the next; each action  *)
(* below is one way through one command.  request is the commands written  *)
(* and not read yet, to_client the lines and data the client has not read. *)
(*                                                                         *)
(* A reply is a sequence of tokens [k, of, data]: k is "200", "300" or     *)
(* "400" for such a line, "text" for a line of the probe, "list" for a     *)
(* list of recordings or GOPs and "data" for binary data.  of says what    *)
(* kind and so what size it is (of a 300 line: what it announces).         *)
(***************************************************************************)
EXTENDS ChunkSource

CONSTANTS
    CHUNKX,       \* chunks in a block
    ProbeChunks,  \* the probe wants this many chunks: 10
    Indexed,      \* fsids with a file in /var/index/index
    Listings,     \* can NowShowing be had?  {TRUE} or BOOLEAN
    Works         \* do reads of the disk and parsing work?  {TRUE} or BOOLEAN

(* probe: does tivo_probe_tystream accept the recording, and if so does it *)
(* find a frame rate the client does not know; start: its first chunk with *)
(* the right audio; gops: how many GOPs create_index_tivo finds; waits:    *)
(* how many "Still indexing" lines it writes meanwhile.                    *)
ASSUME ServerAssumption ==
    /\ CHUNKX \in Nat \ {0, 1} /\ ProbeChunks \in Nat \ {0}
    /\ Listings \in (SUBSET BOOLEAN) \ {{}} /\ Works \in (SUBSET BOOLEAN) \ {{}}
    /\ DOMAIN Recordings \subseteq Nat /\ Indexed \subseteq DOMAIN Recordings
    /\ \A r \in DOMAIN Recordings :
         /\ r >= 1000
         /\ Recordings[r].probe \in {"fails", "odd rate", "fine"}
         /\ Recordings[r].start \in Nat /\ Recordings[r].waits \in Nat
         /\ Recordings[r].gops \in Nat \ {0}

VARIABLES
    infile,        \* is a stream open?
    fsid,          \* the number of the last OPTY, -1 for none
    tystream,      \* [of, start_chunk, index] of the open stream or NoStream
    chunk_in_buf,  \* number of the chunk in buf, and of the first one in bufx
    buf, bufx,     \* a chunk, a block
    alive,         \* "up", "exited", "crashed", "hung"
    request, to_client

serverVars == <<infile, fsid, tystream, chunk_in_buf, buf, bufx, alive>>

NoStream == [of |-> -1, start_chunk |-> 0, index |-> -1]
Blank == [fsid |-> <<>>, nr |-> 0]

ServerInit ==
    /\ SourceInit
    /\ infile = FALSE /\ fsid = -1 /\ tystream = NoStream
    /\ chunk_in_buf = -1
    /\ buf = <<Blank>> /\ bufx = [i \in 1..CHUNKX |-> Blank]
    /\ alive = "up"
    /\ request = <<>> /\ to_client = <<>>
-----------------------------------------------------------------------------
Token(k, of, data) == <<[k |-> k, of |-> of, data |-> data]>>
Ok == Token("200", "line", <<>>)
Error == Token("400", "line", <<>>)
Announce(of) == Token("300", of, <<>>)
Text(value) == Token("text", "line", <<value>>)

(* swrite_fsid_index_list and swrite_gop_index_list.                       *)
MutRecordingList == Ok \o Announce("list") \o Token("list", "recordings", <<>>) \o Ok
RecordingList == Ok \o Announce("list") \o Token("list", "recordings", <<>>)
GopList(r) == Ok \o Announce("list") \o Token("list", "gops", <<r>>) \o Ok

MutSent(of, data) == Ok \o Announce(of) \o Token("data", of, data)
Sent(of, data) == Ok \o Announce(of) \o Token("data", of, data) \o Ok

(* print_probe_tivo: seven times a 200 line, a 300 line and the value.  The*)
(* sixth is the frame rate, the last the number of chunks a client can ask *)
(* for: its chunk 0 is the start chunk.                                    *)
MutNumberOfChunks(r) == Chunks(r)
NumberOfChunks(r) == Chunks(r) - Recordings[r].start

ProbeResult(r) ==
    LET value(i) == CASE i = 6 /\ Recordings[r].probe = "odd rate" -> -1
                      [] i = 7 -> NumberOfChunks(r)
                      [] OTHER -> 0
    IN  Ok \o FlattenSeq([i \in 1..7 |-> Ok \o Announce("text") \o Text(value(i))])
           \o Ok

(* handle_request: the next command is cmd and the answer reply.           *)
Handle(cmd, reply) ==
    /\ Head(request).cmd = cmd
    /\ request' = Tail(request)
    /\ to_client' = to_client \o reply

arg == Head(request).arg

(* tystream is dereferenced when it is NULL, after reply was written.      *)
Crash(cmd, reply) ==
    /\ Handle(cmd, reply)
    /\ alive' = "crashed"
    /\ UNCHANGED <<sourceVars, infile, fsid, tystream, chunk_in_buf, buf, bufx>>

Refuse(cmd, reply) ==
    Handle(cmd, reply) /\ UNCHANGED <<sourceVars, serverVars>>
-----------------------------------------------------------------------------
(* list_recordings_tydemux *)
List ==
    \E available \in Listings :
      Refuse("LITY", IF available THEN RecordingList ELSE Error)

(* exit_server *)
Exit ==
    /\ Handle("EXIT", Ok)
    /\ alive' = "exited"
    /\ UNCHANGED <<sourceVars, infile, fsid, tystream, chunk_in_buf, buf, bufx>>

MutKeepCursor == chunk_in_buf
NoCursor == -1

(* close_file *)
Close ==
    /\ Handle("COTY", Ok)
    /\ tystream' = NoStream /\ infile' = FALSE
    /\ chunk_in_buf' = NoCursor
    /\ totalchunks' = 0
    /\ fsid' = -1
    /\ UNCHANGED <<Fsid_list, Fsid_list_count, buf, bufx, alive>>

(* open_file_tydemux: the ways out before open_input.  A name with fewer   *)
(* than four characters is refused first; after that fsid is overwritten.  *)
(* An argument of 0 stands for a longer name that is no number.            *)
ShortName == arg \in 1..999

OpenRefused ==
    /\ \/ ShortName /\ fsid' = fsid
       \/ arg = 0 /\ fsid' = -1
       \/ arg > 999 /\ infile /\ fsid' = arg
       \/ arg > 999 /\ ~infile /\ FALSE \in Listings /\ fsid' = arg
       \/ arg > 999 /\ ~infile /\ arg \notin DOMAIN Recordings /\ fsid' = -1
       \/ /\ ~infile /\ arg \in DOMAIN Recordings /\ Parts(arg) = <<>>
          /\ fsid' = arg
    /\ Handle("OPTY", Error)
    /\ UNCHANGED <<sourceVars, infile, tystream, chunk_in_buf, buf, bufx, alive>>

(* The name is listed and open_input understands it.                       *)
Opened(reply) ==
    /\ Handle("OPTY", reply)
    /\ ~infile /\ TRUE \in Listings
    /\ arg \in DOMAIN Recordings /\ Parts(arg) # <<>>
    /\ open_input(arg)

(* The probe reads every totalchunks / 10th chunk.  With fewer than ten    *)
(* chunks it steps by 0 and never ends; with one it reads none and fails.  *)
ProbeHangs == Chunks(arg) > 1 /\ Chunks(arg) \div ProbeChunks = 0
ProbeFails == Chunks(arg) <= 1 \/ Recordings[arg].probe = "fails"

OpenHangs ==
    /\ Opened(Ok)
    /\ ProbeHangs
    /\ infile' = TRUE /\ fsid' = arg /\ alive' = "hung"
    /\ tystream' = [of |-> arg, start_chunk |-> 0, index |-> -1]
    /\ UNCHANGED <<chunk_in_buf, buf, bufx>>

OpenProbeFails ==
    /\ Opened(Ok \o Error)
    /\ ~ProbeHangs /\ ProbeFails
    /\ infile' = FALSE /\ fsid' = -1 /\ tystream' = NoStream
    /\ UNCHANGED <<chunk_in_buf, buf, bufx, alive>>

Open ==
    /\ arg \in DOMAIN Recordings
    /\ Opened(Ok \o Ok \o Ok \o ProbeResult(arg))
    /\ tystream' = [of |-> arg, start_chunk |-> Recordings[arg].start, index |-> -1]
    /\ ~ProbeHangs /\ ~ProbeFails
    /\ infile' = TRUE /\ fsid' = arg
    /\ UNCHANGED <<chunk_in_buf, buf, bufx, alive>>
-----------------------------------------------------------------------------
(* send_chunk_tydemux and send_chunk_tydemux_X.  Without an open stream    *)
(* both write an error and go on to tystream->start_chunk.                 *)
chk == arg + tystream.start_chunk

(* read_a_chunk: nothing is read for a number that no part holds; a disk   *)
(* that fails may have torn what the buffer held.  A torn buffer has parts *)
(* of the old and of the new data and is taken to hold neither.            *)
ReadChunk(n, works, torn, old) ==
    IF mfs_multifsid_pread(n) = <<>> THEN old
    ELSE IF works THEN mfs_multifsid_pread(n)
    ELSE IF torn THEN <<Blank>> ELSE old

SendChunk ==
    \E works, workstoo \in Works, torn, torntoo \in BOOLEAN :
      LET sent == IF chunk_in_buf = chk THEN buf ELSE ReadChunk(chk, works, torn, buf)
      IN  /\ Handle("SCTY", Sent("chunk", sent))
          /\ infile /\ chk <= totalchunks
          /\ IF chk + 1 < totalchunks
             THEN chunk_in_buf' = chk + 1 /\ buf' = ReadChunk(chk + 1, workstoo, torntoo, sent)
             ELSE chunk_in_buf' = chk /\ buf' = sent
          /\ UNCHANGED <<sourceVars, infile, fsid, tystream, bufx, alive>>

NoChunk == infile /\ chk > totalchunks /\ Refuse("SCTY", Error)

(* read_a_chunkX: does it succeed, and what is in the buffer then?  A      *)
(* chain that fails keeps what it has copied before.                       *)
Over(read, old) == read \o SubSeq(old, Len(read) + 1, CHUNKX)
Torn == [i \in 1..CHUNKX |-> Blank]

ReadBlock(n, works, torn, old) ==
    LET chain == mfs_multifsid_pread_X(n, CHUNKX)
    IN  IF works THEN [ok |-> chain.ok, block |-> Over(chain.read, old)]
        ELSE [ok |-> FALSE, block |-> IF torn THEN Torn ELSE old]

SendBlock ==
    \E works, workstoo \in Works, torn, torntoo \in BOOLEAN :
      LET sent == IF chunk_in_buf = chk THEN [ok |-> TRUE, block |-> bufx]
                                        ELSE ReadBlock(chk, works, torn, bufx)
          next == ReadBlock(chk + CHUNKX, workstoo, torntoo, sent.block)
      IN  /\ Handle("SCTX", Sent("block", sent.block))
          /\ infile /\ chk + CHUNKX <= totalchunks
          /\ sent.ok
          /\ IF chk + CHUNKX < totalchunks
             THEN /\ chunk_in_buf' = (IF next.ok THEN chk + CHUNKX ELSE NoCursor)
                  /\ bufx' = next.block
             ELSE chunk_in_buf' = chk /\ bufx' = sent.block
          /\ UNCHANGED <<sourceVars, infile, fsid, tystream, buf, alive>>

(* The block asked for cannot be read: bufx is overwritten, but the cursor *)
(* still names what it held before.                                        *)
BlockUnreadable ==
    \E works \in Works, torn \in BOOLEAN :
      LET failed == ReadBlock(chk, works, torn, bufx)
      IN  /\ Handle("SCTX", Error)
          /\ infile /\ chk + CHUNKX <= totalchunks /\ chunk_in_buf # chk
          /\ ~failed.ok
          /\ bufx' = failed.block
          /\ UNCHANGED <<sourceVars, infile, fsid, tystream, chunk_in_buf, buf, alive>>

NoBlock == infile /\ chk + CHUNKX > totalchunks /\ Refuse("SCTX", Error)
-----------------------------------------------------------------------------
(* create_index_tivo.  A stream that has its index is not indexed again,   *)
(* and the command not answered.                                           *)
IndexedAlready == tystream.index # -1 /\ Refuse("CITY", <<>>)

IndexNoFsid == infile /\ tystream.index = -1 /\ fsid = -1 /\ Refuse("CITY", Error)

(* The cached index is looked up by fsid.                                  *)
IndexCached ==
    /\ infile /\ tystream.index = -1 /\ fsid \in Indexed
    /\ Handle("CITY", Ok \o Ok \o GopList(fsid))
    /\ tystream' = [tystream EXCEPT !.index = fsid]
    /\ UNCHANGED <<sourceVars, infile, fsid, chunk_in_buf, buf, bufx, alive>>

Uncached == infile /\ tystream.index = -1 /\ fsid # -1 /\ fsid \notin Indexed

CreateIndex ==
    /\ Uncached /\ Recordings[tystream.of].gops > 1
    /\ Handle("CITY", [i \in 1..(3 + Recordings[tystream.of].waits) |-> Ok[1]]
                        \o GopList(tystream.of))
    /\ tystream' = [tystream EXCEPT !.index = tystream.of]
    /\ UNCHANGED <<sourceVars, infile, fsid, chunk_in_buf, buf, bufx, alive>>

(* With one GOP the last one has no previous.                              *)
IndexOneGop ==
    Uncached /\ Recordings[tystream.of].gops = 1 /\ Crash("CITY", Ok \o Ok)

(* get_seq_frame and get_i_frame: the index says where to look, the data   *)
(* come from the open stream.  The last GOP is not in the index.           *)
Frame(nr) == [of |-> tystream.of, by |-> tystream.index, nr |-> nr]

SendSeq ==
    \E works \in Works :
      /\ infile /\ tystream.index # -1
      /\ Refuse("GSTY", IF works THEN Sent("seq", <<Frame(0)>>) ELSE Error)

(* "not indexed" is written, then init_image_tivo fails as well.           *)
SeqNotIndexed == infile /\ tystream.index = -1 /\ Refuse("GSTY", Error \o Error)

SendIFrame ==
    \E works \in Works :
      /\ infile /\ tystream.index # -1
      /\ Refuse("GITY", IF arg \in 1..(Recordings[tystream.index].gops - 1) /\ works
                        THEN Sent("frame", <<Frame(arg)>>) ELSE Error)

IFrameNotIndexed == infile /\ tystream.index = -1 /\ Crash("GITY", Error)

(* play_file_tydemux: from the chunk asked for to the last but one, each   *)
(* sent as CHUNKX chunks, the first of which is buf.  What lies behind buf *)
(* in memory may be bufx or not, and may end before: then write(2) fails   *)
(* and the process exits.                                                  *)
PlayStream ==
    \E cut, torn \in BOOLEAN, works \in Works,
       beyond \in {[i \in 1..(CHUNKX - 1) |-> Blank], SubSeq(bufx, 1, CHUNKX - 1)} :
      LET first == tystream.start_chunk + arg
          chunks == IF totalchunks - 1 > first THEN totalchunks - 1 - first ELSE 0
          played[i \in 0..chunks] ==
            IF i = 0 THEN buf ELSE ReadChunk(first + i - 1, works, torn, played[i - 1])
          stream == FlattenSeq([i \in 1..chunks |-> played[i] \o beyond])
          sent == IF cut /\ chunks > 0 THEN played[1] ELSE stream
      IN  /\ Handle("PLTY", Ok \o Announce("none") \o Token("data", "stream", sent))
          /\ infile
          /\ buf' = played[chunks]
          /\ alive' = "exited"
          /\ infile' = FALSE /\ fsid' = -1 /\ tystream' = NoStream
          /\ chunk_in_buf' = NoCursor /\ totalchunks' = 0
          /\ UNCHANGED <<Fsid_list, Fsid_list_count, bufx>>

(* Every command but OPTY, COTY and EXIT uses tystream without an open one.*)
NotOpen ==
    /\ ~infile
    /\ \/ Crash("SCTY", Error)
       \/ Crash("SCTX", Error)
       \/ Crash("CITY", <<>>)
       \/ Crash("GSTY", Error)
       \/ Crash("GITY", Error)
       \/ Crash("PLTY", Error \o Ok \o Announce("none"))

Commands == {"LITY", "OPTY", "COTY", "SCTY", "SCTX", "CITY", "GSTY", "GITY",
             "PLTY", "EXIT"}

Unrecognised ==
    Head(request).cmd \notin Commands /\ Refuse(Head(request).cmd, Error)

ServerStep ==
    /\ alive = "up" /\ request # <<>>
    /\ \/ List \/ Exit \/ Close
       \/ OpenRefused \/ OpenHangs \/ OpenProbeFails \/ Open
       \/ SendChunk \/ NoChunk \/ SendBlock \/ BlockUnreadable \/ NoBlock
       \/ IndexedAlready \/ IndexNoFsid \/ IndexCached \/ CreateIndex \/ IndexOneGop
       \/ SendSeq \/ SeqNotIndexed \/ SendIFrame \/ IFrameNotIndexed
       \/ PlayStream \/ NotOpen \/ Unrecognised
=============================================================================

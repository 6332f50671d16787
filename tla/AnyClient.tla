----------------------------- MODULE AnyClient ------------------------------
(***************************************************************************)
(* The server with a client that runs one of Programs: it sends any        *)
(* command of the program, in any order, each after it has read the whole  *)
(* reply to the one before.  The properties are about the one cursor       *)
(* chunk_in_buf that two buffers, two commands and every open and close    *)
(* share.                                                                  *)
(***************************************************************************)
EXTENDS TyServer

CONSTANT Programs   \* each a set of commands [cmd, arg]

ASSUME ProgramsAssumption ==
    \A p \in Programs : \A r \in p : r.cmd \in STRING /\ r.arg \in Nat

VARIABLES
    program,   \* the one of Programs the client runs
    asked      \* the last command, <<>> before the first

vars == <<sourceVars, serverVars, request, to_client, program, asked>>

Init == ServerInit /\ program \in Programs /\ asked = <<>>

Ask ==
    \E r \in program :
      /\ request = <<>> /\ alive = "up"
      /\ request' = <<r>> /\ asked' = r
      /\ to_client' = <<>>
      /\ UNCHANGED <<sourceVars, serverVars, program>>

Next == Ask \/ (ServerStep /\ UNCHANGED <<program, asked>>)

Spec == Init /\ [][Next]_vars
-----------------------------------------------------------------------------
OnADisk == [fsid : {<<r, i>> : r \in DOMAIN Recordings, i \in 1..MaxFsidList},
            nr : Nat]

TypeOK ==
    /\ infile \in BOOLEAN
    /\ fsid \in {-1} \cup Nat
    /\ tystream \in {NoStream} \cup
          [of : DOMAIN Recordings, start_chunk : Nat, index : {-1} \cup DOMAIN Recordings]
    /\ chunk_in_buf \in {-1} \cup Nat
    /\ Len(buf) = 1 /\ buf[1] \in OnADisk \cup {Blank}
    /\ Len(bufx) = CHUNKX /\ \A i \in 1..CHUNKX : bufx[i] \in OnADisk \cup {Blank}
    /\ alive \in {"up", "exited", "crashed", "hung"}
    /\ Fsid_list_count \in 0..MaxFsidList /\ totalchunks \in Nat
    /\ Fsid_list # <<>> => DOMAIN Fsid_list = 0..(MaxFsidList - 1)

(* readfile.c, across any number of opens that reuse the list: while a     *)
(* stream is open every chunk number in 0..totalchunks-1 reads the chunk   *)
(* of that recording with that number, and nothing else can be read.       *)
ReadsOpenRecording ==
    infile =>
      /\ totalchunks = Len(Stream(tystream.of))
      /\ \A n \in 0..(totalchunks - 1) :
           mfs_multifsid_pread(n) = <<Stream(tystream.of)[n + 1]>>
      /\ mfs_multifsid_pread(totalchunks) = <<>>

(* The state of the connection, and what its numbers stand for.            *)
NumbersSound == TypeOK /\ ReadsOpenRecording

(* infile, tystream and the cursor agree after every way out of every      *)
(* command: a refused or failed open, or a close, leaves no cursor behind  *)
(* that the next recording's chunks would be taken for.                    *)
NothingLeftBehind ==
    /\ infile <=> tystream # NoStream
    /\ ~infile => chunk_in_buf = -1

(* The chunk a command asks for, in the numbering of the recording.        *)
Asked == asked.arg + tystream.start_chunk
Data(of) == {t \in ToSet(to_client) : t.k = "data" /\ t.of = of}
Uses(cmd) == \E r \in program : r.cmd = cmd

(* send_chunk_tydemux, for a client that asks for single chunks, whatever  *)
(* was sent, read ahead and opened before: the chunk sent is the chunk     *)
(* asked for.                                                              *)
ServedChunk ==
    ~Uses("SCTX") =>
      \A t \in Data("chunk") :
        Asked < totalchunks => t.data = <<Stream(tystream.of)[Asked + 1]>>

(* send_chunk_tydemux_X, for a client that asks for blocks: so is a block  *)
(* that ends before its part does.                                         *)
InsideAPart(n, k) ==
    \E i \in 0..(Fsid_list_count - 1) :
      Fsid_list[i].start_chunk <= n /\ n + k <= Fsid_list[i].end_chunk
ServedBlock ==
    ~Uses("SCTY") =>
      \A t \in Data("block") :
        InsideAPart(Asked, CHUNKX) => t.data = Block(tystream.of, Asked, CHUNKX)
=============================================================================

------------------------------ MODULE TyRemote ------------------------------
(***************************************************************************)
(* tydemux/tydemux_remote.c talking to the server of TyServer.             *)
(*                                                                         *)
(* A call of the client writes one command and then reads the reply line   *)
(* by line.  Nothing in a reply says which command it answers or how much  *)
(* of it is left: the two programs agree as long as each call reads        *)
(* exactly what the server wrote.  A call that meets a line it does not    *)
(* want returns at once and leaves the rest of the reply in the socket.    *)
(***************************************************************************)
EXTENDS TyServer

CONSTANT Calls   \* the calls the program makes: [cmd, arg]

ASSUME CallsAssumption == \A c \in Calls : c.cmd \in Commands /\ c.arg \in Nat

VARIABLES
    call,     \* the call being made, Idle if none
    expects,  \* what it has still to read
    got,      \* the data it has read
    handle,   \* the tystream_holder_t: [fsid, nr, index], NoHandle if none
    answer,   \* [to, data]: what the last call returned, NoAnswer if it failed
    socket    \* "open", "closed", or "garbled": data were taken for a line, or
              \* lines for data

clientVars == <<call, expects, got, handle, answer, socket>>
vars == <<sourceVars, serverVars, request, to_client, clientVars>>

Idle == [cmd |-> "none", arg |-> 0]
NoHandle == [fsid |-> -1, nr |-> 0, index |-> FALSE]
NoAnswer == [to |-> Idle, data |-> <<>>]

Init ==
    /\ ServerInit
    /\ call = Idle /\ expects = <<>> /\ got = <<>>
    /\ handle = NoHandle /\ answer = NoAnswer /\ socket = "open"
-----------------------------------------------------------------------------
(* What each function reads.  "skip" is a loop over 200 lines up to a 300  *)
(* line.                                                                   *)
Value(i) == CASE i = 6 -> "frame_rate" [] i = 7 -> "chunks" [] OTHER -> "text"
Reply(cmd) ==
    CASE cmd = "LITY" -> <<"skip", "list">>
      [] cmd = "OPTY" -> <<"200", "200", "200", "200">>
                           \o FlattenSeq([i \in 1..7 |-> <<"200", "300", Value(i)>>])
                           \o <<"200">>
      [] cmd = "CITY" -> <<"200", "skip", "list", "200">>
      [] cmd \in {"SCTY", "SCTX", "GSTY", "GITY"} -> <<"200", "300", "data", "200">>
      [] cmd = "PLTY" -> <<"200", "300", "all">>
      [] cmd = "COTY" -> <<"200">>
      [] cmd = "EXIT" -> <<>>

(* get_chunk asks only below nr - 1 and tyget only below nr - 10 (CHUNKX). *)
(* One handle is open at a time, it is indexed once, and frames are asked  *)
(* for by GOPs of its index: the library leaves that to the program.       *)
MayCall(c) ==
    CASE c.cmd = "OPTY" -> handle = NoHandle
      [] c.cmd = "SCTY" -> handle # NoHandle /\ c.arg < handle.nr - 1
      [] c.cmd = "SCTX" -> handle # NoHandle /\ c.arg < handle.nr - CHUNKX
      [] c.cmd = "CITY" -> handle # NoHandle /\ ~handle.index
      [] c.cmd \in {"GSTY", "GITY"} -> handle.index
      [] c.cmd = "PLTY" -> handle # NoHandle
      [] OTHER -> TRUE

(* A call.  LITY (init and refresh_fsid) opens a new FILE on the socket;   *)
(* what the old one had read ahead is lost.  EXIT expects no reply.  What  *)
(* is written to a server that has gone is not kept.                       *)
Call ==
    \E c \in Calls :
      /\ call = Idle /\ socket = "open" /\ MayCall(c)
      /\ request' = (IF alive = "up" THEN Append(request, c) ELSE request)
      /\ call' = (IF c.cmd = "EXIT" THEN Idle ELSE c)
      /\ socket' = (IF c.cmd = "EXIT" THEN "closed" ELSE socket)
      /\ expects' = Reply(c.cmd) /\ got' = <<>> /\ answer' = NoAnswer
      /\ IF c.cmd = "LITY"
         THEN \E n \in 0..Len(to_client) :
                to_client' = SubSeq(to_client, n + 1, Len(to_client))
         ELSE UNCHANGED to_client
      /\ UNCHANGED <<sourceVars, serverVars, handle>>

(* The call returns.  An open gives the handle, a close drops it, what the *)
(* server may have answered.                                               *)
Return(ok, data) ==
    /\ call' = Idle /\ expects' = <<>> /\ got' = <<>>
    /\ answer' = (IF ok THEN [to |-> call, data |-> data] ELSE NoAnswer)
    /\ handle' = CASE call.cmd = "OPTY" /\ ok ->
                        [fsid |-> call.arg, nr |-> data[1], index |-> FALSE]
                   [] call.cmd = "COTY" -> NoHandle
                   [] call.cmd = "CITY" /\ ok -> [handle EXCEPT !.index = TRUE]
                   [] OTHER -> handle

(* What was expected next has been read: go on or, if it was the last,     *)
(* return.                                                                 *)
Advance(data) ==
    IF Len(expects) = 1 THEN Return(TRUE, data)
    ELSE /\ expects' = Tail(expects) /\ got' = data
         /\ UNCHANGED <<call, handle, answer>>

token == Head(to_client)
wanted == Head(expects)

(* Is the line what the function compares it with?  The frame rate is      *)
(* looked up in a table, a block must have the right size.                 *)
Accepted ==
    CASE wanted = "200" -> token.k = "200"
      [] wanted = "skip" -> token.k = "300"
      [] wanted = "300" -> token.k = "300" /\ (call.cmd = "SCTX" => token.of = "block")
      [] wanted = "frame_rate" -> token.k = "text" /\ token.data # <<-1>>
      [] wanted \in {"text", "chunks"} -> token.k = "text"
      [] OTHER -> TRUE

(* A line is read as a line whatever it says; read_all takes the number of *)
(* bytes it was told, parse_nowshowing_client and parse_gop_index go by    *)
(* the fields they know.                                                   *)
Readable ==
    CASE wanted = "data" -> token.k = "data"
      [] wanted = "list" -> token.k = "list" /\
           token.of = (IF call.cmd = "LITY" THEN "recordings" ELSE "gops")
      [] OTHER -> token.k \in {"200", "300", "400", "text"}

Reading == call # Idle /\ socket = "open" /\ to_client # <<>>

ReadNext ==
    /\ Reading /\ wanted # "all"
    /\ to_client' = Tail(to_client)
    /\ socket' = (IF Readable THEN "open" ELSE "garbled")
    /\ IF ~Readable \/ (wanted = "skip" /\ token.k = "200")
       THEN UNCHANGED <<call, expects, got, handle, answer>>
       ELSE IF Accepted
       THEN Advance(IF wanted \in {"chunks", "data"} THEN token.data ELSE got)
       ELSE Return(FALSE, <<>>)
    /\ UNCHANGED <<sourceVars, serverVars, request>>

(* read_all_play: up to the end of the connection.                         *)
ReadAll ==
    /\ Reading /\ wanted = "all"
    /\ to_client' = Tail(to_client)
    /\ got' = got \o token.data
    /\ UNCHANGED <<sourceVars, serverVars, request, call, expects, handle, answer, socket>>

(* The server has gone: no more lines, and the end of a stream.            *)
AtEnd == wanted = "all"

EndOfFile ==
    /\ call # Idle /\ socket = "open"
    /\ to_client = <<>> /\ alive \in {"exited", "crashed"}
    /\ Return(AtEnd, got)
    /\ UNCHANGED <<sourceVars, serverVars, request, to_client, socket>>

Read == ReadNext \/ ReadAll \/ EndOfFile

Serve == ServerStep /\ UNCHANGED clientVars

Next == Call \/ Read \/ Serve

(* The server is a process of its own, and a call of the client blocks     *)
(* until it has read what it waits for; it need not call again.            *)
Fairness == WF_vars(Read) /\ WF_vars(Serve)

Spec == Init /\ [][Next]_vars /\ Fairness
-----------------------------------------------------------------------------
Between == call = Idle /\ socket = "open" /\ alive = "up"

TypeOK ==
    /\ call \in Calls \cup {Idle} /\ socket \in {"open", "closed", "garbled"}
    /\ \A i \in 1..Len(expects) : expects[i] \in
         {"200", "300", "skip", "text", "frame_rate", "chunks", "data", "list", "all"}
    /\ call # Idle <=> expects # <<>>
    /\ answer.to.cmd = "SCTY" => Len(answer.data) = 1
    /\ handle = NoHandle \/ (handle.fsid \in DOMAIN Recordings /\ handle.nr \in Int)

(* Between two calls there is nothing in the socket: each call has read    *)
(* exactly the reply to its command, whichever way the server took, and    *)
(* never a line for data.                                                  *)
InSync ==
    /\ Between => request = <<>> /\ to_client = <<>>
    /\ socket # "garbled"

(* What the client expects is what is in the socket.                       *)
RepliesSound == TypeOK /\ InSync

(* The client's handle and the server's open stream, through opens that    *)
(* fail half way, closes and reopens: the same recording, the same number  *)
(* of chunks, and an index on both sides or on none, of that recording.    *)
HandleIsOpen ==
    Between =>
      IF handle = NoHandle THEN ~infile
      ELSE /\ infile /\ tystream.of = handle.fsid
           /\ handle.nr = Len(Stream(handle.fsid)) - tystream.start_chunk
           /\ tystream.index = (IF handle.index THEN handle.fsid ELSE -1)

(* Every call returns.                                                     *)
EveryCallReturns == (call # Idle) ~> (call = Idle)
=============================================================================

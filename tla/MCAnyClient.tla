---------------------------- MODULE MCAnyClient -----------------------------
(* Small instances of AnyClient: which recordings there are and which      *)
(* commands the clients know.                                              *)
EXTENDS AnyClient

Rec(parts, start, gops, probe) ==
    [parts |-> parts, start |-> start, gops |-> gops, probe |-> probe, waits |-> 1]

(* 1001 has two parts, 1002 one; 1003 is too short for the probe, 1004 has *)
(* a single chunk, 1005 a name that is not understood, 1006 one GOP.       *)
Every == 1001 :> Rec(<<6, 5>>, 1, 3, "fine") @@ 1002 :> Rec(<<8>>, 0, 2, "odd rate")
           @@ 1003 :> Rec(<<4>>, 0, 2, "fine") @@ 1004 :> Rec(<<3>>, 0, 2, "fine")
           @@ 1005 :> Rec(<<>>, 0, 2, "fine") @@ 1006 :> Rec(<<8>>, 0, 1, "fine")

Cmd(cmd, args) == {[cmd |-> cmd, arg |-> a] : a \in args}
Session(args) == Cmd("OPTY", args) \cup Cmd("COTY", {0})

(* CHNK is no command; an open may have a name that is too short (7), that *)
(* is no number (0) or that is not listed (1099).  Chunk 9 is never there; *)
(* blocks start, as tyget's do, below the number of chunks less CHUNKX.    *)
Whatever ==
    Session({0, 7} \cup DOMAIN Every \cup {1099})
      \cup Cmd("CITY", {0}) \cup Cmd("GSTY", {0}) \cup Cmd("GITY", {1, 9})
      \cup Cmd("PLTY", {0}) \cup Cmd("LITY", {0}) \cup Cmd("EXIT", {0})
      \cup Cmd("CHNK", {0})
ByChunk == Whatever \cup Cmd("SCTY", (0..4) \cup {9})
ByBlock == Whatever \cup Cmd("SCTX", (0..3) \cup {9})
ChunksOrBlocks == {ByChunk, ByBlock}

Leftover == {-1, 0}   \* from malloc
Cached == {1001}
=============================================================================

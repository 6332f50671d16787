----------------------------- MODULE MCTyRemote -----------------------------
(* Small instances of TyRemote: recordings and what the program calls.     *)
EXTENDS TyRemote

Rec(parts, start, gops, probe) ==
    [parts |-> parts, start |-> start, gops |-> gops, probe |-> probe, waits |-> 1]

Fine == 1001 :> Rec(<<5, 4>>, 1, 3, "fine") @@ 1002 :> Rec(<<6>>, 0, 2, "fine")
          @@ 1003 :> Rec(<<6>>, 0, 2, "fails") @@ 1004 :> Rec(<<3>>, 0, 2, "fine")

Cached == {1001}
Leftover == {-1, 0}   \* from malloc

Cmd(cmd, args) == {[cmd |-> cmd, arg |-> a] : a \in args}
Session == Cmd("LITY", {0}) \cup Cmd("OPTY", DOMAIN Recordings \cup {1099})
             \cup Cmd("COTY", {0}) \cup Cmd("EXIT", {0})
Index == Cmd("CITY", {0}) \cup Cmd("GSTY", {0}) \cup Cmd("GITY", {1, 9})

All == Session \cup Index \cup Cmd("SCTY", {0, 3}) \cup Cmd("SCTX", {0, 2}) \cup Cmd("PLTY", {0})
=============================================================================

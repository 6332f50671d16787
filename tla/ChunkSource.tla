---------------------------- MODULE ChunkSource ----------------------------
(***************************************************************************)
(* tyserver/readfile.c: the open recording as a list of extents.           *)
(*                                                                         *)
(* A recording is stored in parts, each a stream of its own on the disk.   *)
(* open_input numbers the chunks of all parts consecutively (leaving out   *)
(* the first and the last chunk of each part) and keeps, for each part,    *)
(* the numbers it holds; the two pread functions map a number back to a    *)
(* part.  A chunk on the disk is [fsid, nr]: chunk nr of part fsid.        *)
(***************************************************************************)
EXTENDS Integers, Sequences, FiniteSetsExt, SequencesExt

CONSTANTS
    Recordings,   \* fsid -> what is known of the recording: its field parts is
                  \* the number of chunks of each part, <<>> if its name in the
                  \* database is one open_input does not understand
    MaxFsidList,  \* MAX_FSID_LIST
    Garbage       \* what malloc may leave in the start_chunk of an entry

ASSUME RecordingsAssumption ==
    \A r \in DOMAIN Recordings :
      /\ Recordings[r].parts \in Seq(Nat \ 0..2)
      /\ Len(Recordings[r].parts) < MaxFsidList
ASSUME ListAssumption == MaxFsidList \in Nat \ {0}
ASSUME GarbageAssumption == Garbage \subseteq Int /\ Garbage # {}

VARIABLES
    Fsid_list,        \* index -> [fsid, start_chunk, end_chunk]; <<>> = NULL
    Fsid_list_count,  \* entries in use
    totalchunks

sourceVars == <<Fsid_list, Fsid_list_count, totalchunks>>

SourceInit == Fsid_list = <<>> /\ Fsid_list_count = 0 /\ totalchunks = 0

Parts(r) == Recordings[r].parts

(* The number the first chunk of each part gets, and after the last part   *)
(* the number of chunks: the running value of totalchunks.                 *)
FirstNumber(r) ==
    LET n[i \in 1..(Len(Parts(r)) + 1)] ==
          IF i = 1 THEN 0 ELSE n[i - 1] + Parts(r)[i - 1] - 2
    IN  n
MutEndChunk(r, i) == FirstNumber(r)[i + 1]
EndChunk(r, i) == FirstNumber(r)[i + 1] - 1
Chunks(r) == FirstNumber(r)[Len(Parts(r)) + 1]

(* open_input for recording r: the entries of its parts, over whatever the *)
(* list held.  The list is allocated once; on a later call its start_chunk *)
(* fields are cleared first (end_chunk is not).                            *)
open_input(r) ==
    \E g \in Garbage :
      LET old(i) == IF Fsid_list = <<>>
                    THEN [fsid |-> <<>>, start_chunk |-> g, end_chunk |-> g]
                    ELSE [fsid |-> <<>>, start_chunk |-> 0,
                          end_chunk |-> Fsid_list[i].end_chunk]
          new(i) == [fsid |-> <<r, i + 1>>,
                     start_chunk |-> FirstNumber(r)[i + 1],
                     end_chunk |-> EndChunk(r, i + 1)]
      IN  /\ Fsid_list' = [i \in 0..(MaxFsidList - 1) |->
                             IF i < Len(Parts(r)) THEN new(i) ELSE old(i)]
          /\ Fsid_list_count' = Len(Parts(r))
          /\ totalchunks' = Chunks(r)

(* mfs_fsid_pread_fast: k chunks of a part from chunk nr on.               *)
OnDisk(fsid, nr, k) == [j \in 1..k |-> [fsid |-> fsid, nr |-> nr + j - 1]]

(* The entries that hold chunk number n; the code takes the first.         *)
Holding(n) == {i \in 0..(Fsid_list_count - 1) :
                 Fsid_list[i].start_chunk <= n /\ n <= Fsid_list[i].end_chunk}

(* One chunk, or <<>> for a failure.                                       *)
mfs_multifsid_pread(n) ==
    IF Holding(n) = {} THEN <<>>
    ELSE LET e == Fsid_list[Min(Holding(n))]
         IN  OnDisk(e.fsid, 1 + n - e.start_chunk, 1)

(* A block of k chunks, read by a chain of calls.  A call whose block does *)
(* not end before the last chunk of its part reads the chunks before that  *)
(* one, and the next call goes on with the first chunk of the next entry,  *)
(* which need not be in use.  "read" is what was copied to the buffer, of  *)
(* a chain that fails too.                                                 *)
FirstCall(n, k) == [from |-> n, left |-> k, read |-> <<>>, state |-> "reading"]

(* The call c has found its chunk in entry i.                              *)
ReadFrom(i, c) ==
    LET e == Fsid_list[i]
        copied(k) == c.read \o OnDisk(e.fsid, 1 + c.from - e.start_chunk, k)
        end == c.from + c.left
    IN  CASE end <= e.end_chunk -> [c EXCEPT !.read = copied(c.left), !.state = "done"]
          [] e.end_chunk < end /\ end > totalchunks -> [c EXCEPT !.state = "failed"]
          [] OTHER -> [from |-> Fsid_list[i + 1].start_chunk, left |-> end - e.end_chunk,
                       read |-> copied(e.end_chunk - c.from), state |-> "reading"]

NextCall(c) ==
    IF c.state # "reading" THEN c
    ELSE IF Holding(c.from) = {} THEN [c EXCEPT !.state = "failed"]
    ELSE ReadFrom(Min(Holding(c.from)), c)

(* A chain that goes through the list more than twice never ends (it takes *)
(* parts of one chunk and an unlucky start_chunk behind them): cut off.    *)
MaxCalls == 2 * MaxFsidList

(* calls[i] holds the i-th call, and nothing else.                         *)
mfs_multifsid_pread_X(n, k) ==
    LET calls[i \in 0..MaxCalls] ==
          IF i = 0 THEN {FirstCall(n, k)} ELSE {NextCall(c) : c \in calls[i - 1]}
        last == CHOOSE c \in calls[MaxCalls] : TRUE
    IN  [ok |-> last.state = "done", read |-> last.read]
-----------------------------------------------------------------------------
(* What the numbers mean: the chunks of all parts of a recording one after *)
(* the other, without the first and the last of each part.                 *)
Stream(r) ==
    FlattenSeq([i \in 1..Len(Parts(r)) |-> OnDisk(<<r, i>>, 1, Parts(r)[i] - 2)])

Block(r, n, k) == SubSeq(Stream(r), n + 1, n + k)
=============================================================================

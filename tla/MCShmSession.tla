---------------------------- MODULE MCShmSession ----------------------------
(***************************************************************************)
(* Channels for the runs of ShmSession: what earlier pairs, both killed,   *)
(* may have left under the three names.                                    *)
(***************************************************************************)
EXTENDS ShmSessionInvariant

OldHeader(n) == [i \in 1..BufferSize |-> HeaderByte(n)]
OldData == [i \in 1..BufferSize |-> 0]

Channel(names, sSem, rSem, n, bytes) ==
  [linked |-> names, senderSem |-> sSem, receiverSem |-> rSem,
   dataSize |-> n, cells |-> bytes]

(* Any of the names with no message: the pair was killed before the header *)
(* was posted, or while one of the programs had the turn.                  *)
QuietOnly == {Channel(names, 0, 0, n, bytes) :
                names \in SUBSET Names, n \in {0, BufferSize},
                bytes \in {OldHeader(1), OldData}}
=============================================================================

---------------------------- MODULE MCRcPrograms ----------------------------
(***************************************************************************)
(* Channels for the runs of RcPrograms.  Shared memory: any of the names,  *)
(* with no message and no turn, as killed programs leave them when one of  *)
(* the two had the turn.  Queues: none, an empty one, or one with a        *)
(* message.  In calm weather there is nothing, or a FIFO.                  *)
(***************************************************************************)
EXTENDS RcPrograms

ShmNames == {"shm", "senderSem", "receiverSem"}
OldBuffers == {[i \in 1..BufferSize |-> HeaderByte(1)],
               [i \in 1..BufferSize |-> 0]}
QuietShm == {[linked |-> names, senderSem |-> 0, receiverSem |-> 0,
              dataSize |-> BufferSize, cells |-> bytes] :
               names \in SUBSET ShmNames, bytes \in OldBuffers}
FreshShm == {[linked |-> {}, senderSem |-> 0, receiverSem |-> 0,
              dataSize |-> 0, cells |-> [i \in 1..BufferSize |-> 0]]}
AnyOld == {Unset, 0, 1}
NoQueueYet == {Unset}
=============================================================================

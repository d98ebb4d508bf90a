----------------------------- MODULE MCPrograms -----------------------------
(***************************************************************************)
(* Channels for the runs of Programs: unused ones, and what remains of a   *)
(* pair that was killed.                                                   *)
(***************************************************************************)
EXTENDS Programs

(* No message is on its way, and a later pair can use the channel.         *)
ShmNames == {"shm", "senderSem", "receiverSem"}
Old(senderTurns, receiverTurns, header) ==
  [linked |-> ShmNames, senderSem |-> senderTurns, receiverSem |-> receiverTurns,
   dataSize |-> BufferSize, cells |-> [i \in 1..BufferSize |-> HeaderByte(header)]]
FreshShm == [linked |-> {}, senderSem |-> 0, receiverSem |-> 0, dataSize |-> 0,
             cells |-> [i \in 1..BufferSize |-> 0]]
OverlapSafe == {FreshShm, Old(0, 0, 1)}
FreshOnly == {[linked |-> FALSE, queue |-> << >>]}

(* A message: the pair was killed when the header was sent, or some data   *)
(* too, or when the header was read and data are left.                     *)
Message(kind, n) == [kind |-> kind, from |-> 0, n |-> n]
ShmWithHeader == {Old(0, 1, 4)}
WithMessages ==
  {[linked |-> TRUE, queue |-> messages] :
     messages \in {<<Message("header", 4)>>,
                    <<Message("header", 1), Message("other", 1)>>,
                    <<Message("other", 2)>>}}
=============================================================================

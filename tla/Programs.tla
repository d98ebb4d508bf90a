------------------------------ MODULE Programs ------------------------------
(***************************************************************************)
(* The programs ipc_sendfile and ipc_receivefile of                        *)
(* C++_hands_on_programming_NEW launched with the same option --shm,       *)
(* --queue or --pipe: initSharedPtr() chooses the handlers, whose sessions *)
(* are those of ShmSession, QueueSession and PipeSession.  The channels of *)
(* the other methods are not touched.                                      *)
(***************************************************************************)
EXTENDS CopyFileThroughIPC

CONSTANTS
  QueueCapacity, PipeCapacity,
  ShmLeftovers, QueueLeftovers, PipeLeftovers

VARIABLES
  method,                                  (* myParameters_.getProtocol()   *)
  spc, rpc, sres, rres, size, announced, expected, sent, lastRead, out, held, present,
  linked, senderSem, receiverSem, dataSize, cells, taken,   (* --shm        *)
  queueLinked, queue, message,                              (* --queue      *)
  name, target, pipe, kept, inbox                           (* --pipe       *)

shmOnly == <<linked, senderSem, receiverSem, dataSize, cells, taken>>
queueOnly == <<queueLinked, queue, message>>
pipeOnly == <<name, target, pipe, kept, inbox>>

Shm == INSTANCE ShmSession WITH Leftovers <- ShmLeftovers
Queue == INSTANCE QueueSession WITH
  Capacity <- QueueCapacity, Leftovers <- QueueLeftovers,
  linked <- queueLinked, inbox <- message
Pipe == INSTANCE PipeSession WITH
  Capacity <- PipeCapacity, Leftovers <- PipeLeftovers

NoShm ==
  /\ linked = {} /\ senderSem = 0 /\ receiverSem = 0 /\ taken = 0
  /\ dataSize = 0 /\ cells = [i \in 1..BufferSize |-> 0]
NoQueue == queueLinked = FALSE /\ queue = << >> /\ message = Queue!Data(0, 0)
NoPipe ==
  name = "none" /\ target = "none" /\ pipe = << >> /\ kept = << >> /\ inbox = << >>

Init ==
  \/ method = "shm" /\ Shm!Init /\ NoQueue /\ NoPipe
  \/ method = "queue" /\ Queue!Init /\ NoShm /\ NoPipe
  \/ method = "pipe" /\ Pipe!Init /\ NoShm /\ NoQueue

ByShm == method = "shm" /\ UNCHANGED <<method, queueOnly, pipeOnly>>
ByQueue == method = "queue" /\ UNCHANGED <<method, shmOnly, pipeOnly>>
ByPipe == method = "pipe" /\ UNCHANGED <<method, shmOnly, queueOnly>>

Next ==
  \/ ByShm /\ Shm!Next
  \/ ByQueue /\ Queue!Next
  \/ ByPipe /\ Pipe!Next

SenderStep ==
  \/ ByShm /\ Shm!SenderStep
  \/ ByQueue /\ Queue!SenderStep
  \/ ByPipe /\ Pipe!SenderStep
ReceiverStep ==
  \/ ByShm /\ Shm!ReceiverStep
  \/ ByQueue /\ Queue!ReceiverStep
  \/ ByPipe /\ Pipe!ReceiverStep

vars == <<method, spc, rpc, sres, rres, size, announced, expected, sent, lastRead,
          out, held, present, shmOnly, queueOnly, pipeOnly>>

(* What the sessions of each method assume of the scheduler.               *)
Fairness ==
  /\ WF_vars(SenderStep) /\ WF_vars(ReceiverStep) /\ WF_vars(ByPipe /\ Pipe!Meet)

Spec == Init /\ [][Next]_vars /\ Fairness

-----------------------------------------------------------------------------
Live(pc) ==
  \/ method = "shm" /\ pc \notin Shm!Gone
  \/ method = "queue" /\ pc \notin Queue!Gone
  \/ method = "pipe" /\ pc \notin Pipe!Gone

(* Two programs that nothing disturbs and that overlap in time both end    *)
(* with success, whatever the method, unless the source is empty: neither  *)
(* is blocked for ever by a full channel, an empty one, or its turn.  One  *)
(* receiver does not: for a FIFO it waits 30 seconds, but after 6 of them  *)
(* (tooLate) it only waits to refuse the sender that comes.                *)
Delivered ==
  (Live(spc) /\ Live(rpc) /\ rpc # "tooLate" /\ size > 0) ~>
     (spc = "ended" /\ sres = "success" /\ rpc = "ended" /\ rres = "success")

(* README: "IPC Channel already exists - if empty the programs will        *)
(* continue, if there is some message on it EXIT_FAILURE": no receiver     *)
(* takes the messages of an old queue for its file, and no pair agrees on  *)
(* what is in an old shared memory.                                        *)
OldMessageCaught ==
  /\ method = "queue" => Queue!OldMessageCaught
  /\ method = "shm" => Shm!OldMessageCaught
=============================================================================

----------------------------- MODULE RcPrograms -----------------------------
(***************************************************************************)
(* The programs ipc_sendfile and ipc_receivefile of                        *)
(* C++_hands_on_programming_RC launched with the same option --shm,        *)
(* --queue or --pipe: the switch of senderMain() and receiverMain()        *)
(* chooses the session.  In calm weather nothing disturbs the programs,    *)
(* and the channels are as a pair that ended normally leaves them.         *)
(***************************************************************************)
EXTENDS RcCopyFile

CONSTANTS
  QueueCapacity, PipeCapacity,
  ShmLeftovers, QueueLeftovers, PipeLeftovers,
  CalmShm, CalmQueues, CalmPipes

ASSUME RcProgramsAssumption ==
  /\ QueueCapacity \in Nat \ {0}
  /\ PipeCapacity \in Nat /\ PipeCapacity >= BufferSize
  /\ QueueLeftovers \cup CalmQueues \subseteq (0..QueueCapacity) \cup {Unset}
  /\ PipeLeftovers \cup CalmPipes \subseteq {"none", "fifo"}

VARIABLES
  method,                                  (* parameters.getProtocol()      *)
  calm,
  spc, rpc, sres, rres, size, announced, expected, sent, lastRead, out, present,
  linked, senderSem, receiverSem, dataSize, cells, taken, held,   (* --shm  *)
  checked, old, queue,                                      (* --queue      *)
  pipe, kept,                                               (* --pipe       *)
  name, target, toSend, inbox              (* --queue and --pipe            *)

shmOnly == <<linked, senderSem, receiverSem, dataSize, cells, taken, held>>
queueOnly == <<checked, old, queue>>
pipeOnly == <<pipe, kept>>
queueOrPipe == <<name, target, toSend, inbox>>
vars == <<method, calm, spc, rpc, sres, rres, size, announced, expected, sent,
          lastRead, out, present, shmOnly, queueOnly, pipeOnly, queueOrPipe>>

Shm == INSTANCE RcShmSessionInvariant WITH Leftovers <- ShmLeftovers
Queue == INSTANCE RcQueueSessionInvariant WITH
  Capacity <- QueueCapacity, Leftovers <- QueueLeftovers
Pipe == INSTANCE RcPipeSessionInvariant WITH
  Capacity <- PipeCapacity, Leftovers <- PipeLeftovers

ShmInCalm == INSTANCE RcShmSession WITH Leftovers <- CalmShm, Disturbances <- {}
QueueInCalm == INSTANCE RcQueueSession WITH
  Capacity <- QueueCapacity, Leftovers <- CalmQueues, Disturbances <- {}
PipeInCalm == INSTANCE RcPipeSession WITH
  Capacity <- PipeCapacity, Leftovers <- CalmPipes, Disturbances <- {}

NoShm ==
  /\ linked = {} /\ senderSem = 0 /\ receiverSem = 0 /\ taken = 0
  /\ dataSize = 0 /\ cells = << >> /\ held = << >>
NoQueue == checked = "none" /\ old = Unset /\ queue = << >>
NoPipe == pipe = << >> /\ kept = << >>
NeitherQueueNorPipe ==
  name = "none" /\ target = "none" /\ toSend = Unset /\ inbox = << >>

Init ==
  /\ calm \in BOOLEAN
  /\ \/ /\ method = "shm" /\ NoQueue /\ NoPipe /\ NeitherQueueNorPipe
        /\ IF calm THEN ShmInCalm!Init ELSE Shm!Init
     \/ /\ method = "queue" /\ NoShm /\ NoPipe
        /\ IF calm THEN QueueInCalm!Init ELSE Queue!Init
     \/ /\ method = "pipe" /\ NoShm /\ NoQueue
        /\ IF calm THEN PipeInCalm!Init ELSE Pipe!Init

ByShm == method = "shm" /\ UNCHANGED <<method, calm, queueOnly, pipeOnly, queueOrPipe>>
ByQueue == method = "queue" /\ UNCHANGED <<method, calm, shmOnly, pipeOnly>>
ByPipe == method = "pipe" /\ UNCHANGED <<method, calm, shmOnly, queueOnly>>

Next ==
  \/ ByShm /\ (IF calm THEN ShmInCalm!Next ELSE Shm!Next)
  \/ ByQueue /\ (IF calm THEN QueueInCalm!Next ELSE Queue!Next)
  \/ ByPipe /\ (IF calm THEN PipeInCalm!Next ELSE Pipe!Next)

SenderStep ==
  \/ ByShm /\ (IF calm THEN ShmInCalm!SenderStep ELSE Shm!SenderStep)
  \/ ByQueue /\ (IF calm THEN QueueInCalm!SenderStep ELSE Queue!SenderStep)
  \/ ByPipe /\ (IF calm THEN PipeInCalm!SenderStep ELSE Pipe!SenderStep)
ReceiverStep ==
  \/ ByShm /\ (IF calm THEN ShmInCalm!ReceiverStep ELSE Shm!ReceiverStep)
  \/ ByQueue /\ (IF calm THEN QueueInCalm!ReceiverStep ELSE Queue!ReceiverStep)
  \/ ByPipe /\ (IF calm THEN PipeInCalm!ReceiverStep ELSE Pipe!ReceiverStep)

Meet == ByPipe /\ (IF calm THEN PipeInCalm!Meet ELSE Pipe!Meet)

(* What the sessions of each method assume of the scheduler.               *)
Fairness == WF_vars(SenderStep) /\ WF_vars(ReceiverStep) /\ WF_vars(Meet)

Spec == Init /\ [][Next]_vars /\ Fairness

-----------------------------------------------------------------------------
(* Properties.  Each is that of the session of the method in use.          *)

TypeOK ==
  /\ method \in {"shm", "queue", "pipe"} /\ calm \in BOOLEAN
  /\ method = "shm" => Shm!TypeOK
  /\ method = "queue" => Queue!TypeOK
  /\ method = "pipe" => Pipe!TypeOK

(* Through shared memory at most one of the programs uses the buffer, and  *)
(* a turn is never offered while it is taken.                              *)
TurnTaking == method = "shm" => Shm!TurnTaking

(* Why the copy is exact.  Shared memory: whoever has the turn finds in    *)
(* the buffer what the other left there for it.  Queue: what the sender    *)
(* looks at and writes to, and what is on its way, while the receiver      *)
(* replaces an old queue by its own.  Pipe: both programs have the same    *)
(* FIFO, which holds the bytes between the sender and the receiver.        *)
SessionInvariant ==
  /\ method = "shm" => Shm!IInv
  /\ method = "queue" => Queue!IInv
  /\ method = "pipe" => Pipe!IInv

(* No one unlinks the FIFO between mkfifo and open of the sender, so that  *)
(* open cannot make a regular file of that name.                           *)
FifoOpened == method = "pipe" => Pipe!FifoOpened

(* When ipc_receivefile exits with EXIT_SUCCESS its file holds the bytes   *)
(* that were announced, whatever happened to the sender or to the length   *)
(* of the source meanwhile.                                                *)
ExactCopy ==
  /\ method = "shm" => Shm!ExactCopy
  /\ method = "queue" => Queue!ExactCopy
  /\ method = "pipe" => Pipe!ExactCopy

(* The names go away with the programs, killed ones and receivers of       *)
(* shared memory that give up excepted.                                    *)
NamesUnlinked ==
  /\ method = "shm" => Shm!NamesUnlinked
  /\ method = "queue" => Queue!NameUnlinked
  /\ method = "pipe" => Pipe!NameUnlinked

(* Once launched a program ends.  Two things may hold it for ever, both    *)
(* with a pipe: open() of a FIFO that nobody writes to, which holds a      *)
(* receiver, and a source that has become shorter, which holds both.       *)
Endless == method = "pipe" /\ toSend > size
Terminates ==
  /\ spc # "idle" ~> spc = "ended" \/ Endless
  /\ rpc # "idle" ~> rpc = "ended" \/ (method = "pipe" /\ rpc = "opening") \/ Endless

(* In calm weather two programs that overlap in time both end with         *)
(* success, an empty source included, unless they meet at a FIFO so soon   *)
(* that the sender crashes over the timer it has not created yet.          *)
Live(pc) ==
  \/ method = "shm" /\ pc \notin Shm!Gone
  \/ method = "queue" /\ pc \notin Queue!Gone
  \/ method = "pipe" /\ pc \notin Pipe!Gone
Delivered ==
  (calm /\ Live(spc) /\ Live(rpc)) ~>
     \/ spc = "ended" /\ sres = "success" /\ rpc = "ended" /\ rres = "success"
     \/ method = "pipe" /\ sres = "killed"

(* Every method keeps the promise of FileCopy, with as much in flight as   *)
(* its channel and the buffers hold: in shared memory, where the sender    *)
(* waits for the answer to its last piece, what the receiver's stream      *)
(* keeps of the piece before.                                              *)
KeepsPromise ==
  /\ method = "shm" => Shm!Promise!Init
  /\ method = "queue" => Queue!Promise!Init
  /\ method = "pipe" => Pipe!Promise!Init
  /\ [][method = "shm" => [Shm!Promise!Next]_(Shm!Promise!vars)]_vars
  /\ [][method = "queue" => [Queue!Promise!Next]_(Queue!Promise!vars)]_vars
  /\ [][method = "pipe" => [Pipe!Promise!Next]_(Pipe!Promise!vars)]_vars
=============================================================================

----------------------------- MODULE CPrograms -----------------------------
(***************************************************************************)
(* One ipc_sendfile and one ipc_receivefile of C_hands_on_programming_2    *)
(* launched with the same method.                                          *)
(***************************************************************************)
EXTENDS CMessage, CQueue, CPipe, CShm

vars == <<programVars, messageVars, queueVars, pipeVars, shmVars>>

Init ==
  /\ method \in {"message", "queue", "pipe", "shm"}
  /\ ProgramInit /\ MessageInit /\ QueueInit /\ PipeInit /\ ShmInit
  /\ method # "queue" => ~linked
  /\ method # "pipe" => ~fifo
  /\ method # "shm" => object = "none" /\ ~semName

ByMessage(Action) ==
  method = "message" /\ Action /\ UNCHANGED <<queueVars, pipeVars, shmVars>>
ByQueue(Action) ==
  method = "queue" /\ Action /\ UNCHANGED <<messageVars, pipeVars, shmVars>>
ByPipe(Action) ==
  method = "pipe" /\ Action /\ UNCHANGED <<messageVars, queueVars, shmVars>>
ByShm(Action) ==
  method = "shm" /\ Action /\ UNCHANGED <<messageVars, queueVars, pipeVars>>

SenderStep ==
  \/ ByMessage(MessageSender) \/ ByQueue(QueueSender)
  \/ ByPipe(PipeSender) \/ ByShm(ShmSender)
ReceiverStep ==
  \/ ByMessage(MessageReceiver) \/ ByQueue(QueueReceiver)
  \/ ByPipe(PipeReceiver) \/ ByShm(ShmReceiver)
Killed == (SKill \/ RKill) /\ UNCHANGED <<messageVars, queueVars, pipeVars, shmVars>>

(* Many calls have no deadline: the system stops when a program waits for  *)
(* one that was killed or has not been launched.                           *)
Next == SenderStep \/ ReceiverStep \/ ByPipe(PipeMeet) \/ Killed

(* The launched programs run, and the kernel wakes the one that has waited *)
(* longest for a semaphore.                                                *)
Fairness ==
  /\ SF_vars(spc # "idle" /\ SenderStep) /\ SF_vars(rpc # "idle" /\ ReceiverStep)
  /\ WF_vars(ByPipe(PipeMeet))

Spec == Init /\ [][Next]_vars /\ Fairness

-----------------------------------------------------------------------------
(* Properties *)

Copied == out = Stretch(0, size)

(* Messages are answered when their bytes are written: a sender of fewer   *)
(* bytes than an int counts that ends with success knows of a whole copy,  *)
(* even if either program or any call fails on the way, unless the bytes   *)
(* of the receiver are lost on their way to the disk.                      *)
Acknowledged ==
  method = "message" /\ sres = "success" /\ measured = size /\ size < IntHalf /\ ~lost
    => Copied

(* Whatever happens to the programs, a receiver that gets its data in      *)
(* messages, from a queue or a pipe stores nothing that is not the next    *)
(* byte of the source, unless a write failed.                              *)
CopyIsPrefix == method # "shm" /\ ~lost => out = Stretch(0, Len(out))

(* A session adds at most one turn, for the sender or for the receiver, to *)
(* those that its semaphore was left with: a new semaphore gives one turn, *)
(* one that a killed sender left gives its turns as well.                  *)
HasTurn(pc) == IF pc \in {"lock", "fill", "store", "post", "postLast"} THEN 1 ELSE 0
Turns == sem + HasTurn(spc) + HasTurn(rpc)
OneTurn == method = "shm" => Turns <= left + 1

(* In calm weather two programs that overlap in time end, with success and *)
(* a whole copy by message, queue or pipe, a pipe for an empty file        *)
(* excepted; with shared memory they end once both have the semaphore.     *)
Delivered ==
  /\ (/\ calm /\ SenderBusy /\ ReceiverBusy
      /\ method \in {"message", "queue", "pipe"}
      /\ method = "pipe" => size > 0
      /\ method = "message" => size < IntHalf)
     ~> (sres = "success" /\ rres = "success" /\ Copied)
  /\ (calm /\ method = "shm" /\ rpc = "hello")
     ~> (sres = "success" /\ rres = "success") \/ Len(out) + BufferSize > MaxStored

(* ipc_receivefile "should receive data from the ipc_sendfile program and  *)
(* write it in a file": when both programs have succeeded with shared      *)
(* memory, what the sender read is what the receiver wrote.                *)
ShmCopied ==
  method = "shm" /\ calm /\ sres = "success" /\ rres = "success" => Copied
=============================================================================

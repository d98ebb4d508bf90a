------------------------------- MODULE CQueue -------------------------------
(***************************************************************************)
(* A message queue (--queue): ipc_receivefile creates it, or opens the one *)
(* that is there, and takes a pause for the end of the data; ipc_sendfile  *)
(* waits for the name and for room in the queue, however long that takes.  *)
(***************************************************************************)
EXTENDS CProgram

CONSTANT QueueCapacity   (* MAX_QUEUE_MSG                                   *)
ASSUME QueueCapacityAssumption == QueueCapacity \in Nat \ {0}

VARIABLES
  linked,         (* has a queue the name?                                  *)
  queue           (* its messages                                           *)

queueVars == <<linked, queue>>
QueueInit == linked \in BOOLEAN /\ queue = << >>

QueueFind == FindSize("open") /\ UNCHANGED queueVars

(* mq_open() is tried until the name is there.                             *)
QueueOpen ==
  /\ spc = "open"
  /\ UNCHANGED <<queueVars, senderData>>
  /\ \/ linked /\ SGoto("read")
     \/ Fails /\ SExit("failure")

QueueReadFile ==
  /\ spc = "read"
  /\ UNCHANGED queueVars
  /\ \/ measured > sent /\ Read(Least(BufferSize, measured)) /\ SGoto("send")
     \/ measured <= sent /\ SExit("success") /\ UNCHANGED senderData
     \/ Fails /\ SExit("failure") /\ UNCHANGED senderData

QueueSend ==
  /\ spc = "send" /\ Len(queue) < QueueCapacity
  /\ queue' = Append(queue, Stretch(sent, last))
  /\ sent' = sent + last
  /\ SGoto("read") /\ UNCHANGED <<linked, measured, last>>
QueueSendFails ==
  /\ spc = "send" /\ Fails
  /\ SExit("failure") /\ UNCHANGED <<queueVars, senderData>>

QueueSender == QueueFind \/ QueueOpen \/ QueueReadFile \/ QueueSend \/ QueueSendFails

QueueCreate ==
  /\ rpc = "idle"
  /\ UNCHANGED <<queue, receiverData>>
  /\ \/ RGoto("open") /\ linked' = TRUE
     \/ Fails /\ RExit("failure") /\ UNCHANGED linked

QueueOpenFile ==
  /\ rpc = "open"
  /\ UNCHANGED <<queueVars, receiverData>>
  /\ RGoto("first") \/ (Fails /\ RExit("failure"))

QueueReceive ==
  /\ rpc \in {"first", "next"} /\ queue # << >>
  /\ queue' = Tail(queue)
  /\ Write(Head(queue))
  /\ RGoto("next") /\ UNCHANGED linked

QueueReceiveFails ==
  /\ rpc \in {"first", "next"} /\ Fails
  /\ RExit("failure") /\ UNCHANGED <<queueVars, receiverData>>

(* 30 seconds without a first message end the program with EXIT_SUCCESS,   *)
(* and the name stays; one second without a next one ends the data.        *)
QueuePauseAtOnce ==
  /\ rpc \in {"first", "next"}
  /\ RGoto("unlink") /\ UNCHANGED <<queueVars, receiverData>>
QueuePause ==
  /\ rpc \in {"first", "next"} /\ queue = << >> /\ RTimeout
  /\ UNCHANGED <<queueVars, out>>
  /\ \/ rpc = "first" /\ RExit("success") /\ UNCHANGED lost
     \/ rpc = "next" /\ RGoto("unlink") /\ UNCHANGED lost
     \/ rpc = "next" /\ Fails /\ RExit("failure") /\ lost' = TRUE

(* mq_unlink(), then mq_close(): either may end the program with           *)
(* EXIT_FAILURE, with a whole copy.                                        *)
QueueUnlink ==
  /\ rpc = "unlink"
  /\ UNCHANGED <<queue, receiverData>>
  /\ \/ linked' = FALSE /\ RExit("success")
     \/ Fails /\ linked' \in {linked, FALSE} /\ RExit("failure")

QueueReceiver ==
  \/ QueueCreate \/ QueueOpenFile \/ QueueReceive \/ QueueReceiveFails
  \/ QueuePause \/ QueueUnlink
=============================================================================

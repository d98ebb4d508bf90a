--------------------------- MODULE RcQueueSession ---------------------------
(***************************************************************************)
(* One ipc_sendfile and one ipc_receivefile of C++_hands_on_programming_RC *)
(* that copy a file through a message queue (--queue).  The receiver       *)
(* unlinks what has the name and creates a queue of its own; the sender    *)
(* opens the name twice, once to look whether the queue holds messages and *)
(* once to write, and may get an old queue, the new one, or one after the  *)
(* other.  A constructor that throws runs no destructor.                   *)
(***************************************************************************)
EXTENDS RcCopyFile

CONSTANTS
  Capacity,       (* mq_maxmsg_: 10 in the program                          *)
  Leftovers       (* how many messages an old queue may hold                *)

(* There is no old queue when the number of its messages is Unset.         *)

VARIABLES
  spc, rpc,       (* what each program does next                            *)
  sres, rres,     (* how each program ends, "none" until that is known      *)
  name,           (* which queue has the name                               *)
  checked,        (* which queue the sender has opened to look at it        *)
  target,         (* which queue it has opened to write                     *)
  old,            (* the number of messages in the old queue                *)
  queue,          (* the messages in the queue the receiver has created     *)
  size,           (* the number of bytes the sender can read                *)
  toSend,         (* fileSize in the sender's syncFileWithIPC()             *)
  announced,      (* the length in the header it sends                      *)
  sent,           (* datasent                                               *)
  lastRead,       (* bufferSize_ of the sender                              *)
  expected,       (* fileSize_ of the receiver                              *)
  inbox,          (* the receiver's buffer                                  *)
  out,            (* the bytes written to the receiver's file               *)
  present         (* does that file exist?                                  *)

outcomes == <<sres, rres>>
queues == <<name, old, queue>>
opened == <<checked, target>>
senderData == <<toSend, announced, sent, lastRead>>
receiverData == <<expected, inbox, out, present>>
vars == <<spc, rpc, outcomes, queues, opened, size, senderData, receiverData>>

Queues == {"none", "old", "new"}
SenderLabels == {"idle", "find", "check", "open", "measure", "sendHeader",
                 "fill", "send", "unlink", "ended"}
ReceiverLabels == {"idle", "unlinkOld", "create", "openFile", "receiveHeader",
                   "receive", "store", "unlink", "remove", "ended"}
Gone == {"idle", "unlink", "remove", "ended"}
SenderLive == spc \notin Gone
ReceiverLive == rpc \notin Gone

TypeOK ==
  /\ spc \in SenderLabels /\ rpc \in ReceiverLabels
  /\ sres \in Outcomes /\ rres \in Outcomes
  /\ name \in Queues /\ checked \in Queues /\ target \in Queues
  /\ old \in (0..Capacity) \cup {Unset}
  /\ queue \in Seq(Seq(Int)) /\ Len(queue) <= Capacity
  /\ size \in Sizes
  /\ toSend \in Sizes \cup {Unset} /\ announced \in Sizes \cup {Unset}
  /\ sent \in Nat /\ lastRead \in 0..BufferSize
  /\ expected \in Nat \cup {Unset}
  /\ inbox \in Seq(Int) /\ out \in Seq(Int)
  /\ present \in BOOLEAN

Init ==
  /\ spc = "idle" /\ rpc = "idle"
  /\ sres = "none" /\ rres = "none"
  /\ old \in Leftovers
  /\ name = IF old = Unset THEN "none" ELSE "old"
  /\ checked = "none" /\ target = "none"
  /\ queue = << >>
  /\ size \in Sizes
  /\ toSend = Unset /\ announced = Unset
  /\ sent = 0 /\ lastRead = BufferSize
  /\ expected = Unset
  /\ inbox = << >> /\ out = << >>
  /\ present \in BOOLEAN

-----------------------------------------------------------------------------
SGoto(label) == spc' = label /\ UNCHANGED <<rpc, outcomes, size, receiverData>>
RGoto(label) ==
  rpc' = label /\ UNCHANGED <<spc, outcomes, opened, size, senderData>>
SLeave(label, result) ==
  /\ spc' = label /\ sres' = result
  /\ UNCHANGED <<rpc, rres, size, receiverData>>
RLeave(label, result) ==
  /\ rpc' = label /\ rres' = result
  /\ UNCHANGED <<spc, sres, opened, size, senderData>>

(* An exception in a constructor, and the end of a transfer: only then is  *)
(* there an object whose destructor unlinks the name.                      *)
SRefuse == SLeave("ended", "failure")
SConclude(result) == SLeave("unlink", result)
RRefuse == RLeave("remove", "failure")
RConclude(result) == RLeave("unlink", result)

Fails == "error" \in Disturbances
Late == "late" \in Disturbances

(* Nobody reads what the sender writes to an old queue.                    *)
Apart == target = "old"
STimeout == Late \/ ~ReceiverLive \/ Apart
RTimeout == Late \/ ~SenderLive \/ Apart

-----------------------------------------------------------------------------
(* The sender *)

SLaunch ==
  /\ spc = "idle"
  /\ UNCHANGED <<queues, opened, senderData>>
  /\ \/ SGoto("find")
     \/ Fails /\ SRefuse

SFind ==
  /\ spc = "find"
  /\ UNCHANGED <<queues, target, senderData>>
  /\ \/ name # "none" /\ SGoto("check") /\ checked' = name
     \/ STimeout /\ SRefuse /\ UNCHANGED checked

(* The name is unlinked, whatever queue has it by now.  A queue found at   *)
(* the last attempt is found too late.                                     *)
Holds(q) == IF q = "old" THEN old ELSE Len(queue)
SCheckNothing ==
  spc = "check" /\ SGoto("open") /\ UNCHANGED <<queues, opened, senderData>>
SCheck ==
  /\ spc = "check"
  /\ UNCHANGED <<old, queue, opened, senderData>>
  /\ \/ Holds(checked) > 0 /\ SRefuse /\ name' = "none"
     \/ Holds(checked) = 0 /\ SGoto("open") /\ UNCHANGED name
     \/ Holds(checked) = 0 /\ Late /\ SRefuse /\ UNCHANGED name

SOpen ==
  /\ spc = "open"
  /\ UNCHANGED <<queues, checked, senderData>>
  /\ \/ name # "none" /\ SGoto("measure") /\ target' = name
     \/ name = "none" /\ SRefuse /\ UNCHANGED target

SMeasure ==
  /\ spc = "measure"
  /\ UNCHANGED <<queues, opened, announced, sent, lastRead>>
  /\ \/ SGoto("sendHeader") /\ toSend' \in AnnouncedSizes(size)
     \/ Fails /\ SConclude("failure") /\ UNCHANGED toSend

(* mq_timedsend on the queue that was opened: it blocks while it is full.  *)
PutAnyway(message) ==
  \/ target = "old" /\ old < Capacity /\ old' = old + 1 /\ UNCHANGED <<name, queue>>
  \/ /\ target = "new"
     /\ queue' = Append(queue, message) /\ UNCHANGED <<name, old>>
Put(message) ==
  \/ target = "old" /\ old < Capacity /\ old' = old + 1 /\ UNCHANGED <<name, queue>>
  \/ /\ target = "new" /\ Len(queue) < Capacity
     /\ queue' = Append(queue, message) /\ UNCHANGED <<name, old>>
PutFails ==
  /\ Holds(target) = Capacity /\ STimeout
  /\ SConclude("failure")
  /\ UNCHANGED queues

SGoesOn(total) ==
  IF SendsMore(total, toSend) THEN SGoto("fill") ELSE SConclude("success")

(* The header measures the file once more.                                 *)
SSendHeader ==
  /\ spc = "sendHeader"
  /\ UNCHANGED <<opened, toSend, sent, lastRead>>
  /\ \/ /\ announced' \in AnnouncedSizes(size)
        /\ Put([i \in 1..BufferSize |-> HeaderByte(announced')])
        /\ SGoesOn(0)
     \/ PutFails /\ UNCHANGED announced

SFill ==
  /\ spc = "fill"
  /\ UNCHANGED <<queues, opened, toSend, announced, sent>>
  /\ \/ SGoto("send") /\ lastRead' = SyncFileWithBuffer(lastRead, sent, size)
     \/ Fails /\ SConclude("failure") /\ UNCHANGED lastRead

SSend ==
  /\ spc = "send"
  /\ UNCHANGED <<opened, toSend, announced, lastRead>>
  /\ \/ /\ Put(Stretch(sent, lastRead))
        /\ sent' = sent + lastRead
        /\ SGoesOn(sent')
     \/ PutFails /\ UNCHANGED sent

SCallFails ==
  /\ Fails
  /\ \/ spc \in {"find", "open"} /\ SRefuse
     \/ spc \in {"sendHeader", "send"} /\ SConclude("failure")
  /\ UNCHANGED <<queues, opened, senderData>>

SKeepName ==
  spc = "unlink" /\ SGoto("ended") /\ UNCHANGED <<queues, opened, senderData>>
SUnlink ==
  /\ spc = "unlink"
  /\ SGoto("ended")
  /\ name' = "none"
  /\ UNCHANGED <<old, queue, opened, senderData>>

SenderStep ==
  \/ SFind \/ SCheck \/ SOpen \/ SMeasure \/ SSendHeader \/ SFill \/ SSend \/ SUnlink

SKill ==
  /\ "kill" \in Disturbances
  /\ spc \notin {"idle", "ended"}
  /\ SLeave("ended", "killed")
  /\ UNCHANGED <<queues, opened, senderData>>

-----------------------------------------------------------------------------
(* The receiver *)

(* The path is refused before the queue is touched, and removed all the    *)
(* same.                                                                   *)
RLaunch ==
  /\ rpc = "idle"
  /\ UNCHANGED <<queues, receiverData>>
  /\ \/ RGoto("unlinkOld")
     \/ Fails /\ RRefuse

RUnlinkOld ==
  /\ rpc = "unlinkOld"
  /\ RGoto("create")
  /\ name' = "none"
  /\ UNCHANGED <<old, queue, receiverData>>

(* O_EXCL: the queue is the receiver's own.                                *)
RCreate ==
  /\ rpc = "create"
  /\ UNCHANGED <<old, queue, receiverData>>
  /\ \/ name = "none" /\ RGoto("openFile") /\ name' = "new"
     \/ (name # "none" \/ Fails) /\ RRefuse /\ UNCHANGED name

ROpenFile ==
  /\ rpc = "openFile"
  /\ UNCHANGED <<queues, expected, inbox, out>>
  /\ \/ RGoto("receiveHeader") /\ present' = TRUE
     \/ Fails /\ RConclude("failure") /\ UNCHANGED present

(* mq_timedreceive: it blocks while the queue is empty.                    *)
Get ==
  /\ queue # << >>
  /\ inbox' = Head(queue) /\ queue' = Tail(queue)
  /\ UNCHANGED <<name, old>>
GetWaitsForever == FALSE
GetFails ==
  /\ queue = << >> /\ RTimeout
  /\ RConclude("failure")
  /\ UNCHANGED <<queues, receiverData>>

(* The loop goes on, or the file is closed and its length checked.         *)
RGoesOn(bytes, last) ==
  IF ReceivesMore(Len(bytes), last, expected')
  THEN RGoto("receive") /\ out' = bytes
  ELSE /\ out' \in ClosedAfter(bytes, last)
       /\ RConclude(CheckedLength(Len(out'), expected'))

RReceiveHeader ==
  /\ rpc = "receiveHeader"
  /\ \/ /\ Get
        /\ UNCHANGED present
        /\ IF HasKey(inbox'[1])
           THEN expected' = AnnouncedBy(inbox'[1]) /\ RGoesOn(out, BufferSize)
           ELSE RConclude("failure") /\ UNCHANGED <<expected, out>>
     \/ GetFails

RReceive ==
  /\ rpc = "receive"
  /\ \/ Get /\ RGoto("store") /\ UNCHANGED <<expected, out, present>>
     \/ GetFails

RStore ==
  /\ rpc = "store"
  /\ UNCHANGED <<queues, expected, inbox, present>>
  /\ \/ RGoesOn(out \o inbox, Len(inbox))
     \/ Fails /\ RConclude("failure") /\ UNCHANGED out

RCallFails ==
  /\ Fails
  /\ rpc \in {"receiveHeader", "receive"}
  /\ RConclude("failure")
  /\ UNCHANGED <<queues, receiverData>>

RUnlink ==
  /\ rpc = "unlink"
  /\ RGoto(IF rres = "failure" THEN "remove" ELSE "ended")
  /\ name' = "none"
  /\ UNCHANGED <<old, queue, receiverData>>

(* receiverMain catches the exception and removes the file.                *)
RRemove ==
  /\ rpc = "remove"
  /\ RGoto("ended")
  /\ present' = FALSE
  /\ UNCHANGED <<queues, expected, inbox, out>>

ReceiverStep ==
  \/ RUnlinkOld \/ RCreate \/ ROpenFile \/ RReceiveHeader \/ RReceive \/ RStore
  \/ RUnlink \/ RRemove

RKill ==
  /\ "kill" \in Disturbances
  /\ rpc \notin {"idle", "ended"}
  /\ RLeave("ended", "killed")
  /\ UNCHANGED <<queues, receiverData>>

-----------------------------------------------------------------------------
BothEnded == spc = "ended" /\ rpc = "ended" /\ UNCHANGED vars

Next ==
  \/ SLaunch \/ SenderStep \/ SCallFails \/ SKill
  \/ RLaunch \/ ReceiverStep \/ RCallFails \/ RKill
  \/ BothEnded

(* A program that runs keeps running, and its deadlines pass.              *)
Fairness == WF_vars(SenderStep) /\ WF_vars(ReceiverStep)

SafetySpec == Init /\ [][Next]_vars
Spec == SafetySpec /\ Fairness

-----------------------------------------------------------------------------
(* Properties *)

(* When ipc_receivefile exits with EXIT_SUCCESS its file holds the first   *)
(* bytes of the source, as many as the header announced, although a        *)
(* message that is not full, or the length itself, may end the transfer    *)
(* while the sender still sends.                                           *)
ExactCopy == rres = "success" => announced <= size /\ out = Stretch(0, announced)

(* When the header was received and both programs have ended the name is   *)
(* gone, even if one of the two was killed.                                *)
NameUnlinked ==
  /\ spc = "ended" /\ rpc = "ended"
  /\ expected # Unset
  /\ sres # "killed" \/ rres # "killed"
  => name = "none"

(* What the users of the two programs can rely on while the source does    *)
(* not change.  If its length does, a sender that reports a success counts *)
(* as one that failed.                                                     *)
Outcome(pc, result) == IF pc = "ended" THEN result ELSE "none"
SenderOutcome ==
  IF sres = "success" /\ (announced # size \/ toSend # size)
  THEN Outcome(spc, "failure") ELSE Outcome(spc, sres)
Promise == INSTANCE FileCopy WITH
  MaxChunk <- BufferSize, MaxInFlight <- (Capacity + 1) * BufferSize,
  MaxHeld <- 0, MaxLost <- 0,
  MayStopShort <- "resize" \in Disturbances, LeastSize <- 0,
  sender <- SenderOutcome, receiver <- Outcome(rpc, rres)
=============================================================================

---------------------------- MODULE RcShmSession ----------------------------
(***************************************************************************)
(* One ipc_sendfile and one ipc_receivefile of C++_hands_on_programming_RC *)
(* that copy a file through shared memory (--shm).  The sender creates the *)
(* buffer and then two semaphores; the receiver waits for the semaphores   *)
(* and tries the buffer once.  The transfer ends with an empty piece.  A   *)
(* receiver that gives up unlinks the buffer but not the semaphores, and a *)
(* constructor that throws runs no destructor.                             *)
(*                                                                         *)
(* One object stands for each name: only the sender creates and only it    *)
(* unlinks the semaphores, and a receiver that unlinks the buffer has made *)
(* its last use of it.                                                     *)
(***************************************************************************)
EXTENDS RcCopyFile

CONSTANT Leftovers   (* what the channel may hold when the programs start  *)

Names == {"shm", "senderSem", "receiverSem"}
Channels == [linked : SUBSET Names, senderSem : Nat, receiverSem : Nat,
             dataSize : 0..BufferSize, cells : [1..BufferSize -> Int]]

VARIABLES
  spc, rpc,       (* what each program does next                            *)
  sres, rres,     (* how each program ends, "none" until that is known      *)
  linked,         (* the names a program could open now                     *)
  senderSem,      (* the values of the two semaphores                       *)
  receiverSem,
  dataSize,       (* shm_.main->data_size                                   *)
  cells,          (* shm_.data                                              *)
  size,           (* the number of bytes the sender can read                *)
  announced,      (* the length in the header it sends                      *)
  sent,           (* dataSent                                               *)
  lastRead,       (* bufferSize_ of the sender                              *)
  expected,       (* fileSize_ of the receiver                              *)
  taken,          (* bufferSize_ of the receiver                            *)
  out,            (* the bytes that have reached the receiver's file        *)
  held,           (* the bytes its stream holds, or has lost                *)
  present         (* does that file exist?                                  *)

outcomes == <<sres, rres>>
sems == <<senderSem, receiverSem>>
shm == <<dataSize, cells>>
channel == <<linked, sems, shm>>
senderData == <<announced, sent, lastRead>>
receiverData == <<expected, taken, out, held, present>>
vars == <<spc, rpc, outcomes, channel, size, senderData, receiverData>>

SenderTurn == {"header", "postHeader", "fill", "fillSize", "post"}
ReceiverTurn == {"readHeader", "ackHeader", "takeSize", "store", "ack"}
Creating == {"shmCreate", "senderSemCreate", "receiverSemCreate"}
Connecting == {"connSenderSem", "connReceiverSem", "connShm"}
Unlinking == {"unlinkSenderSem", "unlinkReceiverSem", "unlinkShm"}
SenderLabels == {"idle", "waitPeer", "waitTurn", "ended"}
                  \cup Creating \cup SenderTurn \cup Unlinking
ReceiverLabels == {"idle", "openFile", "hello", "waitHeader", "waitData",
                   "unlinkShm", "remove", "ended"}
                    \cup Connecting \cup ReceiverTurn
Gone == Unlinking \cup {"idle", "remove", "ended"}
SenderLive == spc \notin Gone
ReceiverLive == rpc \notin Gone

TypeOK ==
  /\ spc \in SenderLabels /\ rpc \in ReceiverLabels
  /\ sres \in Outcomes /\ rres \in Outcomes
  /\ linked \subseteq Names
  /\ senderSem \in Nat /\ receiverSem \in Nat
  /\ dataSize \in 0..BufferSize
  /\ cells \in [1..BufferSize -> Int]
  /\ size \in Sizes
  /\ announced \in Sizes \cup {Unset} /\ expected \in Int
  /\ sent \in Nat /\ lastRead \in 0..BufferSize /\ taken \in 0..BufferSize
  /\ out \in Seq(Int) /\ held \in Seq(Int)
  /\ present \in BOOLEAN

Init ==
  /\ spc = "idle" /\ rpc = "idle"
  /\ sres = "none" /\ rres = "none"
  /\ \E c \in Leftovers :
       /\ linked = c.linked
       /\ senderSem = c.senderSem /\ receiverSem = c.receiverSem
       /\ dataSize = c.dataSize /\ cells = c.cells
  /\ size \in Sizes
  /\ announced = Unset /\ expected = Unset
  /\ sent = 0 /\ lastRead = BufferSize /\ taken = BufferSize
  /\ out = << >> /\ held = << >>
  /\ present \in BOOLEAN

-----------------------------------------------------------------------------
SGoto(label) == spc' = label /\ UNCHANGED <<rpc, outcomes, size, receiverData>>
RGoto(label) == rpc' = label /\ UNCHANGED <<spc, outcomes, size, senderData>>
SLeave(label, result) ==
  /\ spc' = label /\ sres' = result
  /\ UNCHANGED <<rpc, rres, size, receiverData>>
RLeave(label, result) ==
  /\ rpc' = label /\ rres' = result
  /\ UNCHANGED <<spc, sres, size, senderData>>

(* An exception in a constructor, and the end of a transfer: only then is  *)
(* there an object whose destructor unlinks.                               *)
SRefuse == SLeave("ended", "failure")
SConclude(result) == SLeave("unlinkSenderSem", result)
RRefuse == RLeave("remove", "failure")
RConclude(result) == RLeave("unlinkShm", result)

Fails == "error" \in Disturbances
STimeout == "late" \in Disturbances \/ ~ReceiverLive
RTimeout == "late" \in Disturbances \/ ~SenderLive

-----------------------------------------------------------------------------
(* The sender *)

SLaunch ==
  /\ spc = "idle"
  /\ UNCHANGED <<channel, senderData>>
  /\ \/ SGoto("shmCreate")
     \/ Fails /\ SRefuse

(* The buffer may exist before a later call of the constructor fails.      *)
SShmCreate ==
  /\ spc = "shmCreate"
  /\ UNCHANGED <<sems, cells, senderData>>
  /\ \/ SGoto("senderSemCreate") /\ linked' = linked \cup {"shm"} /\ dataSize' = 0
     \/ /\ Fails /\ SRefuse
        /\ linked' \in {linked, linked \cup {"shm"}} /\ UNCHANGED dataSize

(* sem_open(O_CREAT) leaves the value of a semaphore that exists alone.    *)
CreatedOpen(name, value) == IF name \in linked THEN value ELSE 1
Created(name, value) == IF name \in linked THEN value ELSE 0

SSenderSemCreate ==
  /\ spc = "senderSemCreate"
  /\ UNCHANGED <<receiverSem, shm, senderData>>
  /\ \/ /\ SGoto("receiverSemCreate")
        /\ linked' = linked \cup {"senderSem"}
        /\ senderSem' = Created("senderSem", senderSem)
     \/ Fails /\ SRefuse /\ UNCHANGED <<linked, senderSem>>

SReceiverSemCreate ==
  /\ spc = "receiverSemCreate"
  /\ UNCHANGED <<senderSem, shm, senderData>>
  /\ \/ /\ SGoto("waitPeer")
        /\ linked' = linked \cup {"receiverSem"}
        /\ receiverSem' = Created("receiverSem", receiverSem)
     \/ Fails /\ SRefuse /\ UNCHANGED <<linked, receiverSem>>

(* sem_timedwait, which may also fail for another reason; a post may too.  *)
SWaitAnyway(from, to) ==
  /\ spc = from
  /\ UNCHANGED <<linked, receiverSem, shm, senderData>>
  /\ senderSem' = senderSem - 1 /\ SGoto(to)
SWait(from, to) ==
  /\ spc = from
  /\ UNCHANGED <<linked, receiverSem, shm, senderData>>
  /\ \/ senderSem > 0 /\ senderSem' = senderSem - 1 /\ SGoto(to)
     \/ senderSem = 0 /\ STimeout /\ SConclude("failure") /\ UNCHANGED senderSem

SWaitPeer == SWait("waitPeer", "header")
SWaitTurn == SWait("waitTurn", "fill")
SCallFails ==
  /\ Fails
  /\ spc \in {"waitPeer", "waitTurn", "header", "fill", "postHeader", "post"}
  /\ SConclude("failure")
  /\ UNCHANGED <<channel, senderData>>

SHeader ==
  /\ spc = "header"
  /\ SGoto("postHeader")
  /\ announced' \in AnnouncedSizes(size)
  /\ cells' = [i \in 1..BufferSize |-> HeaderByte(announced')]
  /\ dataSize' = BufferSize
  /\ UNCHANGED <<linked, sems, sent, lastRead>>

SPostHeader ==
  /\ spc = "postHeader"
  /\ SGoto("waitTurn")
  /\ receiverSem' = receiverSem + 1
  /\ UNCHANGED <<linked, senderSem, shm, senderData>>

SFill ==
  /\ spc = "fill"
  /\ SGoto("fillSize")
  /\ lastRead' = SyncFileWithBuffer(lastRead, sent, size)
  /\ cells' = [i \in 1..BufferSize |->
                 IF i <= lastRead' THEN sent + i ELSE cells[i]]
  /\ UNCHANGED <<linked, sems, dataSize, announced, sent>>

SFillSize ==
  /\ spc = "fillSize"
  /\ SGoto("post")
  /\ dataSize' = lastRead
  /\ sent' = sent + lastRead
  /\ UNCHANGED <<linked, sems, cells, announced, lastRead>>

(* The loop ends when nothing more was read. *)
SPost ==
  /\ spc = "post"
  /\ receiverSem' = receiverSem + 1
  /\ IF lastRead > 0 THEN SGoto("waitTurn") ELSE SConclude("success")
  /\ UNCHANGED <<linked, senderSem, shm, senderData>>

SUnlink(from, name, to) ==
  /\ spc = from
  /\ SGoto(to)
  /\ linked' = linked \ {name}
  /\ UNCHANGED <<sems, shm, senderData>>
SUnlinkSenderSem == SUnlink("unlinkSenderSem", "senderSem", "unlinkReceiverSem")
SUnlinkReceiverSemSkipped ==
  /\ spc = "unlinkReceiverSem" /\ SGoto("unlinkShm")
  /\ UNCHANGED <<channel, senderData>>
SUnlinkReceiverSem == SUnlink("unlinkReceiverSem", "receiverSem", "unlinkShm")
SUnlinkShm == SUnlink("unlinkShm", "shm", "ended")

SenderStep ==
  \/ SShmCreate \/ SSenderSemCreate \/ SReceiverSemCreate
  \/ SWaitPeer \/ SHeader \/ SPostHeader
  \/ SWaitTurn \/ SFill \/ SFillSize \/ SPost
  \/ SUnlinkSenderSem \/ SUnlinkReceiverSem \/ SUnlinkShm

SKill ==
  /\ "kill" \in Disturbances
  /\ spc \notin {"idle", "ended"}
  /\ SLeave("ended", "killed")
  /\ UNCHANGED <<channel, senderData>>

-----------------------------------------------------------------------------
(* The receiver *)

(* A path that is refused is removed all the same. *)
RLaunch ==
  /\ rpc = "idle"
  /\ UNCHANGED <<channel, receiverData>>
  /\ \/ RGoto("connSenderSem")
     \/ Fails /\ RRefuse

RConnectForever(from, name, to) ==
  rpc = from /\ name \in linked /\ RGoto(to) /\ UNCHANGED <<channel, receiverData>>
RConnect(from, name, to) ==
  /\ rpc = from
  /\ UNCHANGED <<channel, receiverData>>
  /\ \/ name \in linked /\ RGoto(to)
     \/ name \notin linked /\ RTimeout /\ RRefuse
RConnectSenderSem == RConnect("connSenderSem", "senderSem", "connReceiverSem")
RConnectReceiverSem == RConnect("connReceiverSem", "receiverSem", "connShm")

(* There is no second attempt for the buffer. *)
RConnectShm ==
  /\ rpc = "connShm"
  /\ UNCHANGED <<channel, receiverData>>
  /\ \/ "shm" \in linked /\ RGoto("openFile")
     \/ ("shm" \notin linked \/ Fails) /\ RRefuse

ROpenFile ==
  /\ rpc = "openFile"
  /\ UNCHANGED <<channel, expected, taken, out, held>>
  /\ \/ RGoto("hello") /\ present' = TRUE
     \/ Fails /\ RConclude("failure") /\ UNCHANGED present

(* A post that fails goes unnoticed, and the wait that follows tells.      *)
RPost == senderSem' = senderSem + 1 \/ (Fails /\ UNCHANGED senderSem)

RHello ==
  /\ rpc = "hello"
  /\ RPost /\ RGoto("waitHeader")
  /\ UNCHANGED <<linked, receiverSem, shm, receiverData>>

RWait(from, to) ==
  /\ rpc = from
  /\ UNCHANGED <<linked, senderSem, shm, receiverData>>
  /\ \/ receiverSem > 0 /\ receiverSem' = receiverSem - 1 /\ RGoto(to)
     \/ receiverSem = 0 /\ RTimeout /\ RConclude("failure") /\ UNCHANGED receiverSem
RWaitHeader == RWait("waitHeader", "readHeader")
RWaitData == RWait("waitData", "takeSize")
RCallFails ==
  /\ Fails
  /\ rpc \in {"waitHeader", "waitData", "store"}
  /\ RConclude("failure")
  /\ UNCHANGED <<channel, receiverData>>

RReadHeader ==
  /\ rpc = "readHeader"
  /\ UNCHANGED <<channel, taken, out, held, present>>
  /\ IF HasKey(cells[1])
     THEN RGoto("ackHeader") /\ expected' = AnnouncedBy(cells[1])
     ELSE RConclude("failure") /\ UNCHANGED expected

RAckHeader ==
  /\ rpc = "ackHeader"
  /\ RPost /\ RGoto("waitData")
  /\ UNCHANGED <<linked, receiverSem, shm, receiverData>>

RTakeSize ==
  /\ rpc = "takeSize"
  /\ RGoto("store")
  /\ taken' = dataSize
  /\ UNCHANGED <<channel, expected, out, held, present>>

(* A piece that is not a whole buffer may stay in the stream.              *)
RStoreBuffer ==
  /\ rpc = "store" /\ RGoto("ack") /\ out' = out \o cells
  /\ UNCHANGED <<channel, expected, taken, held, present>>
RStore ==
  /\ rpc = "store"
  /\ RGoto("ack")
  /\ LET bytes == [i \in 1..taken |-> cells[i]]
     IN  \/ out' = out \o bytes /\ UNCHANGED held
         \/ taken < BufferSize /\ held' = held \o bytes /\ UNCHANGED out
  /\ UNCHANGED <<channel, expected, taken, present>>

(* The loop ends with an empty piece, or with one too many.  The file is   *)
(* closed, which may fail without notice, and then its length is checked.  *)
Stored == Len(out) + Len(held)
EndsAtTotal == taken > 0 /\ Stored < expected
GoesOn == taken > 0 /\ Stored <= expected
RCloseAndCheck ==
  \E n \in (Len(held) - MostLost(Len(held)))..Len(held) :
    /\ out' = out \o SubSeq(held, 1, n)
    /\ held' = SubSeq(held, n + 1, Len(held))
    /\ RConclude(CheckedLength(Len(out'), expected))
RAck ==
  /\ rpc = "ack"
  /\ RPost
  /\ IF GoesOn THEN RGoto("waitData") /\ UNCHANGED <<out, held>> ELSE RCloseAndCheck
  /\ UNCHANGED <<linked, receiverSem, shm, expected, taken, present>>

RUnlinkShm ==
  /\ rpc = "unlinkShm"
  /\ RGoto(IF rres = "failure" THEN "remove" ELSE "ended")
  /\ linked' = linked \ {"shm"}
  /\ UNCHANGED <<sems, shm, receiverData>>

RRemove ==
  /\ rpc = "remove"
  /\ RGoto("ended")
  /\ present' = FALSE
  /\ UNCHANGED <<channel, expected, taken, out, held>>

ReceiverStep ==
  \/ RConnectSenderSem \/ RConnectReceiverSem \/ RConnectShm \/ ROpenFile \/ RHello
  \/ RWaitHeader \/ RReadHeader \/ RAckHeader
  \/ RWaitData \/ RTakeSize \/ RStore \/ RAck \/ RUnlinkShm \/ RRemove

RKill ==
  /\ "kill" \in Disturbances
  /\ rpc \notin {"idle", "ended"}
  /\ RLeave("ended", "killed")
  /\ UNCHANGED <<channel, receiverData>>

-----------------------------------------------------------------------------
BothEnded == spc = "ended" /\ rpc = "ended" /\ UNCHANGED vars

Next ==
  \/ SLaunch \/ SenderStep \/ SCallFails \/ SKill
  \/ RLaunch \/ ReceiverStep \/ RCallFails \/ RKill
  \/ BothEnded

(* A program that runs keeps running, and its deadlines pass.              *)
Fairness == WF_vars(SenderStep) /\ WF_vars(ReceiverStep)

SafetySpec == Init /\ [][Next]_vars
Spec == SafetySpec /\ Fairness

-----------------------------------------------------------------------------
(* Properties *)

Holding(turn) == IF turn THEN 1 ELSE 0
Turns == senderSem + receiverSem + Holding(spc \in SenderTurn)
           + Holding(rpc \in ReceiverTurn)

(* At most one of the programs uses the buffer, and a turn is never        *)
(* offered while it is taken, also when a post of the receiver fails.      *)
TurnTaking == Turns <= 1

(* When ipc_receivefile exits with EXIT_SUCCESS its file holds as many of  *)
(* the first bytes of the source as the header announced.  That is all of  *)
(* it, a source of no bytes included, unless the length in the header was  *)
(* wrong and closing the file has lost exactly what it was short of.       *)
ExactCopy ==
  rres = "success" =>
    /\ out = Stretch(0, announced)
    /\ announced <= size /\ size <= announced + MostLost(BufferSize - 1)

(* A sender that got past its constructor and was not killed leaves no     *)
(* name; a receiver that has received a header and was not killed leaves   *)
(* no buffer, only the semaphores of a killed sender.                      *)
NamesUnlinked ==
  spc = "ended" /\ rpc = "ended" =>
    /\ announced # Unset /\ sres # "killed" => linked = {}
    /\ expected # Unset /\ rres # "killed" => "shm" \notin linked

(* What the users of the two programs can rely on.  The sender compares    *)
(* the length it announced with nothing: when it was wrong a success of    *)
(* the sender counts as a failure.                                         *)
Outcome(pc, result) == IF pc = "ended" THEN result ELSE "none"
SenderOutcome ==
  IF sres = "success" /\ announced # size
  THEN Outcome(spc, "failure") ELSE Outcome(spc, sres)
Promise == INSTANCE FileCopy WITH
  MaxChunk <- BufferSize, MaxInFlight <- BufferSize - 1,
  MaxHeld <- 0, MaxLost <- 0,
  MayStopShort <- {"resize", "error"} \subseteq Disturbances, LeastSize <- 0,
  sender <- SenderOutcome, receiver <- Outcome(rpc, rres)
=============================================================================

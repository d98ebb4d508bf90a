----------------------------- MODULE ShmSession -----------------------------
(***************************************************************************)
(* One ipc_sendfile and one ipc_receivefile of C++_hands_on_programming_NEW *)
(* that copy a file through shared memory (--shm), from their launch to    *)
(* their exit.  The sender creates a shared buffer and two semaphores; the *)
(* receiver looks for them by name; the two then take turns on the buffer. *)
(*                                                                         *)
(* The names may be left over from programs that were killed.  A name      *)
(* stands for one object only: when the sender creates an object anew the  *)
(* receiver has already unlinked the old one, and no longer uses it        *)
(* (OneObject, below).                                                     *)
(***************************************************************************)
EXTENDS CopyFileThroughIPC, FiniteSets

CONSTANT Leftovers   (* what the channel may hold when the programs start  *)

Names == {"shm", "senderSem", "receiverSem"}

Channels == [linked : SUBSET Names, senderSem : Nat, receiverSem : Nat,
             dataSize : 0..BufferSize, cells : [1..BufferSize -> Int]]

ASSUME LeftoversAssumption == Leftovers \subseteq Channels

(* A channel no one has used, and channels that hold no message.           *)
Fresh == [linked |-> {}, senderSem |-> 0, receiverSem |-> 0, dataSize |-> 0,
          cells |-> [i \in 1..BufferSize |-> 0]]
Quiet == \A c \in Leftovers : c.senderSem = 0 /\ c.receiverSem = 0

VARIABLES
  spc, rpc,       (* what each program does next                            *)
  sres, rres,     (* how each program ends, "none" until that is known      *)
  linked,         (* the names a program could open now                     *)
  senderSem,      (* the values of the two semaphores                       *)
  receiverSem,
  dataSize,       (* shm_.main->data_size                                   *)
  cells,          (* shm_.data                                              *)
  size,           (* the number of bytes the sender can read                *)
  announced,      (* fileSize in the sender's launch()                      *)
  expected,       (* fileSize in the receiver's launch()                    *)
  sent,           (* totalDataTransferred of the sender                     *)
  lastRead,       (* dataRead in the sender's transferData()                *)
  taken,          (* dataReceived in the receiver's transferData()          *)
  out,            (* the bytes written to the receiver's file               *)
  held,           (* how many of the last ones the stream still holds       *)
  present         (* does that file exist?                                  *)

outcomes == <<sres, rres>>
sems == <<senderSem, receiverSem>>
shm == <<dataSize, cells>>
senderData == <<announced, sent, lastRead>>
receiverData == <<expected, taken, out, held, present>>
channel == <<linked, sems, shm>>
vars == <<spc, rpc, outcomes, channel, size, senderData, receiverData>>

SenderTurn == {"header", "headerSize", "postHeader", "fill", "fillSize", "post"}
ReceiverTurn == {"checkSize", "readHeader", "ackHeader",
                 "takeSize", "store", "reset", "ack"}
Unlinking == {"unlinkShm", "unlinkReceiverSem", "unlinkSenderSem"}
SenderLabels == {"idle", "shmCreate", "senderSemCreate", "receiverSemCreate",
                 "waitPeer", "waitTurn", "ended"} \cup SenderTurn \cup Unlinking
ReceiverLabels == {"idle", "connReceiverSem", "connSenderSem", "connShm", "hello",
                   "waitHeader", "waitData", "closeCopy", "remove", "ended"}
                    \cup ReceiverTurn \cup Unlinking

Gone == Unlinking \cup {"idle", "closeCopy", "remove", "ended"}
SenderLive == spc \notin Gone
ReceiverLive == rpc \notin Gone

TypeOK ==
  /\ spc \in SenderLabels /\ rpc \in ReceiverLabels
  /\ sres \in Outcomes /\ rres \in Outcomes
  /\ linked \subseteq Names
  /\ senderSem \in Nat /\ receiverSem \in Nat
  /\ dataSize \in 0..BufferSize
  /\ cells \in [1..BufferSize -> Int]
  /\ size \in Sizes
  /\ announced \in Sizes \cup {Unset} /\ expected \in Int
  /\ sent \in Nat /\ lastRead \in 0..BufferSize /\ taken \in 0..BufferSize
  /\ out \in Seq(Int) /\ held \in 0..(BufferSize - 1)
  /\ present \in BOOLEAN

(* The channel is as it was left, the receiver's path may name a file.     *)
Init ==
  /\ spc = "idle" /\ rpc = "idle"
  /\ sres = "none" /\ rres = "none"
  /\ \E c \in Leftovers :
       /\ linked = c.linked
       /\ senderSem = c.senderSem /\ receiverSem = c.receiverSem
       /\ dataSize = c.dataSize /\ cells = c.cells
  /\ size \in Sizes
  /\ announced = Unset /\ expected = Unset
  /\ sent = 0 /\ lastRead = 0 /\ taken = 0
  /\ out = << >> /\ held = 0
  /\ present \in BOOLEAN

-----------------------------------------------------------------------------
(* Exceptions leave launch(), and the destructors run on the way out.      *)
SThrow ==
  /\ spc' = "unlinkShm" /\ sres' = "failure"
  /\ UNCHANGED <<rpc, rres, size, receiverData>>

RThrow ==
  /\ rpc' = "unlinkShm" /\ rres' = "failure"
  /\ UNCHANGED <<spc, sres, size, senderData>>

SFails == "error" \in Disturbances /\ SThrow
RFails == "error" \in Disturbances /\ RThrow

(* A deadline passes: the other program is not there, or is too slow.      *)
STimeout == ("late" \in Disturbances \/ ~ReceiverLive) /\ SThrow
RTimeout == ("late" \in Disturbances \/ ~SenderLive) /\ RThrow

SGoto(label) == spc' = label /\ UNCHANGED <<rpc, outcomes, size, receiverData>>
RGoto(label) == rpc' = label /\ UNCHANGED <<spc, outcomes, size, senderData>>

(* sem_open(O_CREAT) opens the semaphore of that name when there is one,   *)
(* its value unchanged, and makes one of value 0 otherwise.                *)
Created(name, value) == IF name \in linked THEN value ELSE 0

-----------------------------------------------------------------------------
(* The sender *)

(* The constructor opens the source; without a handler there are no names  *)
(* to unlink.                                                              *)
SLaunch ==
  /\ spc = "idle"
  /\ UNCHANGED <<rpc, rres, channel, size, senderData, receiverData>>
  /\ \/ spc' = "shmCreate" /\ sres' = sres
     \/ "error" \in Disturbances /\ spc' = "ended" /\ sres' = "failure"

SShmCreate ==
  /\ spc = "shmCreate"
  /\ UNCHANGED <<sems, cells, senderData>>
  /\ \/ SGoto("senderSemCreate") /\ linked' = linked \cup {"shm"} /\ dataSize' = 0
     \/ SFails /\ UNCHANGED <<linked, dataSize>>

SSenderSemCreate ==
  /\ spc = "senderSemCreate"
  /\ UNCHANGED <<receiverSem, shm, senderData>>
  /\ \/ /\ SGoto("receiverSemCreate")
        /\ linked' = linked \cup {"senderSem"}
        /\ senderSem' = Created("senderSem", senderSem)
     \/ SFails /\ UNCHANGED <<linked, senderSem>>

SReceiverSemCreate ==
  /\ spc = "receiverSemCreate"
  /\ UNCHANGED <<senderSem, shm, senderData>>
  /\ \/ /\ SGoto("waitPeer")
        /\ linked' = linked \cup {"receiverSem"}
        /\ receiverSem' = Created("receiverSem", receiverSem)
     \/ SFails /\ UNCHANGED <<linked, receiverSem>>

(* semWait on the sender's semaphore, in connect() and in transferData().  *)
SWaitNotBlocking(from, to) ==
  /\ spc = from
  /\ UNCHANGED <<linked, sems, shm, senderData>>
  /\ SGoto(to)
SWait(from, to) ==
  /\ spc = from
  /\ UNCHANGED <<linked, receiverSem, shm, senderData>>
  /\ \/ senderSem > 0 /\ senderSem' = senderSem - 1 /\ SGoto(to)
     \/ senderSem = 0 /\ STimeout /\ UNCHANGED senderSem

SWaitPeer == SWait("waitPeer", "header")
SWaitTurn == SWait("waitTurn", "fill")

(* A wait may fail before it is over: a signal, the clock.                 *)
SWaitFails ==
  /\ spc \in {"waitPeer", "waitTurn"}
  /\ SFails
  /\ UNCHANGED <<channel, senderData>>

(* The header is built from stat() and copied into the buffer.             *)
SHeader ==
  /\ spc = "header"
  /\ UNCHANGED <<linked, sems, dataSize, sent, lastRead>>
  /\ \/ /\ SGoto("headerSize")
        /\ announced' \in AnnouncedSizes(size)
        /\ cells' = [i \in 1..BufferSize |-> HeaderByte(announced')]
     \/ SFails /\ UNCHANGED <<cells, announced>>

SHeaderSizeForgotten ==
  /\ spc = "headerSize"
  /\ SGoto("postHeader")
  /\ UNCHANGED <<linked, sems, shm, senderData>>
SHeaderSize ==
  /\ spc = "headerSize"
  /\ SGoto("postHeader")
  /\ dataSize' = BufferSize
  /\ UNCHANGED <<linked, sems, cells, senderData>>

(* After its transferHeader() launch() refuses an empty file.              *)
SPostHeader ==
  /\ spc = "postHeader"
  /\ UNCHANGED <<linked, senderSem, shm, senderData>>
  /\ \/ /\ receiverSem' = receiverSem + 1
        /\ IF announced = 0 THEN SThrow ELSE SGoto("waitTurn")
     \/ SFails /\ UNCHANGED receiverSem

(* transferData: the file is read into the buffer, then its length is set. *)
SFill ==
  /\ spc = "fill"
  /\ UNCHANGED <<linked, sems, dataSize, announced>>
  /\ \/ /\ SGoto("fillSize")
        /\ lastRead' = ReadFile(sent, size)
        /\ sent' = sent + lastRead'
        /\ cells' = [i \in 1..BufferSize |->
                       IF i <= lastRead' THEN sent + i ELSE cells[i]]
     \/ SFails /\ UNCHANGED <<cells, sent, lastRead>>

SFillSize ==
  /\ spc = "fillSize"
  /\ SGoto("post")
  /\ dataSize' = lastRead
  /\ UNCHANGED <<linked, sems, cells, senderData>>

(* After each transferData() launch() goes on, or concludes.               *)
SPost ==
  /\ spc = "post"
  /\ UNCHANGED <<linked, senderSem, shm, senderData>>
  /\ \/ /\ receiverSem' = receiverSem + 1
        /\ IF More(lastRead, sent, announced)
           THEN SGoto("waitTurn")
           ELSE /\ spc' = "unlinkShm" /\ sres' = Verdict(sent, announced)
                /\ UNCHANGED <<rpc, rres, size, receiverData>>
     \/ SFails /\ UNCHANGED receiverSem

(* The destructors, in the reverse of the order of the members.            *)
SUnlink(from, name, to) ==
  /\ spc = from
  /\ SGoto(to)
  /\ linked' = linked \ {name}
  /\ UNCHANGED <<sems, shm, senderData>>

SUnlinkShm == SUnlink("unlinkShm", "shm", "unlinkReceiverSem")
SUnlinkReceiverSem == SUnlink("unlinkReceiverSem", "receiverSem", "unlinkSenderSem")
SUnlinkSenderSemSkipped ==
  spc = "unlinkSenderSem" /\ SGoto("ended") /\ UNCHANGED <<channel, senderData>>
SUnlinkSenderSem == SUnlink("unlinkSenderSem", "senderSem", "ended")

SenderStep ==
  \/ SShmCreate \/ SSenderSemCreate \/ SReceiverSemCreate \/ SWaitPeer
  \/ SHeader \/ SHeaderSize \/ SPostHeader
  \/ SWaitTurn \/ SFill \/ SFillSize \/ SPost
  \/ SUnlinkShm \/ SUnlinkReceiverSem \/ SUnlinkSenderSem

SKill ==
  /\ "kill" \in Disturbances
  /\ spc \notin {"idle", "ended"}
  /\ spc' = "ended" /\ sres' = "killed"
  /\ UNCHANGED <<rpc, rres, channel, size, senderData, receiverData>>

-----------------------------------------------------------------------------
(* The receiver *)

(* The constructor creates the file, or erases the one that is there;      *)
(* whatever is thrown from here on, main() removes the file.               *)
RLaunch ==
  /\ rpc = "idle"
  /\ UNCHANGED <<spc, sres, channel, size, senderData, expected, taken, out, held>>
  /\ \/ rpc' = "connReceiverSem" /\ rres' = rres /\ present' = TRUE
     \/ /\ "error" \in Disturbances
        /\ rpc' = "remove" /\ rres' = "failure" /\ UNCHANGED present

(* semConnect: the name is tried until it is there or time runs out.       *)
RConnectForever(from, name, to) ==
  /\ rpc = from
  /\ UNCHANGED <<channel, receiverData>>
  /\ name \in linked /\ RGoto(to)
RConnect(from, name, to) ==
  /\ rpc = from
  /\ UNCHANGED <<channel, receiverData>>
  /\ \/ name \in linked /\ RGoto(to)
     \/ name \notin linked /\ RTimeout

RConnectReceiverSem == RConnect("connReceiverSem", "receiverSem", "connSenderSem")
RConnectSenderSem == RConnect("connSenderSem", "senderSem", "connShm")

(* shmConnect tries once. *)
RConnectShm ==
  /\ rpc = "connShm"
  /\ UNCHANGED <<channel, receiverData>>
  /\ \/ "shm" \in linked /\ RGoto("hello")
     \/ "shm" \notin linked /\ RThrow
     \/ RFails

(* semPost on the sender's semaphore, at the end of connect(), of          *)
(* transferHeader() and of transferData().                                 *)
RHello ==
  /\ rpc = "hello"
  /\ UNCHANGED <<linked, receiverSem, shm, receiverData>>
  /\ \/ senderSem' = senderSem + 1 /\ RGoto("waitHeader")
     \/ RFails /\ UNCHANGED senderSem

RWait(from, to) ==
  /\ rpc = from
  /\ UNCHANGED <<linked, senderSem, shm, receiverData>>
  /\ \/ receiverSem > 0 /\ receiverSem' = receiverSem - 1 /\ RGoto(to)
     \/ receiverSem = 0 /\ RTimeout /\ UNCHANGED receiverSem

RWaitHeader == RWait("waitHeader", "checkSize")
RWaitData == RWait("waitData", "takeSize")

RWaitFails ==
  /\ rpc \in {"waitHeader", "waitData"}
  /\ RFails
  /\ UNCHANGED <<channel, receiverData>>

RCheckSize ==
  /\ rpc = "checkSize"
  /\ UNCHANGED <<channel, receiverData>>
  /\ IF dataSize = BufferSize THEN RGoto("readHeader") ELSE RThrow

(* The header is copied and its key compared. *)
RReadHeader ==
  /\ rpc = "readHeader"
  /\ UNCHANGED <<channel, taken, out, held, present>>
  /\ IF HasKey(cells[1])
     THEN RGoto("ackHeader") /\ expected' = AnnouncedBy(cells[1])
     ELSE RThrow /\ UNCHANGED expected

RAckHeader ==
  /\ rpc = "ackHeader"
  /\ UNCHANGED <<linked, receiverSem, shm, receiverData>>
  /\ \/ /\ senderSem' = senderSem + 1
        /\ IF expected = 0 THEN RThrow ELSE RGoto("waitData")
     \/ RFails /\ UNCHANGED senderSem

RTakeFull ==
  /\ rpc = "takeSize"
  /\ RGoto("store")
  /\ taken' = BufferSize
  /\ UNCHANGED <<channel, expected, out, held, present>>
RTakeSize ==
  /\ rpc = "takeSize"
  /\ RGoto("store")
  /\ taken' = dataSize
  /\ UNCHANGED <<channel, expected, out, held, present>>

RStore ==
  /\ rpc = "store"
  /\ UNCHANGED <<channel, expected, taken, present>>
  /\ \/ /\ RGoto("reset")
        /\ out' = out \o [i \in 1..taken |-> cells[i]]
        /\ held' \in HeldOf(taken)
     \/ RFails /\ UNCHANGED <<out, held>>

RReset ==
  /\ rpc = "reset"
  /\ RGoto("ack")
  /\ dataSize' = 0
  /\ UNCHANGED <<linked, sems, cells, receiverData>>

RAck ==
  /\ rpc = "ack"
  /\ UNCHANGED <<linked, receiverSem, shm, receiverData>>
  /\ \/ /\ senderSem' = senderSem + 1
        /\ IF More(taken, Len(out), expected)
           THEN RGoto("waitData")
           ELSE /\ rpc' = "unlinkShm" /\ rres' = Verdict(Len(out), expected)
                /\ UNCHANGED <<spc, sres, size, senderData>>
     \/ RFails /\ UNCHANGED senderSem

RUnlink(from, name, to) ==
  /\ rpc = from
  /\ RGoto(to)
  /\ linked' = linked \ {name}
  /\ UNCHANGED <<sems, shm, receiverData>>

RUnlinkShm == RUnlink("unlinkShm", "shm", "unlinkReceiverSem")
RUnlinkReceiverSem == RUnlink("unlinkReceiverSem", "receiverSem", "unlinkSenderSem")
RUnlinkSenderSem ==
  RUnlink("unlinkSenderSem", "senderSem",
          IF rres = "failure" THEN "remove" ELSE "closeCopy")

(* The file handler goes last; its verdict is long given.                  *)
RCloseCopy ==
  /\ rpc = "closeCopy"
  /\ RGoto("ended")
  /\ out' \in ClosedCopies(out, held) /\ held' = 0
  /\ UNCHANGED <<channel, expected, taken, present>>

(* main() catches the exception and removes the file. *)
RKeepFile ==
  rpc = "remove" /\ RGoto("ended") /\ UNCHANGED <<channel, receiverData>>
RRemove ==
  /\ rpc = "remove"
  /\ RGoto("ended")
  /\ present' = FALSE
  /\ UNCHANGED <<channel, expected, taken, out, held>>

ReceiverStep ==
  \/ RConnectReceiverSem \/ RConnectSenderSem \/ RConnectShm \/ RHello
  \/ RWaitHeader \/ RCheckSize \/ RReadHeader \/ RAckHeader
  \/ RWaitData \/ RTakeSize \/ RStore \/ RReset \/ RAck
  \/ RUnlinkShm \/ RUnlinkReceiverSem \/ RUnlinkSenderSem
  \/ RCloseCopy \/ RRemove

RKill ==
  /\ "kill" \in Disturbances
  /\ rpc \notin {"idle", "ended"}
  /\ rpc' = "ended" /\ rres' = "killed"
  /\ out' \in CopiesOfKilled(out, held) /\ held' = 0
  /\ UNCHANGED <<spc, sres, channel, size, senderData, expected, taken, present>>

-----------------------------------------------------------------------------
BothEnded == spc = "ended" /\ rpc = "ended" /\ UNCHANGED vars

Next ==
  \/ SLaunch \/ SenderStep \/ SWaitFails \/ SKill
  \/ RLaunch \/ ReceiverStep \/ RWaitFails \/ RKill
  \/ BothEnded

(* A program that runs keeps running, and its deadlines pass.  Nobody has  *)
(* to launch or to kill it, and no wait has to fail.                       *)
Fairness == WF_vars(SenderStep) /\ WF_vars(ReceiverStep)

SafetySpec == Init /\ [][Next]_vars
Spec == SafetySpec /\ Fairness

-----------------------------------------------------------------------------
(* Properties *)

Holding(turn) == IF turn THEN 1 ELSE 0
Turns == senderSem + receiverSem + Holding(spc \in SenderTurn)
           + Holding(rpc \in ReceiverTurn)

(* At most one of the programs uses the buffer, and a turn is never        *)
(* offered while it is taken: what the pair of semaphores in transferData  *)
(* is for.  Hence no access to the buffer races with another.              *)
TurnTaking == Turns <= 1

(* When ipc_receivefile decides on EXIT_SUCCESS the file is the source,    *)
(* byte for byte, whatever happened to ipc_sendfile in the meantime and    *)
(* even when stat() and the reads disagreed about the length.  Only        *)
(* closing the file can still take something away, when the disk fails,    *)
(* and never a whole buffer.                                               *)
ExactCopy ==
  rres = "success" =>
    /\ out = Stretch(0, Len(out))
    /\ Len(out) = size
         \/ (rpc = "ended" /\ Len(out) \in (size - MostLost(BufferSize - 1))..size)

(* When both programs have ended and one of them took part in the transfer *)
(* and was not killed, the names are gone, even if the other was killed:   *)
(* the destructors of either program unlink everything, and the next pair  *)
(* starts afresh.                                                          *)
NamesUnlinked ==
  /\ spc = "ended" /\ rpc = "ended"
  /\ \/ announced # Unset /\ sres # "killed"
     \/ expected # Unset /\ rres # "killed"
  => linked = {}

(* Once launched a program ends: each of its waits has a deadline.         *)
Terminates == (spc # "idle" ~> spc = "ended") /\ (rpc # "idle" ~> rpc = "ended")

(* README: "IPC Channel already exists - if empty the programs will        *)
(* continue, if there is some message on it EXIT_FAILURE": at the very     *)
(* least, no pair that starts on such a channel agrees on a wrong copy.    *)
OldMessageCaught ==
  /\ \A c \in Leftovers : c.receiverSem > 0
  /\ sres = "success" /\ rres = "success"
  => out = Stretch(0, size)

(* What the users of the two programs can rely on. *)
Outcome(pc, result) == IF pc = "ended" THEN result ELSE "none"
Promise == INSTANCE FileCopy WITH
  MaxChunk <- BufferSize, MaxInFlight <- BufferSize,
  MaxHeld <- BufferSize - 1, MaxLost <- MostLost(BufferSize - 1),
  MayStopShort <- FALSE, LeastSize <- 1,
  sender <- Outcome(spc, sres), receiver <- Outcome(rpc, rres)
KeepsPromise == Promise!Spec
=============================================================================

---------------------------- MODULE QueueSession ----------------------------
(***************************************************************************)
(* One ipc_sendfile and one ipc_receivefile of C++_hands_on_programming_NEW *)
(* that copy a file through a message queue (--queue), from their launch   *)
(* to their exit.  The receiver creates the queue; the sender looks for it *)
(* by name, refuses one that holds messages, and runs ahead of the         *)
(* receiver by as much as the queue can hold.                              *)
(*                                                                         *)
(* The name may be left over from programs that were killed.  Only the     *)
(* receiver creates a queue, and only once; if that makes a new one, the   *)
(* sender has unlinked the old one and is not using it (OneQueue, in       *)
(* QueueSessionInvariant).                                                 *)
(***************************************************************************)
EXTENDS CopyFileThroughIPC

CONSTANTS
  Capacity,       (* mq_maxmsg_: 10 messages in the program                 *)
  Leftovers       (* what the queue may hold when the programs start        *)

ASSUME CapacityAssumption == Capacity \in Nat \ {0}

(* A message is a header that announces n bytes, the n bytes of the source *)
(* after the first `from' ones, or n bytes of something else.              *)
Header(n) == [kind |-> "header", from |-> 0, n |-> n]
Data(from, n) == [kind |-> "data", from |-> from, n |-> n]
Messages == [kind : {"header", "data", "other"}, from : Nat, n : Nat]

ASSUME QueueLeftoversAssumption ==
  Leftovers \subseteq [linked : BOOLEAN, queue : Seq(Messages)]

(* What a message adds to the file when it is stored as data.              *)
BytesOf(m) ==
  CASE m.kind = "header" -> [i \in 1..BufferSize |-> HeaderByte(m.n)]
    [] m.kind = "data" -> Stretch(m.from, m.n)
    [] OTHER -> [i \in 1..m.n |-> 0]

VARIABLES
  spc, rpc,       (* what each program does next                            *)
  sres, rres,     (* how each program ends, "none" until that is known      *)
  linked,         (* could a program open the queue by its name now?        *)
  queue,          (* the messages in it                                     *)
  size,           (* the number of bytes the sender can read                *)
  announced,      (* fileSize in the sender's launch()                      *)
  expected,       (* fileSize in the receiver's launch()                    *)
  sent,           (* totalDataTransferred of the sender                     *)
  lastRead,       (* dataRead in the sender's transferData()                *)
  inbox,          (* the message in the receiver's buffer                   *)
  out,            (* the bytes written to the receiver's file               *)
  held,           (* how many of the last ones the stream still holds       *)
  present         (* does that file exist?                                  *)

outcomes == <<sres, rres>>
senderData == <<announced, sent, lastRead>>
receiverData == <<expected, inbox, out, held, present>>
vars == <<spc, rpc, outcomes, linked, queue, size, senderData, receiverData>>

SenderLabels == {"idle", "open", "check", "measure", "sendHeader", "fill", "send",
                 "unlink", "ended"}
ReceiverLabels == {"idle", "create", "receiveHeader", "receive", "store",
                   "unlink", "closeCopy", "remove", "stuck", "ended"}
Gone == {"idle", "unlink", "closeCopy", "remove", "stuck", "ended"}
SenderLive == spc \notin Gone
ReceiverLive == rpc \notin Gone

TypeOK ==
  /\ spc \in SenderLabels /\ rpc \in ReceiverLabels
  /\ sres \in Outcomes /\ rres \in Outcomes
  /\ linked \in BOOLEAN
  /\ queue \in Seq(Messages) /\ inbox \in Messages
  /\ size \in Sizes
  /\ announced \in Sizes \cup {Unset} /\ expected \in Nat \cup {Unset}
  /\ spc = "sendHeader" => announced \in Sizes
  /\ sent \in Nat /\ lastRead \in 0..BufferSize /\ lastRead <= sent
  /\ out \in Seq(Int) /\ held \in 0..(BufferSize - 1)
  /\ present \in BOOLEAN

Init ==
  /\ spc = "idle" /\ rpc = "idle"
  /\ sres = "none" /\ rres = "none"
  /\ \E c \in Leftovers : linked = c.linked /\ queue = c.queue
  /\ size \in Sizes
  /\ announced = Unset /\ expected = Unset
  /\ sent = 0 /\ lastRead = 0
  /\ inbox = Data(0, 0)
  /\ out = << >> /\ held = 0
  /\ present \in BOOLEAN

-----------------------------------------------------------------------------
SGoto(label) == spc' = label /\ UNCHANGED <<rpc, outcomes, size, receiverData>>
RGoto(label) == rpc' = label /\ UNCHANGED <<spc, outcomes, size, senderData>>

(* launch() ends, normally or by an exception, and the destructors run.    *)
SConclude(result) ==
  /\ spc' = "unlink" /\ sres' = result
  /\ UNCHANGED <<rpc, rres, size, receiverData>>
RConclude(result) ==
  /\ rpc' = "unlink" /\ rres' = result
  /\ UNCHANGED <<spc, sres, size, senderData>>

SFails == "error" \in Disturbances /\ SConclude("failure")
RFails == "error" \in Disturbances /\ RConclude("failure")

(* A deadline passes: the other program is not there, or is too slow.      *)
STimeout == ("late" \in Disturbances \/ ~ReceiverLive) /\ SConclude("failure")
RTimeout == ("late" \in Disturbances \/ ~SenderLive) /\ RConclude("failure")

-----------------------------------------------------------------------------
(* The sender *)

(* The constructor opens the source; without a handler there is no name to *)
(* unlink.                                                                 *)
SLaunch ==
  /\ spc = "idle"
  /\ UNCHANGED <<rpc, rres, linked, queue, size, senderData, receiverData>>
  /\ \/ spc' = "open" /\ sres' = sres
     \/ "error" \in Disturbances /\ spc' = "ended" /\ sres' = "failure"

(* connect: the name is tried until the queue is there or time runs out.   *)
SOpenOnce ==
  /\ spc = "open"
  /\ IF linked THEN SGoto("check") ELSE SConclude("failure")
  /\ UNCHANGED <<linked, queue, senderData>>
SOpen ==
  /\ spc = "open"
  /\ UNCHANGED <<linked, queue, senderData>>
  /\ \/ linked /\ SGoto("check")
     \/ ~linked /\ STimeout

SCheckSkipped ==
  spc = "check" /\ SGoto("measure") /\ UNCHANGED <<linked, queue, senderData>>
SCheck ==
  /\ spc = "check"
  /\ UNCHANGED <<linked, queue, senderData>>
  /\ IF queue = << >> THEN SGoto("measure") ELSE SConclude("failure")

SMeasure ==
  /\ spc = "measure"
  /\ UNCHANGED <<linked, queue, sent, lastRead>>
  /\ \/ SGoto("sendHeader") /\ announced' \in AnnouncedSizes(size)
     \/ SFails /\ UNCHANGED announced

(* sendData: mq_timedsend blocks while the queue is full.                  *)
PutAnyway(m) == queue' = Append(queue, m)
Put(m) == Len(queue) < Capacity /\ queue' = Append(queue, m)
PutFails == Len(queue) >= Capacity /\ STimeout /\ UNCHANGED queue

(* After its transferHeader() launch() refuses an empty file.              *)
SSendHeader ==
  /\ spc = "sendHeader"
  /\ UNCHANGED <<linked, senderData>>
  /\ \/ /\ Put(Header(announced))
        /\ IF announced = 0 THEN SConclude("failure") ELSE SGoto("fill")
     \/ PutFails

SFill ==
  /\ spc = "fill"
  /\ UNCHANGED <<linked, queue, announced>>
  /\ \/ /\ SGoto("send")
        /\ lastRead' = ReadFile(sent, size)
        /\ sent' = sent + lastRead'
     \/ SFails /\ UNCHANGED <<sent, lastRead>>

(* After each transferData() launch() goes on, or concludes.               *)
SSend ==
  /\ spc = "send"
  /\ UNCHANGED <<linked, senderData>>
  /\ \/ /\ Put(Data(sent - lastRead, lastRead))
        /\ IF More(lastRead, sent, announced)
           THEN SGoto("fill")
           ELSE SConclude(Verdict(sent, announced))
     \/ PutFails

(* A call that may block may also fail at any time: a signal, the clock.   *)
SCallFails ==
  /\ spc \in {"open", "sendHeader", "send"}
  /\ SFails
  /\ UNCHANGED <<linked, queue, senderData>>

SKeepName ==
  spc = "unlink" /\ SGoto("ended") /\ UNCHANGED <<linked, queue, senderData>>
SUnlink ==
  /\ spc = "unlink"
  /\ SGoto("ended")
  /\ linked' = FALSE
  /\ UNCHANGED <<queue, senderData>>

SenderStep ==
  \/ SOpen \/ SCheck \/ SMeasure \/ SSendHeader \/ SFill \/ SSend \/ SUnlink

SKill ==
  /\ "kill" \in Disturbances
  /\ spc \notin {"idle", "ended"}
  /\ spc' = "ended" /\ sres' = "killed"
  /\ UNCHANGED <<rpc, rres, linked, queue, size, senderData, receiverData>>

-----------------------------------------------------------------------------
(* The receiver *)

RLaunch ==
  /\ rpc = "idle"
  /\ UNCHANGED <<spc, sres, linked, queue, size, senderData, expected, inbox, out, held>>
  /\ \/ rpc' = "create" /\ rres' = rres /\ present' = TRUE
     \/ /\ "error" \in Disturbances
        /\ rpc' = "remove" /\ rres' = "failure" /\ UNCHANGED present

(* connect: mq_open(O_CREAT) keeps the messages of a queue that exists.    *)
RCreateAnew ==
  /\ rpc = "create"
  /\ RGoto("receiveHeader")
  /\ linked' = TRUE /\ queue' = << >>
  /\ UNCHANGED receiverData
RCreate ==
  /\ rpc = "create"
  /\ UNCHANGED receiverData
  /\ \/ /\ RGoto("receiveHeader")
        /\ linked' = TRUE
        /\ queue' = IF linked THEN queue ELSE << >>
     \/ RFails /\ UNCHANGED <<linked, queue>>

(* receiveData: mq_timedreceive blocks while the queue is empty.           *)
Get == queue # << >> /\ queue' = Tail(queue)
GetWaitsForever == FALSE
GetFails == queue = << >> /\ RTimeout /\ UNCHANGED queue

(* transferHeader.  When getTime() throws no one clears Rwaiting, and the  *)
(* future of the thread that prints is never ready: the program hangs.     *)
RReceiveHeader ==
  /\ rpc = "receiveHeader"
  /\ UNCHANGED <<linked, inbox, out, held, present>>
  /\ \/ /\ Get
        /\ IF Head(queue).kind = "header"
           THEN /\ expected' = Head(queue).n
                /\ IF Head(queue).n = 0 THEN RConclude("failure") ELSE RGoto("receive")
           ELSE RConclude("failure") /\ UNCHANGED expected
     \/ GetFails /\ UNCHANGED expected
     \/ "clock" \in Disturbances /\ RGoto("stuck") /\ UNCHANGED <<queue, expected>>

(* transferData *)
RReceive ==
  /\ rpc = "receive"
  /\ UNCHANGED <<linked, expected, out, held, present>>
  /\ \/ Get /\ RGoto("store") /\ inbox' = Head(queue)
     \/ GetFails /\ UNCHANGED inbox

RCallFails ==
  /\ rpc \in {"receiveHeader", "receive"}
  /\ RFails
  /\ UNCHANGED <<linked, queue, receiverData>>

RStore ==
  /\ rpc = "store"
  /\ UNCHANGED <<linked, queue, expected, inbox, present>>
  /\ \/ /\ out' = out \o BytesOf(inbox)
        /\ held' \in HeldOf(Len(BytesOf(inbox)))
        /\ IF More(Len(BytesOf(inbox)), Len(out'), expected)
           THEN RGoto("receive")
           ELSE RConclude(Verdict(Len(out'), expected))
     \/ RFails /\ UNCHANGED <<out, held>>

RUnlink ==
  /\ rpc = "unlink"
  /\ RGoto(IF rres = "failure" THEN "remove" ELSE "closeCopy")
  /\ linked' = FALSE
  /\ UNCHANGED <<queue, receiverData>>

(* The file handler goes last; its verdict is long given.                  *)
RCloseCopy ==
  /\ rpc = "closeCopy"
  /\ RGoto("ended")
  /\ out' \in ClosedCopies(out, held) /\ held' = 0
  /\ UNCHANGED <<linked, queue, expected, inbox, present>>

(* main() catches the exception and removes the file. *)
RKeepFile ==
  rpc = "remove" /\ RGoto("ended") /\ UNCHANGED <<linked, queue, receiverData>>
RRemove ==
  /\ rpc = "remove"
  /\ RGoto("ended")
  /\ present' = FALSE
  /\ UNCHANGED <<linked, queue, expected, inbox, out, held>>

ReceiverStep ==
  \/ RCreate \/ RReceiveHeader \/ RReceive \/ RStore
  \/ RUnlink \/ RCloseCopy \/ RRemove

RKill ==
  /\ "kill" \in Disturbances
  /\ rpc \notin {"idle", "ended"}
  /\ rpc' = "ended" /\ rres' = "killed"
  /\ out' \in CopiesOfKilled(out, held) /\ held' = 0
  /\ UNCHANGED <<spc, sres, linked, queue, size, senderData, expected, inbox, present>>

-----------------------------------------------------------------------------
Stopped == spc = "ended" /\ rpc \in {"ended", "stuck"} /\ UNCHANGED vars

Next ==
  \/ SLaunch \/ SenderStep \/ SCallFails \/ SKill
  \/ RLaunch \/ ReceiverStep \/ RCallFails \/ RKill
  \/ Stopped

(* A program that runs keeps running, and its deadlines pass.  Nobody has  *)
(* to launch or to kill it, and no call has to fail.                       *)
Fairness == WF_vars(SenderStep) /\ WF_vars(ReceiverStep)

SafetySpec == Init /\ [][Next]_vars
Spec == SafetySpec /\ Fairness

-----------------------------------------------------------------------------
(* Properties *)

(* When ipc_receivefile decides on EXIT_SUCCESS the file is the source,    *)
(* byte for byte, however far the sender ran ahead, whatever happened to   *)
(* it in the meantime and even when stat() and the reads disagreed.  Only  *)
(* closing the file can still take something away, when the disk fails,    *)
(* and never a whole buffer.                                               *)
ExactCopy ==
  rres = "success" =>
    /\ out = Stretch(0, Len(out))
    /\ Len(out) = size
         \/ (rpc = "ended" /\ Len(out) \in (size - MostLost(BufferSize - 1))..size)

(* When the header was received and both programs have ended the queue is  *)
(* gone, with what was left in it, even if one of the two was killed.      *)
NameUnlinked ==
  /\ spc = "ended" /\ rpc = "ended"
  /\ expected # Unset
  /\ sres # "killed" \/ rres # "killed"
  => ~linked

(* Once launched a program ends, since each of its waits has a deadline,   *)
(* but for a receiver whose clock fails: its own thread holds it.          *)
Terminates ==
  (spc # "idle" ~> spc = "ended") /\ (rpc # "idle" ~> rpc \in {"stuck", "ended"})

(* README: "IPC Channel already exists - if empty the programs will        *)
(* continue, if there is some message on it EXIT_FAILURE": a receiver that *)
(* starts on a queue with messages does not succeed.                       *)
OldMessageCaught ==
  (\A c \in Leftovers : c.queue # << >>) => rres # "success"

(* What the users of the two programs can rely on: the queue and the       *)
(* receiver's buffer are all that can be on the way.                       *)
Outcome(pc, result) == IF pc = "ended" THEN result ELSE "none"
Promise == INSTANCE FileCopy WITH
  MaxChunk <- BufferSize, MaxInFlight <- (Capacity + 1) * BufferSize,
  MaxHeld <- BufferSize - 1, MaxLost <- MostLost(BufferSize - 1),
  MayStopShort <- FALSE, LeastSize <- 1,
  sender <- Outcome(spc, sres), receiver <- Outcome(rpc, rres)
KeepsPromise == Promise!Spec
=============================================================================

---------------------------- MODULE RcPipeSession ----------------------------
(***************************************************************************)
(* One ipc_sendfile and one ipc_receivefile of C++_hands_on_programming_RC *)
(* that copy a file through a FIFO (--pipe).  The sender opens it in a     *)
(* thread that a timer cancels; the receiver looks for the name and then   *)
(* opens it with no deadline.  Only a program that is connected, and a     *)
(* sender that gives up, unlink the name; a constructor that throws runs   *)
(* no destructor.                                                          *)
(***************************************************************************)
EXTENDS RcCopyFile

CONSTANTS
  Capacity,       (* the bytes the pipe and the receiver's stream can hold  *)
  Leftovers       (* what may have the name when the programs start         *)

VARIABLES
  spc, rpc,       (* what each program does next                            *)
  sres, rres,     (* how each program ends, "none" until that is known      *)
  name,           (* what has the name CopyDataThroughPipe                  *)
  target,         (* what the sender opens                                  *)
  pipe,           (* the bytes written to the FIFO and not read             *)
  kept,           (* the bytes in the sender's stream until it is closed    *)
  size,           (* the number of bytes the sender can read                *)
  toSend,         (* fileSize in the sender's syncFileWithIPC()             *)
  announced,      (* the length in the header it sends                      *)
  sent,           (* datasent                                               *)
  lastRead,       (* bufferSize_ of the sender                              *)
  expected,       (* fileSize_ of the receiver                              *)
  inbox,          (* the receiver's buffer                                  *)
  out,            (* the bytes written to the receiver's file               *)
  present         (* does that file exist?                                  *)

outcomes == <<sres, rres>>
channel == <<name, target, pipe, kept>>
senderData == <<toSend, announced, sent, lastRead>>
receiverData == <<expected, inbox, out, present>>
vars == <<spc, rpc, outcomes, channel, size, senderData, receiverData>>

SenderOpen == {"opened", "measure", "sendHeader", "fill", "send", "close"}
ReceiverOpen == {"openFile", "receiveHeader", "receive", "store", "close"}
SenderLabels ==
  {"idle", "make", "open", "untimed", "opening", "unlink", "ended"} \cup SenderOpen
ReceiverLabels ==
  {"idle", "look", "open", "opening", "unlink", "remove", "ended"} \cup ReceiverOpen
Gone == {"idle", "close", "unlink", "remove", "ended"}
SenderLive == spc \notin Gone
ReceiverLive == rpc \notin Gone
Writing == spc \in SenderOpen
Reading == rpc \in ReceiverOpen

TypeOK ==
  /\ spc \in SenderLabels /\ rpc \in ReceiverLabels
  /\ sres \in Outcomes /\ rres \in Outcomes
  /\ name \in {"none", "fifo", "file"} /\ target \in {"none", "fifo", "file"}
  /\ pipe \in Seq(Int) /\ Len(pipe) <= Capacity
  /\ kept \in Seq(Int) /\ Len(kept) < BufferSize
  /\ size \in Sizes
  /\ toSend \in Sizes \cup {Unset} /\ announced \in Sizes \cup {Unset}
  /\ sent \in Nat /\ lastRead \in 0..BufferSize
  /\ expected \in Nat \cup {Unset}
  /\ inbox \in Seq(Int) /\ out \in Seq(Int)
  /\ present \in BOOLEAN

Init ==
  /\ spc = "idle" /\ rpc = "idle"
  /\ sres = "none" /\ rres = "none"
  /\ name \in Leftovers /\ target = "none"
  /\ pipe = << >> /\ kept = << >>
  /\ size \in Sizes
  /\ toSend = Unset /\ announced = Unset
  /\ sent = 0 /\ lastRead = BufferSize
  /\ expected = Unset
  /\ inbox = << >> /\ out = << >>
  /\ present \in BOOLEAN

-----------------------------------------------------------------------------
SGoto(label) == spc' = label /\ UNCHANGED <<rpc, outcomes, size, receiverData>>
RGoto(label) == rpc' = label /\ UNCHANGED <<spc, outcomes, size, senderData>>
SLeave(label, result) ==
  /\ spc' = label /\ sres' = result
  /\ UNCHANGED <<rpc, rres, size, receiverData>>
RLeave(label, result) ==
  /\ rpc' = label /\ rres' = result
  /\ UNCHANGED <<spc, sres, size, senderData>>

(* An exception in a constructor, and the end of a transfer: only then is  *)
(* there an object whose destructor closes and unlinks.                    *)
SRefuse == SLeave("ended", "failure")
SConclude(result) == SLeave("close", result)
RRefuse == RLeave("remove", "failure")
RConclude(result) == RLeave("close", result)

Fails == "error" \in Disturbances
Late == "late" \in Disturbances
STimeout == Late \/ ~ReceiverLive
RTimeout == Late \/ ~SenderLive

-----------------------------------------------------------------------------
(* The sender *)

SLaunch ==
  /\ spc = "idle"
  /\ UNCHANGED <<channel, senderData>>
  /\ \/ SGoto("make")
     \/ Fails /\ SRefuse

SMake ==
  /\ spc = "make"
  /\ UNCHANGED <<target, pipe, kept, senderData>>
  /\ \/ SGoto("open") /\ name' = IF name = "none" THEN "fifo" ELSE name
     \/ Fails /\ SRefuse /\ UNCHANGED name

(* OpenThread: open(out) makes a regular file if the name is gone.         *)
SOpen ==
  /\ spc = "open"
  /\ name' = IF name = "none" THEN "file" ELSE name
  /\ target' = name'
  /\ SGoto(IF target' = "fifo" THEN "untimed" ELSE "opened")
  /\ UNCHANGED <<pipe, kept, senderData>>

(* The constructor starts OpenThread before it creates the timer, whose    *)
(* pthread_t holds anything until then.                                    *)
STimer == spc = "untimed" /\ SGoto("opening") /\ UNCHANGED <<channel, senderData>>

(* open() of a FIFO returns when both ends are being opened.               *)
Meet ==
  /\ spc \in {"untimed", "opening"} /\ rpc = "opening"
  /\ spc' = "opened" /\ rpc' = "openFile"
  /\ UNCHANGED <<outcomes, channel, size, senderData, receiverData>>

(* When open() returns or fails before there is a timer, OpenThread        *)
(* cancels whatever info.timer holds.  Either nothing is cancelled (Meet), *)
(* and the timer runs out before the sender goes on, or the program        *)
(* crashes, which ends it as a kill does.                                  *)
SCrash ==
  /\ spc = "untimed"
  /\ spc' = "ended" /\ sres' = "killed"
  /\ \/ rpc = "opening" /\ rpc' = "openFile"
     \/ Fails /\ UNCHANGED rpc
  /\ UNCHANGED <<rres, channel, size, senderData, receiverData>>

(* TimerThread cancels OpenThread, which may just have opened the FIFO;    *)
(* the constructor unlinks the name and throws, which closes the stream.   *)
SKeepsFifo ==
  /\ spc \in {"opening", "opened"}
  /\ Fails \/ IF spc = "opening" THEN STimeout ELSE Late
  /\ SRefuse
  /\ UNCHANGED <<channel, senderData>>
SGiveUp ==
  /\ spc \in {"opening", "opened"}
  /\ Fails \/ IF spc = "opening" THEN STimeout ELSE Late
  /\ SRefuse
  /\ name' = "none"
  /\ UNCHANGED <<target, pipe, kept, senderData>>

SOpened == spc = "opened" /\ SGoto("measure") /\ UNCHANGED <<channel, senderData>>

SMeasure ==
  /\ spc = "measure"
  /\ UNCHANGED <<channel, announced, sent, lastRead>>
  /\ \/ SGoto("sendHeader") /\ toSend' \in AnnouncedSizes(size)
     \/ Fails /\ SConclude("failure") /\ UNCHANGED toSend

(* A write blocks while there is no room; without a reader SIGPIPE is      *)
(* noted and the program throws.                                           *)
Write(bytes) ==
  Reading /\ Len(pipe) + Len(bytes) <= Capacity /\ pipe' = pipe \o bytes
BrokenUnnoticed == FALSE
Broken == ~Reading /\ UNCHANGED pipe

SGoesOn(total) ==
  IF SendsMore(total, toSend) THEN SGoto("fill") ELSE SConclude("success")

(* The header measures the file once more.                                 *)
SSendHeader ==
  /\ spc = "sendHeader"
  /\ UNCHANGED <<name, target, kept, toSend, sent, lastRead>>
  /\ announced' \in AnnouncedSizes(size)
  /\ \/ Write([i \in 1..BufferSize |-> HeaderByte(announced')]) /\ SGoesOn(0)
     \/ Broken /\ SConclude("failure")

SFill ==
  /\ spc = "fill"
  /\ UNCHANGED <<channel, toSend, announced, sent>>
  /\ \/ SGoto("send") /\ lastRead' = SyncFileWithBuffer(lastRead, sent, size)
     \/ Fails /\ SConclude("failure") /\ UNCHANGED lastRead

(* The stream may keep what is less than a buffer until it is closed; an   *)
(* empty piece writes nothing, and meets no one who is gone.               *)
SSend ==
  /\ spc = "send"
  /\ UNCHANGED <<name, target, toSend, announced, lastRead>>
  /\ \/ /\ LET bytes == Stretch(sent, lastRead)
           IN  \/ bytes # << >> /\ Write(bytes) /\ UNCHANGED kept
               \/ lastRead < BufferSize /\ kept' = kept \o bytes /\ UNCHANGED pipe
        /\ sent' = sent + lastRead
        /\ SGoesOn(sent')
     \/ lastRead > 0 /\ Broken /\ SConclude("failure") /\ UNCHANGED <<kept, sent>>

SCallFails ==
  /\ Fails
  /\ spc \in {"sendHeader", "send"}
  /\ SConclude("failure")
  /\ UNCHANGED <<channel, senderData>>

(* ~PipeSendFile: what was kept is written, or lost without notice.        *)
SCloseDiscards ==
  spc = "close" /\ SGoto("unlink") /\ UNCHANGED <<channel, senderData>>
SClose ==
  /\ spc = "close"
  /\ SGoto("unlink")
  /\ Write(kept) \/ Broken
  /\ UNCHANGED <<name, target, kept, senderData>>
SKeepName ==
  spc = "unlink" /\ SGoto("ended") /\ UNCHANGED <<channel, senderData>>
SUnlink ==
  /\ spc = "unlink"
  /\ SGoto("ended")
  /\ name' = "none"
  /\ UNCHANGED <<target, pipe, kept, senderData>>

SenderStep ==
  \/ SMake \/ SOpen \/ STimer \/ SGiveUp \/ SOpened \/ SMeasure \/ SSendHeader \/ SFill
  \/ SSend \/ SClose \/ SUnlink

SKill ==
  /\ "kill" \in Disturbances
  /\ spc \notin {"idle", "ended"}
  /\ SLeave("ended", "killed")
  /\ UNCHANGED <<channel, senderData>>

-----------------------------------------------------------------------------
(* The receiver *)

RLaunch ==
  /\ rpc = "idle"
  /\ UNCHANGED <<channel, receiverData>>
  /\ \/ RGoto("look")
     \/ Fails /\ RRefuse

(* A name found at the last attempt is found too late.                     *)
RRefuseAndUnlink ==
  /\ rpc = "look"
  /\ UNCHANGED <<target, pipe, kept, receiverData>>
  /\ \/ name # "none" /\ RGoto("open") /\ UNCHANGED name
     \/ RTimeout /\ RRefuse /\ name' = "none"
RLook ==
  /\ rpc = "look"
  /\ UNCHANGED <<channel, receiverData>>
  /\ \/ name # "none" /\ RGoto("open")
     \/ RTimeout /\ RRefuse

(* From here the receiver waits for a sender, however long that takes.     *)
ROpen ==
  /\ rpc = "open"
  /\ UNCHANGED <<channel, receiverData>>
  /\ IF name = "fifo" THEN RGoto("opening") ELSE RRefuse

ROpenFile ==
  /\ rpc = "openFile"
  /\ UNCHANGED <<channel, expected, inbox, out>>
  /\ \/ RGoto("receiveHeader") /\ present' = TRUE
     \/ Fails /\ RConclude("failure") /\ UNCHANGED present

(* A read waits for a full buffer or for the end of the file.              *)
EndOfFile == Len(pipe) < BufferSize /\ ~Writing
Read ==
  /\ Len(pipe) >= BufferSize \/ EndOfFile
  /\ LET n == IF EndOfFile THEN Len(pipe) ELSE BufferSize
     IN  inbox' = SubSeq(pipe, 1, n) /\ pipe' = SubSeq(pipe, n + 1, Len(pipe))

(* The loop goes on, or the file is closed and its length checked.         *)
RGoesOn(bytes, last) ==
  IF ReceivesMore(Len(bytes), last, expected')
  THEN RGoto("receive") /\ out' = bytes
  ELSE /\ out' \in ClosedAfter(bytes, last)
       /\ RConclude(CheckedLength(Len(out'), expected'))

RReceiveHeader ==
  /\ rpc = "receiveHeader"
  /\ Read
  /\ UNCHANGED <<name, target, kept, present>>
  /\ IF inbox' # << >> /\ HasKey(inbox'[1])
     THEN expected' = AnnouncedBy(inbox'[1]) /\ RGoesOn(out, BufferSize)
     ELSE RConclude("failure") /\ UNCHANGED <<expected, out>>

RReceive ==
  /\ rpc = "receive"
  /\ Read
  /\ RGoto("store")
  /\ UNCHANGED <<name, target, kept, expected, out, present>>

RStore ==
  /\ rpc = "store"
  /\ UNCHANGED <<channel, expected, inbox, present>>
  /\ \/ RGoesOn(out \o inbox, Len(inbox))
     \/ Fails /\ RConclude("failure") /\ UNCHANGED out

RCallFails ==
  /\ Fails
  /\ \/ rpc \in {"open", "opening"} /\ RRefuse
     \/ rpc \in {"receiveHeader", "receive"} /\ RConclude("failure")
  /\ UNCHANGED <<channel, receiverData>>

(* ~PipeReceiveFile *)
RClose == rpc = "close" /\ RGoto("unlink") /\ UNCHANGED <<channel, receiverData>>
RUnlink ==
  /\ rpc = "unlink"
  /\ RGoto(IF rres = "failure" THEN "remove" ELSE "ended")
  /\ name' = "none"
  /\ UNCHANGED <<target, pipe, kept, receiverData>>

(* receiverMain catches the exception and removes the file.                *)
RRemove ==
  /\ rpc = "remove"
  /\ RGoto("ended")
  /\ present' = FALSE
  /\ UNCHANGED <<channel, expected, inbox, out>>

ReceiverStep ==
  \/ RLook \/ ROpen \/ ROpenFile \/ RReceiveHeader \/ RReceive \/ RStore
  \/ RClose \/ RUnlink \/ RRemove

RKill ==
  /\ "kill" \in Disturbances
  /\ rpc \notin {"idle", "ended"}
  /\ RLeave("ended", "killed")
  /\ UNCHANGED <<channel, receiverData>>

-----------------------------------------------------------------------------
(* A receiver may wait for a sender for ever.                              *)
Stopped == spc = "ended" /\ rpc \in {"opening", "ended"} /\ UNCHANGED vars

Next ==
  \/ SLaunch \/ SenderStep \/ SCallFails \/ SKill
  \/ RLaunch \/ ReceiverStep \/ RCallFails \/ RKill
  \/ Meet \/ SCrash \/ Stopped

(* A program that runs keeps running, its deadlines pass, and the system   *)
(* lets two programs that open the same FIFO go on.                        *)
Fairness == WF_vars(SenderStep) /\ WF_vars(ReceiverStep) /\ WF_vars(Meet)

SafetySpec == Init /\ [][Next]_vars
Spec == SafetySpec /\ Fairness

-----------------------------------------------------------------------------
(* Properties *)

(* When ipc_receivefile exits with EXIT_SUCCESS its file holds the first   *)
(* bytes of the source, as many as the header announced.                   *)
ExactCopy == rres = "success" => announced <= size /\ out = Stretch(0, announced)

(* When the header was received and both programs have ended the name is   *)
(* gone, even if one of the two was killed.                                *)
NameUnlinked ==
  /\ spc = "ended" /\ rpc = "ended"
  /\ expected # Unset
  /\ sres # "killed" \/ rres # "killed"
  => name = "none"

(* No one unlinks the FIFO between mkfifo and open of the sender, so that  *)
(* open cannot make a regular file of that name.                           *)
FifoOpened == target # "file"

(* Error_Handling: programs of which only one is launched "will try to     *)
(* connect between them for 30 seconds. After, the programs will end with  *)
(* EXIT_FAILURE": the receiver's attempt to connect comes to an end.       *)
ConnectingEnds == rpc = "opening" ~> rpc # "opening"

(* What the users of the two programs can rely on while the source does    *)
(* not change.  If its length does, a sender that reports a success counts *)
(* as one that failed.                                                     *)
Outcome(pc, result) == IF pc = "ended" THEN result ELSE "none"
SenderOutcome ==
  IF sres = "success" /\ (announced # size \/ toSend # size)
  THEN Outcome(spc, "failure") ELSE Outcome(spc, sres)
Promise == INSTANCE FileCopy WITH
  MaxChunk <- BufferSize, MaxInFlight <- Capacity + 2 * BufferSize,
  MaxHeld <- 0, MaxLost <- 0,
  MayStopShort <- "resize" \in Disturbances, LeastSize <- 0,
  sender <- SenderOutcome, receiver <- Outcome(rpc, rres)
=============================================================================

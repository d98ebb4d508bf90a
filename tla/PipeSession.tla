----------------------------- MODULE PipeSession -----------------------------
(***************************************************************************)
(* One ipc_sendfile and one ipc_receivefile of C++_hands_on_programming_NEW *)
(* that copy a file through a FIFO (--pipe), from their launch to their    *)
(* exit.  The sender makes the FIFO, the receiver waits for its name; each *)
(* opens it in a thread that another thread cancels when time is out.      *)
(* Writes and reads have no deadline: a write ends with SIGPIPE when the   *)
(* receiver is gone, a read with the end of the file when the sender is.   *)
(*                                                                         *)
(* std::fstream::open opens a name for writing with O_CREAT: a FIFO that   *)
(* was unlinked after mkfifo becomes a regular file, which no receiver of  *)
(* this session opens any more (OneName, in PipeSessionInvariant).         *)
(***************************************************************************)
EXTENDS CopyFileThroughIPC

CONSTANTS
  Capacity,       (* the bytes the pipe and the receiver's stream can hold  *)
  Leftovers       (* what may have the name when the programs start         *)

ASSUME CapacityAssumption == Capacity \in Nat /\ Capacity >= BufferSize
ASSUME PipeLeftoversAssumption == Leftovers \subseteq {"none", "fifo"}

VARIABLES
  spc, rpc,       (* what each program does next                            *)
  sres, rres,     (* how each program ends, "none" until that is known      *)
  name,           (* what has the name of the channel: a FIFO, a file?      *)
  target,         (* what the sender's stream was opened on                 *)
  pipe,           (* the bytes written to the FIFO and not read             *)
  kept,           (* the bytes in the sender's stream until it is closed    *)
  size,           (* the number of bytes the sender can read                *)
  announced,      (* fileSize in the sender's launch()                      *)
  expected,       (* fileSize in the receiver's launch()                    *)
  sent,           (* totalDataTransferred of the sender                     *)
  lastRead,       (* dataRead in the sender's transferData()                *)
  inbox,          (* the bytes in the receiver's buffer                     *)
  out,            (* the bytes written to the receiver's file               *)
  held,           (* how many of the last ones its stream still holds       *)
  present         (* does that file exist?                                  *)

outcomes == <<sres, rres>>
channel == <<name, target, pipe, kept>>
senderData == <<announced, sent, lastRead>>
receiverData == <<expected, inbox, out, held, present>>
vars == <<spc, rpc, outcomes, channel, size, senderData, receiverData>>

SenderOpen == {"measure", "sendHeader", "fill", "send", "close"}
ReceiverOpen == {"receiveHeader", "receive", "store", "close"}
SenderLabels == {"idle", "make", "open", "opening", "unlink", "ended"} \cup SenderOpen
ReceiverLabels ==
  {"idle", "look", "tooLate", "open", "opening", "unlink", "closeCopy",
   "unlinkAgain", "remove", "ended"} \cup ReceiverOpen
Gone == {"idle", "close", "unlink", "closeCopy", "unlinkAgain", "remove", "ended"}
SenderLive == spc \notin Gone
ReceiverLive == rpc \notin Gone

(* Is the FIFO open for writing, for reading?                              *)
Writing == target = "fifo" /\ spc \in SenderOpen
Reading == target = "fifo" /\ rpc \in ReceiverOpen

TypeOK ==
  /\ spc \in SenderLabels /\ rpc \in ReceiverLabels
  /\ sres \in Outcomes /\ rres \in Outcomes
  /\ name \in {"none", "fifo", "file"} /\ target \in {"none", "fifo", "file"}
  /\ pipe \in Seq(Int) /\ Len(pipe) <= Capacity
  /\ kept \in Seq(Int) /\ Len(kept) < BufferSize
  /\ size \in Sizes
  /\ announced \in Sizes \cup {Unset} /\ expected \in Nat \cup {Unset}
  /\ spc = "sendHeader" => announced \in Sizes
  /\ sent \in Nat /\ lastRead \in 0..BufferSize /\ lastRead <= sent
  /\ inbox \in Seq(Int)
  /\ out \in Seq(Int) /\ held \in 0..(BufferSize - 1)
  /\ present \in BOOLEAN

Init ==
  /\ spc = "idle" /\ rpc = "idle"
  /\ sres = "none" /\ rres = "none"
  /\ name \in Leftovers /\ target = "none"
  /\ pipe = << >> /\ kept = << >>
  /\ size \in Sizes
  /\ announced = Unset /\ expected = Unset
  /\ sent = 0 /\ lastRead = 0
  /\ inbox = << >> /\ out = << >> /\ held = 0
  /\ present \in BOOLEAN

-----------------------------------------------------------------------------
SGoto(label) == spc' = label /\ UNCHANGED <<rpc, outcomes, size, receiverData>>
RGoto(label) == rpc' = label /\ UNCHANGED <<spc, outcomes, size, senderData>>

(* A constructor throws, or launch() ends: the destructors run from there. *)
SLeave(label, result) ==
  /\ spc' = label /\ sres' = result
  /\ UNCHANGED <<rpc, rres, size, receiverData>>
RLeave(label, result) ==
  /\ rpc' = label /\ rres' = result
  /\ UNCHANGED <<spc, sres, size, senderData>>
SConclude(result) == SLeave("close", result)
RConclude(result) == RLeave("close", result)

Fails == "error" \in Disturbances

(* A deadline passes: ThreadTimer cancels the thread that opens, or the    *)
(* receiver's constructor has waited for the name for 6, or for 30 seconds.*)
STimeout == "late" \in Disturbances \/ ~ReceiverLive
RTimeout == "late" \in Disturbances \/ ~SenderLive

-----------------------------------------------------------------------------
(* The sender *)

(* The constructor opens the source; the member that unlinks the name is   *)
(* constructed before.                                                     *)
SLaunch ==
  /\ spc = "idle"
  /\ UNCHANGED <<channel, senderData>>
  /\ \/ SGoto("make")
     \/ Fails /\ SLeave("unlink", "failure")

SMakeSkipped ==
  spc = "make" /\ SGoto("open") /\ UNCHANGED <<channel, senderData>>
SMake ==
  /\ spc = "make"
  /\ UNCHANGED <<target, pipe, kept, senderData>>
  /\ \/ SGoto("open") /\ name' = IF name = "none" THEN "fifo" ELSE name
     \/ Fails /\ SLeave("unlink", "failure") /\ UNCHANGED name

SOpen ==
  /\ spc = "open"
  /\ UNCHANGED <<pipe, kept, senderData>>
  /\ \/ name = "fifo" /\ SGoto("opening") /\ UNCHANGED <<name, target>>
     \/ name = "none" /\ SGoto("measure") /\ name' = "file" /\ target' = "file"

SOpenTimeout ==
  /\ spc = "opening" /\ STimeout
  /\ SConclude("failure")
  /\ UNCHANGED <<channel, senderData>>

(* open() of a FIFO returns when both ends are being opened.               *)
Meet ==
  /\ spc = "opening" /\ rpc = "opening"
  /\ spc' = "measure" /\ rpc' = "receiveHeader"
  /\ target' = "fifo"
  /\ UNCHANGED <<outcomes, name, pipe, kept, size, senderData, receiverData>>

SMeasure ==
  /\ spc = "measure"
  /\ UNCHANGED <<channel, sent, lastRead>>
  /\ \/ SGoto("sendHeader") /\ announced' \in AnnouncedSizes(size)
     \/ Fails /\ SConclude("failure") /\ UNCHANGED announced

(* sendData: a full buffer goes to the pipe at once, and blocks while      *)
(* there is no room.  Without a reader it raises SIGPIPE.                  *)
WriteAnyway(bytes) == pipe' = pipe \o bytes
Write(bytes) ==
  \/ target = "file" /\ UNCHANGED pipe
  \/ Reading /\ Len(pipe) + Len(bytes) <= Capacity /\ pipe' = pipe \o bytes
BrokenUnnoticed == FALSE
Broken == target = "fifo" /\ ~Reading /\ UNCHANGED pipe

SSendHeader ==
  /\ spc = "sendHeader"
  /\ UNCHANGED <<name, target, kept, senderData>>
  /\ \/ /\ Write([i \in 1..BufferSize |-> HeaderByte(announced)])
        /\ IF announced = 0 THEN SConclude("failure") ELSE SGoto("fill")
     \/ Broken /\ SConclude("failure")

SFill ==
  /\ spc = "fill"
  /\ UNCHANGED <<channel, announced>>
  /\ \/ /\ SGoto("send")
        /\ lastRead' = ReadFile(sent, size)
        /\ sent' = sent + lastRead'
     \/ Fails /\ SConclude("failure") /\ UNCHANGED <<sent, lastRead>>

(* The stream may keep what is less than a buffer until it is closed.      *)
SSend ==
  /\ spc = "send"
  /\ UNCHANGED <<name, target, senderData>>
  /\ \/ /\ LET bytes == Stretch(sent - lastRead, lastRead)
           IN  \/ Write(bytes) /\ UNCHANGED kept
               \/ lastRead < BufferSize /\ kept' = bytes /\ UNCHANGED pipe
        /\ IF More(lastRead, sent, announced)
           THEN SGoto("fill")
           ELSE SConclude(Verdict(sent, announced))
     \/ lastRead > 0 /\ Broken /\ SConclude("failure") /\ UNCHANGED kept

SCallFails ==
  /\ Fails
  /\ spc \in {"open", "opening", "sendHeader", "send"}
  /\ SConclude("failure")
  /\ UNCHANGED <<channel, senderData>>

(* ~SendPipeHandler: what was kept is written; no one sees that it cannot. *)
SCloseDiscards ==
  spc = "close" /\ SGoto("unlink") /\ UNCHANGED <<channel, senderData>>
SClose ==
  /\ spc = "close"
  /\ SGoto("unlink")
  /\ UNCHANGED <<name, target, kept, senderData>>
  /\ \/ kept = << >> /\ UNCHANGED pipe
     \/ kept # << >> /\ (Write(kept) \/ Broken)

SKeepName ==
  spc = "unlink" /\ SGoto("ended") /\ UNCHANGED <<channel, senderData>>
SUnlink ==
  /\ spc = "unlink"
  /\ SGoto("ended")
  /\ name' = "none"
  /\ UNCHANGED <<target, pipe, kept, senderData>>

SenderStep ==
  \/ SMake \/ SOpen \/ SOpenTimeout \/ SMeasure \/ SSendHeader \/ SFill \/ SSend
  \/ SClose \/ SUnlink

SKill ==
  /\ "kill" \in Disturbances
  /\ spc \notin {"idle", "ended"}
  /\ SLeave("ended", "killed")
  /\ UNCHANGED <<channel, senderData>>

-----------------------------------------------------------------------------
(* The receiver *)

(* The constructor creates the copy, then waits for the name.              *)
RLaunch ==
  /\ rpc = "idle"
  /\ UNCHANGED <<channel, expected, inbox, out, held>>
  /\ \/ RGoto("look") /\ present' = TRUE
     \/ Fails /\ RLeave("unlinkAgain", "failure") /\ UNCHANGED present

RLook ==
  /\ rpc = "look"
  /\ UNCHANGED <<channel, receiverData>>
  /\ \/ name # "none" /\ RGoto("open")
     \/ RTimeout /\ RGoto("tooLate")

(* The loop tries 3000 times, but the constructor throws once 600 attempts *)
(* were needed: between 6 and 30 seconds a FIFO is waited for, and refused.*)
RRefuse ==
  /\ rpc = "tooLate"
  /\ name # "none" \/ RTimeout
  /\ RLeave("unlinkAgain", "failure")
  /\ UNCHANGED <<channel, receiverData>>

(* Opened for reading, a name that is gone is not created.                 *)
ROpen ==
  /\ rpc = "open"
  /\ UNCHANGED <<channel, receiverData>>
  /\ \/ name = "fifo" /\ RGoto("opening")
     \/ name = "none" /\ RConclude("failure")

ROpenTimeout ==
  /\ rpc = "opening" /\ RTimeout
  /\ RConclude("failure")
  /\ UNCHANGED <<channel, receiverData>>

(* receiveData waits for a full buffer or for the end of the file.         *)
EndOfFile == Len(pipe) < BufferSize /\ ~Writing
Read ==
  /\ Len(pipe) >= BufferSize \/ EndOfFile
  /\ LET n == IF EndOfFile THEN Len(pipe) ELSE BufferSize
     IN  inbox' = SubSeq(pipe, 1, n) /\ pipe' = SubSeq(pipe, n + 1, Len(pipe))

(* Headers are written as a whole: without a full buffer there is none.    *)
RReceiveHeader ==
  /\ rpc = "receiveHeader"
  /\ Read
  /\ UNCHANGED <<name, target, kept, out, held, present>>
  /\ IF Len(inbox') = BufferSize /\ HasKey(inbox'[1])
     THEN /\ expected' = AnnouncedBy(inbox'[1])
          /\ IF expected' = 0 THEN RConclude("failure") ELSE RGoto("receive")
     ELSE RConclude("failure") /\ UNCHANGED expected

RReceive ==
  /\ rpc = "receive"
  /\ Read
  /\ RGoto("store")
  /\ UNCHANGED <<name, target, kept, expected, out, held, present>>

RStore ==
  /\ rpc = "store"
  /\ UNCHANGED <<channel, expected, inbox, present>>
  /\ \/ /\ out' = out \o inbox
        /\ held' \in HeldOf(Len(inbox))
        /\ IF More(Len(inbox), Len(out'), expected)
           THEN RGoto("receive")
           ELSE RConclude(Verdict(Len(out'), expected))
     \/ Fails /\ RConclude("failure") /\ UNCHANGED <<out, held>>

RCallFails ==
  /\ Fails
  /\ rpc \in {"open", "opening", "receiveHeader", "receive"}
  /\ RConclude("failure")
  /\ UNCHANGED <<channel, receiverData>>

RClose == rpc = "close" /\ RGoto("unlink") /\ UNCHANGED <<channel, receiverData>>

(* ~ReceivePipeHandler unlinks the name, and ~FifoHandler once more; in    *)
(* between ~Writer closes the copy, whose verdict is long given.           *)
RUnlink ==
  /\ rpc = "unlink"
  /\ RGoto(IF rres = "failure" THEN "unlinkAgain" ELSE "closeCopy")
  /\ name' = "none"
  /\ UNCHANGED <<target, pipe, kept, receiverData>>
RUnlinkAgain ==
  /\ rpc = "unlinkAgain"
  /\ RGoto("remove")
  /\ name' = "none"
  /\ UNCHANGED <<target, pipe, kept, receiverData>>
RCloseCopy ==
  /\ rpc = "closeCopy"
  /\ RGoto("ended")
  /\ name' = "none"
  /\ out' \in ClosedCopies(out, held) /\ held' = 0
  /\ UNCHANGED <<target, pipe, kept, expected, inbox, present>>

(* main() catches the exception and removes the file. *)
RRemove ==
  /\ rpc = "remove"
  /\ RGoto("ended")
  /\ present' = FALSE
  /\ UNCHANGED <<channel, expected, inbox, out, held>>

ReceiverStep ==
  \/ RLook \/ RRefuse \/ ROpen \/ ROpenTimeout \/ RReceiveHeader \/ RReceive
  \/ RStore \/ RClose \/ RUnlink \/ RUnlinkAgain \/ RCloseCopy \/ RRemove

RKill ==
  /\ "kill" \in Disturbances
  /\ rpc \notin {"idle", "ended"}
  /\ RLeave("ended", "killed")
  /\ out' \in CopiesOfKilled(out, held) /\ held' = 0
  /\ UNCHANGED <<channel, expected, inbox, present>>

-----------------------------------------------------------------------------
BothEnded == spc = "ended" /\ rpc = "ended" /\ UNCHANGED vars

Next ==
  \/ SLaunch \/ SenderStep \/ SCallFails \/ SKill
  \/ RLaunch \/ ReceiverStep \/ RCallFails \/ RKill
  \/ Meet \/ BothEnded

(* A program that runs keeps running, its deadlines pass, and the system   *)
(* lets two programs that open the same FIFO go on.  Nobody has to launch  *)
(* or to kill a program, and no call has to fail.                          *)
Fairness == WF_vars(SenderStep) /\ WF_vars(ReceiverStep) /\ WF_vars(Meet)

SafetySpec == Init /\ [][Next]_vars
Spec == SafetySpec /\ Fairness

-----------------------------------------------------------------------------
(* Properties *)

(* When ipc_receivefile decides on EXIT_SUCCESS its file holds the first   *)
(* bytes of the source, as many as the header announced: the end of the    *)
(* file that a killed or failing sender leaves is not taken for more.      *)
(* Only closing the file can still take something away, when the disk      *)
(* fails, and never a whole buffer.                                        *)
ExactCopy ==
  rres = "success" =>
    /\ announced <= size /\ out = Stretch(0, Len(out))
    /\ Len(out) = announced
         \/ (/\ rpc = "ended"
             /\ Len(out) \in (announced - MostLost(BufferSize - 1))..announced)

(* When the header was received and both programs have ended the name is   *)
(* gone, even if one of the two was killed.                                *)
NameUnlinked ==
  /\ spc = "ended" /\ rpc = "ended"
  /\ expected # Unset
  /\ sres # "killed" \/ rres # "killed"
  => name = "none"

(* Once launched a program ends, although no write and no read has a       *)
(* deadline.                                                               *)
Terminates == (spc # "idle" ~> spc = "ended") /\ (rpc # "idle" ~> rpc = "ended")

(* connect() says "Pipe is opened in both sides.": a sender that succeeds  *)
(* has written to a pipe that was.                                         *)
OpenedInBothSides == sres = "success" => target = "fifo"

(* What the users of the two programs can rely on, but for a sender that   *)
(* wrote to a regular file: it counts as one that failed.  On the way are  *)
(* the pipe, the receiver's buffer and what the sender's stream has kept.  *)
(* A source that has grown may be cut at the length the header announces.  *)
Outcome(pc, result) == IF pc = "ended" THEN result ELSE "none"
SenderOutcome ==
  IF target = "file" /\ sres = "success" THEN Outcome(spc, "failure")
  ELSE Outcome(spc, sres)
Promise == INSTANCE FileCopy WITH
  MaxChunk <- BufferSize, MaxInFlight <- Capacity + 2 * BufferSize,
  MaxHeld <- BufferSize - 1, MaxLost <- MostLost(BufferSize - 1),
  MayStopShort <- "resize" \in Disturbances, LeastSize <- 1,
  sender <- SenderOutcome, receiver <- Outcome(rpc, rres)
KeepsPromise == Promise!Spec
=============================================================================

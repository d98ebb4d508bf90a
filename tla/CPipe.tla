-------------------------------- MODULE CPipe --------------------------------
(***************************************************************************)
(* A FIFO (--pipe): ipc_receivefile makes it and waits for bytes, and      *)
(* ipc_sendfile writes until read() of its file returns 0.  A failing read *)
(* returns -1 for ever, and a program that writes -1 bytes writes whatever *)
(* follows its buffer, or nothing, or crashes.                             *)
(***************************************************************************)
EXTENDS CProgram

CONSTANT PipeCapacity   (* the bytes the FIFO holds                         *)
ASSUME PipeCapacityAssumption == PipeCapacity \in Nat /\ PipeCapacity >= BufferSize

VARIABLES
  fifo,           (* is there a FIFO of that name?                          *)
  pipe            (* its bytes                                              *)

pipeVars == <<fifo, pipe>>
PipeInit == fifo \in BOOLEAN /\ pipe = << >>
PipeWritten == spc \in {"read", "write", "spin"}
PipeRead == rpc \in {"wait", "receive"}

PipeLaunch == spc = "idle" /\ SGoto("connect") /\ UNCHANGED <<pipeVars, senderData>>
PipeConnectFails ==
  spc = "connect" /\ Fails /\ SExit("failure") /\ UNCHANGED <<pipeVars, senderData>>

(* open() of a FIFO returns when both ends are being opened.               *)
PipeMeet ==
  /\ spc = "connect" /\ fifo /\ rpc = "opening"
  /\ spc' = "read" /\ rpc' = "wait"
  /\ UNCHANGED <<method, calm, sres, rres, size, senderData, receiverData, pipeVars>>

PipeReadFile ==
  /\ spc = "read"
  /\ UNCHANGED pipeVars
  /\ \/ Read(BufferSize) /\ SGoto("write")
     \/ /\ Fails /\ spc' = "spin" /\ lost' = TRUE
        /\ UNCHANGED <<method, calm, rpc, sres, rres, size, senderData, out>>

(* Without a reader SIGPIPE kills the program.                             *)
PipeSendWhatFits ==
  /\ spc = "write" /\ last > 0 /\ PipeRead
  /\ pipe' = pipe \o Stretch(sent, Least(last, PipeCapacity - Len(pipe)))
  /\ sent' = sent + last
  /\ SGoto("read") /\ UNCHANGED <<fifo, measured, last>>
PipeSend ==
  /\ spc = "write" /\ last > 0 /\ PipeRead
  /\ Len(pipe) + last <= PipeCapacity
  /\ pipe' = pipe \o Stretch(sent, last)
  /\ sent' = sent + last
  /\ SGoto("read") /\ UNCHANGED <<fifo, measured, last>>
PipeSendEnds ==
  /\ spc = "write"
  /\ \/ last = 0 /\ SExit("success")
     \/ last > 0 /\ ~PipeRead /\ SExit("killed")
  /\ UNCHANGED <<pipeVars, senderData>>

PipeSender ==
  PipeLaunch \/ PipeConnectFails \/ PipeReadFile \/ PipeSend \/ PipeSendEnds

PipeOpenFile ==
  /\ rpc = "idle"
  /\ UNCHANGED <<pipeVars, receiverData>>
  /\ RGoto("make") \/ (Fails /\ RExit("failure"))

PipeMake ==
  /\ rpc = "make"
  /\ UNCHANGED <<pipe, receiverData>>
  /\ \/ fifo' = TRUE /\ RGoto("opening")
     \/ Fails /\ RExit("failure") /\ UNCHANGED fifo

(* read() returns what is there.  Before the first byte the end of the     *)
(* file is read again and again.                                           *)
PipeReceive ==
  /\ PipeRead /\ pipe # << >>
  /\ LET n == Least(BufferSize, Len(pipe))
     IN  Write(SubSeq(pipe, 1, n)) /\ pipe' = SubSeq(pipe, n + 1, Len(pipe))
  /\ RGoto("receive") /\ UNCHANGED fifo

PipeEndOfFile ==
  /\ rpc = "receive" /\ pipe = << >> /\ ~PipeWritten
  /\ RGoto("remove") /\ UNCHANGED <<pipeVars, receiverData>>

PipeReceiveFails ==
  /\ Fails /\ (rpc = "opening" \/ PipeRead)
  /\ lost' = TRUE
  /\ \/ rpc' = "remove" /\ UNCHANGED rres
     \/ rpc' = "ended" /\ rres' = "killed"
  /\ UNCHANGED <<method, calm, spc, sres, size, senderData, out, pipeVars>>

PipeRemove ==
  /\ rpc = "remove"
  /\ fifo' = FALSE
  /\ RExit("success") /\ UNCHANGED <<pipe, receiverData>>

PipeReceiver ==
  \/ PipeOpenFile \/ PipeMake \/ PipeReceive \/ PipeEndOfFile \/ PipeReceiveFails
  \/ PipeRemove
=============================================================================

------------------------------ MODULE CProgram ------------------------------
(***************************************************************************)
(* What the methods of the programs ipc_sendfile and ipc_receivefile of    *)
(* C_hands_on_programming_2 have in common.  Byte number i of the source   *)
(* is the number i.  The programs send no header: the end of the data is   *)
(* the end of the channel.                                                 *)
(***************************************************************************)
EXTENDS Integers, Sequences

CONSTANTS
  BufferSize,     (* the most bytes one read of the source returns          *)
  Sizes,          (* the lengths a source file may have                     *)
  IntHalf,        (* an int is less than this: 2^31                         *)
  Disturbances

(* kill   a program is killed;                                             *)
(* error  a call fails and the program notices;                            *)
(* full   fwrite() writes nothing: writing() compares its result with -1;  *)
(* late   a deadline passes although the other program is alive;           *)
(* resize the length stat() reported is not the length that is read.       *)
ASSUME CAssumption ==
  /\ BufferSize \in Nat \ {0} /\ Sizes \subseteq Nat /\ IntHalf \in Nat \ {0}
  /\ Disturbances \subseteq {"kill", "error", "full", "late", "resize"}

VARIABLES
  method,         (* argumentsProvided.protocol of both programs            *)
  calm,           (* nothing disturbs the programs                          *)
  spc, rpc,       (* what each program does next                            *)
  sres, rres,     (* how each program ends, "none" until it has             *)
  size,           (* the length of the source                               *)
  measured,       (* file_size                                              *)
  sent,           (* the bytes of the source that have been sent            *)
  last,           (* what the last read() returned                          *)
  out,            (* the bytes written to the receiver's file               *)
  lost            (* some may be missing in it, or others be in it          *)

senderData == <<measured, sent, last>>
receiverData == <<out, lost>>
programVars == <<method, calm, spc, rpc, sres, rres, size, senderData, receiverData>>

ProgramInit ==
  /\ calm \in BOOLEAN
  /\ spc = "idle" /\ rpc = "idle" /\ sres = "none" /\ rres = "none"
  /\ size \in Sizes /\ measured = 0 /\ sent = 0 /\ last = 0
  /\ out = << >> /\ lost = FALSE

Disturbed(kind) == ~calm /\ kind \in Disturbances
Fails == Disturbed("error")
SenderBusy == spc \notin {"idle", "ended"}
ReceiverBusy == rpc \notin {"idle", "ended"}
RTimeout == Disturbed("late") \/ ~SenderBusy

SenderIs(label, result) ==
  /\ spc' = label /\ sres' = result
  /\ UNCHANGED <<method, calm, rpc, rres, size, receiverData>>
ReceiverIs(label, result) ==
  /\ rpc' = label /\ rres' = result
  /\ UNCHANGED <<method, calm, spc, sres, size, senderData>>
SGoto(label) == SenderIs(label, sres)
RGoto(label) == ReceiverIs(label, rres)
SExit(result) == SenderIs("ended", result)
RExit(result) == ReceiverIs("ended", result)

Stretch(from, n) == [i \in 1..n |-> from + i]
Least(a, b) == IF a < b THEN a ELSE b
(* read() of at most n bytes of the source.                                *)
Read(n) == last' = Least(n, size - sent) /\ UNCHANGED <<measured, sent>>

(* writing(): a failure of fwrite() is not noticed.                        *)
Write(bytes) ==
  \/ out' = out \o bytes /\ UNCHANGED lost
  \/ bytes # << >> /\ Disturbed("full") /\ lost' = TRUE /\ UNCHANGED out

(* findSize()                                                              *)
FindSize(label) ==
  /\ spc = "idle"
  /\ UNCHANGED <<sent, last>>
  /\ \/ SGoto(label)
        /\ measured' \in IF Disturbed("resize") THEN Sizes ELSE {size}
     \/ Fails /\ SExit("failure") /\ UNCHANGED measured

(* A killed receiver may lose what is in the buffer of its stream.         *)
SKill == Disturbed("kill") /\ SenderBusy /\ SExit("killed") /\ UNCHANGED senderData
RKill ==
  Disturbed("kill") /\ ReceiverBusy /\ RExit("killed") /\ lost' = TRUE /\ UNCHANGED out
=============================================================================

------------------------------ MODULE FileCopy ------------------------------
(***************************************************************************)
(* What a pair ipc_sendfile / ipc_receivefile promises, whatever the IPC   *)
(* method: the copy only ever grows by the next bytes of the source, the   *)
(* receiver reports success for a copy of the announced length only (which *)
(* is all of the source unless MayStopShort) and leaves no other when it   *)
(* fails, and the sender reports success when at most MaxInFlight bytes of *)
(* the source are not stored yet.                                          *)
(*                                                                         *)
(* This is what the code gives, and it is less than the documents say.     *)
(* They promise EXIT_FAILURE to the program whose partner is killed        *)
(* (Readme.md:73 of NEW, Error_Handling.md:41 of RC): here a survivor may  *)
(* still succeed, the sender because it is done once its last bytes are in *)
(* the channel, the receiver because it needs no more than those.  They    *)
(* promise EXIT_FAILURE on a full disk (Readme.md:76 of NEW): here closing *)
(* the copy may lose up to MaxLost bytes after the verdict.                *)
(***************************************************************************)
EXTENDS Integers, Sequences

CONSTANTS
  Sizes,        (* the lengths a source file may have                       *)
  MaxChunk,     (* the most bytes the receiver stores in one step           *)
  MaxInFlight,  (* the most bytes the channel can hold                      *)
  MaxHeld,      (* the most bytes of the copy a killed receiver takes along *)
  MaxLost,      (* the most bytes that closing the copy may lose unnoticed  *)
  MayStopShort, (* may the announced length be less than all of the source? *)
  LeastSize     (* the shortest source the programs copy                    *)

VARIABLES
  size,         (* the length of the source                                 *)
  announced,    (* the length in the header, -1 before there is one         *)
  out,          (* the bytes the receiver has stored                        *)
  present,      (* does the receiver's file exist on disk?                  *)
  sender,       (* how each program has ended, "none" while it has not      *)
  receiver

vars == <<size, announced, out, present, sender, receiver>>

NextBytes(n) == [i \in 1..n |-> Len(out) + i]
LoseLast(n) == n <= Len(out) /\ out' = SubSeq(out, 1, Len(out) - n)

Init ==
  /\ size \in Sizes
  /\ announced = -1
  /\ out = << >>
  /\ present \in BOOLEAN
  /\ sender = "none"
  /\ receiver = "none"

(* The sender measures the source and says so in the header. *)
Announce ==
  /\ sender = "none" /\ announced = -1
  /\ announced' \in Sizes
  /\ UNCHANGED <<size, out, present, sender, receiver>>

(* The receiver creates its file, erasing one that was there. *)
CreateCopy ==
  /\ receiver = "none" /\ out = << >>
  /\ present' = TRUE
  /\ UNCHANGED <<size, announced, out, sender, receiver>>

Store(n) ==
  /\ receiver = "none" /\ present
  /\ Len(out) + n <= size
  /\ out' = out \o NextBytes(n)
  /\ UNCHANGED <<size, announced, present, sender, receiver>>

(* The verdict is on the bytes written, and then the file is closed.       *)
Accept ==
  /\ receiver = "none" /\ present
  /\ announced >= LeastSize /\ Len(out) = announced
  /\ announced = size \/ MayStopShort
  /\ receiver' = "success"
  /\ \E n \in 0..MaxLost : LoseLast(n)
  /\ UNCHANGED <<size, announced, present, sender>>

Reject ==
  /\ receiver = "none"
  /\ receiver' = "failure"
  /\ present' = FALSE
  /\ UNCHANGED <<size, announced, out, sender>>

Complete ==
  /\ sender = "none"
  /\ size >= LeastSize /\ announced = size
  /\ Len(out) + MaxInFlight >= size
  /\ sender' = "success"
  /\ UNCHANGED <<size, announced, out, present, receiver>>

GiveUp ==
  /\ sender = "none"
  /\ sender' = "failure"
  /\ UNCHANGED <<size, announced, out, present, receiver>>

KillSender ==
  /\ sender = "none"
  /\ sender' = "killed"
  /\ UNCHANGED <<size, announced, out, present, receiver>>

KillReceiver ==
  /\ receiver = "none"
  /\ receiver' = "killed"
  /\ \E n \in 0..MaxHeld : LoseLast(n)
  /\ UNCHANGED <<size, announced, present, sender>>

Next ==
  \/ Announce \/ CreateCopy
  \/ \E n \in 1..MaxChunk : Store(n)
  \/ Accept \/ Reject \/ Complete \/ GiveUp
  \/ KillSender \/ KillReceiver

Spec == Init /\ [][Next]_vars
=============================================================================

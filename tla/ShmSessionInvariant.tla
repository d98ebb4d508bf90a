------------------------ MODULE ShmSessionInvariant ------------------------
(***************************************************************************)
(* The inductive invariant of a session on a quiet channel: who has the    *)
(* turn, and what the buffer holds for whom.  TLC checks that every        *)
(* reachable state satisfies it, ShmSession_proofs that every step         *)
(* preserves it.                                                           *)
(***************************************************************************)
EXTENDS ShmSession

BeforeHello == {"idle", "connReceiverSem", "connSenderSem", "connShm", "hello"}
BeforeHeader == BeforeHello \cup {"waitHeader"}
Over == Unlinking \cup {"closeCopy", "remove", "ended"}
BeforePost == {"idle", "shmCreate", "senderSemCreate", "receiverSemCreate",
               "waitPeer", "header", "headerSize", "postHeader"}

(* There is no turn before the receiver's hello, and one at most after it. *)
OneTurn == Turns <= (IF rpc \in BeforeHello THEN 0 ELSE 1)

(* Neither goes further than what the other has done allows. *)
InStep ==
  /\ rpc \in BeforeHello =>
       spc \in {"idle", "shmCreate", "senderSemCreate", "receiverSemCreate",
               "waitPeer"} \cup Over
  /\ spc \in {"waitTurn", "fill", "fillSize", "post"} => announced \in Sizes \ {0}
  /\ rpc \in {"waitData", "takeSize", "store", "reset", "ack"} => expected # 0

(* A name the receiver has opened is still there when the sender creates   *)
(* it, so that both use the same object.                                   *)
OneObject ==
  /\ spc \in {"idle", "shmCreate", "senderSemCreate", "receiverSemCreate"}
  /\ rpc \notin Over \cup {"idle", "connReceiverSem"}
  => /\ "receiverSem" \in linked
     /\ rpc # "connSenderSem" => "senderSem" \in linked

(* The receiver hears nothing until the header is posted.                  *)
NothingPosted ==
  spc \in BeforePost =>
    /\ rpc \in BeforeHeader \cup Over
    /\ receiverSem = 0 \/ rpc \in Over
    /\ sent = 0
    /\ spc \notin {"headerSize", "postHeader"} => announced = Unset

HeaderInBuffer == cells = [i \in 1..BufferSize |-> HeaderByte(announced)]
HeaderPosted == announced \in Sizes /\ sent = 0 /\ dataSize = BufferSize /\ HeaderInBuffer

(* From the posting of the header to the answer.                           *)
HeaderPhase ==
  /\ spc \in {"headerSize", "postHeader"} => announced \in Sizes /\ HeaderInBuffer
  /\ spc = "postHeader" => dataSize = BufferSize
  /\ (receiverSem = 1 /\ rpc = "waitHeader") \/ rpc \in {"checkSize", "readHeader"}
       => HeaderPosted
  /\ rpc = "ackHeader" => sent = 0
  /\ rpc \in BeforeHeader \cup {"checkSize", "readHeader", "ackHeader"} => out = << >>

(* The buffer holds the bytes of the source that come after those stored.  *)
Loaded ==
  /\ sent = Len(out) + lastRead
  /\ \A i \in 1..lastRead : cells[i] = Len(out) + i
  /\ lastRead < BufferSize => sent = size

DataPhase ==
  /\ (spc = "waitTurn" /\ senderSem = 1) \/ spc \in {"fill", "fillSize", "post"}
       => rpc \in {"waitData"} \cup Over
  /\ (spc = "waitTurn" /\ senderSem = 1) \/ spc = "fill" => sent = Len(out)
  /\ spc \in {"fillSize", "post"} => Loaded
  /\ spc = "post" => dataSize = lastRead
  /\ (receiverSem = 1 /\ rpc = "waitData") \/ rpc \in {"takeSize", "store"}
       => Loaded /\ dataSize = lastRead /\ (lastRead < BufferSize => spc \in Over)
  /\ rpc = "store" => taken = lastRead
  /\ rpc \in {"reset", "ack"} => sent = Len(out) /\ (taken < BufferSize => sent = size)
  /\ rpc \in {"ackHeader", "waitData", "takeSize", "store", "reset", "ack"}
       => expected = announced

(* What was stored is a prefix of the source; what the results mean.       *)
Prefix == out = Stretch(0, Len(out)) /\ Len(out) <= sent /\ sent <= size
Results ==
  /\ sres = "none" <=> spc \notin Over
  /\ rres = "none" <=> rpc \notin Over
  /\ spc \in Unlinking => sres # "killed"
  /\ rpc \in Unlinking => rres # "killed"
  /\ rpc = "remove" => rres = "failure"
  /\ rpc = "closeCopy" => rres = "success"
  /\ rpc \notin Over \cup {"idle"} \/ rres = "success" => present
  /\ sres = "success" => announced = size /\ size > 0 /\ size <= Len(out) + BufferSize
  /\ rres = "success" => announced = size /\ size > 0
  /\ rres = "success" /\ rpc # "ended" => Len(out) = size
  /\ rres = "success" => Len(out) \in (size - MostLost(BufferSize - 1))..size

(* The stream holds bytes of the last buffer only: no one needs the turn   *)
(* any more, except the receiver to give it back.                          *)
Held ==
  held > 0 =>
    /\ Len(out) = size /\ held <= size
    /\ spc \in Over /\ rpc \in {"reset", "ack"} \cup Over
    /\ rpc \in {"reset", "ack"} => taken < BufferSize

(* The names a program that took part has unlinked do not come back.       *)
UnlinkedAt(pc) ==
  CASE pc = "unlinkReceiverSem" -> {"shm"}
    [] pc = "unlinkSenderSem" -> {"shm", "receiverSem"}
    [] pc \in {"closeCopy", "remove", "ended"} -> Names
    [] OTHER -> {}

NamesGone ==
  /\ rpc = "idle" => expected = Unset
  /\ expected # Unset =>
       spc \notin {"idle", "shmCreate", "senderSemCreate", "receiverSemCreate"}
  /\ announced # Unset /\ sres # "killed" => linked \cap UnlinkedAt(spc) = {}
  /\ expected # Unset /\ rres # "killed" => linked \cap UnlinkedAt(rpc) = {}

IInv == /\ TypeOK
        /\ OneTurn /\ InStep /\ OneObject
        /\ NothingPosted /\ HeaderPhase /\ DataPhase
        /\ Prefix /\ Results /\ Held /\ NamesGone
=============================================================================

------------------------ MODULE RcShmSessionInvariant ------------------------
(***************************************************************************)
(* Why a transfer through the shared memory of C++_hands_on_programming_RC *)
(* is correct: the inductive invariant of a session that starts on a       *)
(* channel without a turn.  Posts of the receiver may be lost, so that     *)
(* there may be no turn at all, but never a second one.                    *)
(***************************************************************************)
EXTENDS RcShmSession

BeforeHello == {"idle", "openFile", "hello"} \cup Connecting
BeforeHeader == BeforeHello \cup {"waitHeader"}
Receiving == {"waitData", "takeSize", "store", "ack"}
Over == Unlinking \cup {"remove", "ended"}
NotCreated == {"idle"} \cup Creating
BeforePost == NotCreated \cup {"waitPeer", "header", "postHeader"}
Sending == {"waitTurn", "fill", "fillSize", "post"}

(* No semaphore of the channel is positive when the programs start.        *)
Quiet ==
  /\ Leftovers \subseteq Channels
  /\ \A c \in Leftovers : c.senderSem = 0 /\ c.receiverSem = 0

(* There is no turn before the receiver's hello, and one at most after it. *)
OneTurn == Turns <= (IF rpc \in BeforeHello THEN 0 ELSE 1)

(* Neither goes further than what the other has done allows; the sender    *)
(* goes on only after a piece that was not empty.                          *)
InStep ==
  /\ rpc \in BeforeHello => spc \in NotCreated \cup {"waitPeer"} \cup Over
  /\ spc \in Sending \cup {"postHeader"} => announced \in Sizes
  /\ spc \in {"waitTurn", "fill"} => lastRead > 0
  /\ "resize" \notin Disturbances => announced \in {Unset, size}
  /\ rpc \in BeforeHeader \cup {"readHeader"} => expected = Unset

(* A semaphore the receiver has opened is still there when the sender      *)
(* creates it, so that both use the same object.                           *)
OneObject ==
  spc \in NotCreated /\ rpc \notin Over \cup {"idle", "connSenderSem"} =>
    /\ "senderSem" \in linked
    /\ rpc # "connReceiverSem" => "receiverSem" \in linked

(* The receiver hears nothing until the header is posted.                  *)
NothingPosted ==
  spc \in BeforePost =>
    /\ rpc \in BeforeHeader \cup Over
    /\ receiverSem = 0 /\ sent = 0 /\ lastRead = BufferSize
    /\ spc # "postHeader" => announced = Unset

HeaderInBuffer == cells = [i \in 1..BufferSize |-> HeaderByte(announced)]

(* From the posting of the header to the answer.                           *)
HeaderPhase ==
  /\ spc = "postHeader" => HeaderInBuffer
  /\ (receiverSem = 1 /\ rpc = "waitHeader") \/ rpc = "readHeader"
       => announced \in Sizes /\ sent = 0 /\ HeaderInBuffer
  /\ rpc = "ackHeader" => sent = 0
  /\ rpc \in BeforeHeader \cup {"readHeader", "ackHeader"} => out = << >> /\ held = << >>

(* The buffer holds the bytes of the source that come after those stored;  *)
(* only a piece that ends the source does not fill it.                     *)
NextBytes ==
  /\ \A i \in 1..lastRead : cells[i] = Stored + i
  /\ Stored + lastRead <= size
  /\ lastRead < BufferSize => Stored + lastRead = size
Loaded == sent = Stored + lastRead /\ dataSize = lastRead /\ NextBytes

DataPhase ==
  /\ (spc = "waitTurn" /\ senderSem = 1) \/ spc \in {"fill", "fillSize", "post"}
       => rpc \in {"waitData"} \cup Over
  /\ (spc = "waitTurn" /\ senderSem = 1) \/ spc \in {"fill", "fillSize"}
       => sent = Stored
  /\ spc \in {"waitTurn", "fill"} /\ lastRead < BufferSize => sent = size
  /\ spc = "fillSize" => NextBytes
  /\ spc = "post" => Loaded
  /\ (receiverSem = 1 /\ rpc = "waitData") \/ rpc \in {"takeSize", "store"} => Loaded
  /\ rpc = "store" => taken = lastRead
  /\ rpc = "ack" => sent = Stored /\ (taken = 0 => sent = size)
  /\ rpc \in Receiving \cup {"ackHeader"} => announced \in Sizes /\ expected = announced

(* What was stored is a prefix of the source, and what the stream holds of *)
(* it, or has lost, is the end of the source; what the results mean.       *)
Prefix ==
  /\ out = Stretch(0, Len(out)) /\ Stored <= sent /\ sent <= size
  /\ held = Stretch(Len(out), Len(held)) /\ Len(held) < BufferSize
  /\ held # << >> => Stored = size
Results ==
  /\ sres = "none" <=> spc \notin Over
  /\ rres = "none" <=> rpc \notin Over
  /\ spc \in Unlinking => sres # "killed"
  /\ rpc = "unlinkShm" => rres # "killed"
  /\ rpc = "remove" => rres = "failure"
  /\ rpc \in Receiving \cup {"hello", "waitHeader", "readHeader", "ackHeader"}
       \/ rres = "success" => present
  /\ sres = "success" => announced \in Sizes /\ Stored = size
  /\ rres = "success" =>
       announced = Len(out) /\ Stored = size /\ Len(held) <= MostLost(BufferSize - 1)

(* The names a program that took part has unlinked do not come back.       *)
UnlinkedAt(pc) ==
  CASE pc = "unlinkReceiverSem" -> {"senderSem"}
    [] pc = "unlinkShm" -> {"senderSem", "receiverSem"}
    [] pc = "ended" -> Names
    [] OTHER -> {}
NamesGone ==
  /\ announced # Unset /\ sres # "killed" => linked \cap UnlinkedAt(spc) = {}
  /\ expected # Unset =>
       /\ spc \notin NotCreated
       /\ rpc \in {"remove", "ended"} /\ rres # "killed" => "shm" \notin linked

IInv ==
  /\ TypeOK /\ OneTurn /\ InStep /\ OneObject /\ NothingPosted
  /\ HeaderPhase /\ DataPhase /\ Prefix /\ Results /\ NamesGone
=============================================================================

----------------------- MODULE RcQueueSessionInvariant -----------------------
(***************************************************************************)
(* Why a transfer through a queue of the earlier design is correct: the    *)
(* inductive invariant behind the safety properties of RcQueueSession.     *)
(* Which queue a program uses and when, and what the messages on the way   *)
(* are: the header, then the pieces from where the receiver stands to      *)
(* where the sender is, the empty ones after the end included.             *)
(***************************************************************************)
EXTENDS RcQueueSession

Opening == {"idle", "find", "check", "open"}
NotSent == Opening \cup {"measure", "sendHeader"}
Sending == {"fill", "send"}
NotCreated == {"idle", "unlinkOld", "create"}
Receiving == {"receive", "store"}
NotReceived == NotCreated \cup {"openFile", "receiveHeader"}

(* The old queue loses its name before the new one gets it, and a sender   *)
(* can only have found a queue that was there.                             *)
TwoQueues ==
  /\ name = "old" => rpc \in {"idle", "unlinkOld", "remove", "ended"}
  /\ name = "new" \/ checked = "new" \/ target = "new" => rpc \notin NotCreated
  /\ rpc = "create" => name = "none"
  /\ name = "old" => checked # "new"
  /\ name = "old" \/ checked = "old" => old # Unset
  /\ target = "old" => checked = "old"
  /\ spc \in {"check", "open"} => checked # "none"
  /\ spc \in Opening => target = "none"
  /\ target = "none" => announced = Unset /\ sres # "success"

(* Before the header is sent there is nothing to receive.                  *)
NothingSent ==
  /\ target # "new" \/ announced = Unset => queue = << >> /\ expected = Unset
  /\ spc \in NotSent => announced = Unset /\ sent = 0 /\ lastRead = BufferSize
  /\ spc \in Opening \cup {"measure"} => toSend = Unset
  /\ spc \in {"sendHeader"} \cup Sending => toSend # Unset
  /\ spc \in Sending => announced # Unset /\ sent < toSend
  /\ "resize" \notin Disturbances =>
       announced \in {Unset, size} /\ toSend \in {Unset, size}
  /\ expected # Unset => expected = announced
  /\ rpc \in NotReceived => expected = Unset /\ out = << >>
  /\ rpc \in Receiving => Len(out) < expected

(* The piece of the source that is read after the first k bytes.           *)
Piece(k) == LET from == IF k < size THEN k ELSE size
            IN  Stretch(from, ReadFile(from, size))

(* The next piece the receiver takes follows the first Reached bytes; the  *)
(* header is still on the way when it was not received.                    *)
Reached == IF rpc = "store" THEN Len(out) + Len(inbox) ELSE Len(out)
Headers == IF rpc \in NotReceived /\ announced # Unset THEN 1 ELSE 0
Ahead == (Len(queue) - Headers) * BufferSize

InTransit ==
  target = "new" /\ rpc \in NotReceived \cup Receiving =>
    /\ Headers = 1 =>
         queue # << >> /\ queue[1] = [i \in 1..BufferSize |-> HeaderByte(announced)]
    /\ \A i \in (Headers + 1)..Len(queue) :
         queue[i] = Piece(Reached + (i - Headers - 1) * BufferSize)
    /\ rpc = "receive" => Len(out) % BufferSize = 0
    /\ rpc = "store" => inbox = Piece(Len(out)) /\ Len(out) % BufferSize = 0
    /\ spc \in Sending =>
         sent = IF Reached + Ahead < size THEN Reached + Ahead ELSE size

(* What the sender reads, and how far it is ahead.                         *)
Reads ==
  /\ sent <= size
  /\ spc = "fill" => lastRead = BufferSize \/ sent = size
  /\ spc = "send" => lastRead = ReadFile(sent, size)
  /\ spc \in Sending /\ target = "new" =>
       sent <= Len(out) + (Len(queue) + 1) * BufferSize
  /\ spc \in Sending /\ target = "old" => sent + BufferSize <= old * BufferSize
  /\ spc = "open" /\ checked = "old" => old = 0
  /\ spc \in {"measure", "sendHeader"} /\ target = "old" => old = 0
  /\ sres = "success" => sent <= Len(out) + (Capacity + 1) * BufferSize

(* What is stored is the source, and success means all that was announced. *)
Prefix == out = Stretch(0, Len(out)) /\ Len(out) <= size
Results ==
  /\ sres = "none" <=> spc \notin {"unlink", "ended"}
  /\ rres = "none" <=> rpc \notin {"unlink", "remove", "ended"}
  /\ sres = "success" => announced # Unset /\ toSend # Unset /\ sent >= toSend
  /\ rres = "success" => expected = Len(out) /\ expected # Unset
  /\ spc = "unlink" => sres # "killed"
  /\ rpc = "unlink" => rres # "killed"
  /\ rpc = "remove" => rres = "failure"
  /\ rpc \in {"receiveHeader"} \cup Receiving \/ rres = "success" => present

(* A sender that has opened the new queue, and a receiver that has         *)
(* received the header, unlink the name on their way out unless they are   *)
(* killed.                                                                 *)
NameGone ==
  /\ target = "new" /\ spc = "ended" /\ sres # "killed" => name = "none"
  /\ expected # Unset =>
       /\ rpc \notin NotReceived /\ spc \notin NotSent
       /\ rpc \in {"remove", "ended"} /\ rres # "killed" => name = "none"

IInv ==
  /\ TypeOK /\ TwoQueues /\ NothingSent /\ InTransit /\ Reads
  /\ Prefix /\ Results /\ NameGone
=============================================================================

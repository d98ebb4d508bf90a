------------------------ MODULE PipeSessionInvariant ------------------------
(***************************************************************************)
(* Why a transfer through a FIFO is correct: the inductive invariant       *)
(* behind the safety properties of PipeSession.  While the receiver reads, *)
(* the pipe holds the header, if it was not read, and the bytes of the     *)
(* source from where the receiver stands to where the sender is.           *)
(***************************************************************************)
EXTENDS PipeSession

Connecting == {"idle", "make", "open", "opening"}
NotSent == Connecting \cup {"measure", "sendHeader"}
Sending == {"fill", "send"}
Waiting == {"idle", "look", "tooLate", "open", "opening"}
NotReceived == Waiting \cup {"receiveHeader"}
Receiving == {"receive", "store"}
Finished == {"closeCopy", "unlinkAgain", "remove", "ended"}
Closing == Finished \cup {"close", "unlink"}

(* The two programs open the same FIFO; a sender that makes a regular file *)
(* of the name does so when no receiver looks for it any more.             *)
OneName ==
  /\ spc \in {"open", "opening"} /\ rpc \notin Finished => name = "fifo"
  /\ spc \in {"idle", "make"} /\ rpc \in {"open", "opening"} => name = "fifo"
  /\ name = "file" => target = "file"
  /\ target = "file" => rpc \in Finished /\ pipe = << >>
  /\ target = "fifo" => rpc \notin Waiting
  /\ rpc \in Receiving \cup {"receiveHeader"} => target = "fifo"
  /\ spc \in Connecting => target = "none"
  /\ spc \in Sending \cup {"measure", "sendHeader"} => target # "none"

(* Before the header is sent there is nothing to read.                     *)
NothingSent ==
  /\ spc \in NotSent => pipe = << >> /\ sent = 0 /\ rpc \notin Receiving
  /\ spc \in NotSent \cup Sending => kept = << >>
  /\ spc \in NotSent /\ spc # "sendHeader" => announced = Unset
  /\ spc \in Sending \cup {"sendHeader"} => announced # Unset
  /\ spc \in Sending => announced > 0
  /\ announced # Unset /\ "resize" \notin Disturbances => announced = size
  /\ expected # Unset => announced # Unset /\ expected = announced
  /\ rpc \in NotReceived => expected = Unset /\ out = << >> /\ inbox = << >>
  /\ rpc \in Receiving => expected > 0

(* The next byte the receiver takes out of the pipe follows the first      *)
(* Reached ones, the next one the sender will write the first Produced.    *)
Reached == IF rpc = "store" THEN Len(out) + Len(inbox) ELSE Len(out)
Produced == IF spc = "send" THEN sent - lastRead ELSE sent
HeaderBytes == [i \in 1..BufferSize |-> HeaderByte(announced)]
HeaderLength == IF rpc = "receiveHeader" /\ pipe # << >> THEN BufferSize ELSE 0
InPipe == Len(pipe) - HeaderLength

InTransit ==
  rpc \in Receiving \cup {"receiveHeader"} =>
    /\ InPipe >= 0 /\ Reached + InPipe <= size
    /\ \A i \in 1..Len(pipe) :
         pipe[i] = IF i <= HeaderLength THEN HeaderByte(announced)
                   ELSE Reached + i - HeaderLength
    /\ rpc = "store" => \A i \in 1..Len(inbox) : inbox[i] = Len(out) + i
    /\ spc \in Sending =>
         /\ Produced = Reached + InPipe
         /\ rpc = "receiveHeader" => pipe # << >>

(* What the sender has still to close is the end of the source.            *)
Produces ==
  /\ spc \in Sending => Produced <= size
  /\ spc = "send" => lastRead = ReadFile(Produced, size)
  /\ spc = "close" /\ kept # << >> =>
       /\ kept = Stretch(sent - Len(kept), Len(kept)) /\ sent <= size
       /\ rpc \in Receiving \cup {"receiveHeader"} =>
            /\ sent - Len(kept) = Reached + InPipe
            /\ rpc = "receiveHeader" => pipe # << >>

(* The pipe bounds how far the sender is ahead.                            *)
Ahead ==
  /\ Len(inbox) <= BufferSize
  /\ spc \in Sending /\ target = "fifo" =>
       Produced <= Len(out) + Len(inbox) + Len(pipe)
  /\ sres = "success" /\ target = "fifo" =>
       sent + held <= Len(out) + Capacity + 2 * BufferSize

(* A piece that is not a whole buffer is the last one: the end of the file *)
(* was read, the sender has closed the pipe and the loop ends.             *)
Held ==
  /\ rpc = "store" /\ Len(inbox) < BufferSize => spc \in {"unlink", "ended"}
  /\ held > 0 => held <= Len(out) /\ spc \in {"unlink", "ended"} /\ rpc \in Closing

(* What is stored is the source, and success means that all of it is.      *)
Prefix == out = Stretch(0, Len(out)) /\ Len(out) <= size
Results ==
  /\ sres = "none" <=> spc \notin {"close", "unlink", "ended"}
  /\ rres = "none" <=> rpc \notin Closing
  /\ sres = "success" => announced = size /\ sent = size /\ size > 0 /\ target # "none"
  /\ rres = "success" =>
       /\ announced > 0 /\ announced <= size
       /\ rpc # "ended" => Len(out) = announced
       /\ Len(out) \in (announced - MostLost(BufferSize - 1))..announced
  /\ spc \in {"close", "unlink"} => sres # "killed"
  /\ rpc \in {"close", "unlink", "closeCopy"} => rres # "killed"
  /\ rpc = "closeCopy" => rres = "success"
  /\ rpc \in {"unlinkAgain", "remove"} => rres = "failure"
  /\ rpc \notin {"idle", "unlinkAgain", "remove", "ended"} \/ rres = "success" => present

(* Either program unlinks the name unless it is killed.  Once the header   *)
(* is received nobody makes or creates it again.                           *)
NameGone ==
  /\ spc = "ended" /\ sres # "killed" => name = "none"
  /\ expected # Unset =>
       /\ rpc \notin NotReceived /\ spc \notin NotSent
       /\ rpc \in Finished /\ rres # "killed" => name = "none"

IInv ==
  /\ TypeOK /\ OneName /\ NothingSent /\ InTransit /\ Produces /\ Ahead
  /\ Held /\ Prefix /\ Results /\ NameGone
=============================================================================

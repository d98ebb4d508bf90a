----------------------- MODULE RcPipeSessionInvariant -----------------------
(***************************************************************************)
(* Why a transfer through a FIFO of the earlier design is correct: the     *)
(* inductive invariant behind the safety properties of RcPipeSession.      *)
(* While the receiver reads, the pipe holds the header, if it was not      *)
(* read, and the bytes of the source from where the receiver stands to     *)
(* where the sender is, what its stream keeps excepted.                    *)
(***************************************************************************)
EXTENDS RcPipeSession

Connecting == {"idle", "make", "open", "untimed", "opening"}
NotSent == Connecting \cup {"opened", "measure", "sendHeader"}
Sending == {"fill", "send"}
Waiting == {"idle", "look", "open", "opening"}
NotReceived == Waiting \cup {"openFile", "receiveHeader"}
Receiving == {"receive", "store"}

(* The two programs meet at the FIFO, and until they have met only the     *)
(* sender unlinks its name.                                                *)
OneName ==
  /\ name # "file" /\ FifoOpened
  /\ spc = "open" => name = "fifo"
  /\ spc \in {"idle", "make", "open"} => target = "none"
  /\ spc \in {"untimed", "opening", "unlink"} \cup SenderOpen => target = "fifo"
  /\ spc \in Connecting => rpc \in Waiting \cup {"remove", "ended"}
  /\ target = "none" => rpc \in Waiting \cup {"remove", "ended"} /\ sres # "success"

(* Before the header is sent there is nothing to read.                     *)
NothingSent ==
  /\ announced = Unset => pipe = << >> /\ kept = << >> /\ expected = Unset
  /\ target = "none" => announced = Unset
  /\ spc \in NotSent =>
       announced = Unset /\ sent = 0 /\ lastRead = BufferSize
  /\ spc \in NotSent \ {"sendHeader"} => toSend = Unset
  /\ spc \in {"sendHeader"} \cup Sending => toSend # Unset
  /\ spc \in Sending => announced # Unset /\ sent < toSend
  /\ "resize" \notin Disturbances =>
       announced \in {Unset, size} /\ toSend \in {Unset, size}
  /\ expected # Unset => expected = announced
  /\ rpc \in NotReceived => expected = Unset /\ out = << >> /\ inbox = << >>
  /\ rpc \in Receiving => Len(out) < expected

(* The next byte the receiver takes out of the pipe follows the first      *)
(* Reached ones, the next one to be written the first Written.             *)
Reached == IF rpc = "store" THEN Len(out) + Len(inbox) ELSE Len(out)
Written == sent - Len(kept)
HeaderLength == IF rpc \in NotReceived /\ pipe # << >> THEN BufferSize ELSE 0
InPipe == Len(pipe) - HeaderLength

InTransit ==
  rpc \in {"openFile", "receiveHeader"} \cup Receiving =>
    /\ InPipe >= 0 /\ Reached + InPipe <= size
    /\ \A i \in 1..Len(pipe) :
         pipe[i] = IF i <= HeaderLength THEN HeaderByte(announced)
                   ELSE Reached + i - HeaderLength
    /\ rpc = "store" => \A i \in 1..Len(inbox) : inbox[i] = Len(out) + i
    /\ spc \in Sending \cup {"close"} => Written = Reached + InPipe
    /\ rpc \in NotReceived => /\ spc \in Sending => pipe # << >>
                              /\ spc = "close" /\ kept # << >> => pipe # << >>

(* What the sender reads, and what its stream keeps: the end of the        *)
(* source.                                                                 *)
Reads ==
  /\ sent <= size
  /\ spc = "fill" => lastRead = BufferSize \/ sent = size
  /\ spc = "send" => lastRead = ReadFile(sent, size)
  /\ spc \in Sending \cup {"close"} /\ kept # << >> =>
       sent = size /\ kept = Stretch(sent - Len(kept), Len(kept))

(* The pipe bounds how far the sender is ahead.                            *)
Ahead ==
  /\ Len(inbox) <= BufferSize
  /\ spc \in Sending => Written <= Len(out) + Len(inbox) + Len(pipe)
  /\ sres = "success" => sent <= Len(out) + Capacity + 2 * BufferSize

(* What is stored is the source, and success means all that was announced. *)
Prefix == out = Stretch(0, Len(out)) /\ Len(out) <= size
Results ==
  /\ sres = "none" <=> spc \notin {"close", "unlink", "ended"}
  /\ rres = "none" <=> rpc \notin {"close", "unlink", "remove", "ended"}
  /\ sres = "success" => announced # Unset /\ toSend # Unset /\ sent >= toSend
  /\ rres = "success" => expected = Len(out) /\ expected # Unset
  /\ spc \in {"close", "unlink"} => sres # "killed"
  /\ rpc \in {"close", "unlink"} => rres # "killed"
  /\ rpc = "remove" => rres = "failure"
  /\ rpc \in {"receiveHeader"} \cup Receiving \/ rres = "success" => present

(* A sender that has opened the FIFO, and a receiver that has received the *)
(* header, unlink the name on their way out unless they are killed, and    *)
(* nobody makes it again.                                                  *)
NameGone ==
  /\ target = "fifo" /\ spc = "ended" /\ sres # "killed" => name = "none"
  /\ expected # Unset =>
       /\ rpc \notin NotReceived /\ target = "fifo"
       /\ rpc \in {"remove", "ended"} /\ rres # "killed" => name = "none"

IInv ==
  /\ TypeOK /\ OneName /\ NothingSent /\ InTransit /\ Reads /\ Ahead
  /\ Prefix /\ Results /\ NameGone
=============================================================================

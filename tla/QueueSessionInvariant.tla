----------------------- MODULE QueueSessionInvariant -----------------------
(***************************************************************************)
(* Why a transfer through a message queue is correct: the inductive        *)
(* invariant behind the safety properties of QueueSession, for pairs that  *)
(* start on no queue or an empty one.  What is between the two programs is *)
(* the header, if it was not received, followed by consecutive stretches   *)
(* of the source, from where the receiver stands to where the sender is.   *)
(***************************************************************************)
EXTENDS QueueSession

(* The queue, if there is one, is empty when the programs start.           *)
Quiet == \A c \in Leftovers : c.queue = << >>

NotSent == {"idle", "open", "check", "measure", "sendHeader"}
Sending == {"fill", "send"}
NotReceived == {"idle", "create", "receiveHeader"}
Receiving == {"receive", "store"}

(* No program uses a queue that the receiver is about to replace.          *)
OneQueue ==
  ~linked /\ rpc \in {"idle", "create"} => spc \in {"idle", "open", "unlink", "ended"}

(* Before the header is sent there is nothing to receive.                  *)
NothingSent ==
  /\ spc \in NotSent => queue = << >> /\ rpc \notin Receiving /\ sent = 0
  /\ spc \in NotSent /\ spc # "sendHeader" => announced = Unset
  /\ spc \in Sending \cup {"sendHeader"} => announced # Unset
  /\ spc \in Sending => announced > 0
  /\ expected # Unset => announced # Unset /\ expected = announced
  /\ rpc \in NotReceived => expected = Unset /\ out = << >>
  /\ rpc \in Receiving => expected > 0

(* Where a message ends in the source, where the next byte the receiver    *)
(* takes out of the queue begins, and the next byte the sender will put    *)
(* into it.                                                                *)
End(m) == IF m.kind = "header" THEN 0 ELSE m.from + m.n
Reached == IF rpc = "store" THEN End(inbox) ELSE Len(out)
Produced == IF spc = "send" THEN sent - lastRead ELSE sent

(* Each message carries what one call of readFile returned.                *)
Piece(m) == m.kind = "data" /\ m.n = ReadFile(m.from, size) /\ m.from <= size

(* The messages follow one another.                                        *)
Chained ==
  \A i \in 1..Len(queue) : \A j \in 1..Len(queue) :
    j = i + 1 => Piece(queue[j]) /\ queue[j].from = End(queue[i])

(* The first one is the next the receiver needs.                           *)
HeadFits ==
  /\ rpc \in NotReceived /\ queue # << >> => queue[1] = Header(announced)
  /\ rpc \in Receiving /\ queue # << >> =>
       Piece(queue[1]) /\ queue[1].from = Reached
  /\ rpc = "store" => Piece(inbox) /\ inbox.from = Len(out)

(* The last one ends where the sender goes on, and is a full one: after a  *)
(* shorter one the sender stops.                                           *)
FullSoFar(m) == m.kind = "data" => m.n = BufferSize
TailFits ==
  spc \in Sending =>
    /\ Produced <= size
    /\ \A i \in 1..Len(queue) : FullSoFar(queue[i])
    /\ rpc = "store" => inbox.n = BufferSize
    /\ rpc \in NotReceived => queue # << >>
    /\ queue # << >> => Produced = End(queue[Len(queue)])
    /\ queue = << >> /\ rpc \in Receiving => Produced = Reached
    /\ spc = "send" => lastRead = ReadFile(Produced, size)

(* The queue bounds how far the sender is ahead: a message is a buffer at  *)
(* most, and the header takes the place of one.                            *)
Ahead ==
  /\ Len(queue) <= Capacity
  /\ spc \in Sending =>
       /\ rpc \in NotReceived => Produced + BufferSize <= Len(queue) * BufferSize
       /\ rpc \in Receiving => Produced <= Reached + Len(queue) * BufferSize
       /\ Produced <= Len(out) + Len(queue) * BufferSize + BufferSize
  /\ sres = "success" => sent <= Len(out) + (Capacity + 1) * BufferSize

(* What is stored is the source, and success means that it is complete.    *)
Prefix == out = Stretch(0, Len(out)) /\ Len(out) <= size
Results ==
  /\ sres = "none" <=> spc \notin {"unlink", "ended"}
  /\ rres = "none" <=> rpc \notin {"unlink", "closeCopy", "remove", "ended"}
  /\ sres = "success" => announced = size /\ sent = size /\ size > 0
  /\ rres = "success" => announced = size /\ size > 0
  /\ rres = "success" /\ rpc # "ended" => Len(out) = size
  /\ rres = "success" => Len(out) \in (size - MostLost(BufferSize - 1))..size
  /\ spc = "unlink" => sres # "killed"
  /\ rpc = "unlink" => rres # "killed"
  /\ rpc = "remove" => rres = "failure"
  /\ rpc = "closeCopy" => rres = "success"
  /\ rpc \notin {"idle", "remove", "ended"} \/ rres = "success" => present

(* The stream holds bytes of the last piece only, and both loops are over. *)
Held ==
  held > 0 =>
    /\ Len(out) = size /\ held <= size
    /\ spc \in {"unlink", "ended"} /\ rpc \in {"unlink", "closeCopy", "remove", "ended"}

(* The sender that is not killed unlinks the queue it has put a message    *)
(* into, and the receiver the one it took the header from; nobody creates  *)
(* that queue anew.                                                        *)
NameGone ==
  /\ expected # Unset \/ queue # << >> =>
       (spc = "ended" /\ sres # "killed" => ~linked)
  /\ expected # Unset =>
       /\ rpc \notin NotReceived
       /\ rpc \in {"closeCopy", "remove", "ended"} /\ rres # "killed" => ~linked

IInv ==
  /\ TypeOK /\ OneQueue /\ NothingSent /\ Chained /\ HeadFits /\ TailFits
  /\ Ahead /\ Prefix /\ Results /\ Held /\ NameGone
=============================================================================

-------------------------- MODULE CPrograms_proofs --------------------------
(***************************************************************************)
(* Proofs about the programs of C_hands_on_programming_2: the copy of a    *)
(* receiver is always a prefix of the source, a sender that succeeds by    *)
(* messages knows of a whole copy, and a session adds at most one turn.    *)
(***************************************************************************)
EXTENDS CPrograms, SequenceTheorems, TLAPS

-----------------------------------------------------------------------------
(* The inductive invariant *)

(* The source is read in order and never beyond its end.                   *)
Counts ==
  /\ method \in {"message", "queue", "pipe", "shm"}
  /\ size \in Nat /\ measured \in Nat /\ sent \in Nat /\ last \in Nat
  /\ sent <= size
  /\ spc \in {"send", "blocked", "write"} => sent + last <= size
  /\ out \in Seq(Int) /\ queue \in Seq(Seq(Int)) /\ pipe \in Seq(Int)
  /\ text \in [Objects -> Seq(Int)]

(* A receiver works at a message only while its sender waits for the reply *)
(* or has given up.                                                        *)
AtMessage == rpc \in {"read", "write", "reply"}
Answering ==
  method = "message" =>
    /\ sres \in {"none", "success"} /\ AtMessage => spc = "blocked"
    /\ AtMessage => spc \in {"blocked", "ended"}
    /\ sres # "none" => spc = "ended"
    /\ sres = "success" => AsInt(measured) <= sent

(* What is stored are the bytes that were acknowledged, and those of the   *)
(* message that is about to be.                                            *)
StoredMessages ==
  method = "message" /\ ~lost =>
    /\ out = Stretch(0, Len(out))
    /\ sres \in {"none", "success"} \/ rpc # "ended" =>
         Len(out) = IF rpc = "reply" THEN sent + last ELSE sent

(* The messages of the queue are consecutive pieces of the source: number  *)
(* i begins at cut[i] and ends where the next one begins.                  *)
Cuts(cut) ==
  /\ cut[1] = Len(out) /\ cut[Len(queue) + 1] = sent
  /\ \A i \in 1..Len(queue) :
       cut[i] <= cut[i + 1] /\ queue[i] = Stretch(cut[i], cut[i + 1] - cut[i])
QueuedPieces ==
  method = "queue" /\ ~lost =>
    /\ out = Stretch(0, Len(out))
    /\ \E cut \in [1..(Len(queue) + 1) -> Nat] : Cuts(cut)

(* The bytes of the FIFO follow those that are stored.                     *)
PipedBytes ==
  method = "pipe" /\ ~lost =>
    /\ out = Stretch(0, Len(out))
    /\ pipe = Stretch(Len(out), Len(pipe)) /\ Len(out) + Len(pipe) = sent

(* The receiver works at the object it has mapped.                         *)
Mapping ==
  /\ object \in {"none", "old", "new"} /\ mapped \in {"none", "old", "new"}
  /\ method = "shm" /\ mapped = "none" => rpc \in {"idle", "ended"}

(* The receiver adds a turn to those that are left, and only once.         *)
TurnsGiven ==
  /\ sem \in Nat /\ left \in Nat
  /\ method = "shm" =>
       /\ rpc \in {"idle", "flag", "openSem", "hello"} => Turns <= left
       /\ Turns <= left + 1

CInvariant ==
  /\ Counts /\ Answering /\ StoredMessages /\ QueuedPieces /\ PipedBytes
  /\ Mapping /\ TurnsGiven
-----------------------------------------------------------------------------
(* Pieces of the source *)

(* A piece is a sequence of numbers of the length asked for.               *)
LEMMA StretchType ==
  ASSUME NEW a \in Int, NEW n \in Nat
  PROVE  /\ Stretch(a, n) \in Seq(Int) /\ Len(Stretch(a, n)) = n
         /\ \A i \in 1..n : Stretch(a, n)[i] = a + i
<1>1. DOMAIN Stretch(a, n) = 1..n /\ \A i \in 1..n : Stretch(a, n)[i] = a + i
  BY DEF Stretch
<1>2. Stretch(a, n) \in [1..n -> Int]
  BY DEF Stretch
<1>3. Stretch(a, n) \in Seq(Int)
  BY <1>2
<1> HIDE DEF Stretch
<1> QED
  BY <1>1, <1>2, <1>3, LenProperties

(* A piece and the piece that begins where it ends make one piece.         *)
LEMMA StretchJoin ==
  ASSUME NEW a \in Int, NEW m \in Nat, NEW n \in Nat, NEW b \in Int, b = a + m
  PROVE  Stretch(a, m) \o Stretch(b, n) = Stretch(a, m + n)
<1> DEFINE s == Stretch(a, m)
           t == Stretch(b, n)
           u == Stretch(a, m + n)
<1>1. s \in Seq(Int) /\ Len(s) = m /\ \A i \in 1..m : s[i] = a + i
  BY StretchType
<1>2. t \in Seq(Int) /\ Len(t) = n /\ \A i \in 1..n : t[i] = b + i
  BY StretchType
<1>3. u \in Seq(Int) /\ Len(u) = m + n /\ \A i \in 1..(m + n) : u[i] = a + i
  BY StretchType
<1> HIDE DEF s, t, u
<1>4. /\ s \o t \in Seq(Int)
      /\ Len(s \o t) = m + n
      /\ \A i \in 1..(m + n) : (s \o t)[i] = IF i <= m THEN s[i] ELSE t[i - m]
  <2>1. /\ s \o t \in Seq(Int) /\ Len(s \o t) = Len(s) + Len(t)
        /\ \A i \in 1..(Len(s) + Len(t)) :
             (s \o t)[i] = IF i <= Len(s) THEN s[i] ELSE t[i - Len(s)]
    BY <1>1, <1>2, ConcatProperties
  <2> QED
    BY <1>1, <1>2, <2>1
<1>5. ASSUME NEW i \in 1..(m + n) PROVE (s \o t)[i] = a + i
  <2>1. CASE i <= m
    BY <1>1, <1>4, <2>1
  <2>2. CASE ~(i <= m)
    <3>1. i - m \in 1..n
      BY <2>2
    <3> QED
      BY <1>2, <1>4, <2>2, <3>1
  <2> QED
    BY <2>1, <2>2
<1>6. s \o t = u
  BY <1>3, <1>4, <1>5, SeqEqual
<1> QED
  BY <1>6 DEF s, t, u

(* A piece that is cut in two leaves two pieces.                           *)
LEMMA StretchCut ==
  ASSUME NEW a \in Int, NEW m \in Nat, NEW n \in 0..m
  PROVE  /\ SubSeq(Stretch(a, m), 1, n) = Stretch(a, n)
         /\ SubSeq(Stretch(a, m), n + 1, m) = Stretch(a + n, m - n)
<1> DEFINE whole == Stretch(a, m)
<1>1. whole \in Seq(Int) /\ Len(whole) = m /\ \A i \in 1..m : whole[i] = a + i
  BY StretchType
<1>2. SubSeq(whole, 1, n) = Stretch(a, n)
  <2>1. /\ SubSeq(whole, 1, n) \in Seq(Int) /\ Len(SubSeq(whole, 1, n)) = n
        /\ \A i \in 1..n : SubSeq(whole, 1, n)[i] = a + i
    BY <1>1
  <2>2. /\ Stretch(a, n) \in Seq(Int) /\ Len(Stretch(a, n)) = n
        /\ \A i \in 1..n : Stretch(a, n)[i] = a + i
    BY StretchType
  <2> QED
    BY <2>1, <2>2, SeqEqual
<1>3. SubSeq(whole, n + 1, m) = Stretch(a + n, m - n)
  <2>1. /\ SubSeq(whole, n + 1, m) \in Seq(Int)
        /\ Len(SubSeq(whole, n + 1, m)) = m - n
        /\ \A i \in 1..(m - n) : SubSeq(whole, n + 1, m)[i] = a + n + i
    BY <1>1
  <2>2. m - n \in Nat /\ a + n \in Int
    OBVIOUS
  <2>3. /\ Stretch(a + n, m - n) \in Seq(Int) /\ Len(Stretch(a + n, m - n)) = m - n
        /\ \A i \in 1..(m - n) : Stretch(a + n, m - n)[i] = a + n + i
    BY <2>2, StretchType
  <2> QED
    BY <2>1, <2>3, SeqEqual
<1> QED
  BY <1>2, <1>3

(* What is read of a source is a count of bytes that are still there.      *)
LEMMA LeastType ==
  ASSUME NEW a \in Nat, NEW b \in Nat
  PROVE  Least(a, b) \in Nat /\ Least(a, b) <= a /\ Least(a, b) <= b
BY DEF Least

(* A copy that is continued by the next piece of the source stays a copy   *)
(* of its beginning.                                                       *)
LEMMA Continued ==
  ASSUME NEW copy \in Seq(Int), copy = Stretch(0, Len(copy)), NEW n \in Nat
  PROVE  LET longer == copy \o Stretch(Len(copy), n)
         IN  /\ longer \in Seq(Int) /\ Len(longer) = Len(copy) + n
             /\ longer = Stretch(0, Len(longer))
<1> DEFINE k == Len(copy)
           longer == copy \o Stretch(k, n)
<1>1. k \in Nat
  BY LenProperties
<1> HIDE DEF k
<1>2. Stretch(0, k) \o Stretch(k, n) = Stretch(0, k + n)
  <2>1. 0 \in Int /\ k \in Int /\ k = 0 + k
    BY <1>1
  <2> QED
    BY <1>1, <2>1, StretchJoin
<1>3. longer = Stretch(0, k + n)
  BY <1>2 DEF k
<1>4. /\ Stretch(0, k + n) \in Seq(Int)
      /\ Len(Stretch(0, k + n)) = k + n
  <2>1. k + n \in Nat
    BY <1>1
  <2> QED
    BY <2>1, StretchType
<1> QED
  BY <1>3, <1>4 DEF k
-----------------------------------------------------------------------------
(* The steps *)

(* What the steps of a program leave alone, and what they set.             *)
LEMMA StepFrames ==
  ASSUME NEW label, NEW result
  PROVE  /\ SenderIs(label, result) =>
              /\ spc' = label /\ sres' = result
              /\ rpc' = rpc /\ method' = method /\ size' = size
              /\ out' = out /\ lost' = lost
         /\ ReceiverIs(label, result) =>
              /\ rpc' = label /\ rres' = result
              /\ spc' = spc /\ sres' = sres /\ method' = method /\ size' = size
              /\ measured' = measured /\ sent' = sent /\ last' = last
BY DEF SenderIs, ReceiverIs, senderData, receiverData

(* What is written is added to the copy, or it is lost.                    *)
LEMMA WriteStored ==
  ASSUME out \in Seq(Int), NEW bytes \in Seq(Int), Write(bytes)
  PROVE  /\ out' \in Seq(Int)
         /\ ~lost' => ~lost /\ out' = out \o bytes
<1>1. out \o bytes \in Seq(Int)
  OBVIOUS
<1>2. CASE out' = out \o bytes /\ UNCHANGED lost
  BY <1>1, <1>2, Zenon
<1>3. CASE lost' = TRUE /\ UNCHANGED out
  BY <1>3
<1> QED
  BY <1>2, <1>3 DEF Write

(* A read of the source leaves room for what it returned.                  *)
LEMMA ReadBounds ==
  ASSUME Counts, NEW n \in Nat, Read(n)
  PROVE  /\ last' \in Nat /\ sent + last' <= size
         /\ measured' = measured /\ sent' = sent
<1>1. size - sent \in Nat
  BY DEF Counts
<1>2. Least(n, size - sent) \in Nat /\ Least(n, size - sent) <= size - sent
  BY <1>1, LeastType
<1> QED
  BY <1>2 DEF Read, Counts

(* Measuring the source keeps the types of the counters.                   *)
LEMMA FindSizeCounts ==
  ASSUME Counts, NEW label, FindSize(label)
  PROVE  measured' \in Nat /\ sent' = sent /\ last' = last
BY CAssumption DEF FindSize, Counts, SGoto, SExit, SenderIs

(* Every step of the message method preserves its part of the invariant.   *)
LEMMA MessageSteps ==
  ASSUME Counts, Answering, StoredMessages, method = "message",
         MessageSender \/ MessageReceiver, UNCHANGED <<queue, pipe, text>>
  PROVE  method' = method /\ Counts' /\ Answering' /\ StoredMessages'
<1> USE DEF SGoto, SExit, RGoto, RExit, AtMessage
<1>1. CASE MessageFind
  <2>1. measured' \in Nat /\ sent' = sent /\ last' = last
    BY <1>1, FindSizeCounts DEF MessageFind
  <2>2. sres = "none" /\ spc = "idle" /\ sres' \in {"none", "failure"}
    BY <1>1, StepFrames DEF MessageFind, FindSize, Answering
  <2> QED
    BY <1>1, <2>1, <2>2, StepFrames
    DEF MessageFind, FindSize, Counts, Answering, StoredMessages
<1>2. CASE MessageLocate
  BY <1>2, StepFrames DEF MessageLocate, senderData, Counts, Answering, StoredMessages
<1>3. CASE MessageReadFile
  <2>1. CASE AsInt(measured) > sent /\ Read(BufferSize) /\ SGoto("send")
    <3>1. last' \in Nat /\ sent + last' <= size /\ measured' = measured /\ sent' = sent
      BY <2>1, ReadBounds, CAssumption
    <3> QED
      BY <1>3, <2>1, <3>1, StepFrames
      DEF MessageReadFile, Counts, Answering, StoredMessages
  <2>2. CASE AsInt(measured) <= sent /\ SExit("success") /\ UNCHANGED senderData
    BY <1>3, <2>2, StepFrames
    DEF MessageReadFile, senderData, Counts, Answering, StoredMessages
  <2>3. CASE Fails /\ SExit("failure") /\ UNCHANGED senderData
    BY <1>3, <2>3, StepFrames
    DEF MessageReadFile, senderData, Counts, Answering, StoredMessages
  <2> QED
    BY <1>3, <2>1, <2>2, <2>3 DEF MessageReadFile
<1>4. CASE MessageSend
  BY <1>4, StepFrames
  DEF MessageSend, Attached, senderData, Counts, Answering, StoredMessages
<1>5. CASE MessageSendFails
  BY <1>5, StepFrames DEF MessageSendFails, senderData, Counts, Answering, StoredMessages
<1>6. CASE MessageAttach
  BY <1>6, StepFrames DEF MessageAttach, receiverData, Counts, Answering, StoredMessages
<1>7. CASE MessageOpenFile
  BY <1>7, StepFrames DEF MessageOpenFile, receiverData, Counts, Answering, StoredMessages
<1>8. CASE MessageReceive
  BY <1>8, StepFrames DEF MessageReceive, receiverData, Counts, Answering, StoredMessages
<1>9. CASE MessageRead
  BY <1>9, StepFrames DEF MessageRead, receiverData, Counts, Answering, StoredMessages
<1>10. CASE MessageWrite
  <2>1. Stretch(sent, last) \in Seq(Int)
    BY StretchType DEF Counts
  <2>2. out' \in Seq(Int) /\ (~lost' => ~lost /\ out' = out \o Stretch(sent, last))
    BY <1>10, <2>1, WriteStored DEF MessageWrite, Counts
  <2>3. /\ rpc = "write" /\ rpc' = "reply" /\ spc' = spc /\ sres' = sres
        /\ UNCHANGED <<method, size, measured, sent, last>>
    BY <1>10, StepFrames DEF MessageWrite
  <2>4. Counts' /\ Answering'
    BY <2>2, <2>3 DEF Counts, Answering
  <2>5. CASE lost'
    BY <2>3, <2>4, <2>5 DEF StoredMessages
  <2>6. CASE ~lost'
    <3>1. out = Stretch(0, Len(out)) /\ Len(out) = sent
      BY <2>2, <2>3, <2>6 DEF StoredMessages
    <3>2. /\ Len(out \o Stretch(sent, last)) = Len(out) + last
          /\ out \o Stretch(sent, last) = Stretch(0, Len(out \o Stretch(sent, last)))
      BY <3>1, Continued DEF Counts
    <3>3. out' = Stretch(0, Len(out')) /\ Len(out') = sent' + last'
      BY <2>2, <2>3, <2>6, <3>1, <3>2
    <3> QED
      BY <2>3, <2>4, <3>3 DEF StoredMessages
  <2> QED
    BY <2>3, <2>4, <2>5, <2>6
<1>11. CASE MessageReply
  <2>1. CASE spc = "blocked"
    BY <1>11, <2>1 DEF MessageReply, receiverData, Counts, Answering, StoredMessages
  <2>2. CASE spc # "blocked"
    BY <1>11, <2>2, StepFrames
    DEF MessageReply, receiverData, Counts, Answering, StoredMessages
  <2> QED
    BY <2>1, <2>2
<1>12. CASE MessageDisconnected
  BY <1>12, StepFrames DEF MessageDisconnected, Counts, Answering, StoredMessages
<1> QED
  BY <1>1, <1>2, <1>3, <1>4, <1>5, <1>6, <1>7, <1>8, <1>9, <1>10, <1>11, <1>12
  DEF MessageSender, MessageReceiver
(* The pieces in the queue stay as they are when nothing is sent or taken. *)
LEMMA PiecesKept ==
  ASSUME Counts, QueuedPieces, UNCHANGED <<method, queue, out, sent>>, ~lost' => ~lost
  PROVE  QueuedPieces'
<1>1. CASE method = "queue" /\ ~lost'
  <2>1. /\ out = Stretch(0, Len(out))
        /\ \E cut \in [1..(Len(queue) + 1) -> Nat] : Cuts(cut)
    BY <1>1 DEF QueuedPieces
  <2>2. /\ out' = Stretch(0, Len(out'))
        /\ \E cut \in [1..(Len(queue') + 1) -> Nat] : Cuts(cut)'
    BY <2>1 DEF Cuts
  <2> QED
    BY <2>2 DEF QueuedPieces
<1> QED
  BY <1>1 DEF QueuedPieces

(* A message that is sent begins where the last one ended.                 *)
LEMMA PieceSent ==
  ASSUME Counts, QueuedPieces, queue' = Append(queue, Stretch(sent, last)),
         sent' = sent + last, UNCHANGED <<method, out, lost>>
  PROVE  QueuedPieces'
<1> SUFFICES ASSUME method = "queue", ~lost PROVE QueuedPieces'
  BY DEF QueuedPieces
<1>1. /\ out = Stretch(0, Len(out))
      /\ \E cut \in [1..(Len(queue) + 1) -> Nat] : Cuts(cut)
  BY DEF QueuedPieces
<1>2. PICK cut \in [1..(Len(queue) + 1) -> Nat] : Cuts(cut)
  BY <1>1
<1> DEFINE n == Len(queue)
<1> PICK more : more = [i \in 1..(n + 2) |-> IF i <= n + 1 THEN cut[i] ELSE sent + last]
  OBVIOUS
<1>3. n \in Nat /\ Len(queue') = n + 1 /\ sent \in Nat /\ last \in Nat
  BY StretchType DEF Counts
<1>4. /\ \A i \in 1..n : queue'[i] = queue[i]
      /\ queue'[n + 1] = Stretch(sent, last)
  BY StretchType DEF Counts
<1>5. more \in [1..(Len(queue') + 1) -> Nat]
  BY <1>3
<1>6. more[1] = Len(out') /\ more[Len(queue') + 1] = sent'
  BY <1>2, <1>3 DEF Cuts
<1>7. ASSUME NEW i \in 1..Len(queue')
      PROVE  more[i] <= more[i + 1] /\ queue'[i] = Stretch(more[i], more[i + 1] - more[i])
  <2>1. CASE i <= n
    <3>1. i \in 1..n /\ more[i] = cut[i] /\ more[i + 1] = cut[i + 1]
      BY <1>3, <2>1
    <3> HIDE DEF n
    <3>2. cut[i] <= cut[i + 1] /\ queue[i] = Stretch(cut[i], cut[i + 1] - cut[i])
      BY <1>2, <3>1 DEF Cuts, n
    <3> QED
      BY <1>4, <3>1, <3>2
  <2>2. CASE i = n + 1
    <3>1. more[i] = cut[n + 1] /\ more[i + 1] = sent + last /\ cut[n + 1] = sent
      BY <1>2, <1>3, <2>2 DEF Cuts
    <3> HIDE DEF n
    <3>2. more[i] = sent /\ more[i + 1] - more[i] = last /\ sent <= sent + last
      BY <1>3, <3>1
    <3>3. queue'[i] = Stretch(sent, last)
      BY <1>4, <2>2
    <3>4. Stretch(more[i], more[i + 1] - more[i]) = Stretch(sent, last)
      BY <3>2, Zenon
    <3>5. more[i] <= more[i + 1]
      BY <3>1, <3>2
    <3> QED
      BY <3>3, <3>4, <3>5
  <2>3. i <= n \/ i = n + 1
    BY <1>3
  <2> QED
    BY <2>1, <2>2, <2>3
<1>8. Cuts(more)'
  BY <1>6, <1>7 DEF Cuts
<1>9. out' = Stretch(0, Len(out'))
  BY <1>1
<1> QED
  BY <1>5, <1>8, <1>9 DEF QueuedPieces

(* The message that is taken continues the copy.                           *)
LEMMA PieceTaken ==
  ASSUME Counts, QueuedPieces, queue # << >>, queue' = Tail(queue), Write(Head(queue)),
         UNCHANGED <<method, sent>>
  PROVE  QueuedPieces'
<1>1. Head(queue) \in Seq(Int)
  BY HeadTailProperties DEF Counts
<1>2. ~lost' => ~lost /\ out' = out \o Head(queue)
  BY <1>1, WriteStored DEF Counts
<1> SUFFICES ASSUME method = "queue", ~lost' PROVE QueuedPieces'
  BY DEF QueuedPieces
<1>3. /\ out = Stretch(0, Len(out))
      /\ \E cut \in [1..(Len(queue) + 1) -> Nat] : Cuts(cut)
  BY <1>2 DEF QueuedPieces
<1>4. PICK cut \in [1..(Len(queue) + 1) -> Nat] : Cuts(cut)
  BY <1>3
<1> DEFINE n == Len(queue)
<1> PICK rest : rest = [i \in 1..n |-> cut[i + 1]]
  OBVIOUS
<1>5. n \in Nat /\ n > 0 /\ Len(queue') = n - 1 /\ Head(queue) = queue[1]
  BY HeadTailProperties, EmptySeq DEF Counts
<1>6. \A i \in 1..(n - 1) : queue'[i] = queue[i + 1]
  BY <1>5, HeadTailProperties DEF Counts
<1>7. cut[1] = Len(out) /\ cut[n + 1] = sent
  BY <1>4 DEF Cuts
<1>8. cut[1] <= cut[2] /\ queue[1] = Stretch(cut[1], cut[2] - cut[1])
  BY <1>4, <1>5 DEF Cuts
<1>9. cut[1] \in Nat /\ cut[2] \in Nat /\ cut[2] - cut[1] \in Nat
  BY <1>4, <1>5, <1>8
<1>10. /\ Len(out') = Len(out) + (cut[2] - cut[1])
       /\ out' = Stretch(0, Len(out'))
  <2>1. PICK d \in Nat : d = cut[2] - cut[1]
    BY <1>9
  <2>2. out' = out \o Stretch(Len(out), d)
    BY <1>2, <1>5, <1>7, <1>8, <2>1
  <2>3. /\ Len(out \o Stretch(Len(out), d)) = Len(out) + d
        /\ out \o Stretch(Len(out), d) = Stretch(0, Len(out \o Stretch(Len(out), d)))
    BY <1>3, Continued DEF Counts
  <2> QED
    BY <2>1, <2>2, <2>3
<1>11. rest \in [1..(Len(queue') + 1) -> Nat]
  BY <1>4, <1>5
<1>12. rest[1] = Len(out') /\ rest[Len(queue') + 1] = sent'
  BY <1>5, <1>7, <1>9, <1>10
<1>13. ASSUME NEW i \in 1..Len(queue')
       PROVE  rest[i] <= rest[i + 1] /\ queue'[i] = Stretch(rest[i], rest[i + 1] - rest[i])
  <2>1. /\ i \in 1..(n - 1) /\ i + 1 \in 1..n
        /\ rest[i] = cut[i + 1] /\ rest[i + 1] = cut[(i + 1) + 1]
    BY <1>5
  <2> HIDE DEF n
  <2>2. /\ cut[i + 1] <= cut[(i + 1) + 1]
        /\ queue[i + 1] = Stretch(cut[i + 1], cut[(i + 1) + 1] - cut[i + 1])
    BY <1>4, <2>1 DEF Cuts, n
  <2> QED
    BY <1>6, <2>1, <2>2
<1>14. Cuts(rest)'
  BY <1>12, <1>13 DEF Cuts
<1> QED
  BY <1>10, <1>11, <1>14 DEF QueuedPieces

(* Every step of the queue method preserves its part of the invariant.     *)
LEMMA QueueSteps ==
  ASSUME Counts, QueuedPieces, method = "queue",
         QueueSender \/ QueueReceiver, UNCHANGED <<pipe, text>>
  PROVE  method' = method /\ Counts' /\ QueuedPieces'
<1> USE DEF SGoto, SExit, RGoto, RExit
<1>1. CASE QueueFind
  <2>1. measured' \in Nat /\ sent' = sent /\ last' = last
    BY <1>1, FindSizeCounts DEF QueueFind
  <2>2. /\ UNCHANGED <<method, size, queue, out, lost>>
        /\ spc' \in {"open", "ended"}
    BY <1>1, StepFrames DEF QueueFind, FindSize, queueVars
  <2> QED
    BY <2>1, <2>2, PiecesKept DEF Counts
<1>2. CASE QueueOpen
  <2>1. /\ UNCHANGED <<method, size, queue, out, lost, measured, sent, last>>
        /\ spc' \in {"read", "ended"}
    BY <1>2, StepFrames DEF QueueOpen, queueVars, senderData
  <2> QED
    BY <2>1, PiecesKept DEF Counts
<1>3. CASE QueueReadFile
  <2>1. CASE measured > sent /\ Read(Least(BufferSize, measured)) /\ SGoto("send")
    <3>1. Least(BufferSize, measured) \in Nat
      BY CAssumption, LeastType DEF Counts
    <3>2. last' \in Nat /\ sent + last' <= size /\ measured' = measured /\ sent' = sent
      BY <2>1, <3>1, ReadBounds
    <3>3. UNCHANGED <<method, size, queue, out, lost>>
      BY <1>3, <2>1, StepFrames DEF QueueReadFile, queueVars
    <3> QED
      BY <3>2, <3>3, PiecesKept DEF Counts
  <2>2. CASE UNCHANGED senderData /\ \E result : SExit(result)
    <3>1. /\ UNCHANGED <<method, size, queue, out, lost, measured, sent, last>>
          /\ spc' = "ended"
      BY <1>3, <2>2, StepFrames DEF QueueReadFile, queueVars, senderData
    <3> QED
      BY <3>1, PiecesKept DEF Counts
  <2> QED
    BY <1>3, <2>1, <2>2 DEF QueueReadFile
<1>4. CASE QueueSend
  <2>1. /\ queue' = Append(queue, Stretch(sent, last)) /\ sent' = sent + last
        /\ UNCHANGED <<method, size, measured, last, out, lost>>
        /\ spc = "send" /\ spc' = "read"
    BY <1>4, StepFrames DEF QueueSend
  <2>2. QueuedPieces'
    BY <2>1, PieceSent
  <2>3. queue' \in Seq(Seq(Int))
    BY <2>1, StretchType DEF Counts
  <2> QED
    BY <2>1, <2>2, <2>3 DEF Counts
<1>5. CASE QueueSendFails
  <2>1. /\ UNCHANGED <<method, size, queue, out, lost, measured, sent, last>>
        /\ spc' = "ended"
    BY <1>5, StepFrames DEF QueueSendFails, queueVars, senderData
  <2> QED
    BY <2>1, PiecesKept DEF Counts
<1>6. CASE QueueReceive
  <2>1. /\ queue # << >> /\ queue' = Tail(queue) /\ Write(Head(queue))
        /\ UNCHANGED <<method, size, measured, sent, last, spc>>
    BY <1>6, StepFrames DEF QueueReceive
  <2>2. QueuedPieces'
    BY <2>1, PieceTaken
  <2>3. Head(queue) \in Seq(Int) /\ Tail(queue) \in Seq(Seq(Int))
    BY <2>1, HeadTailProperties DEF Counts
  <2>4. out' \in Seq(Int)
    BY <2>1, <2>3, WriteStored DEF Counts
  <2> QED
    BY <2>1, <2>2, <2>3, <2>4 DEF Counts
<1>7. CASE QueueCreate \/ QueueOpenFile \/ QueueReceiveFails \/ QueuePause
  <2>1. /\ UNCHANGED <<method, size, queue, out, measured, sent, last, spc>>
        /\ ~lost' => ~lost
    BY <1>7, StepFrames
    DEF QueueCreate, QueueOpenFile, QueueReceiveFails, QueuePause, queueVars, receiverData
  <2> QED
    BY <2>1, PiecesKept DEF Counts
<1>8. CASE QueueUnlink
  <2>1. /\ UNCHANGED <<queue, out, lost>>
        /\ \E result : RExit(result)
    BY <1>8, Zenon DEF QueueUnlink, receiverData
  <2>2. UNCHANGED <<method, size, measured, sent, last, spc>>
    BY <2>1, StepFrames
  <2> QED
    BY <2>1, <2>2, PiecesKept DEF Counts
<1> QED
  BY <1>1, <1>2, <1>3, <1>4, <1>5, <1>6, <1>7, <1>8 DEF QueueSender, QueueReceiver

(* The bytes in the FIFO stay the next ones when none is sent or taken.    *)
LEMMA BytesKept ==
  ASSUME PipedBytes, UNCHANGED <<method, pipe, out, sent>>, ~lost' => ~lost
  PROVE  PipedBytes'
<1>1. CASE method = "pipe" /\ ~lost'
  BY <1>1 DEF PipedBytes
<1> QED
  BY <1>1 DEF PipedBytes

(* Writing a piece to the FIFO: the bytes on the way still follow the      *)
(* copy.                                                                   *)
LEMMA BytesSent ==
  ASSUME Counts, PipedBytes, pipe' = pipe \o Stretch(sent, last), sent' = sent + last,
         UNCHANGED <<method, out, lost>>
  PROVE  PipedBytes'
<1> SUFFICES ASSUME method = "pipe", ~lost PROVE PipedBytes'
  BY DEF PipedBytes
<1>1. /\ out = Stretch(0, Len(out)) /\ pipe = Stretch(Len(out), Len(pipe))
      /\ Len(out) + Len(pipe) = sent
  BY DEF PipedBytes
<1>2. PICK k \in Nat, m \in Nat : k = Len(out) /\ m = Len(pipe)
  BY DEF Counts
<1>3. sent = k + m /\ sent \in Int /\ k \in Int /\ last \in Nat /\ m + last \in Nat
  BY <1>1, <1>2 DEF Counts
<1>4. Stretch(k, m) \o Stretch(sent, last) = Stretch(k, m + last)
  BY <1>3, StretchJoin
<1>5. pipe' = Stretch(k, m + last)
  BY <1>1, <1>2, <1>4
<1>6. Len(pipe') = m + last
  BY <1>3, <1>5, StretchType
<1>7. pipe' = Stretch(Len(out'), Len(pipe'))
  BY <1>2, <1>5, <1>6, Zenon
<1>8. Len(out') = k /\ sent' = (k + m) + last
  BY <1>2, <1>3
<1>9. k + (m + last) = (k + m) + last
  BY <1>3
<1>10. Len(out') + Len(pipe') = sent'
  BY <1>6, <1>8, <1>9, Zenon
<1> QED
  BY <1>1, <1>7, <1>10 DEF PipedBytes

(* The bytes that are taken are the first ones, and continue the copy.     *)
LEMMA BytesTaken ==
  ASSUME Counts, PipedBytes, NEW n \in 0..Len(pipe), Write(SubSeq(pipe, 1, n)),
         pipe' = SubSeq(pipe, n + 1, Len(pipe)), UNCHANGED <<method, sent>>
  PROVE  PipedBytes'
<1>1. SubSeq(pipe, 1, n) \in Seq(Int)
  BY DEF Counts
<1>2. ~lost' => ~lost /\ out' = out \o SubSeq(pipe, 1, n)
  BY <1>1, WriteStored DEF Counts
<1> SUFFICES ASSUME method = "pipe", ~lost' PROVE PipedBytes'
  BY DEF PipedBytes
<1>3. /\ out = Stretch(0, Len(out)) /\ pipe = Stretch(Len(out), Len(pipe))
      /\ Len(out) + Len(pipe) = sent
  BY <1>2 DEF PipedBytes
<1>4. PICK k \in Nat, m \in Nat : k = Len(out) /\ m = Len(pipe)
  BY DEF Counts
<1>5. k \in Int /\ n \in 0..m /\ n \in Nat /\ m - n \in Nat /\ k + n \in Int
  BY <1>4
<1>6. /\ SubSeq(Stretch(k, m), 1, n) = Stretch(k, n)
      /\ SubSeq(Stretch(k, m), n + 1, m) = Stretch(k + n, m - n)
  BY <1>5, StretchCut
<1>7. out' = out \o Stretch(Len(out), n) /\ pipe' = Stretch(k + n, m - n)
  BY <1>2, <1>3, <1>4, <1>6
<1>8. Len(out') = k + n /\ out' = Stretch(0, Len(out'))
  <2>1. /\ Len(out \o Stretch(Len(out), n)) = Len(out) + n
        /\ out \o Stretch(Len(out), n) = Stretch(0, Len(out \o Stretch(Len(out), n)))
    BY <1>3, <1>5, Continued DEF Counts
  <2> QED
    BY <1>4, <1>7, <2>1
<1>9. Len(pipe') = m - n
  BY <1>5, <1>7, StretchType
<1>10. pipe' = Stretch(Len(out'), Len(pipe'))
  BY <1>7, <1>8, <1>9, Zenon
<1>11. sent' = k + m
  BY <1>3, <1>4
<1>12. (k + n) + (m - n) = k + m
  BY <1>5
<1>13. Len(out') + Len(pipe') = sent'
  BY <1>8, <1>9, <1>11, <1>12, Zenon
<1> QED
  BY <1>8, <1>10, <1>13 DEF PipedBytes

(* Every step of the pipe method preserves its part of the invariant.      *)
LEMMA PipeSteps ==
  ASSUME Counts, PipedBytes, method = "pipe",
         PipeSender \/ PipeReceiver \/ PipeMeet, UNCHANGED <<queue, text>>
  PROVE  method' = method /\ Counts' /\ PipedBytes'
<1> USE DEF SGoto, SExit, RGoto, RExit
<1>1. CASE PipeReadFile
  <2>1. CASE Read(BufferSize) /\ SGoto("write")
    <3>1. last' \in Nat /\ sent + last' <= size /\ measured' = measured /\ sent' = sent
      BY <2>1, ReadBounds, CAssumption
    <3>2. UNCHANGED <<method, size, pipe, out, lost>>
      BY <1>1, <2>1, StepFrames DEF PipeReadFile, pipeVars
    <3> QED
      BY <3>1, <3>2, BytesKept DEF Counts
  <2>2. CASE spc' = "spin"
    <3>1. UNCHANGED <<method, size, pipe, out, measured, sent, last>> /\ lost' = TRUE
      BY <1>1, <2>2, StepFrames DEF PipeReadFile, pipeVars, senderData
    <3> QED
      BY <2>2, <3>1, BytesKept DEF Counts
  <2> QED
    BY <1>1, <2>1, <2>2 DEF PipeReadFile
<1>2. CASE PipeSend
  <2>1. /\ pipe' = pipe \o Stretch(sent, last) /\ sent' = sent + last
        /\ UNCHANGED <<method, size, measured, last, out, lost>>
        /\ spc = "write" /\ spc' = "read"
    BY <1>2, StepFrames DEF PipeSend
  <2>2. pipe' \in Seq(Int)
    BY <2>1, StretchType DEF Counts
  <2> QED
    BY <2>1, <2>2, BytesSent DEF Counts
<1>3. CASE PipeReceive
  <2>1. PICK n : /\ n = Least(BufferSize, Len(pipe))
                 /\ Write(SubSeq(pipe, 1, n)) /\ pipe' = SubSeq(pipe, n + 1, Len(pipe))
    BY <1>3 DEF PipeReceive
  <2>2. n \in 0..Len(pipe)
    BY <2>1, LeastType, CAssumption DEF Counts
  <2>3. UNCHANGED <<method, size, measured, sent, last, spc>>
    BY <1>3, StepFrames DEF PipeReceive
  <2>4. SubSeq(pipe, 1, n) \in Seq(Int) /\ pipe' \in Seq(Int)
    BY <2>1, <2>2 DEF Counts
  <2>5. out' \in Seq(Int)
    BY <2>1, <2>4, WriteStored DEF Counts
  <2> QED
    BY <2>1, <2>2, <2>3, <2>4, <2>5, BytesTaken DEF Counts
<1>4. CASE PipeLaunch \/ PipeConnectFails \/ PipeSendEnds \/ PipeMeet
  <2>1. /\ UNCHANGED <<method, size, pipe, out, lost, measured, sent, last>>
        /\ spc' \in {"connect", "read", "ended"}
    BY <1>4, StepFrames
    DEF PipeLaunch, PipeConnectFails, PipeSendEnds, PipeMeet, pipeVars, senderData,
        receiverData
  <2> QED
    BY <2>1, BytesKept DEF Counts
<1>5. CASE PipeOpenFile \/ PipeMake \/ PipeEndOfFile \/ PipeReceiveFails \/ PipeRemove
  <2>1. /\ UNCHANGED <<method, size, pipe, out, measured, sent, last, spc>>
        /\ ~lost' => ~lost
    BY <1>5, StepFrames
    DEF PipeOpenFile, PipeMake, PipeEndOfFile, PipeReceiveFails, PipeRemove, pipeVars,
        senderData, receiverData
  <2> QED
    BY <2>1, BytesKept DEF Counts
<1> QED
  BY <1>1, <1>2, <1>3, <1>4, <1>5 DEF PipeSender, PipeReceiver

(* Every step of the shared memory method preserves its part of the        *)
(* invariant: a step that takes a turn takes it from the semaphore, and    *)
(* one that posts gives its own turn back, but for the receiver's first.   *)
LEMMA ShmSteps ==
  ASSUME Counts, Mapping, TurnsGiven, method = "shm",
         ShmSender \/ ShmReceiver, UNCHANGED <<queue, pipe>>
  PROVE  method' = method /\ Counts' /\ Mapping' /\ TurnsGiven'
<1> USE DEF SGoto, SExit, RGoto, RExit
<1>1. CASE ShmFill
  <2>1. /\ last' \in Nat /\ sent + last' <= size
        /\ text' \in [Objects -> Seq(Int)]
    <3>1. CASE /\ last' = Least(BufferSize, size - sent)
               /\ text' = [text EXCEPT !["new"] = Stretch(sent, last')]
      <4>1. size - sent \in Nat
        BY DEF Counts
      <4>2. last' \in Nat /\ last' <= size - sent
        BY <3>1, <4>1, LeastType, CAssumption
      <4>3. Stretch(sent, last') \in Seq(Int)
        BY <4>2, StretchType DEF Counts
      <4>4. text' \in [Objects -> Seq(Int)]
        BY <3>1, <4>3 DEF Counts
      <4>5. sent + last' <= size
        <5>1. sent \in Nat /\ size \in Nat
          BY DEF Counts
        <5>2. \A a, b, n \in Nat : n <= b - a => a + n <= b
          OBVIOUS
        <5> QED
          BY <4>2, <5>1, <5>2, Zenon
      <4> QED
        BY <4>2, <4>4, <4>5
    <3>2. CASE last' = 0 /\ text' = [text EXCEPT !["new"] = Garbage]
      <4>1. Garbage \in Seq(Int)
        BY DEF Garbage
      <4>2. text' \in [Objects -> Seq(Int)]
        BY <3>2, <4>1 DEF Counts
      <4>3. sent + last' <= size
        BY <3>2 DEF Counts
      <4> QED
        BY <3>2, <4>2, <4>3
    <3> QED
      BY <1>1, <3>1, <3>2 DEF ShmFill
  <2>2. /\ UNCHANGED <<method, size, measured, out, rpc, object, mapped, sem, left>>
        /\ sent' = sent + last' /\ spc = "fill" /\ spc' = "post"
    BY <1>1, StepFrames DEF ShmFill, memory, semaphore
  <2>3. Counts'
    <3>1. PICK d \in Nat : d = last'
      BY <2>1
    <3>2. sent + d <= size
      BY <2>1, <3>1, Zenon
    <3>3. sent' = sent + d
      BY <2>2, <3>1, Zenon
    <3>4. sent + d \in Nat
      BY DEF Counts
    <3>5. sent' \in Nat /\ sent' <= size'
      BY <2>2, <3>2, <3>3, <3>4, Zenon
    <3> QED
      BY <2>1, <2>2, <3>5 DEF Counts
  <2>4. Mapping' /\ TurnsGiven'
    BY <2>2 DEF Mapping, TurnsGiven, Turns, HasTurn
  <2> QED
    BY <2>2, <2>3, <2>4
<1>2. CASE ShmStore
  <2>1. text[mapped] \in Seq(Int)
    BY <1>2 DEF Counts, Mapping, Objects, ShmStore
  <2>2. out' \in Seq(Int)
    BY <1>2, <2>1, WriteStored DEF ShmStore, Counts
  <2>3. /\ UNCHANGED <<method, size, measured, sent, last, spc, object, mapped, text, sem,
                       left>>
        /\ rpc = "store" /\ rpc' \in {"post", "postLast"}
    BY <1>2, StepFrames DEF ShmStore, memory, semaphore
  <2> QED
    BY <2>2, <2>3 DEF Counts, Mapping, TurnsGiven, Turns, HasTurn
<1>3. CASE ShmLaunch \/ ShmCreate \/ ShmInitialize \/ ShmSemCreate
  <2>1. /\ UNCHANGED <<method, size, measured, sent, last, out, text, rpc, mapped, sem, left>>
        /\ spc' \in {"create", "init", "sem", "wait"} /\ object' \in {object, "none", "new"}
    BY <1>3, StepFrames
    DEF ShmLaunch, ShmCreate, ShmInitialize, ShmSemCreate, shmVars, memory, semaphore,
        senderData, receiverData, programVars
  <2>2. Counts' /\ Mapping'
    BY <2>1 DEF Counts, Mapping
  <2>3. HasTurn(spc') = 0 /\ HasTurn(spc) \in {0, 1} /\ HasTurn(rpc) \in {0, 1}
    BY <2>1 DEF HasTurn
  <2> QED
    BY <2>1, <2>2, <2>3 DEF TurnsGiven, Turns
<1>4. CASE ShmLock
  <2>1. /\ UNCHANGED <<method, size, measured, sent, last, out, text, rpc, object, mapped,
                       sem, left>>
        /\ spc = "lock" /\ spc' = "fill"
    BY <1>4, StepFrames DEF ShmLock, memory, semaphore, senderData
  <2> QED
    BY <2>1 DEF Counts, Mapping, TurnsGiven, Turns, HasTurn
<1>5. CASE ShmUnlinkSem \/ ShmUnlink \/ ShmUnlinkAndExit
  <2>1. /\ UNCHANGED <<method, size, measured, sent, last, out, text, rpc, mapped, sem, left>>
        /\ spc' \in {"unlinkShm", "ended"} /\ object' \in {object, "none"}
    BY <1>5, StepFrames
    DEF ShmUnlinkSem, ShmUnlink, ShmUnlinkAndExit, memory, semaphore, senderData
  <2>2. Counts' /\ Mapping'
    BY <2>1 DEF Counts, Mapping
  <2>3. HasTurn(spc') = 0 /\ HasTurn(spc) \in {0, 1} /\ HasTurn(rpc) \in {0, 1}
    BY <2>1 DEF HasTurn
  <2> QED
    BY <2>1, <2>2, <2>3 DEF TurnsGiven, Turns
<1>6. CASE ShmWait
  <2>1. /\ UNCHANGED <<method, size, measured, sent, last, out, text, rpc, object, mapped,
                       left>>
        /\ spc = "wait" /\ spc' = "lock" /\ sem > 0 /\ sem' = sem - 1
    BY <1>6, StepFrames DEF ShmWait, memory, senderData
  <2> QED
    BY <2>1 DEF Counts, Mapping, TurnsGiven, Turns, HasTurn
<1>7. CASE ShmPost
  <2>1. /\ UNCHANGED <<method, size, measured, sent, last, out, text, rpc, object, mapped,
                       left>>
        /\ spc = "post" /\ spc' \in {"wait", "unlinkSem"} /\ sem' = sem + 1
    BY <1>7, StepFrames DEF ShmPost, memory, senderData
  <2> QED
    BY <2>1 DEF Counts, Mapping, TurnsGiven, Turns, HasTurn
<1>8. CASE ShmConnect \/ ShmFlag \/ ShmOpenSem
  <2>1. /\ UNCHANGED <<method, size, measured, sent, last, out, text, spc, object, sem, left>>
        /\ rpc \in {"idle", "flag", "openSem"}
        /\ rpc' \in {"flag", "openSem", "hello", "ended"}
        /\ mapped' = mapped \/ mapped' = object
        /\ rpc = "idle" /\ rpc' # "ended" => mapped' = object /\ object # "none"
        /\ rpc # "idle" => mapped' = mapped
    BY <1>8, StepFrames
    DEF ShmConnect, ShmFlag, ShmOpenSem, shmVars, semaphore, receiverData
  <2>2. Counts'
    BY <2>1 DEF Counts
  <2>3. Mapping'
    BY <2>1 DEF Mapping
  <2>4. HasTurn(rpc') = 0 /\ HasTurn(rpc) = 0 /\ spc' = spc /\ sem' = sem /\ left' = left
    BY <2>1 DEF HasTurn
  <2> QED
    BY <2>1, <2>2, <2>3, <2>4 DEF TurnsGiven, Turns
<1>9. CASE ShmHello
  <2>1. /\ UNCHANGED <<method, size, measured, sent, last, out, text, spc, object, mapped,
                       left>>
        /\ rpc = "hello" /\ rpc' = "wait" /\ sem' = sem + 1
    BY <1>9, StepFrames DEF ShmHello, memory, receiverData
  <2>2. HasTurn(spc) \in {0, 1} /\ HasTurn(rpc) = 0 /\ HasTurn(rpc') = 0
    BY <2>1 DEF HasTurn
  <2>3. sem + HasTurn(spc) <= left
    BY <2>1, <2>2 DEF TurnsGiven, Turns
  <2>4. Counts' /\ Mapping'
    BY <2>1 DEF Counts, Mapping
  <2>5. TurnsGiven'
    BY <2>1, <2>2, <2>3 DEF TurnsGiven, Turns
  <2> QED
    BY <2>1, <2>4, <2>5
<1>10. CASE ShmReceiverWait
  <2>1. /\ UNCHANGED <<method, size, measured, sent, last, out, text, spc, object, mapped,
                       left>>
        /\ rpc = "wait" /\ rpc' = "lock" /\ sem > 0 /\ sem' = sem - 1
    BY <1>10, StepFrames DEF ShmReceiverWait, memory, receiverData
  <2>2. Counts' /\ Mapping'
    BY <2>1 DEF Counts, Mapping
  <2>3. TurnsGiven'
    BY <2>1 DEF TurnsGiven, Turns, HasTurn
  <2> QED
    BY <2>1, <2>2, <2>3
<1>11. CASE ShmReceiverLock
  <2>1. /\ UNCHANGED <<method, size, measured, sent, last, out, text, spc, object, mapped,
                       sem, left>>
        /\ rpc = "lock" /\ rpc' = "store"
    BY <1>11, StepFrames DEF ShmReceiverLock, memory, semaphore, receiverData
  <2> QED
    BY <2>1 DEF Counts, Mapping, TurnsGiven, Turns, HasTurn
<1>12. CASE ShmReceiverPost
  <2>1. /\ UNCHANGED <<method, size, measured, sent, last, out, text, spc, object, mapped,
                       left>>
        /\ rpc \in {"post", "postLast"} /\ rpc' \in {"wait", "ended"} /\ sem' = sem + 1
    BY <1>12, StepFrames DEF ShmReceiverPost, memory, receiverData
  <2>2. HasTurn(rpc) = 1 /\ HasTurn(rpc') = 0 /\ HasTurn(spc) \in {0, 1}
    BY <2>1 DEF HasTurn
  <2>3. Counts' /\ Mapping'
    BY <2>1 DEF Counts, Mapping
  <2> QED
    BY <2>1, <2>2, <2>3 DEF TurnsGiven, Turns
<1>13. CASE ShmReceiverFails \/ ShmStoreCrashes
  <2>1. /\ UNCHANGED <<method, size, measured, sent, last, out, text, spc, object, mapped,
                       sem, left>>
        /\ rpc # "idle" /\ rpc' = "ended"
    BY <1>13, StepFrames DEF ShmReceiverFails, ShmStoreCrashes, shmVars, receiverData
  <2>2. HasTurn(rpc) \in {0, 1} /\ HasTurn(rpc') = 0 /\ HasTurn(spc) \in {0, 1}
    BY <2>1 DEF HasTurn
  <2>3. Counts' /\ Mapping'
    BY <2>1 DEF Counts, Mapping
  <2> QED
    BY <2>1, <2>2, <2>3 DEF TurnsGiven, Turns
<1> QED
  BY <1>1, <1>2, <1>3, <1>4, <1>5, <1>6, <1>7, <1>8, <1>9, <1>10, <1>11, <1>12, <1>13
  DEF ShmSender, ShmReceiver

(* A program that is killed sends and stores nothing more.                 *)
LEMMA KillSteps ==
  ASSUME CInvariant, SKill \/ RKill,
         UNCHANGED <<messageVars, queueVars, pipeVars, shmVars>>
  PROVE  CInvariant'
<1>1. /\ UNCHANGED <<method, size, measured, sent, last, out, queue, pipe, text, object,
                     mapped, sem, left>>
      /\ ~lost' => ~lost
      /\ \/ /\ spc \notin {"idle", "ended"} /\ spc' = "ended" /\ sres' = "killed"
            /\ rpc' = rpc /\ lost' = lost
         \/ rpc' = "ended" /\ spc' = spc /\ sres' = sres /\ lost' = TRUE
  BY StepFrames
  DEF SKill, RKill, SExit, RExit, SenderBusy, senderData, queueVars, pipeVars, shmVars
<1>2. Counts'
  BY <1>1 DEF CInvariant, Counts
<1>3. Answering'
  BY <1>1 DEF CInvariant, Answering, AtMessage
<1>4. StoredMessages'
  BY <1>1 DEF CInvariant, Answering, AtMessage, StoredMessages
<1>5. QueuedPieces'
  BY <1>1, PiecesKept DEF CInvariant
<1>6. PipedBytes'
  BY <1>1, BytesKept DEF CInvariant
<1>7. Mapping'
  BY <1>1 DEF CInvariant, Mapping
<1>8. TurnsGiven'
  <2>1. /\ HasTurn(spc) \in {0, 1} /\ HasTurn(rpc) \in {0, 1}
        /\ HasTurn(spc') \in {0, HasTurn(spc)} /\ HasTurn(rpc') \in {0, HasTurn(rpc)}
    BY <1>1 DEF HasTurn
  <2>2. rpc' \in {"idle", "flag", "openSem", "hello"} => rpc' = rpc
    BY <1>1
  <2> QED
    BY <1>1, <2>1, <2>2 DEF CInvariant, TurnsGiven, Turns
<1> QED
  BY <1>2, <1>3, <1>4, <1>5, <1>6, <1>7, <1>8 DEF CInvariant

-----------------------------------------------------------------------------
(* The invariant and what follows from it *)

(* The invariant holds at the start.                                       *)
LEMMA InitInvariant == Init => CInvariant
<1> SUFFICES ASSUME Init PROVE CInvariant
  OBVIOUS
<1>1. /\ method \in {"message", "queue", "pipe", "shm"}
      /\ spc = "idle" /\ rpc = "idle" /\ sres = "none" /\ size \in Nat
      /\ measured = 0 /\ sent = 0 /\ last = 0 /\ out = << >> /\ queue = << >>
      /\ pipe = << >> /\ sem = left /\ left \in Nat
      /\ text \in [Objects -> Seq(Int)]
      /\ object \in {"none", "old"} /\ mapped = "none"
  <2>1. {<< >>, Garbage} \subseteq Seq(Int)
    BY DEF Garbage
  <2>2. text \in [Objects -> Seq(Int)]
    BY <2>1 DEF Init, ShmInit
  <2>3. left \in Nat
    BY ShmAssumption DEF Init, ShmInit
  <2> QED
    BY <2>2, <2>3, CAssumption DEF Init, ProgramInit, QueueInit, PipeInit, ShmInit
<1>2. Stretch(0, 0) = << >> /\ Len(<< >>) = 0
  BY DEF Stretch
<1>3. Counts
  BY <1>1 DEF Counts
<1>4. Answering /\ StoredMessages
  BY <1>1, <1>2 DEF Answering, AtMessage, StoredMessages
<1>5. QueuedPieces
  <2>1. Cuts([i \in 1..1 |-> 0])
    BY <1>1 DEF Cuts
  <2> QED
    BY <1>1, <1>2, <2>1 DEF QueuedPieces
<1>6. PipedBytes
  BY <1>1, <1>2 DEF PipedBytes
<1>7. Mapping /\ TurnsGiven
  BY <1>1 DEF Mapping, TurnsGiven, Turns, HasTurn
<1> QED
  BY <1>3, <1>4, <1>5, <1>6, <1>7 DEF CInvariant

(* Every step keeps the invariant.                                         *)
LEMMA NextInvariant == CInvariant /\ [Next]_vars => CInvariant'
<1> SUFFICES ASSUME CInvariant, [Next]_vars PROVE CInvariant'
  OBVIOUS
<1> USE DEF CInvariant
<1>1. CASE ByMessage(MessageSender \/ MessageReceiver)
  <2>1. /\ method = "message" /\ (MessageSender \/ MessageReceiver)
        /\ UNCHANGED <<queue, pipe, text>>
    BY <1>1 DEF ByMessage, queueVars, pipeVars, shmVars
  <2>2. UNCHANGED <<object, mapped, sem, left>>
    BY <1>1 DEF ByMessage, shmVars
  <2>3. method' = "message" /\ Counts' /\ Answering' /\ StoredMessages'
    BY <2>1, MessageSteps
  <2> QED
    BY <2>2, <2>3 DEF QueuedPieces, PipedBytes, Mapping, TurnsGiven
<1>2. CASE ByQueue(QueueSender \/ QueueReceiver)
  <2>1. /\ method = "queue" /\ (QueueSender \/ QueueReceiver)
        /\ UNCHANGED <<pipe, text>>
    BY <1>2 DEF ByQueue, pipeVars, shmVars
  <2>2. UNCHANGED <<object, mapped, sem, left>>
    BY <1>2 DEF ByQueue, shmVars
  <2>3. method' = "queue" /\ Counts' /\ QueuedPieces'
    BY <2>1, QueueSteps
  <2> QED
    BY <2>2, <2>3 DEF Answering, StoredMessages, PipedBytes, Mapping, TurnsGiven
<1>3. CASE ByPipe(PipeSender \/ PipeReceiver \/ PipeMeet)
  <2>1. /\ method = "pipe" /\ (PipeSender \/ PipeReceiver \/ PipeMeet)
        /\ UNCHANGED <<queue, text>>
    BY <1>3 DEF ByPipe, queueVars, shmVars
  <2>2. UNCHANGED <<object, mapped, sem, left>>
    BY <1>3 DEF ByPipe, shmVars
  <2>3. method' = "pipe" /\ Counts' /\ PipedBytes'
    BY <2>1, PipeSteps
  <2> QED
    BY <2>2, <2>3 DEF Answering, StoredMessages, QueuedPieces, Mapping, TurnsGiven
<1>4. CASE ByShm(ShmSender \/ ShmReceiver)
  <2>1. /\ method = "shm" /\ (ShmSender \/ ShmReceiver)
        /\ UNCHANGED <<queue, pipe>>
    BY <1>4 DEF ByShm, queueVars, pipeVars
  <2>2. method' = "shm" /\ Counts' /\ Mapping' /\ TurnsGiven'
    BY <2>1, ShmSteps
  <2> QED
    BY <2>2 DEF Answering, StoredMessages, QueuedPieces, PipedBytes
<1>5. CASE Killed
  BY <1>5, KillSteps DEF Killed
<1>6. CASE UNCHANGED vars
  <2>1. UNCHANGED <<method, spc, rpc, sres, size, measured, sent, last, out, lost, queue,
                    pipe, text, object, mapped, sem, left>>
    BY <1>6 DEF vars, programVars, senderData, receiverData, queueVars, pipeVars, shmVars
  <2>2. QueuedPieces'
    BY <2>1, PiecesKept
  <2> QED
    BY <2>1, <2>2
    DEF Counts, Answering, AtMessage, StoredMessages, PipedBytes, Mapping, TurnsGiven, Turns,
        HasTurn
<1> QED
  BY <1>1, <1>2, <1>3, <1>4, <1>5, <1>6
  DEF Next, SenderStep, ReceiverStep, ByMessage, ByQueue, ByPipe, ByShm

(* The invariant holds in every reachable state, whatever the method.      *)
THEOREM CInvariantHolds == Spec => []CInvariant
BY InitInvariant, NextInvariant, PTL DEF Spec

(* Whatever the lengths, the sizes of buffer, queue and FIFO and the       *)
(* disturbances: a receiver stores nothing by message, queue or pipe that  *)
(* is not the next byte of the source, unless a write was lost.            *)
THEOREM CopyIsPrefixHolds == Spec => []CopyIsPrefix
<1>1. CInvariant => CopyIsPrefix
  BY DEF CInvariant, Counts, StoredMessages, QueuedPieces, PipedBytes, CopyIsPrefix
<1> QED
  BY <1>1, CInvariantHolds, PTL

(* Whatever fails and whichever program is killed: a sender of messages    *)
(* that ends with success knows that the receiver has written the whole    *)
(* file, if its length has not changed and fits an int.                    *)
THEOREM AcknowledgedHolds == Spec => []Acknowledged
<1>1. ASSUME CInvariant PROVE Acknowledged
  <2> SUFFICES ASSUME method = "message", sres = "success", measured = size,
                      size < IntHalf, ~lost
               PROVE  Copied
    BY DEF Acknowledged
  <2>1. /\ size \in Nat /\ sent \in Nat /\ sent <= size
        /\ spc = "ended" /\ AsInt(size) <= sent
        /\ out = Stretch(0, Len(out))
        /\ Len(out) = IF rpc = "reply" THEN sent + last ELSE sent
    BY <1>1 DEF CInvariant, Counts, Answering, StoredMessages
  <2>2. AsInt(size) = size
    <3>1. size % (2 * IntHalf) = size
      BY <2>1, CAssumption
    <3> QED
      BY <3>1, CAssumption DEF AsInt
  <2>3. rpc # "reply"
    BY <1>1, <2>1 DEF CInvariant, Answering, AtMessage
  <2> QED
    BY <2>1, <2>2, <2>3 DEF Copied
<1> QED
  BY <1>1, CInvariantHolds, PTL

(* Whoever is killed or fails, and whatever objects and turns earlier      *)
(* sessions left: a session adds at most one turn to those of its          *)
(* semaphore, and so gives at most one if the semaphore is new.            *)
THEOREM OneTurnHolds == Spec => []OneTurn
<1>1. CInvariant => OneTurn
  BY DEF CInvariant, TurnsGiven, OneTurn
<1> QED
  BY <1>1, CInvariantHolds, PTL
=============================================================================

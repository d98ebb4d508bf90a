------------------------- MODULE QueueSession_proofs -------------------------
(***************************************************************************)
(* Proofs about QueueSession for every buffer size, every capacity of the  *)
(* queue, every set of lengths and every set of disturbances: type         *)
(* correctness for every queue left over; the safety properties, and the   *)
(* promise of FileCopy, for pairs that start on no queue or an empty one.  *)
(***************************************************************************)
EXTENDS QueueSessionInvariant, CopyFileThroughIPC_proofs

USE DEF SGoto, RGoto, SConclude, RConclude, SFails, RFails, STimeout, RTimeout,
        PutFails, GetFails, outcomes, senderData, receiverData

-----------------------------------------------------------------------------
(* Data *)

(* The messages a program makes, and the bytes a message is stored as.     *)
LEMMA MessageTypes ==
  /\ \A n \in Nat : Header(n) \in Messages
  /\ \A from \in Nat, n \in Nat : Data(from, n) \in Messages
  BY DEF Header, Data, Messages

(* A message is a sequence of bytes.                                       *)
LEMMA BytesOfType ==
  ASSUME NEW m \in Messages
  PROVE  BytesOf(m) \in Seq(Int)
<1> m.n \in Nat /\ m.from \in Nat /\ BufferSize \in Nat
  BY BufferSizeAssumption DEF Messages
<1>1. CASE m.kind = "header"
  <2>1. [i \in 1..BufferSize |-> HeaderByte(m.n)] \in Seq(Int)
    BY DEF HeaderByte
  <2> QED
    BY <1>1, <2>1 DEF BytesOf
<1>2. CASE m.kind = "data"
  <2>1. Stretch(m.from, m.n) \in Seq(Int)
    BY StretchSeq
  <2> QED
    BY <1>2, <2>1 DEF BytesOf
<1>3. CASE m.kind # "header" /\ m.kind # "data"
  <2>1. [i \in 1..m.n |-> 0] \in Seq(Int)
    OBVIOUS
  <2> QED
    BY <1>3, <2>1 DEF BytesOf
<1> QED
  BY <1>1, <1>2, <1>3

-----------------------------------------------------------------------------
(* Type correctness *)

(* The types hold at the start.                                            *)
LEMMA TypeInit == Init => TypeOK
<1> SUFFICES ASSUME Init PROVE TypeOK
  OBVIOUS
<1>1. PICK c \in Leftovers : linked = c.linked /\ queue = c.queue
  BY DEF Init
<1>2. linked \in BOOLEAN /\ queue \in Seq(Messages)
  BY <1>1, QueueLeftoversAssumption
<1>3. inbox \in Messages
  BY MessageTypes DEF Init
<1>4. present \in BOOLEAN
  BY Zenon DEF Init
<1> QED
  BY <1>2, <1>3, <1>4, BufferSizeAssumption, SizesAssumption, SMT
  DEF Init, TypeOK, SenderLabels, ReceiverLabels, Outcomes, Unset

(* The steps of the sender keep the types.                                 *)
LEMMA TypeSender ==
  ASSUME TypeOK, SLaunch \/ SenderStep \/ SCallFails \/ SKill
  PROVE  TypeOK'
<1> USE BufferSizeAssumption, SizesAssumption
    DEF TypeOK, SenderLabels, Outcomes
<1>1. CASE SLaunch
  BY <1>1, SMT DEF SLaunch
<1>2. CASE SOpen
  BY <1>2, SMT DEF SOpen
<1>3. CASE SCheck
  BY <1>3, SMT DEF SCheck
<1>4. CASE SMeasure
  <2>1. announced' \in Sizes \cup {Unset} /\ (spc' = "sendHeader" => announced' \in Sizes)
    BY <1>4, SMT DEF SMeasure, AnnouncedSizes
  <2> QED
    BY <1>4, <2>1, SMT DEF SMeasure
<1>5. CASE SSendHeader
  <2>1. queue' \in Seq(Messages)
    <3>1. Header(announced) \in Messages
      BY <1>5, MessageTypes DEF SSendHeader
    <3>2. Append(queue, Header(announced)) \in Seq(Messages)
      BY <3>1, AppendProperties
    <3>3. queue' = Append(queue, Header(announced)) \/ queue' = queue
      BY <1>5, Zenon DEF SSendHeader, Put
    <3> QED
      BY <3>2, <3>3
  <2> QED
    BY <1>5, <2>1, SMT DEF SSendHeader
<1>6. CASE SFill
  <2>1. sent \in Nat /\ size \in Nat
    BY SMT
  <2>2. ReadFile(sent, size) \in 0..BufferSize
    BY <2>1, ReadFileBounds, Zenon
  <2>3. lastRead' \in 0..BufferSize /\ sent' \in Nat /\ lastRead' <= sent'
    BY <1>6, <2>1, <2>2, SMT DEF SFill
  <2>4. spc' \in {"send", "unlink"} /\ sres' \in Outcomes
    BY <1>6, SMT DEF SFill
  <2> QED
    BY <1>6, <2>3, <2>4 DEF SFill
<1>7. CASE SSend
  <2>1. queue' \in Seq(Messages)
    <3>1. sent - lastRead \in Nat /\ lastRead \in Nat
      BY SMT
    <3>2. Data(sent - lastRead, lastRead) \in Messages
      BY <3>1, MessageTypes
    <3>3. Append(queue, Data(sent - lastRead, lastRead)) \in Seq(Messages)
      BY <3>2, AppendProperties
    <3>4. queue' = Append(queue, Data(sent - lastRead, lastRead)) \/ queue' = queue
      BY <1>7, Zenon DEF SSend, Put
    <3> QED
      BY <3>3, <3>4
  <2> QED
    BY <1>7, <2>1, SMT DEF SSend, Verdict
<1>8. CASE SUnlink
  <2>1. linked' \in BOOLEAN
    BY <1>8, Zenon DEF SUnlink
  <2> QED
    BY <1>8, <2>1, SMT DEF SUnlink
<1>9. CASE SCallFails
  BY <1>9, SMT DEF SCallFails
<1>10. CASE SKill
  BY <1>10, SMT DEF SKill
<1> QED
  BY <1>1, <1>2, <1>3, <1>4, <1>5, <1>6, <1>7, <1>8, <1>9, <1>10 DEF SenderStep

(* The steps of the receiver keep the types.                               *)
LEMMA TypeReceiver ==
  ASSUME TypeOK, RLaunch \/ ReceiverStep \/ RCallFails \/ RKill
  PROVE  TypeOK'
<1> USE BufferSizeAssumption, SizesAssumption
    DEF TypeOK, ReceiverLabels, Outcomes
<1>1. CASE RLaunch
  <2>1. present' \in BOOLEAN
    BY <1>1, Zenon DEF RLaunch
  <2> QED
    BY <1>1, <2>1, SMT DEF RLaunch
<1>2. CASE RCreate
  <2>1. linked' \in BOOLEAN
    BY <1>2, Zenon DEF RCreate
  <2>2. queue' = queue \/ queue' = << >>
    BY <1>2, Zenon DEF RCreate
  <2>3. queue' \in Seq(Messages)
    BY <2>2, EmptySeq, Zenon
  <2>4. /\ rpc' \in ReceiverLabels /\ rres' \in Outcomes
        /\ UNCHANGED <<spc, sres, size, senderData, receiverData>>
    BY <1>2 DEF RCreate
  <2> QED
    BY <2>1, <2>3, <2>4, SMT
<1>3. CASE RReceiveHeader
  <2>1. queue # << >> => Head(queue) \in Messages /\ Tail(queue) \in Seq(Messages)
    BY HeadTailProperties
  <2>3. \A m \in Messages : m.n \in Nat
    BY DEF Messages
  <2>2. queue' \in Seq(Messages) /\ expected' \in Nat \cup {Unset}
    BY <1>3, <2>1, <2>3 DEF RReceiveHeader, Get
  <2> QED
    BY <1>3, <2>2, SMT DEF RReceiveHeader
<1>4. CASE RReceive
  <2>1. queue # << >> => Head(queue) \in Messages /\ Tail(queue) \in Seq(Messages)
    BY HeadTailProperties
  <2>2. queue' \in Seq(Messages) /\ inbox' \in Messages
    BY <1>4, <2>1 DEF RReceive, Get
  <2> QED
    BY <1>4, <2>2, SMT DEF RReceive
<1>5. CASE RStore
  <2>1. out \o BytesOf(inbox) \in Seq(Int)
    BY BytesOfType
  <2>2. out' \in Seq(Int)
    BY <1>5, <2>1 DEF RStore
  <2>3. held' \in 0..(BufferSize - 1)
    <3>1. Len(BytesOf(inbox)) \in Nat
      BY BytesOfType
    <3> QED
      BY <1>5, <3>1, SMT DEF RStore, HeldOf
  <2> QED
    BY <1>5, <2>2, <2>3, SMT DEF RStore, Verdict
<1>6. CASE RUnlink
  <2>1. linked' \in BOOLEAN
    BY <1>6, Zenon DEF RUnlink
  <2> QED
    BY <1>6, <2>1, SMT DEF RUnlink
<1>7. CASE RRemove
  <2>1. present' \in BOOLEAN
    BY <1>7, Zenon DEF RRemove
  <2> QED
    BY <1>7, <2>1, SMT DEF RRemove
<1>8. CASE RCallFails
  BY <1>8, SMT DEF RCallFails
<1>9. CASE RKill
  <2>1. out' \in Seq(Int)
    <3>1. out' \in CopiesOfKilled(out, held) /\ held \in Nat
      BY <1>9 DEF RKill
    <3> QED
      BY <3>1, CopyType
  <2> QED
    BY <1>9, <2>1, SMT DEF RKill
<1>10. CASE RCloseCopy
  <2>1. out' \in Seq(Int)
    <3>1. out' \in ClosedCopies(out, held) /\ held \in Nat
      BY <1>10 DEF RCloseCopy
    <3> QED
      BY <3>1, CopyType
  <2> QED
    BY <1>10, <2>1, SMT DEF RCloseCopy
<1> QED
  BY <1>1, <1>2, <1>3, <1>4, <1>5, <1>6, <1>7, <1>8, <1>9, <1>10 DEF ReceiverStep

(* Every step keeps the types.                                             *)
LEMMA TypeStep == TypeOK /\ [Next]_vars => TypeOK'
<1> SUFFICES ASSUME TypeOK, [Next]_vars PROVE TypeOK'
  OBVIOUS
<1>1. CASE UNCHANGED vars
  BY <1>1 DEF vars, TypeOK
<1>2. CASE Next
  BY <1>1, <1>2, TypeSender, TypeReceiver DEF Next, Stopped
<1> QED
  BY <1>1, <1>2

(* The counters, the messages and the results always have their type,      *)
(* whatever was left in the queue and whatever disturbs the programs.      *)
THEOREM TypeCorrect == SafetySpec => []TypeOK
  BY TypeInit, TypeStep, PTL DEF SafetySpec

-----------------------------------------------------------------------------
(* Messages and their order *)

(* Products of a number of pieces and the length of a piece: their type,   *)
(* successor and order.                                                    *)
LEMMA Multiples ==
  ASSUME NEW a \in Nat, NEW b \in Nat
  PROVE  /\ a * b \in Nat
         /\ (a + 1) * b = a * b + b
         /\ \A c \in Nat : a < c => a * b + b <= c * b
<1>1. a * b \in Nat /\ (a + 1) * b = a * b + b
  OBVIOUS
<1>2. ASSUME NEW c \in Nat, a < c
      PROVE  a * b + b <= c * b
  <2>1. PICK d \in Nat : c = a + 1 + d
    <3>1. c - a - 1 \in Nat /\ c = a + 1 + (c - a - 1)
      BY <1>2
    <3> QED
      BY <3>1
  <2>2. c * b = a * b + b + d * b /\ d * b \in Nat
    BY <2>1
  <2> QED
    BY <1>1, <2>2
<1> QED
  BY <1>1, <1>2

(* A piece of the source lies within it; a short one is the last.          *)
LEMMA PieceBounds ==
  ASSUME size \in Nat, NEW m \in Messages, Piece(m)
  PROVE  /\ m.kind = "data" /\ m.from \in Nat /\ m.n \in 0..BufferSize
         /\ End(m) = m.from + m.n /\ End(m) <= size
         /\ m.n < BufferSize => End(m) = size
<1>1. m.from \in Nat /\ m.n = ReadFile(m.from, size) /\ m.from <= size /\ m.kind = "data"
  BY DEF Messages, Piece
<1> QED
  BY <1>1, ReadFileBounds, BufferSizeAssumption DEF End

(* The length and the elements of a queue of messages.                     *)
LEMMA QueueFacts ==
  ASSUME queue \in Seq(Messages)
  PROVE  /\ Len(queue) \in Nat
         /\ queue = << >> <=> Len(queue) = 0
         /\ \A i \in 1..Len(queue) : queue[i] \in Messages
  BY EmptySeq

(* What a queue holds after a message was taken from it, or put into it.   *)
LEMMA Popped ==
  ASSUME queue \in Seq(Messages), queue # << >>, queue' = Tail(queue)
  PROVE  /\ Len(queue) \in Nat /\ Len(queue) >= 1
         /\ Len(queue') = Len(queue) - 1
         /\ queue' = << >> <=> Len(queue) = 1
         /\ Head(queue) = queue[1] /\ queue[1] \in Messages
         /\ \A i \in 1..(Len(queue) - 1) : queue'[i] = queue[i + 1]
<1>1. /\ Tail(queue) \in Seq(Messages)
      /\ Len(Tail(queue)) = Len(queue) - 1
      /\ \A i \in 1..Len(Tail(queue)) : Tail(queue)[i] = queue[i + 1]
  BY HeadTailProperties
<1>2. Len(queue) \in Nat /\ Len(queue) >= 1
  BY EmptySeq
<1>3. Tail(queue) = << >> <=> Len(Tail(queue)) = 0
  BY <1>1, EmptySeq
<1>4. Head(queue) = queue[1] /\ queue[1] \in Messages
  BY <1>2
<1> QED
  BY <1>1, <1>2, <1>3, <1>4

(* What a queue holds after a message was put into it.                     *)
LEMMA Pushed ==
  ASSUME queue \in Seq(Messages), NEW m \in Messages, queue' = Append(queue, m)
  PROVE  /\ Len(queue) \in Nat
         /\ Len(queue') = Len(queue) + 1
         /\ queue' # << >>
         /\ queue'[Len(queue) + 1] = m
         /\ \A i \in 1..Len(queue) : queue'[i] = queue[i]
  BY AppendProperties

(* The piece in the receiver's buffer is what the copy needs next.         *)
LEMMA StoredPiece ==
  ASSUME IInv, rpc = "store"
  PROVE  /\ Len(out) \in Nat /\ inbox.n \in 0..BufferSize
         /\ inbox.from = Len(out) /\ End(inbox) = Len(out) + inbox.n
         /\ BytesOf(inbox) = Stretch(Len(out), inbox.n)
         /\ Len(BytesOf(inbox)) = inbox.n
         /\ out \o BytesOf(inbox) = Stretch(0, Len(out) + inbox.n)
         /\ Len(out \o BytesOf(inbox)) = Len(out) + inbox.n
         /\ Len(out) + inbox.n <= size
         /\ inbox.n < BufferSize => Len(out) + inbox.n = size
<1>1. /\ size \in Nat /\ inbox \in Messages /\ out \in Seq(Int)
      /\ Piece(inbox) /\ inbox.from = Len(out) /\ out = Stretch(0, Len(out))
  BY SizesAssumption DEF IInv, TypeOK, HeadFits, Prefix
<1>2. /\ Len(out) \in Nat /\ inbox.n \in 0..BufferSize /\ inbox.n \in Nat
      /\ inbox.kind = "data" /\ End(inbox) = Len(out) + inbox.n
      /\ Len(out) + inbox.n <= size
      /\ inbox.n < BufferSize => Len(out) + inbox.n = size
  BY <1>1, PieceBounds, BufferSizeAssumption
<1>3. BytesOf(inbox) = Stretch(Len(out), inbox.n)
  BY <1>1, <1>2 DEF BytesOf
<1>4. \A m \in Nat, n \in Nat :
        /\ Len(Stretch(m, n)) = n
        /\ Stretch(0, m) \o Stretch(m, n) = Stretch(0, m + n)
        /\ Len(Stretch(0, m) \o Stretch(m, n)) = m + n
  BY StretchSeq, StretchGrows
<1>5. out \o BytesOf(inbox) = Stretch(0, Len(out)) \o Stretch(Len(out), inbox.n)
  BY <1>1, <1>3, Zenon
<1>6. /\ Len(BytesOf(inbox)) = inbox.n
      /\ out \o BytesOf(inbox) = Stretch(0, Len(out) + inbox.n)
      /\ Len(out \o BytesOf(inbox)) = Len(out) + inbox.n
  BY <1>2, <1>3, <1>4, <1>5, ZenonT(30)
<1> QED
  BY <1>1, <1>2, <1>3, <1>6, Zenon

-----------------------------------------------------------------------------
(* The invariant of a quiet queue: its parts about control, then those     *)
(* about the messages, for each program, one step for each action.         *)

USE DEF SenderLabels, ReceiverLabels, NotSent, Sending, NotReceived, Receiving, Unset

(* What the proofs about a step use of the state before it.                *)
LEMMA Before ==
  ASSUME IInv
  PROVE  /\ spc \in SenderLabels /\ rpc \in ReceiverLabels
         /\ sres \in Outcomes /\ rres \in Outcomes
         /\ queue \in Seq(Messages) /\ inbox \in Messages /\ out \in Seq(Int)
         /\ size \in Nat /\ sent \in Nat /\ Len(out) \in Nat
         /\ BufferSize \in Nat \ {0} /\ Capacity \in Nat \ {0}
         /\ lastRead \in 0..BufferSize /\ lastRead <= sent
         /\ announced \in Nat \cup {Unset} /\ expected \in Nat \cup {Unset}
         /\ spc = "sendHeader" => announced \in Nat
         /\ OneQueue /\ NothingSent /\ Chained /\ HeadFits /\ TailFits
         /\ Ahead /\ Prefix /\ Results /\ Held /\ NameGone
         /\ held \in 0..(BufferSize - 1)
  BY BufferSizeAssumption, SizesAssumption, CapacityAssumption DEF IInv, TypeOK

(* The header that is received is the one that was sent.                   *)
LEMMA HeaderReceived ==
  ASSUME IInv, rpc = "receiveHeader", queue # << >>
  PROVE  /\ Head(queue) = queue[1] /\ queue[1] = Header(announced)
         /\ Head(queue).kind = "header" /\ Head(queue).n = announced
         /\ announced \in Nat /\ spc \notin NotSent
<1>1. queue[1] \in Messages /\ Head(queue) = queue[1]
  BY Before, QueueFacts
<1>2. queue[1] = Header(announced) /\ spc \notin NotSent
  BY Before DEF HeadFits, NothingSent
<1>3. announced \in Nat
  BY <1>1, <1>2 DEF Header, Messages
<1> QED
  BY <1>1, <1>2, <1>3 DEF Header

(* What a kill of the receiver, or closing the copy, takes away.           *)
LEMMA Loses ==
  ASSUME IInv, RKill \/ RCloseCopy
  PROVE  \E k \in 0..held :
           /\ out' = SubSeq(out, 1, Len(out) - k)
           /\ Len(out') = Len(out) - k /\ out' = Stretch(0, Len(out) - k)
           /\ k > 0 => Len(out) = size /\ spc \notin Sending
           /\ RCloseCopy => k <= MostLost(held)
<1>1. /\ out \in Seq(Int) /\ held \in 0..(BufferSize - 1)
      /\ out = Stretch(0, Len(out)) /\ Held
  BY Before DEF Prefix
<1>2. held \in 0..Len(out)
  BY <1>1 DEF Held
<1>3. CASE RKill
  <2>1. out' \in CopiesOfKilled(out, held)
    BY <1>3 DEF RKill
  <2>2. PICK k \in {0, held} :
           /\ out' = SubSeq(out, 1, Len(out) - k)
           /\ Len(out') = Len(out) - k /\ out' = Stretch(0, Len(out) - k)
    BY <1>1, <1>2, <2>1, CopyOfKilled
  <2>3. ~RCloseCopy
    BY <1>3, Before DEF RKill, RCloseCopy, Results
  <2>4. k \in 0..held /\ (k > 0 => Len(out) = size /\ spc \notin Sending)
    BY <1>1 DEF Held
  <2> QED
    BY <2>2, <2>3, <2>4
<1>4. CASE RCloseCopy
  <2>1. out' \in ClosedCopies(out, held)
    BY <1>4 DEF RCloseCopy
  <2>2. PICK k \in 0..MostLost(held) :
           /\ out' = SubSeq(out, 1, Len(out) - k)
           /\ Len(out') = Len(out) - k /\ out' = Stretch(0, Len(out) - k)
    BY <1>1, <1>2, <2>1, ClosedCopy
  <2>3. k \in 0..held /\ k <= MostLost(held)
    BY <1>1, MostLostBounds
  <2>4. k > 0 => Len(out) = size /\ spc \notin Sending
    BY <1>1, <2>3 DEF Held
  <2> QED
    BY <2>2, <2>3, <2>4
<1> QED
  BY <1>3, <1>4

(* What is said of turns, queues and names: the steps of the sender keep   *)
(* it.                                                                     *)
LEMMA ControlSender ==
  ASSUME IInv, SLaunch \/ SenderStep \/ SCallFails \/ SKill
  PROVE  OneQueue' /\ NothingSent' /\ Results' /\ Held' /\ NameGone'
<1> /\ spc \in SenderLabels /\ rpc \in ReceiverLabels
    /\ sres \in Outcomes /\ rres \in Outcomes
    /\ queue \in Seq(Messages)
    /\ size \in Nat /\ sent \in Nat /\ BufferSize \in Nat \ {0}
    /\ lastRead \in 0..BufferSize
    /\ announced \in Nat \cup {Unset}
    /\ OneQueue /\ NothingSent /\ Results /\ Held /\ NameGone
  BY Before
<1> USE DEF OneQueue, NothingSent, Results, Held, NameGone, Outcomes
<1>1. CASE SLaunch
  BY <1>1 DEF SLaunch
<1>2. CASE SOpen
  BY <1>2 DEF SOpen
<1>3. CASE SCheck
  BY <1>3 DEF SCheck
<1>4. CASE SMeasure
  <2>1. CASE spc' = "sendHeader"
    <3>1. announced' \in Nat
      BY <1>4, <2>1, SizesAssumption DEF SMeasure, AnnouncedSizes
    <3> QED
      BY <1>4, <2>1, <3>1 DEF SMeasure
  <2>2. CASE spc' # "sendHeader"
    BY <1>4, <2>2 DEF SMeasure
  <2> QED
    BY <2>1, <2>2
<1>5. CASE SSendHeader
  <2>1. CASE spc' = "fill"
    <3>1. /\ spc = "sendHeader" /\ announced # 0
          /\ UNCHANGED <<rpc, sres, rres, linked, size, announced, sent, lastRead,
                         expected, inbox, out, held, present>>
      BY <1>5, <2>1 DEF SSendHeader
    <3>2. announced \in Nat
      BY <3>1, Before
    <3>3. OneQueue' /\ NameGone'
      BY <2>1, <3>1
    <3>5. Results' /\ Held'
      BY <2>1, <3>1
    <3>4. NothingSent'
      BY <2>1, <3>1, <3>2
    <3> QED
      BY <3>3, <3>4, <3>5
  <2>2. CASE spc' # "fill"
    BY <1>5, <2>2 DEF SSendHeader
  <2> QED
    BY <2>1, <2>2
<1>6. CASE SFill
  BY <1>6 DEF SFill
<1>7. CASE SSend
  <2>1. CASE spc' = "fill"
    BY <1>7, <2>1 DEF SSend
  <2>2. CASE spc' # "fill"
    <3>1. ASSUME sres' = "success"
          PROVE  announced = size /\ sent = size /\ size > 0
      <4>1. /\ spc = "send" /\ sent = announced /\ announced > 0
            /\ ~More(lastRead, sent, announced)
        BY <1>7, <2>2, <3>1 DEF SSend, Verdict
      <4>2. lastRead = ReadFile(sent - lastRead, size) /\ sent - lastRead <= size
        BY <4>1, Before DEF TailFits, Produced
      <4>3. lastRead < BufferSize
        BY <4>1 DEF More
      <4>4. sent - lastRead \in Nat
        BY Before
      <4> QED
        BY <4>1, <4>2, <4>3, <4>4 DEF ReadFile
    <3> QED
      BY <1>7, <2>2, <3>1 DEF SSend, Verdict
  <2> QED
    BY <2>1, <2>2
<1>8. CASE SUnlink
  BY <1>8 DEF SUnlink
<1>9. CASE SCallFails
  BY <1>9 DEF SCallFails
<1>10. CASE SKill
  BY <1>10 DEF SKill
<1> QED
  BY <1>1, <1>2, <1>3, <1>4, <1>5, <1>6, <1>7, <1>8, <1>9, <1>10 DEF SenderStep

(* What is said of turns, queues and names: the steps of the receiver keep *)
(* it.                                                                     *)
LEMMA ControlReceiver ==
  ASSUME IInv, RLaunch \/ ReceiverStep \/ RCallFails \/ RKill
  PROVE  OneQueue' /\ NothingSent' /\ Results' /\ Held' /\ NameGone'
<1> /\ spc \in SenderLabels /\ rpc \in ReceiverLabels
    /\ sres \in Outcomes /\ rres \in Outcomes
    /\ queue \in Seq(Messages)
    /\ size \in Nat /\ BufferSize \in Nat \ {0}
    /\ announced \in Nat \cup {Unset} /\ expected \in Nat \cup {Unset}
    /\ OneQueue /\ NothingSent /\ Results /\ Held /\ NameGone
  BY Before
<1> USE DEF OneQueue, NothingSent, Results, Held, NameGone, Outcomes
<1>1. CASE RLaunch
  BY <1>1 DEF RLaunch
<1>2. CASE RCreate
  BY <1>2 DEF RCreate
<1>3. CASE RReceiveHeader
  <2>1. CASE queue # << >> /\ expected' # expected
    BY <1>3, <2>1, HeaderReceived DEF RReceiveHeader, Get
  <2>2. CASE expected' = expected
    BY <1>3, <2>2, HeaderReceived DEF RReceiveHeader, Get
  <2> QED
    BY <1>3, <2>1, <2>2 DEF RReceiveHeader, Get
<1>4. CASE RReceive
  BY <1>4 DEF RReceive, Get
<1>5. CASE RStore
  <2>1. CASE out' = out \o BytesOf(inbox) /\ held' \in HeldOf(Len(BytesOf(inbox)))
    <3>1. /\ held' > 0 => held' = inbox.n /\ inbox.n < BufferSize
          /\ Len(BytesOf(inbox)) = inbox.n /\ inbox.n \in Nat
          /\ Len(out') = Len(out) + inbox.n /\ Len(out) \in Nat
          /\ inbox.n < BufferSize => Len(out') = size
      BY <1>5, <2>1, StoredPiece DEF RStore, HeldOf
    <3>2. spc \notin {"unlink", "ended"} => inbox.n = BufferSize
      BY <1>5, Before DEF RStore, TailFits, NothingSent
    <3>3. CASE rpc' = "receive"
      <4>1. inbox.n = BufferSize
        BY <1>5, <2>1, <3>1, <3>3 DEF RStore, More
      <4> QED
        BY <1>5, <2>1, <3>1, <3>3, <4>1 DEF RStore
    <3>4. CASE rpc' # "receive"
      <4>1. rres' \in {"success", "failure"} /\ rpc' = "unlink"
        BY <1>5, <2>1, <3>4 DEF RStore, Verdict
      <4>2. rres' = "success" => announced = size /\ Len(out') = size /\ size > 0
        BY <1>5, <2>1, <3>1, <3>4, StoredPiece DEF RStore, Verdict, More
      <4>3. Held'
        BY <1>5, <3>1, <3>2, <4>1 DEF RStore
      <4>4. MostLost(BufferSize - 1) \in Nat
        BY DEF MostLost
      <4>5. OneQueue' /\ NothingSent' /\ NameGone'
        BY <1>5, <4>1 DEF RStore
      <4>6. Results'
        BY <1>5, <4>1, <4>2, <4>4 DEF RStore
      <4> QED
        BY <4>3, <4>5, <4>6
    <3> QED
      BY <3>3, <3>4
  <2>2. CASE RFails /\ UNCHANGED <<out, held>>
    BY <1>5, <2>2, Before DEF RStore
  <2> QED
    BY <1>5, <2>1, <2>2, Zenon DEF RStore
<1>6. CASE RUnlink
  BY <1>6 DEF RUnlink
<1>7. CASE RRemove
  BY <1>7 DEF RRemove
<1>8. CASE RCallFails
  BY <1>8 DEF RCallFails
<1>9. CASE RKill
  BY <1>9 DEF RKill
<1>10. CASE RCloseCopy
  <2>1. PICK k \in 0..held :
          /\ Len(out') = Len(out) - k /\ k <= MostLost(held)
          /\ k > 0 => Len(out) = size
    BY <1>10, Loses
  <2>2. /\ MostLost(held) <= MostLost(BufferSize - 1)
        /\ MostLost(held) \in Nat /\ MostLost(BufferSize - 1) \in Nat
    BY Before DEF MostLost
  <2>4. /\ rpc = "closeCopy" /\ rres = "success" /\ Len(out) = size
        /\ UNCHANGED <<size, rres>>
    BY <1>10 DEF RCloseCopy
  <2>3. rres' = "success" => Len(out') \in (size' - MostLost(BufferSize - 1))..size'
    BY <2>1, <2>2, <2>4, Before
  <2> QED
    BY <1>10, <2>3 DEF RCloseCopy
<1> QED
  BY <1>1, <1>2, <1>3, <1>4, <1>5, <1>6, <1>7, <1>8, <1>9, <1>10 DEF ReceiverStep

(* The parts of the invariant that are about the messages.                 *)
Stream == Chained /\ HeadFits /\ TailFits /\ Ahead /\ Prefix

(* A sender that puts nothing and does not go on leaves them alone.        *)
LEMMA SenderRests ==
  ASSUME IInv, spc' \notin Sending,
         UNCHANGED <<rpc, queue, size, sent, out, inbox>>,
         announced' = announced \/ spc \in NotSent,
         sres' = "success" => sres = "success"
  PROVE  Stream'
<1>1. Chained' /\ Prefix'
  BY Before DEF Chained, Prefix, Piece, End
<1>2. HeadFits'
  BY Before DEF HeadFits, NothingSent, Piece, Reached, End
<1>3. TailFits' /\ Ahead'
  BY Before DEF TailFits, Ahead
<1> QED
  BY <1>1, <1>2, <1>3 DEF Stream

(* So does a receiver that takes nothing and waits for no data.            *)
LEMMA ReceiverRests ==
  ASSUME IInv, rpc' \notin Receiving, rpc' \in NotReceived => rpc \in NotReceived,
         UNCHANGED <<spc, sres, queue, size, announced, sent, lastRead, out, inbox>>
  PROVE  Stream'
<1>1. Chained' /\ Prefix'
  BY Before DEF Chained, Prefix, Piece, End
<1>2. HeadFits'
  BY Before DEF HeadFits, Piece, Reached, End
<1>3. TailFits'
  BY Before DEF TailFits, Produced, End, FullSoFar
<1>4. Ahead'
  BY Before DEF Ahead, Produced
<1> QED
  BY <1>1, <1>2, <1>3, <1>4 DEF Stream

(* The header is put into an empty queue.                                  *)
LEMMA HeaderPut ==
  ASSUME IInv, spc = "sendHeader", Put(Header(announced)),
         spc' \in {"fill", "unlink"}, sres' # "success",
         UNCHANGED <<rpc, size, announced, sent, out, inbox>>
  PROVE  Stream'
<1>1. /\ queue = << >> /\ rpc \notin Receiving /\ sent = 0 /\ announced \in Nat
      /\ BufferSize \in Nat /\ size \in Nat /\ Capacity \in Nat \ {0}
      /\ Len(out) \in Nat /\ Prefix
  BY Before DEF NothingSent
<1>2. queue' = <<Header(announced)>>
  BY <1>1 DEF Put
<1>3. Len(queue') = 1 /\ queue'[1] = Header(announced) /\ queue' # << >>
  BY <1>2
<1>4. Chained' /\ Prefix'
  BY <1>1, <1>3 DEF Chained, Prefix
<1>5. HeadFits'
  BY <1>1, <1>3 DEF HeadFits
<1>6. TailFits'
  BY <1>1, <1>3 DEF TailFits, Produced, FullSoFar, End, Header
<1>7. Ahead'
  BY <1>1, <1>3 DEF Ahead, Produced
<1> QED
  BY <1>4, <1>5, <1>6, <1>7 DEF Stream

(* A read only moves what the sender has to its own buffer.                *)
LEMMA BufferFilled ==
  ASSUME IInv, spc = "fill", spc' = "send",
         lastRead' = ReadFile(sent, size), sent' = sent + lastRead',
         UNCHANGED <<rpc, sres, queue, size, announced, out, inbox>>
  PROVE  Stream'
<1>1. /\ Produced = sent /\ Produced' = Produced
      /\ sres = "none"
  <2>1. sent \in Nat /\ lastRead' \in 0..BufferSize /\ BufferSize \in Nat
    BY Before, ReadFileBounds
  <2>2. sent' - lastRead' = sent
    BY <2>1
  <2> QED
    BY <2>2, Before DEF Produced, Results
<1>2. Chained' /\ Prefix'
  BY Before DEF Chained, Prefix, Piece, End
<1>3. HeadFits'
  BY Before DEF HeadFits, Piece, Reached, End
<1>4. TailFits'
  BY <1>1, Before DEF TailFits, Reached, End, FullSoFar
<1>5. Ahead'
  BY <1>1, Before DEF Ahead, Reached, End
<1> QED
  BY <1>2, <1>3, <1>4, <1>5 DEF Stream

(* The next piece of the source is put behind the others.                  *)
LEMMA PiecePut ==
  ASSUME IInv, spc = "send", Put(Data(sent - lastRead, lastRead)),
         \/ spc' = "fill" /\ lastRead = BufferSize /\ sres' = sres
         \/ spc' = "unlink",
         UNCHANGED <<rpc, size, announced, sent, lastRead, out, inbox>>
  PROVE  Stream'
<1> DEFINE n == Len(queue)
<1>0. PICK m : m = Data(Produced, lastRead)
  OBVIOUS
<1>1. /\ Produced \in Nat /\ Produced + lastRead = sent
      /\ lastRead = ReadFile(Produced, size)
      /\ Produced <= size /\ sent <= size /\ size \in Nat
      /\ lastRead \in 0..BufferSize /\ sres = "none"
  <2>1. Produced \in Nat /\ Produced + lastRead = sent
    BY Before DEF Produced
  <2>2. lastRead = ReadFile(Produced, size) /\ Produced <= size
    BY Before DEF TailFits
  <2> QED
    BY <2>1, <2>2, Before, ReadFileBounds DEF Results
<1>2. /\ m \in Messages /\ Piece(m) /\ Piece(m)' /\ m.from = Produced /\ m.n = lastRead
      /\ End(m) = sent /\ m.kind = "data" /\ queue' = Append(queue, m)
  <2>1. m = Data(sent - lastRead, lastRead)
    BY <1>0 DEF Produced
  <2>2. m \in Messages
    BY <1>0, <1>1, MessageTypes
  <2>3. m.kind = "data" /\ m.from = Produced /\ m.n = lastRead
    BY <1>0 DEF Data
  <2>4. Piece(m) /\ Piece(m)' /\ End(m) = sent
    BY <1>1, <2>3 DEF Piece, End
  <2> QED
    BY <2>1, <2>2, <2>3, <2>4 DEF Put
<1>3. /\ n \in Nat /\ Len(queue') = n + 1 /\ queue' # << >> /\ queue'[n + 1] = m
      /\ \A i \in 1..n : queue'[i] = queue[i]
      /\ queue = << >> <=> n = 0
  BY <1>2, Before, Pushed, QueueFacts
<1> HIDE DEF n
<1>4. Chained'
  <2> SUFFICES ASSUME NEW i \in 1..(n + 1), NEW j \in 1..(n + 1), j = i + 1
               PROVE  (Piece(queue[j]) /\ queue[j].from = End(queue[i]))'
    BY <1>3, Zenon DEF Chained
  <2>1. i \in 1..n /\ queue'[i] = queue[i]
    BY <1>3
  <2>2. CASE j \in 1..n
    <3>1. Piece(queue[j]) /\ queue[j].from = End(queue[i])
      BY <2>1, <2>2, Before DEF Chained, n
    <3>2. queue'[j] = queue[j]
      BY <1>3, <2>2
    <3> QED
      BY <2>1, <3>1, <3>2 DEF Piece, End
  <2>3. CASE j = n + 1
    <3>1. i = n /\ queue # << >>
      BY <1>3, <2>1, <2>3
    <3>2. Produced = End(queue[n])
      BY <3>1, Before DEF TailFits, n
    <3>3. queue'[j] = m /\ queue'[i] = queue[n]
      BY <1>3, <2>1, <2>3, <3>1
    <3> QED
      BY <1>2, <3>2, <3>3 DEF Piece, End
  <2> QED
    BY <1>3, <2>2, <2>3
<1>5. HeadFits'
  <2>1. CASE n = 0
    <3>1. queue'[1] = m /\ rpc \notin NotReceived
      BY <1>3, <2>1, Before DEF TailFits
    <3>2. rpc \in Receiving => Produced = Reached
      BY <1>3, <2>1, Before DEF TailFits
    <3> QED
      BY <1>2, <3>1, <3>2, Before DEF HeadFits, Piece, Reached, End
  <2>2. CASE n # 0
    <3>1. queue'[1] = queue[1] /\ queue # << >>
      BY <1>3, <2>2
    <3> QED
      BY <3>1, Before DEF HeadFits, Piece, Reached, End
  <2> QED
    BY <2>1, <2>2
<1>6. TailFits'
  <2>1. CASE spc' = "fill" /\ lastRead = BufferSize
    <3>1. Produced' = sent
      BY <2>1 DEF Produced
    <3>2. \A i \in 1..(n + 1) : FullSoFar(queue'[i])
      <4>1. \A i \in 1..n : FullSoFar(queue[i])
        BY Before DEF TailFits, n
      <4>2. FullSoFar(m)
        BY <1>2, <2>1 DEF FullSoFar
      <4>3. \A i \in 1..(n + 1) : i \in 1..n \/ i = n + 1
        BY <1>3
      <4> QED
        BY <1>3, <4>1, <4>2, <4>3, Zenon
    <3>3. rpc = "store" => inbox.n = BufferSize
      BY Before DEF TailFits
    <3>4. End(queue'[n + 1]) = sent
      BY <1>2, <1>3
    <3> QED
      BY <1>1, <1>3, <2>1, <3>1, <3>2, <3>3, <3>4 DEF TailFits, FullSoFar, End
  <2>2. CASE spc' = "unlink"
    BY <2>2 DEF TailFits
  <2> QED
    BY <2>1, <2>2
<1>7. Ahead'
  <2>1. /\ n < Capacity /\ Capacity \in Nat /\ BufferSize \in Nat /\ Len(out) \in Nat
        /\ Reached' = Reached /\ Reached \in Nat
    <3>1. Reached \in Nat
      <4>1. End(inbox) \in Nat
        BY Before DEF End, Messages
      <4> QED
        BY <4>1, Before DEF Reached
    <3> QED
      BY <3>1, Before DEF Put, n, Reached, End
  <2>2. /\ n * BufferSize \in Nat /\ (n + 1) * BufferSize = n * BufferSize + BufferSize
        /\ n * BufferSize + BufferSize <= Capacity * BufferSize
        /\ Capacity * BufferSize \in Nat
        /\ (Capacity + 1) * BufferSize = Capacity * BufferSize + BufferSize
    <3>1. \A a \in Nat, b \in Nat :
            /\ a * b \in Nat /\ (a + 1) * b = a * b + b
            /\ \A c \in Nat : a < c => a * b + b <= c * b
      BY Multiples
    <3> QED
      BY <1>3, <2>1, <3>1
  <2>3. /\ rpc \in NotReceived => Produced + BufferSize <= n * BufferSize
        /\ rpc \in Receiving => Produced <= Reached + n * BufferSize
        /\ Produced <= Len(out) + n * BufferSize + BufferSize
    BY Before DEF Ahead, n
  <2>4. Len(queue') <= Capacity
    BY <1>3, <2>1
  <2>5. CASE spc' = "fill" /\ lastRead = BufferSize /\ sres' = sres
    <3>1. Produced' = Produced + BufferSize
      BY <1>1, <2>5 DEF Produced
    <3>2. /\ rpc \in NotReceived => Produced' + BufferSize <= (n + 1) * BufferSize
          /\ rpc \in Receiving => Produced' <= Reached + (n + 1) * BufferSize
          /\ Produced' <= Len(out) + (n + 1) * BufferSize + BufferSize
      BY <1>1, <1>3, <2>1, <2>2, <2>3, <3>1
    <3> QED
      BY <1>1, <1>3, <2>1, <2>4, <2>5, <3>2 DEF Ahead
  <2>6. CASE spc' = "unlink"
    <3>1. sent <= Len(out) + (Capacity + 1) * BufferSize
      <4>1. PICK p \in Nat, q \in Nat, r \in Nat :
              p = n * BufferSize /\ q = Capacity * BufferSize /\ r = (Capacity + 1) * BufferSize
        BY <2>1, <2>2
      <4>2. p + BufferSize <= q /\ r = q + BufferSize /\ Produced <= Len(out) + p + BufferSize
        BY <2>2, <2>3, <4>1
      <4>3. Produced + lastRead <= Len(out) + r
        BY <1>1, <2>1, <4>2
      <4> QED
        BY <1>1, <4>1, <4>3
    <3> QED
      BY <2>4, <2>6, <3>1 DEF Ahead
  <2> QED
    BY <2>5, <2>6
<1>8. Prefix'
  BY Before DEF Prefix
<1> QED
  BY <1>4, <1>5, <1>6, <1>7, <1>8 DEF Stream

(* What taking the first message does to the others.                       *)
LEMMA OthersMoveUp ==
  ASSUME IInv, queue # << >>, queue' = Tail(queue), size' = size
  PROVE  /\ Chained' /\ Len(queue') <= Capacity
         /\ Len(queue) \in Nat /\ Len(queue) >= 1 /\ Len(queue') = Len(queue) - 1
         /\ Len(queue) * BufferSize = Len(queue') * BufferSize + BufferSize
         /\ Len(queue') * BufferSize \in Nat
         /\ queue' = << >> <=> Len(queue) = 1
         /\ queue' # << >> =>
              /\ Piece(queue[1])' /\ queue'[1].from = End(queue[1])
              /\ queue'[Len(queue')] = queue[Len(queue)]
         /\ (\A i \in 1..Len(queue) : FullSoFar(queue[i]))
              => \A i \in 1..Len(queue') : FullSoFar(queue'[i])
<1> DEFINE n == Len(queue)
<1>1. /\ n \in Nat /\ n >= 1 /\ Len(queue') = n - 1 /\ (queue' = << >> <=> n = 1)
      /\ \A i \in 1..(n - 1) : queue'[i] = queue[i + 1]
      /\ BufferSize \in Nat /\ n <= Capacity /\ Capacity \in Nat
  BY Before, Popped DEF Ahead
<1>2. \A i \in 1..(n - 1) : Piece(queue[i + 1]) /\ queue[i + 1].from = End(queue[i])
  <2> TAKE i \in 1..(n - 1)
  <2>1. i \in 1..n /\ i + 1 \in 1..n
    BY <1>1
  <2> QED
    BY <2>1, Before DEF Chained
<1> HIDE DEF n
<1>3. Chained'
  <2> SUFFICES ASSUME NEW i \in 1..(n - 1), NEW j \in 1..(n - 1), j = i + 1
               PROVE  (Piece(queue[j]) /\ queue[j].from = End(queue[i]))'
    BY <1>1, Zenon DEF Chained
  <2>1. /\ queue'[i] = queue[j] /\ queue'[j] = queue[j + 1]
        /\ Piece(queue[j + 1]) /\ queue[j + 1].from = End(queue[j])
    BY <1>1, <1>2
  <2> QED
    BY <2>1 DEF Piece, End
<1>4. ASSUME queue' # << >>
      PROVE  /\ Piece(queue[1])' /\ queue'[1].from = End(queue[1])
             /\ queue'[n - 1] = queue[n]
  <2>1. /\ 1 \in 1..(n - 1) /\ n - 1 \in 1..(n - 1)
        /\ queue'[1] = queue[2] /\ queue'[n - 1] = queue[n]
        /\ Piece(queue[2]) /\ queue[2].from = End(queue[1])
    BY <1>1, <1>2, <1>4
  <2> QED
    BY <2>1 DEF Piece
<1>5. n * BufferSize = (n - 1) * BufferSize + BufferSize /\ (n - 1) * BufferSize \in Nat
  <2>1. PICK k \in Nat : n = k + 1
    <3>1. n - 1 \in Nat /\ n = (n - 1) + 1
      BY <1>1
    <3> QED
      BY <3>1
  <2> QED
    BY <1>1, <2>1, Multiples
<1>6. ASSUME \A i \in 1..n : FullSoFar(queue[i])
      PROVE  \A i \in 1..(n - 1) : FullSoFar(queue'[i])
  <2> TAKE i \in 1..(n - 1)
  <2>1. i + 1 \in 1..n
    BY <1>1
  <2> QED
    BY <1>1, <1>6, <2>1
<1> QED
  BY <1>1, <1>3, <1>4, <1>5, <1>6 DEF n

(* The header is taken: the next message is the beginning of the source.   *)
LEMMA HeaderTaken ==
  ASSUME IInv, rpc = "receiveHeader", rpc' \in {"receive", "unlink"}, Get,
         UNCHANGED <<spc, sres, size, announced, sent, lastRead, out, inbox>>
  PROVE  Stream'
<1>1. /\ queue # << >> /\ queue' = Tail(queue) /\ out = << >> /\ Len(out) = 0
      /\ queue[1] = Header(announced) /\ End(queue[1]) = 0 /\ BufferSize \in Nat
  BY HeaderReceived, Before DEF Get, NothingSent, Header, End
<1>2. /\ Chained' /\ Len(queue') <= Capacity
      /\ Len(queue) \in Nat /\ Len(queue) >= 1 /\ Len(queue') = Len(queue) - 1
      /\ Len(queue) * BufferSize = Len(queue') * BufferSize + BufferSize
      /\ Len(queue') * BufferSize \in Nat
      /\ queue' = << >> <=> Len(queue) = 1
      /\ queue' # << >> =>
           /\ Piece(queue[1])' /\ queue'[1].from = 0
           /\ queue'[Len(queue')] = queue[Len(queue)]
      /\ (\A i \in 1..Len(queue) : FullSoFar(queue[i]))
           => \A i \in 1..Len(queue') : FullSoFar(queue'[i])
  BY <1>1, OthersMoveUp
<1>3. HeadFits'
  BY <1>1, <1>2 DEF HeadFits, Reached
<1>4. TailFits'
  BY <1>1, <1>2, Before DEF TailFits, Produced, Reached
<1>5. Ahead'
  <2>1. Produced' = Produced
    BY DEF Produced
  <2>2. spc \in Sending => Produced + BufferSize <= Len(queue) * BufferSize /\ Produced \in Nat
    BY Before DEF Ahead, Produced
  <2> QED
    BY <1>1, <1>2, <2>1, <2>2, Before DEF Ahead, Reached
<1>6. Prefix'
  BY Before DEF Prefix
<1> QED
  BY <1>2, <1>3, <1>4, <1>5, <1>6 DEF Stream

(* A piece is taken, and stays in the receiver's buffer.                   *)
LEMMA PieceTaken ==
  ASSUME IInv, rpc = "receive", rpc' = "store", Get, inbox' = Head(queue),
         UNCHANGED <<spc, sres, size, announced, sent, lastRead, out>>
  PROVE  Stream'
<1>1. /\ queue # << >> /\ queue' = Tail(queue) /\ inbox' = queue[1]
      /\ queue[1] \in Messages /\ BufferSize \in Nat /\ size \in Nat
  BY Before, Popped DEF Get
<1>2. /\ Chained' /\ Len(queue') <= Capacity
      /\ Len(queue) \in Nat /\ Len(queue) >= 1 /\ Len(queue') = Len(queue) - 1
      /\ Len(queue) * BufferSize = Len(queue') * BufferSize + BufferSize
      /\ Len(queue') * BufferSize \in Nat
      /\ queue' = << >> <=> Len(queue) = 1
      /\ queue' # << >> =>
           /\ Piece(queue[1])' /\ queue'[1].from = End(queue[1])
           /\ queue'[Len(queue')] = queue[Len(queue)]
      /\ (\A i \in 1..Len(queue) : FullSoFar(queue[i]))
           => \A i \in 1..Len(queue') : FullSoFar(queue'[i])
  BY <1>1, OthersMoveUp
<1>3. /\ Piece(queue[1]) /\ queue[1].from = Len(out) /\ Reached = Len(out)
  BY <1>1, Before DEF HeadFits, Reached
<1>4. /\ queue[1].kind = "data" /\ queue[1].n \in 0..BufferSize
      /\ End(queue[1]) = Len(out) + queue[1].n /\ Len(out) \in Nat
  BY <1>1, <1>3, PieceBounds, Before
<1>5. Reached' = End(queue[1]) /\ Produced' = Produced
  BY <1>1 DEF Reached, Produced, End
<1>6. HeadFits'
  BY <1>1, <1>2, <1>3, <1>5 DEF HeadFits, Piece
<1>7. spc \in Sending => queue[1].n = BufferSize
  <2>1. 1 \in 1..Len(queue)
    BY <1>2
  <2> QED
    BY <1>4, <2>1, Before DEF TailFits, FullSoFar
<1>8. TailFits'
  BY <1>1, <1>2, <1>5, <1>7, Before DEF TailFits
<1>9. Ahead'
  <2>1. spc \in Sending => Produced <= Len(out) + Len(queue) * BufferSize /\ Produced \in Nat
    BY <1>3, Before DEF Ahead, Produced
  <2>2. spc \in Sending =>
          /\ Produced' <= Reached' + Len(queue') * BufferSize
          /\ Produced' <= Len(out) + Len(queue') * BufferSize + BufferSize
    BY <1>1, <1>2, <1>4, <1>5, <1>7, <2>1
  <2> QED
    BY <1>2, <2>2, Before DEF Ahead
<1>10. Prefix'
  BY Before DEF Prefix
<1> QED
  BY <1>2, <1>6, <1>8, <1>9, <1>10 DEF Stream

(* The piece in the buffer is stored, and the receiver goes on or stops.   *)
LEMMA PieceStored ==
  ASSUME IInv, rpc = "store", rpc' \in {"receive", "unlink"},
         out' = out \o BytesOf(inbox),
         UNCHANGED <<spc, sres, queue, size, announced, sent, lastRead, inbox>>
  PROVE  Stream'
<1>1. /\ Len(out) \in Nat /\ Len(out') \in Nat /\ Len(out') >= Len(out)
      /\ Len(out') = End(inbox) /\ Len(out') <= size
      /\ out' = Stretch(0, Len(out'))
  <2>1. /\ Len(out) \in Nat /\ inbox.n \in 0..BufferSize /\ BufferSize \in Nat
        /\ Len(out') = Len(out) + inbox.n /\ End(inbox) = Len(out) + inbox.n
        /\ out' = Stretch(0, Len(out) + inbox.n) /\ Len(out) + inbox.n <= size
    BY StoredPiece, BufferSizeAssumption, Zenon
  <2> QED
    BY <2>1
<1>2. Reached = Len(out') /\ Reached' = Reached /\ Produced' = Produced
  BY <1>1 DEF Reached, Produced, End
<1>3. Chained'
  BY Before DEF Chained, Piece, End
<1>4. HeadFits'
  BY <1>2, Before DEF HeadFits, Piece
<1>5. TailFits'
  BY <1>2, Before DEF TailFits, End, FullSoFar
<1>6. Ahead'
  <2>1. /\ Len(queue) * BufferSize \in Nat /\ BufferSize \in Nat
        /\ (Capacity + 1) * BufferSize \in Nat
    <3>1. Len(queue) \in Nat /\ Capacity + 1 \in Nat /\ BufferSize \in Nat
      BY Before, QueueFacts
    <3> QED
      BY <3>1
  <2>2. spc \in Sending => Produced <= Reached + Len(queue) * BufferSize /\ Produced \in Nat
    BY Before DEF Ahead, Produced
  <2>3. sres = "success" => sent <= Len(out') + (Capacity + 1) * BufferSize
    <3>1. sent \in Nat /\ (sres = "success" => sent <= Len(out) + (Capacity + 1) * BufferSize)
      BY Before DEF Ahead
    <3> QED
      BY <1>1, <2>1, <3>1
  <2>4. rpc \notin NotReceived /\ rpc' \notin NotReceived /\ Len(queue) <= Capacity
    BY Before DEF Ahead
  <2>5. spc \in Sending =>
          /\ Produced' <= Reached' + Len(queue) * BufferSize
          /\ Produced' <= Len(out') + Len(queue) * BufferSize + BufferSize
    BY <1>1, <1>2, <2>1, <2>2
  <2> QED
    BY <2>3, <2>4, <2>5 DEF Ahead
<1>7. Prefix'
  BY <1>1 DEF Prefix
<1> QED
  BY <1>3, <1>4, <1>5, <1>6, <1>7 DEF Stream

(* The end of the copy is lost: nothing is sent any more.                  *)
LEMMA CopyCut ==
  ASSUME IInv, RKill \/ RCloseCopy
  PROVE  Stream'
<1>1. PICK k \in 0..held :
        /\ Len(out') = Len(out) - k /\ out' = Stretch(0, Len(out) - k)
        /\ k > 0 => Len(out) = size /\ spc \notin Sending
  BY Loses
<1>2. /\ rpc' = "ended" /\ held \in 0..(BufferSize - 1)
      /\ UNCHANGED <<spc, sres, queue, size, announced, sent, lastRead, inbox>>
  BY Before DEF RKill, RCloseCopy
<1>3. CASE k = 0
  <2>1. out' = out
    BY <1>1, <1>3, Before DEF Prefix
  <2> QED
    BY <1>2, <2>1, ReceiverRests
<1>4. CASE k > 0
  <2>1. Chained' /\ HeadFits' /\ TailFits'
    BY <1>1, <1>2, <1>4, Before DEF Chained, HeadFits, TailFits, Piece, End
  <2>2. Prefix'
    BY <1>1, <1>2, <1>4, Before DEF Prefix
  <2>3. Ahead'
    <3>1. (Capacity + 1) * BufferSize \in Nat /\ (Capacity + 1) * BufferSize >= BufferSize
      <4>1. (Capacity + 1) * BufferSize = Capacity * BufferSize + BufferSize
            /\ Capacity * BufferSize \in Nat
        BY Before, Multiples
      <4> QED
        BY <4>1, Before
    <3>2. sres = "success" => sent = size /\ size = Len(out)
      BY <1>1, <1>4, Before DEF Results
    <3>3. sres = "success" => sent <= Len(out') + (Capacity + 1) * BufferSize
      <4>1. PICK p \in Nat : p = (Capacity + 1) * BufferSize /\ p >= BufferSize
        BY <3>1
      <4>2. sres = "success" => sent <= Len(out') + p
        BY <1>1, <1>2, <3>2, <4>1, Before
      <4> QED
        BY <4>1, <4>2
    <3> QED
      BY <1>1, <1>2, <1>4, <3>3, Before DEF Ahead
  <2> QED
    BY <2>1, <2>2, <2>3 DEF Stream
<1> QED
  BY <1>1, <1>3, <1>4

(* What is on the way: the steps of the sender keep what is said of it.    *)
LEMMA StreamSender ==
  ASSUME IInv, SLaunch \/ SenderStep \/ SCallFails \/ SKill
  PROVE  Stream'
<1>1. CASE SLaunch
  BY <1>1, SenderRests DEF SLaunch
<1>2. CASE SOpen
  BY <1>2, SenderRests DEF SOpen
<1>3. CASE SCheck
  BY <1>3, SenderRests DEF SCheck
<1>4. CASE SMeasure
  BY <1>4, SenderRests DEF SMeasure
<1>5. CASE SSendHeader
  <2>1. CASE Put(Header(announced))
    BY <1>5, <2>1, HeaderPut, Before DEF SSendHeader, Results
  <2>2. CASE ~Put(Header(announced))
    BY <1>5, <2>2, SenderRests DEF SSendHeader
  <2> QED
    BY <2>1, <2>2
<1>6. CASE SFill
  <2>1. CASE spc' = "send"
    BY <1>6, <2>1, BufferFilled DEF SFill
  <2>2. CASE spc' # "send"
    BY <1>6, <2>2, SenderRests DEF SFill
  <2> QED
    BY <2>1, <2>2
<1>7. CASE SSend
  <2>1. CASE Put(Data(sent - lastRead, lastRead))
    BY <1>7, <2>1, PiecePut, Before DEF SSend, More
  <2>2. CASE ~Put(Data(sent - lastRead, lastRead))
    BY <1>7, <2>2, SenderRests DEF SSend
  <2> QED
    BY <2>1, <2>2
<1>8. CASE SUnlink
  BY <1>8, SenderRests DEF SUnlink
<1>9. CASE SCallFails
  BY <1>9, SenderRests DEF SCallFails
<1>10. CASE SKill
  BY <1>10, SenderRests DEF SKill
<1> QED
  BY <1>1, <1>2, <1>3, <1>4, <1>5, <1>6, <1>7, <1>8, <1>9, <1>10 DEF SenderStep

(* What is on the way: the steps of the receiver keep what is said of it.  *)
LEMMA StreamReceiver ==
  ASSUME IInv, RLaunch \/ ReceiverStep \/ RCallFails \/ RKill
  PROVE  Stream'
<1>1. CASE RLaunch
  BY <1>1, ReceiverRests DEF RLaunch
<1>2. CASE RCreate
  <2>1. CASE queue' = queue
    BY <1>2, <2>1, ReceiverRests DEF RCreate
  <2>2. CASE queue' # queue
    <3>1. /\ queue' = << >> /\ spc \notin Sending
          /\ rpc' = "receiveHeader"
          /\ UNCHANGED <<spc, sres, size, sent, out>>
      BY <1>2, <2>2, Before DEF RCreate, OneQueue
    <3>2. Len(queue') = 0
      BY <3>1
    <3> QED
      BY <3>1, <3>2, Before DEF Stream, Chained, HeadFits, TailFits, Ahead, Prefix
  <2> QED
    BY <2>1, <2>2
<1>3. CASE RReceiveHeader
  <2>1. CASE Get
    BY <1>3, <2>1, HeaderTaken DEF RReceiveHeader, Get
  <2>2. CASE ~Get
    BY <1>3, <2>2, ReceiverRests DEF RReceiveHeader
  <2> QED
    BY <2>1, <2>2
<1>4. CASE RReceive
  <2>1. CASE rpc' = "store"
    BY <1>4, <2>1, PieceTaken DEF RReceive
  <2>2. CASE rpc' # "store"
    BY <1>4, <2>2, ReceiverRests DEF RReceive
  <2> QED
    BY <2>1, <2>2
<1>5. CASE RStore
  <2>1. CASE out' = out \o BytesOf(inbox)
    BY <1>5, <2>1, PieceStored DEF RStore
  <2>2. CASE out' # out \o BytesOf(inbox)
    BY <1>5, <2>2, ReceiverRests DEF RStore
  <2> QED
    BY <2>1, <2>2
<1>6. CASE RUnlink
  BY <1>6, ReceiverRests DEF RUnlink
<1>7. CASE RRemove
  BY <1>7, ReceiverRests DEF RRemove
<1>8. CASE RCallFails
  BY <1>8, ReceiverRests DEF RCallFails
<1>9. CASE RKill \/ RCloseCopy
  BY <1>9, CopyCut
<1> QED
  BY <1>1, <1>2, <1>3, <1>4, <1>5, <1>6, <1>7, <1>8, <1>9 DEF ReceiverStep

(* The invariant holds at the start.                                       *)
LEMMA InvInit == Quiet /\ Init => IInv
<1> SUFFICES ASSUME Quiet, Init PROVE IInv
  OBVIOUS
<1>1. queue = << >> /\ Len(queue) = 0
  BY DEF Quiet, Init
<1>2. TypeOK
  BY TypeInit
<1>3. OneQueue /\ NothingSent /\ Results /\ Held /\ NameGone
  BY <1>1 DEF Init, OneQueue, NothingSent, Results, Held, NameGone
<1>4. Chained /\ HeadFits /\ TailFits
  BY <1>1 DEF Init, Chained, HeadFits, TailFits
<1>5. Ahead
  BY <1>1, CapacityAssumption DEF Init, Ahead
<1>6. Prefix
  <2>1. Stretch(0, 0) = << >> /\ size \in Nat
    BY SizesAssumption DEF Stretch, Init
  <2> QED
    BY <2>1 DEF Init, Prefix
<1> QED
  BY <1>2, <1>3, <1>4, <1>5, <1>6 DEF IInv

(* Every step keeps the invariant.                                         *)
LEMMA InvStep == IInv /\ [Next]_vars => IInv'
<1> SUFFICES ASSUME IInv, [Next]_vars PROVE IInv'
  OBVIOUS
<1>1. TypeOK'
  BY TypeStep DEF IInv
<1>2. CASE SLaunch \/ SenderStep \/ SCallFails \/ SKill
  BY <1>1, <1>2, ControlSender, StreamSender DEF IInv, Stream
<1>3. CASE RLaunch \/ ReceiverStep \/ RCallFails \/ RKill
  BY <1>1, <1>3, ControlReceiver, StreamReceiver DEF IInv, Stream
<1>4. CASE UNCHANGED vars
  <2>1. OneQueue' /\ NothingSent' /\ Results' /\ Held' /\ NameGone'
    BY <1>4, Before DEF vars, OneQueue, NothingSent, Results, Held, NameGone
  <2>2. Chained' /\ HeadFits' /\ TailFits' /\ Prefix'
    BY <1>4, Before DEF vars, Chained, HeadFits, TailFits, Prefix, Piece, Reached,
                        Produced, FullSoFar, End
  <2>3. Ahead'
    BY <1>4, Before DEF vars, Ahead, Reached, Produced, End
  <2> QED
    BY <1>1, <2>1, <2>2, <2>3 DEF IInv
<1> QED
  BY <1>2, <1>3, <1>4 DEF Next, Stopped

(* The invariant holds in every reachable state.                           *)
THEOREM InvariantHolds == Quiet => (SafetySpec => []IInv)
<1> SUFFICES ASSUME Quiet PROVE SafetySpec => []IInv
  OBVIOUS
<1>1. Init => IInv
  BY InvInit
<1> QED
  BY <1>1, InvStep, PTL DEF SafetySpec

-----------------------------------------------------------------------------
(* What follows from it *)

(* On a quiet queue a copy the receiver calls a success is the source,     *)
(* however far the sender was ahead and whatever happened to it in the     *)
(* meantime, except for what closing the file may lose on a failing disk:  *)
(* less than a buffer of its last bytes.                                   *)
THEOREM CopyIsExact == Quiet => (SafetySpec => []ExactCopy)
<1>1. IInv => ExactCopy
  BY DEF IInv, Prefix, Results, ExactCopy
<1> QED
  BY <1>1, InvariantHolds, PTL

(* When the header was received and both programs have ended, one of them  *)
(* without being killed, the queue has no name any more.                   *)
THEOREM NameIsUnlinked == Quiet => (SafetySpec => []NameUnlinked)
<1>1. IInv => NameUnlinked
  BY DEF IInv, NameGone, NameUnlinked
<1> QED
  BY <1>1, InvariantHolds, PTL

-----------------------------------------------------------------------------
(* The promise, with as much on the way as the queue and the receiver's    *)
(* buffer hold: the initial states map to initial states of FileCopy, and  *)
(* every step to a step or a stutter.                                      *)

(* The initial states map to initial states of FileCopy.                   *)
LEMMA PromiseInit == Init => Promise!Init
<1> SUFFICES ASSUME Init PROVE Promise!Init
  OBVIOUS
<1>1. present \in BOOLEAN
  BY Zenon DEF Init
<1> QED
  BY <1>1 DEF Init, Promise!Init, Outcome

(* The sender only succeeds when what is not stored fits in the queue and  *)
(* in the buffer of the receiver.                                          *)
LEMMA RestIsOnTheWay ==
  ASSUME IInv, sres = "success"
  PROVE  /\ announced = size /\ size > 0
         /\ Len(out) + (Capacity + 1) * BufferSize >= size
<1>1. /\ announced = size /\ sent = size /\ size > 0
      /\ sent <= Len(out) + (Capacity + 1) * BufferSize
  BY Before DEF Results, Ahead
<1> QED
  BY <1>1, Before

(* A step of the sender maps to a step of FileCopy or to a stutter.        *)
LEMMA PromiseSender ==
  ASSUME IInv, SLaunch \/ SenderStep \/ SCallFails \/ SKill
  PROVE  [Promise!Next]_(Promise!vars)
<1> /\ size \in Sizes /\ size \in Nat /\ Sizes \subseteq Nat
    /\ spc \in SenderLabels /\ sres \in Outcomes
    /\ NothingSent /\ Results
  BY Before, SizesAssumption DEF IInv, TypeOK
<1> USE DEF Outcome, Promise!Next, Promise!vars, NothingSent, Results, Outcomes
<1>1. CASE SLaunch
  BY <1>1 DEF SLaunch, Promise!GiveUp
<1>2. CASE SOpen
  BY <1>2 DEF SOpen
<1>3. CASE SCheck
  BY <1>3 DEF SCheck
<1>4. CASE SMeasure
  BY <1>4 DEF SMeasure, AnnouncedSizes, Promise!Announce
<1>5. CASE SSendHeader
  BY <1>5 DEF SSendHeader
<1>6. CASE SFill
  BY <1>6 DEF SFill
<1>7. CASE SSend
  BY <1>7 DEF SSend
<1>8. CASE SUnlink
  BY <1>8, RestIsOnTheWay DEF SUnlink, Promise!Complete, Promise!GiveUp
<1>9. CASE SCallFails
  BY <1>9 DEF SCallFails
<1>10. CASE SKill
  BY <1>10 DEF SKill, Promise!KillSender
<1> QED
  BY <1>1, <1>2, <1>3, <1>4, <1>5, <1>6, <1>7, <1>8, <1>9, <1>10 DEF SenderStep

(* A step of the receiver maps to a step of FileCopy or to a stutter.      *)
LEMMA PromiseReceiver ==
  ASSUME IInv, RLaunch \/ ReceiverStep \/ RCallFails \/ RKill
  PROVE  [Promise!Next]_(Promise!vars)
<1> /\ size \in Sizes /\ size \in Nat /\ Sizes \subseteq Nat
    /\ rpc \in ReceiverLabels /\ rres \in Outcomes
    /\ NothingSent /\ Prefix /\ Results
  BY Before, SizesAssumption DEF IInv, TypeOK
<1> USE DEF Outcome, Promise!Next, Promise!vars, Results, Outcomes
<1>1. CASE RLaunch
  BY <1>1 DEF RLaunch, Promise!CreateCopy, NothingSent
<1>2. CASE RCreate
  BY <1>2 DEF RCreate
<1>3. CASE RReceiveHeader
  BY <1>3 DEF RReceiveHeader
<1>4. CASE RReceive
  BY <1>4 DEF RReceive
<1>5. CASE RStore
  <2>1. CASE out' = out
    BY <1>5, <2>1 DEF RStore
  <2>2. CASE out' # out
    <3>1. /\ out' = out \o BytesOf(inbox)
          /\ rpc = "store" /\ rpc' \in {"receive", "unlink"} /\ present
          /\ UNCHANGED <<size, announced, present, spc, sres>>
      BY <1>5, <2>2 DEF RStore
    <3>2. /\ Len(out) \in Nat /\ inbox.n \in 0..BufferSize
          /\ Len(out) + inbox.n <= size
          /\ BytesOf(inbox) = Stretch(Len(out), inbox.n)
      BY <3>1, StoredPiece
    <3>3. BytesOf(inbox) = Promise!NextBytes(inbox.n)
      BY <3>2 DEF Stretch, Promise!NextBytes
    <3>4. inbox.n # 0
      <4>1. ASSUME inbox.n = 0
            PROVE  FALSE
        <5>1. BytesOf(inbox) = << >> /\ out \in Seq(Int)
          BY <3>2, <4>1, Before DEF Stretch
        <5>2. out' = out
          BY <3>1, <5>1, ConcatEmptySeq
        <5> QED
          BY <2>2, <5>2
      <4> QED
        BY <4>1
    <3>5. inbox.n \in 1..BufferSize
      BY <3>2, <3>4, BufferSizeAssumption
    <3>6. Promise!Store(inbox.n)
      BY <3>1, <3>2, <3>3, <1>5 DEF Promise!Store
    <3> QED
      BY <3>5, <3>6
  <2> QED
    BY <2>1, <2>2
<1>6. CASE RUnlink
  BY <1>6 DEF RUnlink
<1>7. CASE RRemove
  BY <1>7 DEF RRemove, Promise!Reject
<1>8. CASE RCallFails
  BY <1>8 DEF RCallFails
<1>9. CASE RKill
  <2>1. PICK k \in 0..held : out' = SubSeq(out, 1, Len(out) - k) /\ Len(out') = Len(out) - k
    BY <1>9, Loses
  <2>2. k \in 0..(BufferSize - 1) /\ k <= Len(out)
    BY Before DEF Held
  <2>3. \E n \in 0..(BufferSize - 1) : Promise!LoseLast(n)
    BY <2>1, <2>2, Zenon DEF Promise!LoseLast
  <2> QED
    BY <1>9, <2>3 DEF RKill, Promise!KillReceiver
<1>10. CASE RCloseCopy
  <2>1. PICK k \in 0..held :
           /\ out' = SubSeq(out, 1, Len(out) - k) /\ Len(out') = Len(out) - k
           /\ k <= MostLost(held)
    BY <1>10, Loses
  <2>2. k \in 0..MostLost(BufferSize - 1) /\ k <= Len(out)
    BY <2>1, Before DEF Held, MostLost
  <2>3. \E n \in 0..MostLost(BufferSize - 1) : Promise!LoseLast(n)
    BY <2>1, <2>2, Zenon DEF Promise!LoseLast
  <2> QED
    BY <1>10, <2>3 DEF RCloseCopy, Promise!Accept
<1> QED
  BY <1>1, <1>2, <1>3, <1>4, <1>5, <1>6, <1>7, <1>8, <1>9, <1>10 DEF ReceiverStep

(* Every step maps to a step of FileCopy or to a stutter.                  *)
LEMMA PromiseStep == IInv /\ [Next]_vars => [Promise!Next]_(Promise!vars)
<1> SUFFICES ASSUME IInv, [Next]_vars PROVE [Promise!Next]_(Promise!vars)
  OBVIOUS
<1>1. CASE UNCHANGED vars
  BY <1>1 DEF vars, Promise!vars, Outcome
<1> QED
  BY <1>1, PromiseSender, PromiseReceiver DEF Next, Stopped

(* On a quiet queue the two programs, whatever disturbs them, keep the     *)
(* promise: the copy grows by the next bytes of the source only, success   *)
(* of the receiver means a complete copy but for what closing the file     *)
(* loses, its failure leaves no file, and                                  *)
(* success of the sender means that the rest is in the queue or in the     *)
(* receiver's buffer.                                                      *)
THEOREM SessionKeepsPromise == Quiet => (SafetySpec => KeepsPromise)
<1> SUFFICES ASSUME Quiet PROVE SafetySpec => KeepsPromise
  OBVIOUS
<1>1. SafetySpec => []IInv
  BY InvariantHolds
<1> QED
  BY <1>1, PromiseInit, PromiseStep, PTL DEF SafetySpec, KeepsPromise, Promise!Spec
=============================================================================

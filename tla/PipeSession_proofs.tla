-------------------------- MODULE PipeSession_proofs --------------------------
(***************************************************************************)
(* Proofs about PipeSession for every buffer size, every capacity of the   *)
(* pipe from a buffer on, every set of lengths and every set of            *)
(* disturbances, on a name that nothing or a FIFO has: type correctness,   *)
(* and with the invariant of PipeSessionInvariant the safety properties    *)
(* and the promise of FileCopy.                                            *)
(***************************************************************************)
EXTENDS PipeSessionInvariant, CopyFileThroughIPC_proofs

USE DEF SGoto, RGoto, SLeave, RLeave, SConclude, RConclude, Fails, outcomes,
        channel, senderData, receiverData

-----------------------------------------------------------------------------
(* Bytes *)

(* What was in the pipe, then what is written to it.                       *)
LEMMA Joined ==
  ASSUME NEW s \in Seq(Int), NEW t \in Seq(Int)
  PROVE  /\ s \o t \in Seq(Int)
         /\ Len(s \o t) = Len(s) + Len(t)
         /\ \A i \in 1..(Len(s) + Len(t)) :
              (s \o t)[i] = IF i <= Len(s) THEN s[i] ELSE t[i - Len(s)]
  BY ConcatProperties

(* What is read from the pipe, and what remains in it.                     *)
LEMMA Cut ==
  ASSUME NEW s \in Seq(Int), NEW n \in 0..Len(s)
  PROVE  /\ SubSeq(s, 1, n) \in Seq(Int) /\ Len(SubSeq(s, 1, n)) = n
         /\ \A i \in 1..n : SubSeq(s, 1, n)[i] = s[i]
         /\ SubSeq(s, n + 1, Len(s)) \in Seq(Int)
         /\ Len(SubSeq(s, n + 1, Len(s))) = Len(s) - n
         /\ \A i \in 1..(Len(s) - n) : SubSeq(s, n + 1, Len(s))[i] = s[n + i]
<1>1. Len(s) \in Nat /\ \A i \in 1..Len(s) : s[i] \in Int
  OBVIOUS
<1>2. /\ SubSeq(s, 1, n) \in Seq(Int)
      /\ Len(SubSeq(s, 1, n)) = IF 1 <= n THEN n - 1 + 1 ELSE 0
      /\ \A i \in 1..(n - 1 + 1) : SubSeq(s, 1, n)[i] = s[1 + i - 1]
  <2>1. \A i \in 1..n : s[i] \in Int
    BY <1>1
  <2> QED
    BY <2>1, SubSeqProperties
<1>3. /\ SubSeq(s, n + 1, Len(s)) \in Seq(Int)
      /\ Len(SubSeq(s, n + 1, Len(s)))
           = IF n + 1 <= Len(s) THEN Len(s) - (n + 1) + 1 ELSE 0
      /\ \A i \in 1..(Len(s) - (n + 1) + 1) :
           SubSeq(s, n + 1, Len(s))[i] = s[n + 1 + i - 1]
  <2>1. \A i \in (n + 1)..Len(s) : s[i] \in Int
    BY <1>1
  <2> QED
    BY <1>1, <2>1, SubSeqProperties
<1> QED
  BY <1>1, <1>2, <1>3

(* The bytes of a header are those of no source.                           *)
LEMMA HeaderBytesAre ==
  ASSUME NEW n \in Int
  PROVE  /\ [i \in 1..BufferSize |-> HeaderByte(n)] \in Seq(Int)
         /\ Len([i \in 1..BufferSize |-> HeaderByte(n)]) = BufferSize
         /\ \A i \in 1..BufferSize :
              [j \in 1..BufferSize |-> HeaderByte(n)][i] = HeaderByte(n)
  BY BufferSizeAssumption DEF HeaderByte

-----------------------------------------------------------------------------
(* Type correctness *)

(* What a write leaves in the pipe.                                        *)
LEMMA WriteType ==
  ASSUME TypeOK, NEW b \in Seq(Int), Write(b)
  PROVE  pipe' \in Seq(Int) /\ Len(pipe') <= Capacity
<1>1. pipe \o b \in Seq(Int) /\ Len(pipe \o b) = Len(pipe) + Len(b)
  BY Joined DEF TypeOK
<1> QED
  BY <1>1 DEF Write, TypeOK

(* What a read takes out of it, n bytes.                                   *)
LEMMA ReadFacts ==
  ASSUME TypeOK, Read
  PROVE  \E n \in 0..BufferSize :
           /\ n <= Len(pipe)
           /\ n = BufferSize \/ (n = Len(pipe) /\ EndOfFile)
           /\ inbox' \in Seq(Int) /\ Len(inbox') = n
           /\ \A i \in 1..n : inbox'[i] = pipe[i]
           /\ pipe' \in Seq(Int) /\ Len(pipe') = Len(pipe) - n
           /\ \A i \in 1..(Len(pipe) - n) : pipe'[i] = pipe[n + i]
<1> DEFINE n == IF EndOfFile THEN Len(pipe) ELSE BufferSize
<1>1. pipe \in Seq(Int) /\ Len(pipe) \in Nat /\ BufferSize \in Nat
  BY BufferSizeAssumption DEF TypeOK
<1>2. n \in 0..Len(pipe) /\ n \in 0..BufferSize
      /\ (n = BufferSize \/ (n = Len(pipe) /\ EndOfFile))
  BY <1>1 DEF Read, EndOfFile
<1>3. inbox' = SubSeq(pipe, 1, n) /\ pipe' = SubSeq(pipe, n + 1, Len(pipe))
  BY DEF Read
<1> HIDE DEF n
<1>4. /\ SubSeq(pipe, 1, n) \in Seq(Int) /\ Len(SubSeq(pipe, 1, n)) = n
      /\ \A i \in 1..n : SubSeq(pipe, 1, n)[i] = pipe[i]
      /\ SubSeq(pipe, n + 1, Len(pipe)) \in Seq(Int)
      /\ Len(SubSeq(pipe, n + 1, Len(pipe))) = Len(pipe) - n
      /\ \A i \in 1..(Len(pipe) - n) : SubSeq(pipe, n + 1, Len(pipe))[i] = pipe[n + i]
  BY <1>1, <1>2, Cut
<1>5. n <= Len(pipe)
  BY <1>1, <1>2
<1> QED
  BY <1>2, <1>3, <1>4, <1>5, Zenon

(* The types hold at the start.                                            *)
LEMMA TypeInit == Init => TypeOK
<1> SUFFICES ASSUME Init PROVE TypeOK
  OBVIOUS
<1>1. present \in BOOLEAN
  BY Zenon DEF Init
<1> QED
  BY <1>1, BufferSizeAssumption, SizesAssumption, CapacityAssumption,
     PipeLeftoversAssumption, EmptySeq, SMT
  DEF Init, TypeOK, SenderLabels, ReceiverLabels, Outcomes, Unset

(* A step of the sender keeps them.                                        *)
LEMMA TypeSender ==
  ASSUME TypeOK, SLaunch \/ SenderStep \/ SCallFails \/ SKill
  PROVE  TypeOK'
<1> USE BufferSizeAssumption, SizesAssumption, CapacityAssumption
    DEF TypeOK, SenderLabels, SenderOpen, Outcomes
<1>1. CASE SLaunch
  BY <1>1, SMT DEF SLaunch
<1>2. CASE SMake
  BY <1>2, SMT DEF SMake
<1>3. CASE SOpen
  BY <1>3, SMTT(20) DEF SOpen
<1>4. CASE SOpenTimeout
  BY <1>4, SMT DEF SOpenTimeout
<1>5. CASE SMeasure
  <2>1. announced' \in Sizes \cup {Unset} /\ (spc' = "sendHeader" => announced' \in Sizes)
    BY <1>5, SMT DEF SMeasure, AnnouncedSizes
  <2> QED
    BY <1>5, <2>1, SMT DEF SMeasure
<1>6. CASE SSendHeader
  <2>1. announced \in Int
    BY <1>6 DEF SSendHeader
  <2>2. pipe' \in Seq(Int) /\ Len(pipe') <= Capacity
    <3>1. CASE Write([i \in 1..BufferSize |-> HeaderByte(announced)])
      BY <2>1, <3>1, HeaderBytesAre, WriteType
    <3>2. CASE Broken
      BY <3>2 DEF Broken
    <3> QED
      BY <1>6, <3>1, <3>2 DEF SSendHeader
  <2> QED
    BY <1>6, <2>2, SMT DEF SSendHeader
<1>7. CASE SFill
  <2>1. sent \in Nat /\ size \in Nat
    BY SMT
  <2>2. ReadFile(sent, size) \in 0..BufferSize
    BY <2>1, ReadFileBounds, Zenon
  <2>3. lastRead' \in 0..BufferSize /\ sent' \in Nat /\ lastRead' <= sent'
    BY <1>7, <2>1, <2>2, SMT DEF SFill
  <2>4. spc' \in {"send", "close"} /\ sres' \in Outcomes
    BY <1>7, SMT DEF SFill
  <2> QED
    BY <1>7, <2>3, <2>4 DEF SFill
<1>8. CASE SSend
  <2> DEFINE bytes == Stretch(sent - lastRead, lastRead)
  <2>1. bytes \in Seq(Int) /\ Len(bytes) = lastRead
    <3>1. sent - lastRead \in Nat /\ lastRead \in Nat
      BY SMT
    <3> QED
      BY <3>1, StretchSeq
  <2> HIDE DEF bytes
  <2>2. /\ pipe' \in Seq(Int) /\ Len(pipe') <= Capacity
        /\ kept' \in Seq(Int) /\ Len(kept') < BufferSize
    <3>1. CASE Write(bytes) /\ UNCHANGED kept
      BY <2>1, <3>1, WriteType
    <3>2. CASE lastRead < BufferSize /\ kept' = bytes /\ UNCHANGED pipe
      BY <2>1, <3>2
    <3>3. CASE Broken /\ UNCHANGED kept
      BY <3>3 DEF Broken
    <3> QED
      BY <1>8, <3>1, <3>2, <3>3 DEF SSend, bytes
  <2>3. UNCHANGED <<rpc, rres, size, receiverData, name, target, senderData>>
    BY <1>8, Zenon DEF SSend
  <2>4. spc' \in {"fill", "close"} /\ sres' \in Outcomes
    <3>1. Verdict(sent, announced) \in Outcomes
      BY DEF Verdict
    <3> QED
      BY <1>8, <3>1, Zenon DEF SSend
  <2> QED
    BY <2>2, <2>3, <2>4
<1>9. CASE SClose
  <2>1. pipe' \in Seq(Int) /\ Len(pipe') <= Capacity
    <3>1. CASE Write(kept)
      BY <3>1, WriteType
    <3>2. CASE UNCHANGED pipe
      BY <3>2
    <3> QED
      BY <1>9, <3>1, <3>2 DEF SClose, Broken
  <2> QED
    BY <1>9, <2>1, SMT DEF SClose
<1>10. CASE SUnlink
  BY <1>10, SMT DEF SUnlink
<1>11. CASE SCallFails
  BY <1>11, SMT DEF SCallFails
<1>12. CASE SKill
  BY <1>12, SMT DEF SKill
<1> QED
  BY <1>1, <1>2, <1>3, <1>4, <1>5, <1>6, <1>7, <1>8, <1>9, <1>10, <1>11, <1>12
  DEF SenderStep

(* A step of the receiver keeps them.                                      *)
LEMMA TypeReceiver ==
  ASSUME TypeOK, RLaunch \/ ReceiverStep \/ RCallFails \/ RKill
  PROVE  TypeOK'
<1> USE BufferSizeAssumption, SizesAssumption, CapacityAssumption
    DEF TypeOK, ReceiverLabels, ReceiverOpen, Outcomes
<1>1. CASE RLaunch
  <2>1. present' \in BOOLEAN
    BY <1>1, Zenon DEF RLaunch
  <2> QED
    BY <1>1, <2>1, SMT DEF RLaunch
<1>2. CASE RLook
  BY <1>2, SMT DEF RLook
<1>3. CASE ROpen
  BY <1>3, SMT DEF ROpen
<1>4. CASE ROpenTimeout
  BY <1>4, SMT DEF ROpenTimeout
<1>5. CASE RReceiveHeader
  <2>1. PICK n \in 0..BufferSize :
          /\ n <= Len(pipe)
          /\ inbox' \in Seq(Int) /\ Len(inbox') = n
          /\ pipe' \in Seq(Int) /\ Len(pipe') = Len(pipe) - n
    BY <1>5, ReadFacts, Zenon DEF RReceiveHeader
  <2>2. expected' \in Nat \cup {Unset}
    <3>1. CASE expected' = expected
      BY <3>1
    <3>2. CASE HasKey(inbox'[1]) /\ Len(inbox') = BufferSize
               /\ expected' = AnnouncedBy(inbox'[1])
      <4>1. inbox'[1] \in Int
        BY <2>1, <3>2
      <4> QED
        BY <3>2, <4>1 DEF HasKey, AnnouncedBy
    <3> QED
      BY <1>5, <3>1, <3>2 DEF RReceiveHeader
  <2>3. Len(pipe') <= Capacity
    BY <2>1
  <2>4. rpc' \in {"close", "receive"} /\ rres' \in Outcomes
    BY <1>5, Zenon DEF RReceiveHeader
  <2>5. UNCHANGED <<spc, sres, size, senderData, name, target, kept, out, held, present>>
    BY <1>5, Zenon DEF RReceiveHeader
  <2> QED
    BY <2>1, <2>2, <2>3, <2>4, <2>5
<1>6. CASE RReceive
  <2>1. PICK n \in 0..BufferSize :
          /\ n <= Len(pipe)
          /\ inbox' \in Seq(Int) /\ Len(inbox') = n
          /\ pipe' \in Seq(Int) /\ Len(pipe') = Len(pipe) - n
    BY <1>6, ReadFacts, Zenon DEF RReceive
  <2>2. Len(pipe') <= Capacity
    BY <2>1
  <2> QED
    BY <1>6, <2>1, <2>2 DEF RReceive
<1>7. CASE RStore
  <2>1. out \o inbox \in Seq(Int)
    BY Joined
  <2>2. out' \in Seq(Int)
    BY <1>7, <2>1 DEF RStore
  <2>3. UNCHANGED <<spc, sres, size, senderData, channel, expected, inbox, present>>
    BY <1>7, Zenon DEF RStore
  <2>4. rpc' \in {"receive", "close"} /\ rres' \in Outcomes
    <3>1. Verdict(Len(out'), expected) \in Outcomes
      BY DEF Verdict
    <3> QED
      BY <1>7, <3>1, Zenon DEF RStore
  <2>5. held' \in 0..(BufferSize - 1)
    <3>1. held' = held \/ held' \in HeldOf(Len(inbox))
      BY <1>7, Zenon DEF RStore
    <3>2. Len(inbox) \in Nat
      OBVIOUS
    <3> QED
      BY <3>1, <3>2, SMT DEF HeldOf
  <2> QED
    BY <2>2, <2>3, <2>4, <2>5
<1>8. CASE RClose
  BY <1>8, SMT DEF RClose
<1>9. CASE RUnlink
  BY <1>9, SMT DEF RUnlink
<1>10. CASE RUnlinkAgain
  BY <1>10, SMT DEF RUnlinkAgain
<1>11. CASE RRemove
  <2>1. present' \in BOOLEAN
    BY <1>11, Zenon DEF RRemove
  <2> QED
    BY <1>11, <2>1, SMT DEF RRemove
<1>12. CASE RCallFails
  BY <1>12, SMT DEF RCallFails
<1>13. CASE RKill
  <2>1. out' \in Seq(Int)
    <3>1. out' \in CopiesOfKilled(out, held) /\ held \in Nat
      BY <1>13 DEF RKill
    <3> QED
      BY <3>1, CopyType
  <2> QED
    BY <1>13, <2>1, SMT DEF RKill
<1>14. CASE RCloseCopy
  <2>1. out' \in Seq(Int)
    <3>1. out' \in ClosedCopies(out, held) /\ held \in Nat
      BY <1>14 DEF RCloseCopy
    <3> QED
      BY <3>1, CopyType
  <2> QED
    BY <1>14, <2>1, SMT DEF RCloseCopy
<1>15. CASE RRefuse
  BY <1>15, SMT DEF RRefuse
<1> QED
  BY <1>1, <1>2, <1>3, <1>4, <1>5, <1>6, <1>7, <1>8, <1>9, <1>10, <1>11, <1>12,
     <1>13, <1>14, <1>15
  DEF ReceiverStep

(* So does every step.                                                     *)
LEMMA TypeStep == TypeOK /\ [Next]_vars => TypeOK'
<1> SUFFICES ASSUME TypeOK, [Next]_vars PROVE TypeOK'
  OBVIOUS
<1>1. CASE UNCHANGED vars
  BY <1>1 DEF vars, TypeOK
<1>2. CASE Meet
  BY <1>2, SMT DEF Meet, TypeOK, SenderLabels, SenderOpen, ReceiverLabels, ReceiverOpen
<1> QED
  BY <1>1, <1>2, TypeSender, TypeReceiver DEF Next, BothEnded

(* The pipe never holds more than its capacity, and what each program      *)
(* counts has its type, whatever disturbs the programs.                    *)
THEOREM TypeCorrect == SafetySpec => []TypeOK
  BY TypeInit, TypeStep, PTL DEF SafetySpec

-----------------------------------------------------------------------------
(* The parts of the invariant that are about control: what has the name,   *)
(* what both programs know of the header, and how they end.                *)

Control == OneName /\ NothingSent /\ Held /\ Results /\ NameGone

USE DEF SenderLabels, ReceiverLabels, SenderOpen, ReceiverOpen, Connecting, NotSent,
        Sending, Waiting, NotReceived, Receiving, Finished, Closing, Unset

(* What the proofs about a step use of the state before it.                *)
LEMMA Before ==
  ASSUME IInv
  PROVE  /\ spc \in SenderLabels /\ rpc \in ReceiverLabels
         /\ sres \in Outcomes /\ rres \in Outcomes
         /\ name \in {"none", "fifo", "file"} /\ target \in {"none", "fifo", "file"}
         /\ pipe \in Seq(Int) /\ Len(pipe) \in Nat /\ Len(pipe) <= Capacity
         /\ kept \in Seq(Int) /\ Len(kept) \in Nat /\ Len(kept) < BufferSize
         /\ inbox \in Seq(Int) /\ Len(inbox) \in Nat
         /\ out \in Seq(Int) /\ Len(out) \in Nat
         /\ size \in Nat /\ sent \in Nat
         /\ BufferSize \in Nat \ {0} /\ Capacity \in Nat
         /\ lastRead \in 0..BufferSize /\ lastRead <= sent
         /\ announced \in Nat \cup {Unset} /\ expected \in Nat \cup {Unset}
         /\ spc = "sendHeader" => announced \in Nat
         /\ OneName /\ NothingSent /\ InTransit /\ Produces /\ Ahead
         /\ Held /\ Prefix /\ Results /\ NameGone
         /\ held \in 0..(BufferSize - 1)
  BY BufferSizeAssumption, SizesAssumption, CapacityAssumption DEF IInv, TypeOK

(* A write to the FIFO has a reader, and one to a regular file leaves the  *)
(* pipe alone.                                                             *)
LEMMA WriteFacts ==
  ASSUME IInv, NEW b \in Seq(Int), Write(b)
  PROVE  \/ target = "file" /\ pipe' = pipe
         \/ /\ target = "fifo" /\ rpc \in ReceiverOpen
            /\ pipe' = pipe \o b /\ pipe' \in Seq(Int)
            /\ Len(pipe') = Len(pipe) + Len(b)
            /\ \A i \in 1..Len(pipe) : pipe'[i] = pipe[i]
            /\ \A i \in 1..Len(b) : pipe'[Len(pipe) + i] = b[i]
<1>1. CASE target = "file" /\ UNCHANGED pipe
  BY <1>1
<1>2. CASE Reading /\ pipe' = pipe \o b
  <2>1. pipe \in Seq(Int) /\ Len(pipe) \in Nat /\ Len(b) \in Nat
    BY Before
  <2>2. /\ pipe \o b \in Seq(Int) /\ Len(pipe \o b) = Len(pipe) + Len(b)
        /\ \A i \in 1..(Len(pipe) + Len(b)) :
             (pipe \o b)[i] = IF i <= Len(pipe) THEN pipe[i] ELSE b[i - Len(pipe)]
    BY <2>1, Joined
  <2>3. \A i \in 1..Len(pipe) : pipe'[i] = pipe[i]
    BY <1>2, <2>1, <2>2
  <2>4. \A i \in 1..Len(b) : pipe'[Len(pipe) + i] = b[i]
    <3>1. ASSUME NEW i \in 1..Len(b) PROVE pipe'[Len(pipe) + i] = b[i]
      <4>1. Len(pipe) + i \in 1..(Len(pipe) + Len(b)) /\ ~(Len(pipe) + i <= Len(pipe))
            /\ Len(pipe) + i - Len(pipe) = i
        BY <2>1
      <4> QED
        BY <1>2, <2>2, <4>1
    <3> QED
      BY <3>1
  <2> QED
    BY <1>2, <2>2, <2>3, <2>4 DEF Reading
<1> QED
  BY <1>1, <1>2 DEF Write

(* Nobody writes to a FIFO before the sender has opened it.                *)
LEMMA PipeStaysEmpty ==
  ASSUME IInv, Read, pipe = << >>
  PROVE  pipe' = << >>
<1>1. PICK n \in 0..BufferSize :
        n <= Len(pipe) /\ pipe' \in Seq(Int) /\ Len(pipe') = Len(pipe) - n
  BY ReadFacts, Zenon DEF IInv
<1>2. Len(pipe') = 0
  BY <1>1
<1> QED
  BY <1>1, <1>2, EmptySeq

(* A full buffer that begins with the key is the header that was sent.     *)
LEMMA HeaderReceived ==
  ASSUME IInv, RReceiveHeader, Len(inbox') = BufferSize, HasKey(inbox'[1])
  PROVE  /\ announced \in Nat /\ spc \notin NotSent /\ pipe # << >>
         /\ AnnouncedBy(inbox'[1]) = announced
<1>1. PICK n \in 0..BufferSize :
        n <= Len(pipe) /\ Len(inbox') = n /\ \A i \in 1..n : inbox'[i] = pipe[i]
  BY ReadFacts, Zenon DEF IInv, RReceiveHeader
<1>2. n = BufferSize /\ 1 <= Len(pipe) /\ inbox'[1] = pipe[1] /\ pipe # << >>
  <2>1. n = BufferSize /\ BufferSize \in Nat \ {0} /\ Len(pipe) \in Nat
    BY <1>1, Before
  <2>2. 1 <= Len(pipe) /\ 1 \in 1..n
    BY <1>1, <2>1
  <2> QED
    BY <1>1, <2>1, <2>2
<1>3. rpc = "receiveHeader" /\ HeaderLength = BufferSize
  BY <1>2 DEF RReceiveHeader, HeaderLength
<1>4. pipe[1] = HeaderByte(announced)
  BY <1>2, <1>3, Before DEF InTransit
<1>5. spc \notin NotSent
  BY <1>2, Before DEF NothingSent
<1>6. announced \in Nat
  BY <1>2, <1>4, Before DEF HasKey, HeaderByte
<1> QED
  BY <1>2, <1>4, <1>5, <1>6 DEF HeaderByte, AnnouncedBy

(* A sender that has all its file and reads no full buffer is at its end.  *)
LEMMA SentAll ==
  ASSUME IInv, spc = "send", ~More(lastRead, sent, announced), sent = announced
  PROVE  sent = size
<1>1. lastRead < BufferSize /\ lastRead = ReadFile(Produced, size) /\ Produced <= size
  BY Before DEF More, Produces
<1>2. Produced = sent - lastRead /\ Produced \in Nat
  BY Before DEF Produced
<1>3. Produced + ReadFile(Produced, size) = size
  BY <1>1, <1>2, Before, ReadFileBounds
<1> QED
  BY <1>1, <1>2, <1>3, Before

(* What a kill of the receiver, or closing the copy, takes away.           *)
LEMMA Loses ==
  ASSUME IInv, RKill \/ RCloseCopy
  PROVE  \E k \in 0..held :
           /\ k <= Len(out) /\ out' = SubSeq(out, 1, Len(out) - k)
           /\ Len(out') = Len(out) - k /\ out' = Stretch(0, Len(out) - k)
           /\ RCloseCopy => k <= MostLost(BufferSize - 1)
<1>1. out \in Seq(Int) /\ out = Stretch(0, Len(out)) /\ held \in 0..Len(out)
  BY Before DEF Prefix, Held
<1>2. CASE RKill
  <2>1. out' \in CopiesOfKilled(out, held) /\ ~RCloseCopy
    BY <1>2, Before DEF RKill, RCloseCopy, Results
  <2>2. PICK k \in {0, held} :
           /\ out' = SubSeq(out, 1, Len(out) - k)
           /\ Len(out') = Len(out) - k /\ out' = Stretch(0, Len(out) - k)
    BY <1>1, <2>1, CopyOfKilled
  <2>3. k \in 0..held /\ k <= Len(out)
    BY <1>1
  <2> QED
    BY <2>1, <2>2, <2>3
<1>3. CASE RCloseCopy
  <2>1. out' \in ClosedCopies(out, held)
    BY <1>3 DEF RCloseCopy
  <2>2. PICK k \in 0..MostLost(held) :
           /\ out' = SubSeq(out, 1, Len(out) - k)
           /\ Len(out') = Len(out) - k /\ out' = Stretch(0, Len(out) - k)
    BY <1>1, <2>1, ClosedCopy
  <2>3. held \in 0..(BufferSize - 1) /\ BufferSize \in Nat
    BY <1>1, Before DEF TypeOK
  <2>4. k \in 0..held /\ k <= MostLost(BufferSize - 1)
    <3>1. k \in 0..MostLost(held)
      BY <2>2
    <3> QED
      BY <2>3, <3>1 DEF MostLost
  <2>5. k <= Len(out)
    BY <1>1, <2>4
  <2> QED
    BY <2>2, <2>4, <2>5, Zenon
<1> QED
  BY <1>2, <1>3

(* What relates the places of both programs, the name and the FIFO: a step *)
(* of the sender keeps it.                                                 *)
LEMMA ControlSender ==
  ASSUME IInv, SLaunch \/ SenderStep \/ SCallFails \/ SKill
  PROVE  Control'
<1> /\ spc \in SenderLabels /\ rpc \in ReceiverLabels
    /\ sres \in Outcomes /\ rres \in Outcomes
    /\ name \in {"none", "fifo", "file"} /\ target \in {"none", "fifo", "file"}
    /\ size \in Nat /\ sent \in Nat /\ BufferSize \in Nat \ {0}
    /\ lastRead \in 0..BufferSize
    /\ announced \in Nat \cup {Unset}
    /\ OneName /\ NothingSent /\ Held /\ Results /\ NameGone
  BY Before
<1> USE DEF Control, OneName, NothingSent, Held, Results, NameGone, Outcomes
<1>1. CASE SLaunch
  BY <1>1, SMT DEF SLaunch
<1>2. CASE SMake
  BY <1>2, SMT DEF SMake
<1>3. CASE SOpen
  BY <1>3, SMT DEF SOpen
<1>4. CASE SOpenTimeout
  BY <1>4, SMT DEF SOpenTimeout
<1>5. CASE SMeasure
  <2>1. spc' = "sendHeader" =>
          announced' \in Nat /\ ("resize" \notin Disturbances => announced' = size)
    BY <1>5, SizesAssumption DEF SMeasure, AnnouncedSizes
  <2> QED
    BY <1>5, <2>1, SMT DEF SMeasure
<1>6. CASE SSendHeader
  <2>1. announced \in Nat /\ rpc \notin Receiving /\ pipe = << >>
    BY <1>6, Before DEF SSendHeader
  <2>2. [i \in 1..BufferSize |-> HeaderByte(announced)] \in Seq(Int)
    <3>1. announced \in Int
      BY <2>1
    <3> QED
      BY <3>1, HeaderBytesAre, Zenon
  <2>3. target = "file" => pipe' = pipe
    BY <1>6, <2>2, WriteFacts DEF SSendHeader, Broken
  <2>4. /\ spc = "sendHeader"
        /\ UNCHANGED <<name, target, kept, announced, sent, lastRead>>
        /\ UNCHANGED <<rpc, rres, size, expected, inbox, out, held, present>>
        /\ \/ spc' = "fill" /\ sres' = sres /\ announced # 0
           \/ spc' = "close" /\ sres' = "failure"
    BY <1>6, Zenon DEF SSendHeader
  <2> QED
    BY <2>1, <2>3, <2>4, SMT
<1>7. CASE SFill
  BY <1>7, SMT DEF SFill
<1>8. CASE SSend
  <2>1. Stretch(sent - lastRead, lastRead) \in Seq(Int)
    <3>1. sent - lastRead \in Nat /\ lastRead \in Nat
      BY Before
    <3> QED
      BY <3>1, StretchSeq
  <2>2. target = "file" => pipe' = pipe
    BY <1>8, <2>1, WriteFacts DEF SSend, Broken
  <2>3. /\ spc = "send"
        /\ UNCHANGED <<name, target, announced, sent, lastRead>>
        /\ UNCHANGED <<rpc, rres, size, expected, inbox, out, held, present>>
        /\ \/ spc' = "fill" /\ sres' = sres /\ More(lastRead, sent, announced)
              /\ (kept' = kept \/ lastRead < BufferSize)
           \/ spc' = "close" /\ sres' = Verdict(sent, announced)
              /\ ~More(lastRead, sent, announced)
           \/ spc' = "close" /\ sres' = "failure"
    BY <1>8, Zenon DEF SSend
  <2>4. CASE spc' = "fill"
    <3>1. kept' = kept
      BY <2>3, <2>4 DEF More
    <3> QED
      BY <2>2, <2>3, <2>4, <3>1, SMT
  <2>5. CASE spc' = "close"
    <3>1. ASSUME sres' = "success"
          PROVE  announced = size /\ sent = size /\ size > 0 /\ target # "none"
      BY <2>3, <2>5, <3>1, SentAll DEF Verdict
    <3>2. sres' \in {"success", "failure"}
      BY <2>3, <2>5 DEF Verdict
    <3> QED
      BY <2>2, <2>3, <2>5, <3>1, <3>2, SMT
  <2> QED
    BY <2>3, <2>4, <2>5
<1>9. CASE SClose
  <2>1. target = "file" => pipe' = pipe
    BY <1>9, WriteFacts, Before DEF SClose, Broken
  <2> QED
    BY <1>9, <2>1, SMT DEF SClose
<1>10. CASE SUnlink
  BY <1>10, SMT DEF SUnlink
<1>11. CASE SCallFails
  BY <1>11, SMT DEF SCallFails
<1>12. CASE SKill
  BY <1>12, SMT DEF SKill
<1> QED
  BY <1>1, <1>2, <1>3, <1>4, <1>5, <1>6, <1>7, <1>8, <1>9, <1>10, <1>11, <1>12
  DEF SenderStep

(* What is stored is no more than the source.                              *)
LEMMA StoredFits ==
  ASSUME IInv, RStore
  PROVE  Len(out') \in Nat /\ Len(out') <= size
<1>1. CASE out' = out
  BY <1>1, Before DEF Prefix
<1>2. CASE out' = out \o inbox
  <2>1. Len(out') = Len(out) + Len(inbox) /\ Len(out) \in Nat /\ Len(inbox) \in Nat
    BY <1>2, Before, Joined
  <2>2. Reached = Len(out) + Len(inbox) /\ HeaderLength = 0
    BY DEF RStore, Reached, HeaderLength
  <2>3. InPipe >= 0 /\ Reached + InPipe <= size
    BY Before DEF RStore, InTransit
  <2> QED
    BY <2>1, <2>2, <2>3, Before DEF InPipe
<1> QED
  BY <1>1, <1>2 DEF RStore

(* A step of the receiver keeps it.                                        *)
LEMMA ControlReceiver ==
  ASSUME IInv, RLaunch \/ ReceiverStep \/ RCallFails \/ RKill
  PROVE  Control'
<1> /\ spc \in SenderLabels /\ rpc \in ReceiverLabels
    /\ sres \in Outcomes /\ rres \in Outcomes
    /\ name \in {"none", "fifo", "file"} /\ target \in {"none", "fifo", "file"}
    /\ size \in Nat /\ BufferSize \in Nat \ {0}
    /\ announced \in Nat \cup {Unset} /\ expected \in Nat \cup {Unset}
    /\ held \in 0..(BufferSize - 1) /\ Len(out) \in Nat /\ Len(out) <= size
    /\ MostLost(BufferSize - 1) \in Nat
    /\ OneName /\ NothingSent /\ Held /\ Results /\ NameGone
  BY Before DEF Prefix, MostLost
<1> USE DEF Control, OneName, NothingSent, Held, Results, NameGone, Outcomes
<1>1. CASE RLaunch
  BY <1>1, SMT DEF RLaunch
<1>2. CASE RLook
  BY <1>2, SMT DEF RLook
<1>3. CASE ROpen
  BY <1>3, SMT DEF ROpen
<1>4. CASE ROpenTimeout
  BY <1>4, SMT DEF ROpenTimeout
<1>5. CASE RReceiveHeader
  <2>1. pipe = << >> => pipe' = << >>
    BY <1>5, PipeStaysEmpty DEF RReceiveHeader
  <2>2. /\ rpc = "receiveHeader"
        /\ UNCHANGED <<name, target, kept, out, held, present>>
        /\ UNCHANGED <<spc, sres, size, announced, sent, lastRead>>
    BY <1>5, Zenon DEF RReceiveHeader
  <2>3. CASE Len(inbox') = BufferSize /\ HasKey(inbox'[1])
    <3>1. /\ announced \in Nat /\ spc \notin NotSent /\ expected' = announced
          /\ \/ announced = 0 /\ rpc' = "close" /\ rres' = "failure"
             \/ announced # 0 /\ rpc' = "receive" /\ rres' = rres
      BY <1>5, <2>3, HeaderReceived DEF RReceiveHeader
    <3> QED
      BY <2>1, <2>2, <3>1, SMT
  <2>4. CASE ~(Len(inbox') = BufferSize /\ HasKey(inbox'[1]))
    <3>1. rpc' = "close" /\ rres' = "failure" /\ expected' = expected
      BY <1>5, <2>4, Zenon DEF RReceiveHeader
    <3> QED
      BY <2>1, <2>2, <3>1, SMT
  <2> QED
    BY <2>3, <2>4
<1>6. CASE RReceive
  <2>1. pipe = << >> => pipe' = << >>
    BY <1>6, PipeStaysEmpty DEF RReceive
  <2>2. /\ rpc = "receive" /\ rpc' = "store" /\ rres' = rres
        /\ UNCHANGED <<name, target, kept, expected, out, held, present>>
        /\ UNCHANGED <<spc, sres, size, announced, sent, lastRead>>
    BY <1>6, Zenon DEF RReceive
  <2>3. Len(inbox') < BufferSize => spc \in {"unlink", "ended"}
    <3>1. PICK n \in 0..BufferSize :
            Len(inbox') = n /\ (n = BufferSize \/ (n = Len(pipe) /\ EndOfFile))
      BY <1>6, ReadFacts, Zenon DEF IInv, RReceive
    <3>2. target = "fifo"
      BY <2>2
    <3> QED
      BY <3>1, <3>2 DEF EndOfFile, Writing
  <2> QED
    BY <2>1, <2>2, <2>3, SMT
<1>7. CASE RStore
  <2>1. /\ rpc = "store"
        /\ UNCHANGED <<name, target, pipe, kept, expected, inbox, present>>
        /\ UNCHANGED <<spc, sres, size, announced, sent, lastRead>>
        /\ \/ rpc' = "receive" /\ rres' = rres
              /\ More(Len(inbox), Len(out'), expected) /\ held' \in HeldOf(Len(inbox))
           \/ rpc' = "close" /\ rres' = Verdict(Len(out'), expected)
              /\ out' = out \o inbox /\ held' \in HeldOf(Len(inbox))
           \/ rpc' = "close" /\ rres' = "failure" /\ UNCHANGED <<out, held>>
    BY <1>7, Zenon DEF RStore
  <2>2. rres' = "success" =>
          Len(out') = expected /\ Len(out') <= size /\ expected \in Nat
    BY <1>7, <2>1, StoredFits, Before DEF Verdict
  <2>3. rpc' = "close" => rres' \in {"success", "failure"}
    BY <2>1 DEF Verdict
  <2>4. Held'
    <3>1. CASE rpc' = "receive"
      BY <2>1, <3>1 DEF More, HeldOf
    <3>2. CASE out' = out \o inbox /\ held' \in HeldOf(Len(inbox)) /\ rpc' = "close"
      <4>1. Len(out') = Len(out) + Len(inbox) /\ Len(out) \in Nat /\ Len(inbox) \in Nat
        BY <3>2, Before, Joined
      <4> QED
        BY <2>1, <3>2, <4>1 DEF HeldOf
    <3>3. CASE UNCHANGED <<out, held>> /\ rpc' = "close"
      BY <2>1, <3>3
    <3> QED
      BY <2>1, <3>1, <3>2, <3>3
  <2>5. Results'
    BY <2>1, <2>2, <2>3, SMT
  <2> QED
    BY <2>1, <2>3, <2>4, <2>5, SMT
<1>8. CASE RClose
  BY <1>8, SMT DEF RClose
<1>9. CASE RUnlink
  BY <1>9, SMT DEF RUnlink
<1>10. CASE RUnlinkAgain
  BY <1>10, SMT DEF RUnlinkAgain
<1>11. CASE RRemove
  <2>1. present' = FALSE
    BY <1>11, Zenon DEF RRemove
  <2> QED
    BY <1>11, <2>1, SMT DEF RRemove
<1>12. CASE RCallFails
  BY <1>12, SMT DEF RCallFails
<1>13. CASE RKill
  <2>1. rpc # "idle" /\ rpc' = "ended" /\ rres' = "killed" /\ held' = 0
        /\ UNCHANGED <<spc, sres, size, announced, sent, lastRead>>
        /\ UNCHANGED <<name, target, pipe, kept, expected, inbox, present>>
    BY <1>13 DEF RKill
  <2> QED
    BY <2>1, SMT
<1>14. CASE RCloseCopy
  <2>1. PICK k \in 0..held :
          Len(out') = Len(out) - k /\ k <= MostLost(BufferSize - 1) /\ k <= Len(out)
    BY <1>14, Loses
  <2>2. /\ rpc = "closeCopy" /\ rres = "success" /\ rpc' = "ended" /\ held' = 0
        /\ name' = "none"
        /\ UNCHANGED <<spc, sres, rres, size, announced, sent, lastRead>>
        /\ UNCHANGED <<target, pipe, kept, expected, inbox, present>>
    BY <1>14 DEF RCloseCopy
  <2>3. Len(out') \in (announced - MostLost(BufferSize - 1))..announced
    BY <2>1, <2>2
  <2> QED
    BY <2>2, <2>3, SMT
<1>15. CASE RRefuse
  BY <1>15, SMT DEF RRefuse
<1> QED
  BY <1>1, <1>2, <1>3, <1>4, <1>5, <1>6, <1>7, <1>8, <1>9, <1>10, <1>11, <1>12,
     <1>13, <1>14, <1>15
  DEF ReceiverStep

(* Opening the FIFO in both programs keeps it.                             *)
LEMMA ControlMeet ==
  ASSUME IInv, Meet
  PROVE  Control'
  BY Before, SMT DEF Meet, Control, OneName, NothingSent, Held, Results, NameGone, Outcomes

-----------------------------------------------------------------------------
(* The parts of the invariant that are about the bytes.                    *)

Reads == Receiving \cup {"receiveHeader"}
Stream == InTransit /\ Produces /\ Ahead /\ Prefix

(* What the receiver reads in the pipe from its state on.                  *)
Follows ==
  /\ InPipe >= 0 /\ Reached + InPipe <= size
  /\ \A i \in 1..Len(pipe) :
       pipe[i] = IF i <= HeaderLength THEN HeaderByte(announced)
                 ELSE Reached + i - HeaderLength
  /\ rpc = "store" => \A i \in 1..Len(inbox) : inbox[i] = Len(out) + i

(* Lengths of a source, of a buffer and of a pipe are numbers.             *)
LEMMA LengthsAre ==
  ASSUME IInv
  PROVE  /\ HeaderLength \in Nat /\ InPipe \in Int /\ Reached \in Nat
         /\ Produced \in Int
         /\ spc = "send" => Produced \in Nat /\ Produced + lastRead = sent
         /\ spc # "send" => Produced = sent
         /\ rpc \in Reads => Follows
         /\ pipe = << >> <=> Len(pipe) = 0
<1>1. HeaderLength \in Nat /\ Reached \in Nat /\ (pipe = << >> <=> Len(pipe) = 0)
  BY Before, EmptySeq DEF HeaderLength, Reached
<1>2. InPipe \in Int
  BY <1>1, Before DEF InPipe
<1>3. /\ Produced \in Int
      /\ spc = "send" => Produced \in Nat /\ Produced + lastRead = sent
      /\ spc # "send" => Produced = sent
  BY Before DEF Produced
<1>4. rpc \in Reads => Follows
  BY Before DEF InTransit, Follows, Reads
<1> QED
  BY <1>1, <1>2, <1>3, <1>4

(* A sender that writes nothing and neither goes on nor keeps bytes leaves *)
(* them alone.                                                             *)
LEMMA SenderRests ==
  ASSUME IInv, spc' \notin Sending, spc' = "close" => kept' = << >>,
         UNCHANGED <<rpc, pipe, size, out, held, inbox>>,
         announced' = announced \/ spc \in NotSent,
         sres' = "success" => sres = "success" /\ UNCHANGED <<sent, target>>
  PROVE  Stream'
<1>1. Prefix'
  BY Before DEF Prefix
<1>2. Produces'
  BY DEF Produces
<1>3. Ahead'
  BY Before DEF Ahead
<1>4. HeaderLength' = HeaderLength /\ InPipe' = InPipe /\ Reached' = Reached
  BY DEF HeaderLength, InPipe, Reached
<1>5. announced' = announced \/ pipe = << >>
  BY Before DEF NothingSent
<1>6. ASSUME rpc \in Reads PROVE Follows'
  <2>1. Follows
    BY <1>6, LengthsAre
  <2>2. \A i \in 1..Len(pipe) : HeaderByte(announced') = HeaderByte(announced)
    BY <1>5
  <2> QED
    BY <1>4, <2>1, <2>2 DEF Follows
<1>7. InTransit'
  BY <1>6 DEF InTransit, Follows, Reads
<1> QED
  BY <1>1, <1>2, <1>3, <1>7 DEF Stream

(* So does a receiver that takes nothing and reads no more.                *)
LEMMA ReceiverRests ==
  ASSUME IInv, rpc' \notin Reads,
         UNCHANGED <<spc, sres, target, pipe, kept, size, announced, sent, lastRead,
                     out, held, inbox>>
  PROVE  Stream'
<1>1. Produced' = Produced
  BY DEF Produced
<1>2. Produces'
  BY <1>1, Before DEF Produces, Reads
<1>3. Ahead'
  BY <1>1, Before DEF Ahead
<1> QED
  BY <1>2, <1>3, Before DEF Stream, InTransit, Prefix, Reads

(* The header is written to an empty pipe.                                 *)
LEMMA HeaderPut ==
  ASSUME IInv, SSendHeader, ~Broken
  PROVE  Stream'
<1> DEFINE h == [i \in 1..BufferSize |-> HeaderByte(announced)]
<1>1. /\ announced \in Nat /\ announced \in Int /\ pipe = << >> /\ Len(pipe) = 0
      /\ rpc \notin Receiving /\ sent = 0 /\ kept = << >> /\ sres = "none"
      /\ spc = "sendHeader"
  BY Before, EmptySeq DEF SSendHeader, NothingSent, Results
<1>2. /\ h \in Seq(Int) /\ Len(h) = BufferSize
      /\ \A i \in 1..BufferSize : h[i] = HeaderByte(announced)
  BY <1>1, HeaderBytesAre, Zenon
<1>3. /\ Write(h) /\ spc' \in {"fill", "close"} /\ sres' # "success"
      /\ UNCHANGED <<target, kept, announced, sent, lastRead>>
      /\ UNCHANGED <<rpc, size, inbox, out, held>>
  BY <1>1 DEF SSendHeader
<1> HIDE DEF h
<1>4. \/ target = "file" /\ pipe' = pipe
      \/ /\ target = "fifo" /\ pipe' \in Seq(Int) /\ Len(pipe') = BufferSize
         /\ \A i \in 1..BufferSize : pipe'[i] = HeaderByte(announced)
         /\ pipe' # << >>
  <2>1. CASE target = "file" /\ pipe' = pipe
    BY <2>1
  <2>2. CASE /\ target = "fifo" /\ pipe' \in Seq(Int)
             /\ Len(pipe') = Len(pipe) + Len(h)
             /\ \A i \in 1..Len(h) : pipe'[Len(pipe) + i] = h[i]
    <3>1. Len(pipe') = BufferSize /\ pipe' # << >>
      BY <1>1, <1>2, <2>2, Before, EmptySeq
    <3>2. \A i \in 1..BufferSize : pipe'[i] = HeaderByte(announced)
      <4>1. ASSUME NEW i \in 1..BufferSize PROVE pipe'[i] = HeaderByte(announced)
        <5>1. pipe'[0 + i] = h[i] /\ 0 + i = i
          BY <1>1, <1>2, <2>2
        <5> QED
          BY <1>2, <5>1
      <4> QED
        BY <4>1
    <3> QED
      BY <2>2, <3>1, <3>2
  <2> QED
    BY <1>2, <1>3, <2>1, <2>2, WriteFacts
<1>5. Prefix'
  BY <1>3, Before DEF Prefix
<1>6. Produced' = 0
  BY <1>1, <1>3 DEF Produced
<1>7. Produces'
  BY <1>1, <1>3, <1>6, Before DEF Produces
<1>8. Ahead'
  BY <1>1, <1>3, <1>4, <1>6, Before DEF Ahead
<1>9. InTransit'
  <2> SUFFICES ASSUME rpc = "receiveHeader"
               PROVE  InTransit'
    BY <1>1, <1>3 DEF InTransit
  <2>1. target = "fifo" /\ Len(out) = 0 /\ out = << >>
    BY Before, EmptySeq DEF OneName, NothingSent
  <2>2. HeaderLength' = BufferSize /\ Reached' = 0 /\ InPipe' = 0
    BY <1>3, <1>4, <2>1, Before DEF HeaderLength, Reached, InPipe
  <2> QED
    BY <1>3, <1>4, <1>6, <2>1, <2>2, Before DEF InTransit
<1> QED
  BY <1>5, <1>7, <1>8, <1>9 DEF Stream

(* A read only moves what the sender has to its own buffer.                *)
LEMMA BufferFilled ==
  ASSUME IInv, spc = "fill", spc' = "send",
         lastRead' = ReadFile(sent, size), sent' = sent + lastRead',
         UNCHANGED <<rpc, sres, target, pipe, kept, size, announced, out, held, inbox>>
  PROVE  Stream'
<1>1. Produced = sent /\ Produced' = Produced /\ sres = "none"
  <2>1. sent \in Nat /\ lastRead' \in 0..BufferSize /\ BufferSize \in Nat
    BY Before, ReadFileBounds
  <2>2. sent' - lastRead' = sent
    BY <2>1
  <2> QED
    BY <2>2, Before DEF Produced, Results
<1>2. HeaderLength' = HeaderLength /\ InPipe' = InPipe /\ Reached' = Reached
  BY DEF HeaderLength, InPipe, Reached
<1>3. InTransit'
  BY <1>1, <1>2, Before DEF InTransit
<1>4. Produces'
  BY <1>1, Before DEF Produces
<1>5. Ahead'
  BY <1>1, Before DEF Ahead
<1> QED
  BY <1>3, <1>4, <1>5, Before DEF Stream, Prefix

(* The next k bytes of the source are written behind the others.           *)
LEMMA Appended ==
  ASSUME IInv, NEW m \in Nat, NEW k \in Nat, m + k <= size, Write(Stretch(m, k)),
         UNCHANGED <<rpc, size, announced, out, inbox>>, rpc \in Reads,
         m = Reached + InPipe, rpc = "receiveHeader" => pipe # << >>
  PROVE  /\ Follows' /\ Reached' = Reached /\ InPipe' = InPipe + k
         /\ rpc = "receiveHeader" => pipe' # << >>
<1> DEFINE b == Stretch(m, k)
<1>1. b \in Seq(Int) /\ Len(b) = k /\ \A i \in 1..k : b[i] = m + i
  BY StretchSeq
<1>2. target = "fifo"
  BY Before DEF OneName, Reads
<1> HIDE DEF b
<1>3. /\ pipe' \in Seq(Int) /\ Len(pipe') = Len(pipe) + k
      /\ \A i \in 1..Len(pipe) : pipe'[i] = pipe[i]
      /\ \A i \in 1..k : pipe'[Len(pipe) + i] = m + i
  <2>1. Write(b)
    BY DEF b
  <2> QED
    BY <1>1, <1>2, <2>1, WriteFacts
<1>4. Len(pipe) \in Nat /\ (pipe = << >> <=> Len(pipe) = 0)
      /\ (pipe' = << >> <=> Len(pipe') = 0)
  BY <1>3, Before, LengthsAre, EmptySeq
<1>5. HeaderLength' = HeaderLength /\ Reached' = Reached
      /\ (rpc = "receiveHeader" => pipe' # << >>)
  BY <1>3, <1>4 DEF HeaderLength, Reached
<1>6. InPipe' = InPipe + k
  BY <1>3, <1>4, <1>5, LengthsAre DEF InPipe
<1>7. ASSUME NEW i \in 1..Len(pipe')
      PROVE  pipe'[i] = IF i <= HeaderLength THEN HeaderByte(announced)
                        ELSE Reached + i - HeaderLength
  <2>1. CASE i \in 1..Len(pipe)
    BY <1>3, <2>1, LengthsAre DEF Follows
  <2>2. CASE i \notin 1..Len(pipe)
    <3>1. i - Len(pipe) \in 1..k /\ Len(pipe) + (i - Len(pipe)) = i
      BY <1>3, <1>4, <2>2
    <3>2. pipe'[i] = m + (i - Len(pipe))
      BY <1>3, <3>1
    <3>3. InPipe = Len(pipe) - HeaderLength /\ InPipe >= 0
      BY LengthsAre DEF InPipe, Follows
    <3>4. ~(i <= HeaderLength)
      <4>1. HeaderLength \in Int
        BY LengthsAre
      <4>2. i \in Int /\ i > Len(pipe)
        BY <1>3, <1>4, <3>1
      <4> QED
        BY <1>4, <3>3, <4>1, <4>2
    <3>5. m + (i - Len(pipe)) = Reached + i - HeaderLength
      <4>1. /\ i \in Int /\ Len(pipe) \in Int /\ Reached \in Int /\ HeaderLength \in Int
            /\ m = Reached + (Len(pipe) - HeaderLength)
        BY <1>3, <1>4, <3>3, LengthsAre
      <4> QED
        BY <4>1
    <3> QED
      BY <3>2, <3>4, <3>5
  <2> QED
    BY <2>1, <2>2
<1>8. Reached + InPipe + k <= size /\ InPipe + k >= 0
  BY LengthsAre DEF Follows
<1>9. rpc = "store" => \A i \in 1..Len(inbox) : inbox[i] = Len(out) + i
  BY LengthsAre DEF Follows
<1> QED
  BY <1>5, <1>6, <1>7, <1>8, <1>9, LengthsAre DEF Follows

(* With what is in both buffers and in the pipe, a sender is ahead.        *)
LEMMA SentBounded ==
  ASSUME IInv, spc = "send", target = "fifo"
  PROVE  sent + held <= Len(out) + Capacity + 2 * BufferSize
<1>0. held = 0
  BY Before DEF Held
<1>1. Produced <= Len(out) + Len(inbox) + Len(pipe) /\ Len(inbox) <= BufferSize
  BY Before DEF Ahead
<1>2. Produced \in Nat /\ sent = Produced + lastRead
  BY LengthsAre
<1>3. /\ Len(out) \in Nat /\ Len(inbox) \in Nat /\ Len(pipe) \in Nat
      /\ Len(pipe) <= Capacity /\ lastRead \in Nat /\ lastRead <= BufferSize
      /\ Capacity \in Nat /\ BufferSize \in Nat
  BY Before
<1> QED
  BY <1>0, <1>1, <1>2, <1>3

(* A piece is written, or kept in the stream.                              *)
LEMMA PiecePut ==
  ASSUME IInv, SSend, ~(lastRead > 0 /\ Broken /\ spc' = "close" /\ sres' = "failure"
                         /\ UNCHANGED kept)
  PROVE  Stream'
<1> DEFINE b == Stretch(sent - lastRead, lastRead)
<1>1. /\ spc = "send" /\ kept = << >> /\ sres = "none"
      /\ Produced = sent - lastRead /\ Produced \in Nat /\ Produced + lastRead = sent
      /\ lastRead = ReadFile(Produced, size) /\ sent <= size /\ lastRead \in Nat
      /\ lastRead \in 0..BufferSize
  <2>1. spc = "send" /\ kept = << >> /\ sres = "none"
    BY Before DEF SSend, NothingSent, Results
  <2>2. /\ Produced = sent - lastRead /\ Produced \in Nat /\ Produced + lastRead = sent
        /\ lastRead = ReadFile(Produced, size) /\ Produced <= size /\ lastRead \in Nat
        /\ lastRead \in 0..BufferSize
    BY <2>1, Before, LengthsAre DEF Produces, Produced
  <2>3. Produced + ReadFile(Produced, size) <= size
    BY <2>2, Before, ReadFileBounds
  <2> QED
    BY <2>1, <2>2, <2>3
<1>2. /\ b \in Seq(Int) /\ Len(b) = lastRead
      /\ b = Stretch(Produced, lastRead)
  BY <1>1, StretchSeq
<1>3. /\ UNCHANGED <<target, announced, sent, lastRead>>
      /\ UNCHANGED <<rpc, size, inbox, out, held>>
      /\ \/ Write(b) /\ UNCHANGED kept
         \/ lastRead < BufferSize /\ kept' = b /\ UNCHANGED pipe
      /\ \/ spc' = "fill" /\ sres' = sres /\ lastRead = BufferSize
         \/ spc' = "close"
  BY <1>1, Zenon DEF SSend, More, b
<1> HIDE DEF b
<1>4. Prefix'
  BY <1>3, Before DEF Prefix
<1>5. rpc \in Reads => Produced = Reached + InPipe /\ (rpc = "receiveHeader" => pipe # << >>)
  BY <1>1, Before DEF InTransit, Reads
<1>6. CASE Write(b) /\ UNCHANGED kept
  <2>1. rpc \in Reads =>
          /\ Follows' /\ Reached' = Reached /\ InPipe' = InPipe + lastRead
          /\ rpc = "receiveHeader" => pipe' # << >>
    BY <1>1, <1>2, <1>3, <1>5, <1>6, Appended
  <2>2. spc' = "fill" => Produced' = sent
    BY <1>3 DEF Produced
  <2>3. InTransit'
    <3> SUFFICES ASSUME rpc \in Reads PROVE InTransit'
      BY <1>3 DEF InTransit, Reads
    <3>1. spc' = "fill" => Produced' = Reached' + InPipe'
      BY <1>1, <1>5, <2>1, <2>2, LengthsAre
    <3> QED
      BY <1>3, <2>1, <3>1 DEF InTransit, Follows
  <2>4. Produces'
    BY <1>1, <1>3, <1>6, <2>2 DEF Produces
  <2>5. target = "fifo" => /\ Len(pipe') = Len(pipe) + lastRead
                           /\ Len(pipe') \in Nat
    BY <1>2, <1>6, WriteFacts
  <2>6. Ahead'
    <3>1. spc' = "fill" /\ target = "fifo" => Produced' <= Len(out) + Len(inbox) + Len(pipe')
      <4>1. target = "fifo" => Produced <= Len(out) + Len(inbox) + Len(pipe)
        BY <1>1, Before DEF Ahead
      <4>2. /\ Len(out) \in Nat /\ Len(inbox) \in Nat /\ Len(pipe) \in Nat
            /\ lastRead \in Nat /\ Produced \in Nat /\ Produced + lastRead = sent
        BY <1>1, Before
      <4> QED
        BY <2>2, <2>5, <4>1, <4>2
    <3>2. target = "fifo" => sent + held <= Len(out) + Capacity + 2 * BufferSize
      BY <1>1, SentBounded
    <3>3. Len(inbox) <= BufferSize
      BY Before DEF Ahead
    <3> QED
      BY <1>1, <1>3, <3>1, <3>2, <3>3 DEF Ahead
  <2> QED
    BY <1>4, <2>3, <2>4, <2>6 DEF Stream
<1>7. CASE lastRead < BufferSize /\ kept' = b /\ UNCHANGED pipe
  <2>1. spc' = "close" /\ BufferSize \in Nat
    BY <1>1, <1>3, <1>7, Before
  <2>2. HeaderLength' = HeaderLength /\ InPipe' = InPipe /\ Reached' = Reached
    BY <1>3, <1>7 DEF HeaderLength, InPipe, Reached
  <2>3. InTransit'
    BY <1>3, <1>7, <2>1, <2>2, Before DEF InTransit
  <2>4. Produces'
    <3>1. kept' = Stretch(sent - Len(kept'), Len(kept')) /\ sent - Len(kept') = Produced
      BY <1>1, <1>2, <1>7
    <3> QED
      BY <1>1, <1>3, <1>5, <1>7, <2>1, <2>2, <3>1 DEF Produces, Reads
  <2>5. Ahead'
    <3>1. target = "fifo" => sent + held <= Len(out) + Capacity + 2 * BufferSize
      BY <1>1, SentBounded
    <3> QED
      BY <1>3, <1>7, <2>1, <3>1, Before DEF Ahead
  <2> QED
    BY <1>4, <2>3, <2>4, <2>5 DEF Stream
<1> QED
  BY <1>3, <1>6, <1>7

(* What was kept is the end of the source, and is written behind the rest. *)
LEMMA KeptPut ==
  ASSUME IInv, SClose
  PROVE  Stream'
<1>1. /\ spc = "close" /\ spc' = "unlink" /\ sres' = sres
      /\ UNCHANGED <<target, kept, announced, sent, lastRead>>
      /\ UNCHANGED <<rpc, size, inbox, out, held>>
      /\ \/ UNCHANGED pipe
         \/ kept # << >> /\ Write(kept)
  BY Zenon DEF SClose, Broken
<1>2. CASE UNCHANGED pipe
  BY <1>1, <1>2, SenderRests
<1>3. CASE kept # << >> /\ Write(kept)
  <2> DEFINE m == sent - Len(kept)
             k == Len(kept)
  <2>1. /\ kept = Stretch(m, k) /\ m + k = sent /\ sent <= size /\ k \in Nat /\ m \in Int
        /\ rpc \in Reads =>
             m = Reached + InPipe /\ (rpc = "receiveHeader" => pipe # << >>)
    BY <1>1, <1>3, Before DEF Produces, Reads
  <2>2. rpc \in Reads => m \in Nat
    BY <2>1, LengthsAre DEF Follows
  <2> HIDE DEF m, k
  <2>3. rpc \in Reads => Follows'
    BY <1>1, <1>3, <2>1, <2>2, Appended
  <2>4. InTransit'
    BY <1>1, <2>3 DEF InTransit, Follows, Reads
  <2> QED
    BY <1>1, <2>4, Before DEF Stream, Produces, Ahead, Prefix
<1> QED
  BY <1>1, <1>2, <1>3

(* What is on the way is what the receiver needs next: a step of the sender*)
(* keeps it.                                                               *)
LEMMA StreamSender ==
  ASSUME IInv, SLaunch \/ SenderStep \/ SCallFails \/ SKill
  PROVE  Stream'
<1> USE DEF NothingSent, Results
<1>1. CASE SLaunch
  BY <1>1, Before, SenderRests DEF SLaunch
<1>2. CASE SMake
  BY <1>2, Before, SenderRests DEF SMake
<1>3. CASE SOpen
  BY <1>3, Before, SenderRests DEF SOpen
<1>4. CASE SOpenTimeout
  BY <1>4, Before, SenderRests DEF SOpenTimeout
<1>5. CASE SMeasure
  BY <1>5, Before, SenderRests DEF SMeasure
<1>6. CASE SSendHeader
  <2>1. CASE Broken
    <3>1. /\ UNCHANGED <<pipe, target, kept, announced, sent, rpc, size, out, held, inbox>>
          /\ spc = "sendHeader" /\ kept = << >> /\ sres = "none"
          /\ spc' \in {"fill", "close"}
      BY <1>6, <2>1, Before DEF SSendHeader, Broken
    <3>2. spc' = "close" /\ sres' = "failure"
      BY <1>6, <2>1, Before DEF SSendHeader, Broken, Write, Reading
    <3> QED
      BY <3>1, <3>2, SenderRests
  <2> QED
    BY <1>6, <2>1, HeaderPut
<1>7. CASE SFill
  <2>1. CASE spc' = "send"
    BY <1>7, <2>1, BufferFilled DEF SFill
  <2>2. CASE spc' # "send"
    BY <1>7, <2>2, Before, SenderRests DEF SFill
  <2> QED
    BY <2>1, <2>2
<1>8. CASE SSend
  <2>1. CASE Broken /\ spc' = "close" /\ sres' = "failure" /\ UNCHANGED kept
    <3>1. /\ UNCHANGED <<pipe, target, kept, announced, sent, rpc, size, out, held, inbox>>
          /\ kept = << >>
      BY <1>8, <2>1, Before DEF SSend, Broken
    <3> QED
      BY <2>1, <3>1, SenderRests
  <2> QED
    BY <1>8, <2>1, PiecePut
<1>9. CASE SClose
  BY <1>9, KeptPut
<1>10. CASE SUnlink
  BY <1>10, SenderRests DEF SUnlink
<1>11. CASE SCallFails
  BY <1>11, Before, SenderRests DEF SCallFails
<1>12. CASE SKill
  BY <1>12, SenderRests DEF SKill
<1> QED
  BY <1>1, <1>2, <1>3, <1>4, <1>5, <1>6, <1>7, <1>8, <1>9, <1>10, <1>11, <1>12
  DEF SenderStep

(* A read that goes on: the receiver has what follows in its buffer, or    *)
(* the header, and the pipe begins with what follows that.                 *)
LEMMA Received ==
  ASSUME IInv, RReceive
  PROVE  Stream'
<1>1. PICK n \in 0..BufferSize :
           /\ n <= Len(pipe)
           /\ inbox' \in Seq(Int) /\ Len(inbox') = n
           /\ \A i \in 1..n : inbox'[i] = pipe[i]
           /\ pipe' \in Seq(Int) /\ Len(pipe') = Len(pipe) - n
           /\ \A i \in 1..(Len(pipe) - n) : pipe'[i] = pipe[n + i]
  BY ReadFacts, Zenon DEF IInv, RReceive
<1>2. /\ rpc = "receive" /\ rpc' = "store"
      /\ UNCHANGED <<spc, sres, size, announced, sent, lastRead>>
      /\ UNCHANGED <<target, kept, out, held>>
  BY DEF RReceive
<1>3. /\ HeaderLength = 0 /\ HeaderLength' = 0 /\ Reached = Len(out)
      /\ Reached' = Len(out) + n /\ InPipe = Len(pipe) /\ InPipe' = Len(pipe) - n
      /\ Produced' = Produced
  BY <1>1, <1>2, Before DEF HeaderLength, Reached, InPipe, Produced
<1>4. /\ n \in Nat /\ Len(pipe) \in Nat /\ Len(out) \in Nat /\ size \in Nat
      /\ BufferSize \in Nat /\ n <= BufferSize
      /\ Len(out) + Len(pipe) <= size
      /\ \A i \in 1..Len(pipe) : pipe[i] = Len(out) + i
      /\ spc \in Sending => target = "fifo" /\ Produced = Len(out) + Len(pipe)
  <2>1. Follows
    BY <1>2, LengthsAre DEF Reads
  <2>2. \A i \in 1..Len(pipe) : pipe[i] = Len(out) + i
    BY <1>3, <2>1, Before DEF Follows
  <2>3. spc \in Sending => target = "fifo" /\ Produced = Len(out) + Len(pipe)
    BY <1>2, <1>3, Before DEF InTransit, OneName
  <2> QED
    BY <1>1, <1>3, <2>1, <2>2, <2>3, Before DEF Follows
<1>5. \A i \in 1..Len(inbox') : inbox'[i] = Len(out) + i
  <2>1. ASSUME NEW i \in 1..Len(inbox') PROVE inbox'[i] = Len(out) + i
    <3>1. i \in 1..n /\ i \in 1..Len(pipe)
      BY <1>1, <1>4
    <3> QED
      BY <1>1, <1>4, <3>1
  <2> QED
    BY <2>1
<1>6. \A i \in 1..Len(pipe') : pipe'[i] = Len(out) + n + i
  <2>1. ASSUME NEW i \in 1..Len(pipe') PROVE pipe'[i] = Len(out) + n + i
    <3>1. n + i \in 1..Len(pipe) /\ pipe'[i] = pipe[n + i]
      BY <1>1, <1>4
    <3> QED
      BY <1>4, <3>1
  <2> QED
    BY <2>1
<1>7. InTransit'
  BY <1>1, <1>2, <1>3, <1>4, <1>5, <1>6 DEF InTransit
<1>8. Produces'
  <2>1. Reached' + InPipe' = Reached + InPipe
    BY <1>3, <1>4
  <2> QED
    BY <1>2, <1>3, <2>1, Before DEF Produces
<1>9. Ahead'
  <2>1. spc \in Sending => Produced = Len(out) + n + (Len(pipe) - n)
    BY <1>4
  <2> QED
    BY <1>1, <1>2, <1>3, <1>4, <2>1, Before DEF Ahead
<1> QED
  BY <1>2, <1>7, <1>8, <1>9, Before DEF Stream, Prefix

(* The receiver takes the header and nothing of the file with it.          *)
LEMMA HeaderTaken ==
  ASSUME IInv, RReceiveHeader
  PROVE  Stream'
<1>1. PICK n \in 0..BufferSize :
           /\ n <= Len(pipe)
           /\ inbox' \in Seq(Int) /\ Len(inbox') = n
           /\ pipe' \in Seq(Int) /\ Len(pipe') = Len(pipe) - n
           /\ \A i \in 1..(Len(pipe) - n) : pipe'[i] = pipe[n + i]
  BY ReadFacts, Zenon DEF IInv, RReceiveHeader
<1>2. /\ rpc = "receiveHeader" /\ rpc' \in {"receive", "close"}
      /\ UNCHANGED <<spc, sres, size, announced, sent, lastRead>>
      /\ UNCHANGED <<target, kept, out, held>>
  BY Zenon DEF RReceiveHeader
<1>3. /\ out = << >> /\ Len(out) = 0 /\ Reached = 0 /\ target = "fifo"
      /\ Produced' = Produced /\ Produced \in Int
      /\ n \in Nat /\ n <= BufferSize /\ Len(pipe) \in Nat /\ BufferSize \in Nat \ {0}
  BY <1>1, <1>2, Before, LengthsAre, EmptySeq DEF NothingSent, OneName, Reached, Produced
<1>4. spc \in Sending => Produced = InPipe /\ InPipe <= Len(pipe)
  BY <1>2, <1>3, Before, LengthsAre DEF InTransit, InPipe
<1>5. Ahead'
  BY <1>1, <1>2, <1>3, <1>4, Before DEF Ahead
<1>6. CASE rpc' = "close"
  <2>1. InTransit'
    BY <1>6 DEF InTransit
  <2>2. Produces'
    BY <1>2, <1>3, <1>6, Before DEF Produces
  <2> QED
    BY <1>2, <1>5, <2>1, <2>2, Before DEF Stream, Prefix
<1>7. CASE rpc' = "receive"
  <2>1. Len(inbox') = BufferSize /\ HasKey(inbox'[1])
    BY <1>7, Zenon DEF RReceiveHeader
  <2>2. n = BufferSize /\ pipe # << >>
    BY <1>1, <2>1, HeaderReceived
  <2>3. /\ HeaderLength = BufferSize /\ HeaderLength' = 0 /\ Reached' = 0
        /\ InPipe = Len(pipe) - BufferSize /\ InPipe' = InPipe
    BY <1>1, <1>2, <1>3, <1>7, <2>2 DEF HeaderLength, Reached, InPipe
  <2>4. /\ InPipe >= 0 /\ InPipe <= size
        /\ \A i \in 1..Len(pipe) : ~(i <= BufferSize) => pipe[i] = i - BufferSize
    <3>1. Follows
      BY <1>2, LengthsAre DEF Reads
    <3> QED
      BY <1>3, <2>3, <3>1, LengthsAre, Before DEF Follows
  <2>5. \A i \in 1..Len(pipe') : pipe'[i] = i
    <3>1. ASSUME NEW i \in 1..Len(pipe') PROVE pipe'[i] = i
      <4>1. /\ BufferSize + i \in 1..Len(pipe) /\ pipe'[i] = pipe[BufferSize + i]
            /\ ~(BufferSize + i <= BufferSize) /\ (BufferSize + i) - BufferSize = i
        BY <1>1, <1>3, <2>2
      <4>2. pipe[BufferSize + i] = (BufferSize + i) - BufferSize
        BY <2>4, <4>1, Zenon
      <4> QED
        BY <4>1, <4>2
    <3> QED
      BY <3>1
  <2>6. InTransit'
    <3>1. InPipe' \in Int /\ InPipe' >= 0 /\ Reached' + InPipe' <= size'
      BY <1>2, <2>3, <2>4, LengthsAre
    <3>2. \A i \in 1..Len(pipe') :
            pipe'[i] = IF i <= 0 THEN HeaderByte(announced) ELSE 0 + i - 0
      BY <1>1, <2>5
    <3>3. spc \in Sending => Produced = 0 + InPipe
      BY <1>4, LengthsAre
    <3> QED
      BY <1>2, <1>3, <1>7, <2>3, <3>1, <3>2, <3>3 DEF InTransit
  <2>7. Produces'
    BY <1>2, <1>3, <1>7, <2>3, Before DEF Produces
  <2> QED
    BY <1>2, <1>5, <2>6, <2>7, Before DEF Stream, Prefix
<1> QED
  BY <1>2, <1>6, <1>7

(* The bytes in the receiver's buffer are those the copy needs next.       *)
LEMMA Stored ==
  ASSUME IInv, RStore
  PROVE  Stream'
<1>1. /\ rpc = "store" /\ rpc' \in {"receive", "close"}
      /\ UNCHANGED <<spc, sres, size, announced, sent, lastRead>>
      /\ UNCHANGED <<target, kept, pipe, inbox>>
      /\ \/ out' = out \o inbox /\ held' \in HeldOf(Len(inbox))
         \/ out' = out /\ held' = held /\ rpc' = "close"
  BY Zenon DEF RStore
<1>2. CASE out' = out /\ held' = held /\ rpc' = "close"
  BY <1>1, <1>2, ReceiverRests DEF Reads
<1>3. CASE out' = out \o inbox /\ held' \in HeldOf(Len(inbox))
  <2>1. /\ Len(out) \in Nat /\ Len(inbox) \in Nat /\ inbox \in Seq(Int)
        /\ \A i \in 1..Len(inbox) : inbox[i] = Len(out) + i
        /\ out = Stretch(0, Len(out))
    BY <1>1, Before, LengthsAre DEF Follows, Reads, Prefix
  <2>2. inbox = Stretch(Len(out), Len(inbox))
    <3>1. /\ Stretch(Len(out), Len(inbox)) \in Seq(Int)
          /\ Len(Stretch(Len(out), Len(inbox))) = Len(inbox)
          /\ \A i \in 1..Len(inbox) : Stretch(Len(out), Len(inbox))[i] = Len(out) + i
      BY <2>1, StretchSeq
    <3>2. \A i \in 1..Len(inbox) : Stretch(Len(out), Len(inbox))[i] = inbox[i]
      BY <2>1, <3>1
    <3> QED
      BY <2>1, <3>1, <3>2, SeqEqual
  <2>3. /\ out' = Stretch(0, Len(out) + Len(inbox))
        /\ Len(out') = Len(out) + Len(inbox)
    <3>1. out' = Stretch(0, Len(out)) \o Stretch(Len(out), Len(inbox))
      BY <1>3, <2>1, <2>2, Zenon
    <3> QED
      BY <2>1, <3>1, StretchGrows
  <2>4. /\ Reached = Len(out) + Len(inbox) /\ Reached' = Reached
        /\ HeaderLength' = HeaderLength /\ InPipe' = InPipe /\ Produced' = Produced
    BY <1>1, <2>1, <2>3 DEF Reached, HeaderLength, InPipe, Produced
  <2>5. Follows /\ InPipe \in Int /\ Reached \in Nat
    BY <1>1, LengthsAre DEF Reads
  <2>6. Prefix'
    BY <1>1, <2>3, <2>4, <2>5, Before DEF Prefix, Follows
  <2>7. InTransit'
    <3>1. /\ InPipe' >= 0 /\ Reached' + InPipe' <= size'
          /\ \A i \in 1..Len(pipe') :
               pipe'[i] = IF i <= HeaderLength' THEN HeaderByte(announced')
                          ELSE Reached' + i - HeaderLength'
      BY <1>1, <2>4, <2>5 DEF Follows
    <3>2. spc' \in Sending => Produced' = Reached' + InPipe'
      BY <1>1, <2>4, Before DEF InTransit
    <3> QED
      BY <1>1, <3>1, <3>2 DEF InTransit
  <2>8. Produces'
    <3>1. spc \in Sending =>
            Produced' <= size /\ (spc = "send" => lastRead = ReadFile(Produced', size))
      BY <2>4, Before DEF Produces
    <3>2. spc = "close" /\ kept # << >> =>
            /\ kept = Stretch(sent - Len(kept), Len(kept)) /\ sent <= size
            /\ sent - Len(kept) = Reached' + InPipe'
      BY <1>1, <2>4, Before DEF Produces
    <3> QED
      BY <1>1, <3>1, <3>2 DEF Produces
  <2>9. Ahead'
    <3>1. Len(out) <= Len(out') /\ Len(out') \in Nat
      BY <2>1, <2>3
    <3>2. \A k \in Int : k <= Len(out) + Len(inbox) + Len(pipe) =>
                          k <= Len(out') + Len(inbox) + Len(pipe)
      BY <2>1, <3>1, Before
    <3>3. 2 * BufferSize \in Int /\ Capacity \in Int /\ sent \in Int
      BY Before
    <3>4. sent + held <= Len(out) + Capacity + 2 * BufferSize =>
            sent + held' <= Len(out') + Capacity + 2 * BufferSize
      <4>1. held \in Nat /\ held' \in Nat /\ held' <= Len(inbox)
        BY <1>3, <2>1, Before DEF HeldOf
      <4> QED
        BY <2>1, <2>3, <3>3, <4>1
    <3>5. Len(inbox) <= BufferSize /\ Produced \in Int
      BY Before, LengthsAre DEF Ahead
    <3> QED
      BY <1>1, <2>4, <3>2, <3>4, <3>5, Before DEF Ahead
  <2> QED
    BY <2>6, <2>7, <2>8, <2>9 DEF Stream
<1> QED
  BY <1>1, <1>2, <1>3

(* The end of the copy is lost: nothing is read any more.                  *)
LEMMA CopyCut ==
  ASSUME IInv, RKill \/ RCloseCopy
  PROVE  Stream'
<1>1. PICK k \in 0..held :
        k <= Len(out) /\ Len(out') = Len(out) - k /\ out' = Stretch(0, Len(out) - k)
  BY Loses
<1>2. /\ rpc' = "ended" /\ held \in Nat /\ held' = 0
      /\ k > 0 => spc \in {"unlink", "ended"}
      /\ UNCHANGED <<spc, sres, target, pipe, kept, size, announced, sent, lastRead, inbox>>
  BY Before DEF RKill, RCloseCopy, Held
<1>3. CASE k = 0
  <2>1. out' = out
    BY <1>1, <1>3, Before DEF Prefix
  <2>2. Produced' = Produced /\ Prefix'
    BY <1>2, <2>1, Before DEF Produced, Prefix
  <2>3. Produces'
    BY <1>2, <2>2, Before DEF Produces, Reads
  <2>4. Ahead'
    BY <1>2, <2>1, <2>2, Before DEF Ahead
  <2> QED
    BY <1>2, <2>2, <2>3, <2>4 DEF Stream, InTransit
<1>4. CASE k > 0
  <2>1. InTransit' /\ Produces'
    BY <1>2, <1>4 DEF InTransit, Produces
  <2>2. Prefix'
    BY <1>1, <1>2, Before DEF Prefix
  <2>3. Ahead'
    <3>1. /\ sent \in Nat /\ Len(out) \in Nat /\ Capacity \in Nat /\ BufferSize \in Nat
          /\ k \in Nat /\ k <= held
      BY <1>2, Before
    <3>2. sent + held <= Len(out) + Capacity + 2 * BufferSize =>
            sent + held' <= Len(out') + Capacity + 2 * BufferSize
      BY <1>1, <1>2, <3>1
    <3>3. /\ Len(inbox) <= BufferSize
          /\ sres = "success" /\ target = "fifo" =>
               sent + held <= Len(out) + Capacity + 2 * BufferSize
      BY Before DEF Ahead
    <3> QED
      BY <1>2, <1>4, <3>2, <3>3 DEF Ahead
  <2> QED
    BY <2>1, <2>2, <2>3 DEF Stream
<1> QED
  BY <1>1, <1>3, <1>4

(* A step of the receiver keeps what is on the way.                        *)
LEMMA StreamReceiver ==
  ASSUME IInv, RLaunch \/ ReceiverStep \/ RCallFails \/ RKill
  PROVE  Stream'
<1> USE DEF Reads
<1>1. CASE RLaunch
  BY <1>1, ReceiverRests DEF RLaunch
<1>2. CASE RLook
  BY <1>2, ReceiverRests DEF RLook
<1>3. CASE ROpen
  BY <1>3, ReceiverRests DEF ROpen
<1>4. CASE ROpenTimeout
  BY <1>4, ReceiverRests DEF ROpenTimeout
<1>5. CASE RReceiveHeader
  BY <1>5, HeaderTaken
<1>6. CASE RReceive
  BY <1>6, Received
<1>7. CASE RStore
  BY <1>7, Stored
<1>8. CASE RClose
  BY <1>8, ReceiverRests DEF RClose
<1>9. CASE RUnlink
  BY <1>9, ReceiverRests DEF RUnlink
<1>10. CASE RUnlinkAgain
  BY <1>10, ReceiverRests DEF RUnlinkAgain
<1>11. CASE RRemove
  BY <1>11, ReceiverRests DEF RRemove
<1>12. CASE RCallFails
  BY <1>12, ReceiverRests DEF RCallFails
<1>13. CASE RKill \/ RCloseCopy
  BY <1>13, CopyCut
<1>14. CASE RRefuse
  BY <1>14, ReceiverRests DEF RRefuse
<1> QED
  BY <1>1, <1>2, <1>3, <1>4, <1>5, <1>6, <1>7, <1>8, <1>9, <1>10, <1>11, <1>12,
     <1>13, <1>14
  DEF ReceiverStep

(* When both programs have opened the FIFO nothing is in it.               *)
LEMMA StreamMeet ==
  ASSUME IInv, Meet
  PROVE  Stream'
<1>1. /\ spc = "opening" /\ spc' = "measure" /\ rpc' = "receiveHeader"
      /\ UNCHANGED <<sres, pipe, kept, size, announced, sent, lastRead, inbox, out, held>>
  BY DEF Meet
<1>2. pipe = << >> /\ Len(pipe) = 0 /\ out = << >> /\ Len(out) = 0 /\ sres = "none"
  BY <1>1, Before, EmptySeq DEF NothingSent, Results, Meet
<1>3. HeaderLength' = 0 /\ Reached' = 0 /\ InPipe' = 0
  BY <1>1, <1>2 DEF HeaderLength, Reached, InPipe
<1>4. InTransit'
  BY <1>1, <1>2, <1>3, Before DEF InTransit
<1> QED
  BY <1>1, <1>2, <1>4, Before DEF Stream, Produces, Ahead, Prefix

-----------------------------------------------------------------------------
(* The theorems *)

(* The invariant holds at the start.                                       *)
LEMMA InvInit == Init => IInv
<1> SUFFICES ASSUME Init PROVE IInv
  OBVIOUS
<1>1. /\ size \in Nat /\ Len(out) = 0 /\ Len(inbox) = 0 /\ BufferSize \in Nat
      /\ Stretch(0, 0) = << >>
  <2>1. Stretch(0, 0) \in Seq(Int) /\ Len(Stretch(0, 0)) = 0
    BY StretchSeq
  <2> QED
    BY <2>1, SizesAssumption, BufferSizeAssumption, EmptySeq DEF Init
<1>2. Control
  BY PipeLeftoversAssumption DEF Init, Control, OneName, NothingSent, Held, Results, NameGone
<1>3. Stream
  BY <1>1 DEF Init, Stream, InTransit, Produces, Ahead, Prefix
<1> QED
  BY <1>2, <1>3, TypeInit DEF IInv, Control, Stream

(* Every step keeps it.                                                    *)
LEMMA InvStep == IInv /\ [Next]_vars => IInv'
<1> SUFFICES ASSUME IInv, [Next]_vars PROVE IInv'
  OBVIOUS
<1>1. TypeOK'
  BY TypeStep DEF IInv
<1>2. CASE UNCHANGED vars
  <2>1. Control'
    BY <1>2, Before DEF vars, Control, OneName, NothingSent, Held, Results, NameGone
  <2>2. HeaderLength' = HeaderLength /\ InPipe' = InPipe /\ Reached' = Reached
        /\ Produced' = Produced
    BY <1>2 DEF vars, HeaderLength, InPipe, Reached, Produced
  <2>3. Stream'
    BY <1>2, <2>2, Before DEF vars, Stream, InTransit, Produces, Ahead, Prefix
  <2> QED
    BY <1>1, <2>1, <2>3 DEF IInv, Control, Stream
<1>3. CASE SLaunch \/ SenderStep \/ SCallFails \/ SKill
  BY <1>1, <1>3, ControlSender, StreamSender DEF IInv, Control, Stream
<1>4. CASE RLaunch \/ ReceiverStep \/ RCallFails \/ RKill
  BY <1>1, <1>4, ControlReceiver, StreamReceiver DEF IInv, Control, Stream
<1>5. CASE Meet
  BY <1>1, <1>5, ControlMeet, StreamMeet DEF IInv, Control, Stream
<1> QED
  BY <1>2, <1>3, <1>4, <1>5 DEF Next, BothEnded

(* While the receiver reads, the pipe holds the header and then the bytes  *)
(* of the source from where the copy stands to where the sender is; and no *)
(* program opens another thing of that name than the other one does.       *)
THEOREM InvariantHolds == SafetySpec => []IInv
  BY InvInit, InvStep, PTL DEF SafetySpec

(* A receiver that decides on EXIT_SUCCESS has written the bytes of the    *)
(* source that the header announced, whoever was killed or failed: the end *)
(* of the file is never taken for more.  Closing the copy on a failing     *)
(* disk may take less than a buffer of its last bytes away.                *)
THEOREM CopyIsExact == SafetySpec => []ExactCopy
<1>1. IInv => ExactCopy
  <2> SUFFICES ASSUME IInv, rres = "success"
               PROVE  ExactCopy
    BY DEF ExactCopy
  <2>1. out = Stretch(0, Len(out))
    BY Before DEF Prefix
  <2>2. /\ announced <= size /\ (rpc # "ended" => Len(out) = announced)
        /\ Len(out) \in (announced - MostLost(BufferSize - 1))..announced
    BY Before DEF Results
  <2> QED
    BY <2>1, <2>2 DEF ExactCopy
<1> QED
  BY <1>1, InvariantHolds, PTL

(* Once the header was received, the name is gone when both programs have  *)
(* ended and one of them was not killed.                                   *)
THEOREM NameIsUnlinked == SafetySpec => []NameUnlinked
<1>1. IInv => NameUnlinked
  BY DEF IInv, NameUnlinked, NameGone
<1> QED
  BY <1>1, InvariantHolds, PTL

-----------------------------------------------------------------------------
(* The promise, with as much on the way as the pipe, the receiver's buffer *)
(* and the sender's stream hold: the initial states map to initial states  *)
(* of FileCopy, and every step to a step or a stutter.  A sender that      *)
(* wrote to a regular file counts as one that failed.                      *)

(* The initial states map to initial states of FileCopy.                   *)
LEMMA PromiseInit == Init => Promise!Init
<1> SUFFICES ASSUME Init PROVE Promise!Init
  OBVIOUS
<1>1. present \in BOOLEAN
  BY Zenon DEF Init
<1> QED
  BY <1>1 DEF Init, Promise!Init, Outcome, SenderOutcome

(* The sender only succeeds when what is not stored is on the way.         *)
LEMMA RestIsOnTheWay ==
  ASSUME IInv, sres = "success", target = "fifo"
  PROVE  /\ announced = size /\ size > 0
         /\ Len(out) + (Capacity + 2 * BufferSize) >= size
<1>1. /\ announced = size /\ sent = size /\ size > 0
      /\ sent + held <= Len(out) + Capacity + 2 * BufferSize
  BY Before DEF Results, Ahead
<1>2. held \in Nat /\ Len(out) \in Nat /\ Capacity \in Nat /\ BufferSize \in Nat /\ size \in Nat
  BY Before
<1> QED
  BY <1>1, <1>2

(* A step of the sender maps to a step of FileCopy or to a stutter.        *)
LEMMA PromiseSender ==
  ASSUME IInv, SLaunch \/ SenderStep \/ SCallFails \/ SKill
  PROVE  [Promise!Next]_(Promise!vars)
<1> /\ size \in Sizes /\ size \in Nat /\ Sizes \subseteq Nat
    /\ spc \in SenderLabels /\ sres \in Outcomes
    /\ target \in {"none", "fifo", "file"}
    /\ OneName /\ NothingSent /\ Results
  BY Before, SizesAssumption DEF IInv, TypeOK
<1> USE DEF Outcome, SenderOutcome, Promise!Next, Promise!vars, Outcomes
<1>1. CASE SLaunch
  BY <1>1 DEF SLaunch
<1>2. CASE SMake
  BY <1>2 DEF SMake
<1>3. CASE SOpen
  BY <1>3 DEF SOpen, Results
<1>4. CASE SOpenTimeout
  BY <1>4 DEF SOpenTimeout
<1>5. CASE SMeasure
  BY <1>5 DEF SMeasure, AnnouncedSizes, Promise!Announce, NothingSent
<1>6. CASE SSendHeader
  BY <1>6 DEF SSendHeader
<1>7. CASE SFill
  BY <1>7 DEF SFill
<1>8. CASE SSend
  BY <1>8 DEF SSend
<1>9. CASE SClose
  BY <1>9 DEF SClose
<1>10. CASE SUnlink
  <2>1. /\ spc = "unlink" /\ spc' = "ended" /\ sres \in {"success", "failure"}
        /\ UNCHANGED <<sres, rres, rpc, size, announced, out, present, target>>
    BY <1>10 DEF SUnlink, Results
  <2>2. CASE sres = "success" /\ target = "fifo"
    BY <2>1, <2>2, RestIsOnTheWay DEF Promise!Complete
  <2>3. CASE sres = "failure" \/ target = "file"
    BY <2>1, <2>3 DEF Promise!GiveUp
  <2> QED
    BY <2>1, <2>2, <2>3 DEF Results
<1>11. CASE SCallFails
  BY <1>11 DEF SCallFails
<1>12. CASE SKill
  BY <1>12 DEF SKill, Promise!KillSender
<1> QED
  BY <1>1, <1>2, <1>3, <1>4, <1>5, <1>6, <1>7, <1>8, <1>9, <1>10, <1>11, <1>12
  DEF SenderStep

(* What is in the receiver's buffer is stored as the next bytes.           *)
LEMMA PromiseStore ==
  ASSUME IInv, RStore, out' # out
  PROVE  \E n \in 1..BufferSize : Promise!Store(n)
<1>1. /\ rpc = "store" /\ rpc' \in {"receive", "close"} /\ out' = out \o inbox
      /\ UNCHANGED <<spc, sres, size, announced, sent, target, present>>
  BY Zenon DEF RStore
<1>2. present
  BY <1>1, Before DEF Results
<1>3. /\ Len(out) \in Nat /\ Len(inbox) \in Nat /\ inbox \in Seq(Int)
      /\ Len(inbox) <= BufferSize /\ BufferSize \in Nat
      /\ \A i \in 1..Len(inbox) : inbox[i] = Len(out) + i
      /\ Len(out) + Len(inbox) <= size
  <2>1. Follows /\ Reached = Len(out) + Len(inbox) /\ InPipe \in Int
    BY <1>1, LengthsAre DEF Reads, Reached
  <2> QED
    BY <1>1, <2>1, Before DEF Follows, Ahead
<1>4. inbox = Promise!NextBytes(Len(inbox))
  <2> DEFINE next == [i \in 1..Len(inbox) |-> Len(out) + i]
  <2>1. next \in Seq(Int) /\ Len(next) = Len(inbox)
        /\ \A i \in 1..Len(inbox) : next[i] = inbox[i]
    BY <1>3
  <2> HIDE DEF next
  <2>2. inbox = next
    BY <1>3, <2>1, SeqEqual
  <2> QED
    BY <2>2 DEF next, Promise!NextBytes
<1>5. Len(inbox) # 0
  <2>1. ASSUME Len(inbox) = 0 PROVE FALSE
    <3>1. inbox = << >> /\ out \in Seq(Int)
      BY <1>3, <2>1, Before, EmptySeq
    <3>2. out' = out
      BY <1>1, <3>1, ConcatEmptySeq
    <3> QED
      BY <3>2
  <2> QED
    BY <2>1
<1>6. Len(inbox) \in 1..BufferSize
  BY <1>3, <1>5
<1>7. Outcome(rpc, rres) = "none"
  BY <1>1 DEF Outcome
<1>8. Promise!Store(Len(inbox))
  <2>1. Outcome(rpc', rres') = "none" /\ Outcome(spc', sres') = Outcome(spc, sres)
        /\ SenderOutcome' = SenderOutcome
    BY <1>1 DEF Outcome, SenderOutcome
  <2> QED
    BY <1>1, <1>2, <1>3, <1>4, <1>7, <2>1 DEF Promise!Store, Outcome
<1> QED
  BY <1>6, <1>8

(* A step of the receiver maps to a step of FileCopy or to a stutter.      *)
LEMMA PromiseReceiver ==
  ASSUME IInv, RLaunch \/ ReceiverStep \/ RCallFails \/ RKill
  PROVE  [Promise!Next]_(Promise!vars)
<1> /\ size \in Sizes /\ size \in Nat /\ Sizes \subseteq Nat
    /\ rpc \in ReceiverLabels /\ rres \in Outcomes
    /\ NothingSent /\ Prefix /\ Results
  BY Before, SizesAssumption DEF IInv, TypeOK
<1> USE DEF Outcome, SenderOutcome, Promise!Next, Promise!vars, Outcomes
<1>1. CASE RLaunch
  BY <1>1 DEF RLaunch, Promise!CreateCopy, NothingSent
<1>2. CASE RLook
  BY <1>2 DEF RLook
<1>3. CASE ROpen
  BY <1>3 DEF ROpen
<1>4. CASE ROpenTimeout
  BY <1>4 DEF ROpenTimeout
<1>5. CASE RReceiveHeader
  BY <1>5 DEF RReceiveHeader
<1>6. CASE RReceive
  BY <1>6 DEF RReceive
<1>7. CASE RStore
  <2>1. CASE out' = out
    BY <1>7, <2>1 DEF RStore
  <2> QED
    BY <1>7, <2>1, PromiseStore
<1>8. CASE RClose
  BY <1>8 DEF RClose
<1>9. CASE RUnlink
  BY <1>9 DEF RUnlink
<1>10. CASE RUnlinkAgain
  BY <1>10 DEF RUnlinkAgain
<1>11. CASE RRemove
  BY <1>11 DEF RRemove, Promise!Reject, Results
<1>12. CASE RCallFails
  BY <1>12 DEF RCallFails
<1>13. CASE RKill
  <2>1. PICK k \in 0..held : k <= Len(out) /\ out' = SubSeq(out, 1, Len(out) - k)
    BY <1>13, Loses
  <2>2. k \in 0..(BufferSize - 1)
    BY Before
  <2>3. \E n \in 0..(BufferSize - 1) : Promise!LoseLast(n)
    BY <2>1, <2>2, Zenon DEF Promise!LoseLast
  <2> QED
    BY <1>13, <2>3 DEF RKill, Promise!KillReceiver
<1>14. CASE RCloseCopy
  <2>1. PICK k \in 0..held :
          /\ k <= Len(out) /\ out' = SubSeq(out, 1, Len(out) - k)
          /\ k <= MostLost(BufferSize - 1)
    BY <1>14, Loses
  <2>2. k \in 0..MostLost(BufferSize - 1)
    BY <2>1, Before DEF MostLost
  <2>3. \E n \in 0..MostLost(BufferSize - 1) : Promise!LoseLast(n)
    BY <2>1, <2>2, Zenon DEF Promise!LoseLast
  <2>4. /\ rpc = "closeCopy" /\ rpc' = "ended" /\ rres = "success"
        /\ UNCHANGED <<spc, sres, rres, size, target, announced, present>>
    BY <1>14, Before DEF RCloseCopy, Results
  <2>5. /\ present /\ announced >= 1 /\ Len(out) = announced
        /\ announced = size \/ "resize" \in Disturbances
    <3>1. present /\ Len(out) = announced /\ announced > 0
      BY <2>4, Zenon DEF Results
    <3>2. announced # Unset /\ "resize" \notin Disturbances => announced = size
      BY Zenon DEF NothingSent
    <3> QED
      BY <3>1, <3>2, Before
  <2> QED
    BY <2>3, <2>4, <2>5 DEF Promise!Accept
<1>15. CASE RRefuse
  BY <1>15 DEF RRefuse
<1> QED
  BY <1>1, <1>2, <1>3, <1>4, <1>5, <1>6, <1>7, <1>8, <1>9, <1>10, <1>11, <1>12,
     <1>13, <1>14, <1>15
  DEF ReceiverStep

(* Every step maps to a step of FileCopy or to a stutter.                  *)
LEMMA PromiseStep == IInv /\ [Next]_vars => [Promise!Next]_(Promise!vars)
<1> SUFFICES ASSUME IInv, [Next]_vars PROVE [Promise!Next]_(Promise!vars)
  OBVIOUS
<1>1. CASE UNCHANGED vars
  BY <1>1 DEF vars, Promise!vars, Outcome, SenderOutcome
<1>2. CASE Meet
  BY <1>2 DEF Meet, Promise!vars, Outcome, SenderOutcome
<1> QED
  BY <1>1, <1>2, PromiseSender, PromiseReceiver DEF Next, BothEnded

(* The two programs, whatever disturbs them, keep the promise: the copy    *)
(* grows by the next bytes of the source only, success of the receiver     *)
(* means a complete copy but for what closing the file loses, its failure  *)
(* leaves no file, and success of a sender that wrote to the FIFO means    *)
(* that the rest is on its way.                                            *)
THEOREM SessionKeepsPromise == SafetySpec => KeepsPromise
<1>1. SafetySpec => []IInv
  BY InvariantHolds
<1> QED
  BY <1>1, PromiseInit, PromiseStep, PTL DEF SafetySpec, KeepsPromise, Promise!Spec
=============================================================================

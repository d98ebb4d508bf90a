-------------------------- MODULE ShmSession_proofs --------------------------
(***************************************************************************)
(* Proofs about ShmSession for every buffer size, every set of lengths and *)
(* every set of disturbances: type correctness for every channel left      *)
(* over; the safety properties, and the promise of FileCopy, for channels  *)
(* that hold no message.                                                   *)
(***************************************************************************)
EXTENDS ShmSessionInvariant, CopyFileThroughIPC_proofs

USE DEF SGoto, RGoto, SThrow, RThrow, SFails, RFails, STimeout, RTimeout,
        outcomes, sems, shm, senderData, receiverData, channel

-----------------------------------------------------------------------------
(* Data *)

(* What the receiver appends are integers, whatever the buffer holds.      *)
LEMMA StoreType ==
  ASSUME NEW s \in Seq(Int), NEW n \in 0..BufferSize, NEW f \in [1..BufferSize -> Int]
  PROVE  s \o [i \in 1..n |-> f[i]] \in Seq(Int)
<1>1. [i \in 1..n |-> f[i]] \in [1..n -> Int]
  BY BufferSizeAssumption, SMT
<1>2. [i \in 1..n |-> f[i]] \in Seq(Int)
  BY <1>1, BufferSizeAssumption, SMT
<1> QED
  BY <1>2, SMT

(* Storing a loaded buffer extends the prefix of the source by it.         *)
LEMMA StoreNext ==
  ASSUME Len(out) \in Nat, taken \in 0..BufferSize,
         out = Stretch(0, Len(out)),
         \A i \in 1..taken : cells[i] = Len(out) + i
  PROVE  /\ out \o [i \in 1..taken |-> cells[i]] = Stretch(0, Len(out) + taken)
         /\ Len(out \o [i \in 1..taken |-> cells[i]]) = Len(out) + taken
<1>1. Len(out) \in Nat /\ taken \in Nat
  BY BufferSizeAssumption
<1>2. [i \in 1..taken |-> cells[i]] = Stretch(Len(out), taken)
  BY DEF Stretch
<1>3. \A m \in Nat, n \in Nat :
        /\ Stretch(0, m) \o Stretch(m, n) = Stretch(0, m + n)
        /\ Len(Stretch(0, m) \o Stretch(m, n)) = m + n
  BY StretchGrows
<1> QED
  BY <1>1, <1>2, <1>3

-----------------------------------------------------------------------------
(* Type correctness *)

(* The types hold at the start.                                            *)
LEMMA TypeInit == Init => TypeOK
<1> SUFFICES ASSUME Init PROVE TypeOK
  OBVIOUS
<1>1. PICK c \in Leftovers :
        /\ linked = c.linked
        /\ senderSem = c.senderSem /\ receiverSem = c.receiverSem
        /\ dataSize = c.dataSize /\ cells = c.cells
  BY DEF Init
<1>2. c \in Channels
  BY LeftoversAssumption
<1> QED
  BY <1>1, <1>2, BufferSizeAssumption, SizesAssumption, SMT
  DEF Init, TypeOK, Channels, SenderLabels, ReceiverLabels, Outcomes, Unset

(* The steps of the sender keep the types.                                 *)
LEMMA TypeSender ==
  ASSUME TypeOK, SLaunch \/ SenderStep \/ SWaitFails \/ SKill
  PROVE  TypeOK'
<1> USE BufferSizeAssumption, SizesAssumption
    DEF TypeOK, SenderLabels, SenderTurn, Unlinking, Outcomes
<1>1. CASE SLaunch
  BY <1>1, SMT DEF SLaunch
<1>2. CASE SShmCreate
  <2>1. linked' \subseteq Names
    BY <1>2, Zenon DEF SShmCreate, Names
  <2> QED
    BY <1>2, <2>1, SMT DEF SShmCreate
<1>3. CASE SSenderSemCreate
  <2>1. linked' \subseteq Names
    BY <1>3, Zenon DEF SSenderSemCreate, Names
  <2> QED
    BY <1>3, <2>1, SMT DEF SSenderSemCreate, Created
<1>4. CASE SReceiverSemCreate
  <2>1. linked' \subseteq Names
    BY <1>4, Zenon DEF SReceiverSemCreate, Names
  <2> QED
    BY <1>4, <2>1, SMT DEF SReceiverSemCreate, Created
<1>5. CASE SWaitPeer
  BY <1>5, SMT DEF SWaitPeer, SWait
<1>6. CASE SHeader
  <2>1. announced' \in Sizes \cup {Unset}
    BY <1>6, SMT DEF SHeader, AnnouncedSizes
  <2>2. cells' \in [1..BufferSize -> Int]
    BY <1>6, <2>1, SMT DEF SHeader, AnnouncedSizes, HeaderByte, Unset
  <2> QED
    BY <1>6, <2>1, <2>2, SMT DEF SHeader
<1>7. CASE SHeaderSize
  BY <1>7, SMT DEF SHeaderSize
<1>8. CASE SPostHeader
  BY <1>8, SMT DEF SPostHeader
<1>9. CASE SWaitTurn
  BY <1>9, SMT DEF SWaitTurn, SWait
<1>10. CASE SFill
  <2>1. sent \in Nat /\ size \in Nat /\ cells \in [1..BufferSize -> Int]
    BY SMT
  <2>2. ReadFile(sent, size) \in 0..BufferSize
    BY <2>1, ReadFileBounds, Zenon
  <2>3. CASE spc' = "fillSize"
    <3>1. /\ lastRead' = ReadFile(sent, size)
          /\ sent' = sent + lastRead'
          /\ cells' = [i \in 1..BufferSize |->
                         IF i <= lastRead' THEN sent + i ELSE cells[i]]
      BY <1>10, <2>3 DEF SFill
    <3>2. lastRead' \in 0..BufferSize /\ sent' \in Nat
      BY <2>1, <2>2, <3>1, SMT
    <3>3. cells' \in [1..BufferSize -> Int]
      BY <2>1, <3>1, <3>2, SMT
    <3> QED
      BY <1>10, <3>2, <3>3 DEF SFill
  <2>4. CASE spc' # "fillSize"
    BY <1>10, <2>4, SMT DEF SFill
  <2> QED
    BY <2>3, <2>4
<1>11. CASE SFillSize
  BY <1>11, SMT DEF SFillSize
<1>12. CASE SPost
  <2>1. sres' \in Outcomes /\ spc' \in SenderLabels
    BY <1>12, SMT DEF SPost, Verdict
  <2>2. receiverSem' \in Nat
    BY <1>12, SMT DEF SPost
  <2>3. UNCHANGED <<rpc, rres, linked, senderSem, dataSize, cells, size, announced,
                    sent, lastRead, receiverData>>
    BY <1>12, SMT DEF SPost
  <2> QED
    BY <2>1, <2>2, <2>3, SMT
<1>13. CASE SUnlinkShm
  BY <1>13, SMT DEF SUnlinkShm, SUnlink
<1>14. CASE SUnlinkReceiverSem
  BY <1>14, SMT DEF SUnlinkReceiverSem, SUnlink
<1>15. CASE SUnlinkSenderSem
  BY <1>15, SMT DEF SUnlinkSenderSem, SUnlink
<1>16. CASE SKill
  BY <1>16, SMT DEF SKill
<1>17. CASE SWaitFails
  BY <1>17, SMT DEF SWaitFails
<1> QED
  BY <1>1, <1>2, <1>3, <1>4, <1>5, <1>6, <1>7, <1>8, <1>9, <1>10, <1>11, <1>12,
     <1>13, <1>14, <1>15, <1>16, <1>17 DEF SenderStep

(* The steps of the receiver keep the types.                               *)
LEMMA TypeReceiver ==
  ASSUME TypeOK, RLaunch \/ ReceiverStep \/ RWaitFails \/ RKill
  PROVE  TypeOK'
<1> USE BufferSizeAssumption, SizesAssumption
    DEF TypeOK, ReceiverLabels, ReceiverTurn, Unlinking, Outcomes
<1>1. CASE RLaunch
  <2>1. present' \in BOOLEAN
    BY <1>1, Zenon DEF RLaunch
  <2> QED
    BY <1>1, <2>1, SMT DEF RLaunch
<1>2. CASE RConnectReceiverSem
  BY <1>2, SMT DEF RConnectReceiverSem, RConnect
<1>3. CASE RConnectSenderSem
  BY <1>3, SMT DEF RConnectSenderSem, RConnect
<1>4. CASE RConnectShm
  BY <1>4, SMT DEF RConnectShm
<1>5. CASE RHello
  BY <1>5, SMT DEF RHello
<1>6. CASE RWaitHeader
  BY <1>6, SMT DEF RWaitHeader, RWait
<1>7. CASE RCheckSize
  BY <1>7, SMT DEF RCheckSize
<1>8. CASE RReadHeader
  BY <1>8, SMT DEF RReadHeader, AnnouncedBy
<1>9. CASE RAckHeader
  BY <1>9, SMT DEF RAckHeader
<1>10. CASE RWaitData
  BY <1>10, SMT DEF RWaitData, RWait
<1>11. CASE RTakeSize
  BY <1>11, SMT DEF RTakeSize
<1>12. CASE RStore
  <2>1. out \o [i \in 1..taken |-> cells[i]] \in Seq(Int)
    BY StoreType
  <2>2. out' \in Seq(Int)
    BY <1>12, <2>1 DEF RStore
  <2>3. held' \in 0..(BufferSize - 1)
    BY <1>12, SMT DEF RStore, HeldOf
  <2> QED
    BY <1>12, <2>2, <2>3, SMT DEF RStore
<1>13. CASE RReset
  BY <1>13, SMT DEF RReset
<1>14. CASE RAck
  BY <1>14, SMT DEF RAck, Verdict
<1>15. CASE RUnlinkShm
  BY <1>15, SMT DEF RUnlinkShm, RUnlink
<1>16. CASE RUnlinkReceiverSem
  BY <1>16, SMT DEF RUnlinkReceiverSem, RUnlink
<1>17. CASE RUnlinkSenderSem
  BY <1>17, SMT DEF RUnlinkSenderSem, RUnlink
<1>18. CASE RRemove
  <2>1. present' \in BOOLEAN
    BY <1>18, Zenon DEF RRemove
  <2> QED
    BY <1>18, <2>1, SMT DEF RRemove
<1>19. CASE RKill
  <2>1. out' \in Seq(Int)
    <3>1. out' \in CopiesOfKilled(out, held) /\ held \in Nat
      BY <1>19 DEF RKill
    <3> QED
      BY <3>1, CopyType
  <2> QED
    BY <1>19, <2>1, SMT DEF RKill
<1>20. CASE RWaitFails
  BY <1>20, SMT DEF RWaitFails
<1>21. CASE RCloseCopy
  <2>1. out' \in Seq(Int)
    <3>1. out' \in ClosedCopies(out, held) /\ held \in Nat
      BY <1>21 DEF RCloseCopy
    <3> QED
      BY <3>1, CopyType
  <2> QED
    BY <1>21, <2>1, SMT DEF RCloseCopy
<1> QED
  BY <1>1, <1>2, <1>3, <1>4, <1>5, <1>6, <1>7, <1>8, <1>9, <1>10, <1>11, <1>12,
     <1>13, <1>14, <1>15, <1>16, <1>17, <1>18, <1>19, <1>20, <1>21 DEF ReceiverStep

(* Every step keeps the types.                                             *)
LEMMA TypeStep == TypeOK /\ [Next]_vars => TypeOK'
<1> SUFFICES ASSUME TypeOK, [Next]_vars PROVE TypeOK'
  OBVIOUS
<1>1. CASE UNCHANGED vars
  BY <1>1 DEF vars, TypeOK
<1>2. CASE Next
  BY <1>1, <1>2, TypeSender, TypeReceiver DEF Next, BothEnded
<1> QED
  BY <1>1, <1>2

(* The counters, the buffer and the results always have their type,        *)
(* whatever was left on the channel and whatever disturbs the programs.    *)
THEOREM TypeCorrect == SafetySpec => []TypeOK
  BY TypeInit, TypeStep, PTL DEF SafetySpec

-----------------------------------------------------------------------------
(* The invariant of a quiet channel: one lemma for each of its parts and   *)
(* each program, one step for each action.                                 *)

(* Frame conditions: steps that leave the data alone.                      *)
LEMMA SameBuffer ==
  ASSUME UNCHANGED <<cells, announced>>
  PROVE  HeaderInBuffer' <=> HeaderInBuffer
  BY DEF HeaderInBuffer

(* Whether the buffer is loaded depends on the variables of the data only. *)
LEMMA SameLoad ==
  ASSUME UNCHANGED <<sent, out, lastRead, cells, size>>
  PROVE  Loaded' <=> Loaded
  BY DEF Loaded

(* That the copy is a prefix depends on the two positions and the source   *)
(* only.                                                                   *)
LEMMA SamePrefix ==
  ASSUME UNCHANGED <<sent, out, size>>
  PROVE  Prefix' <=> Prefix
  BY DEF Prefix

USE DEF SenderLabels, ReceiverLabels, SenderTurn, ReceiverTurn, Unlinking, Over,
        BeforeHello, BeforeHeader, BeforePost, Unset

(* Who has the turn: the steps of the sender, then of the receiver.        *)
LEMMA ControlSender ==
  ASSUME IInv, SLaunch \/ SenderStep \/ SWaitFails \/ SKill
  PROVE  OneTurn' /\ InStep' /\ OneObject' /\ NothingPosted'
<1> /\ spc \in SenderLabels /\ rpc \in ReceiverLabels
    /\ senderSem \in Nat /\ receiverSem \in Nat
    /\ OneTurn /\ InStep /\ OneObject /\ NothingPosted /\ HeaderPhase
  BY DEF IInv, TypeOK
<1> USE DEF OneTurn, InStep, OneObject, NothingPosted, Turns, Holding
<1>1. CASE SLaunch
  BY <1>1 DEF SLaunch
<1>2. CASE SShmCreate
  BY <1>2 DEF SShmCreate
<1>3. CASE SSenderSemCreate
  BY <1>3 DEF SSenderSemCreate, Created
<1>4. CASE SReceiverSemCreate
  BY <1>4 DEF SReceiverSemCreate, Created
<1>5. CASE SWaitPeer
  BY <1>5 DEF SWaitPeer, SWait
<1>6. CASE SHeader
  BY <1>6 DEF SHeader
<1>7. CASE SHeaderSize
  BY <1>7 DEF SHeaderSize
<1>8. CASE SPostHeader
  <2>1. CASE receiverSem' = receiverSem + 1 /\ announced = 0
    BY <1>8, <2>1 DEF SPostHeader
  <2>2. CASE receiverSem' = receiverSem + 1 /\ announced # 0
    BY <1>8, <2>2 DEF SPostHeader, HeaderPhase
  <2>3. CASE receiverSem' = receiverSem
    BY <1>8, <2>3 DEF SPostHeader
  <2> QED
    BY <1>8, <2>1, <2>2, <2>3 DEF SPostHeader
<1>9. CASE SWaitTurn
  BY <1>9 DEF SWaitTurn, SWait
<1>10. CASE SFill
  BY <1>10 DEF SFill
<1>11. CASE SFillSize
  BY <1>11 DEF SFillSize
<1>12. CASE SPost
  BY <1>12 DEF SPost
<1>13. CASE SUnlinkShm
  BY <1>13 DEF SUnlinkShm, SUnlink
<1>14. CASE SUnlinkReceiverSem
  BY <1>14 DEF SUnlinkReceiverSem, SUnlink
<1>15. CASE SUnlinkSenderSem
  BY <1>15 DEF SUnlinkSenderSem, SUnlink
<1>16. CASE SKill
  BY <1>16 DEF SKill
<1>17. CASE SWaitFails
  BY <1>17 DEF SWaitFails
<1> QED
  BY <1>1, <1>2, <1>3, <1>4, <1>5, <1>6, <1>7, <1>8, <1>9, <1>10, <1>11, <1>12, <1>13,
     <1>14, <1>15, <1>16, <1>17 DEF SenderStep

(* What is said of turns, queues and names: the steps of the receiver keep *)
(* it.                                                                     *)
LEMMA ControlReceiver ==
  ASSUME IInv, RLaunch \/ ReceiverStep \/ RWaitFails \/ RKill
  PROVE  OneTurn' /\ InStep' /\ OneObject' /\ NothingPosted'
<1> /\ spc \in SenderLabels /\ rpc \in ReceiverLabels
    /\ senderSem \in Nat /\ receiverSem \in Nat
    /\ OneTurn /\ InStep /\ OneObject /\ NothingPosted /\ HeaderPhase
  BY DEF IInv, TypeOK
<1> USE DEF OneTurn, InStep, OneObject, NothingPosted, Turns, Holding
<1>1. CASE RLaunch
  BY <1>1 DEF RLaunch
<1>2. CASE RConnectReceiverSem
  BY <1>2 DEF RConnectReceiverSem, RConnect
<1>3. CASE RConnectSenderSem
  BY <1>3 DEF RConnectSenderSem, RConnect
<1>4. CASE RConnectShm
  BY <1>4 DEF RConnectShm
<1>5. CASE RHello
  BY <1>5 DEF RHello
<1>6. CASE RWaitHeader
  BY <1>6 DEF RWaitHeader, RWait
<1>7. CASE RCheckSize
  BY <1>7 DEF RCheckSize
<1>8. CASE RReadHeader
  BY <1>8 DEF RReadHeader
<1>9. CASE RAckHeader
  BY <1>9 DEF RAckHeader
<1>10. CASE RWaitData
  BY <1>10 DEF RWaitData, RWait
<1>11. CASE RTakeSize
  BY <1>11 DEF RTakeSize
<1>12. CASE RStore
  BY <1>12 DEF RStore
<1>13. CASE RReset
  BY <1>13 DEF RReset
<1>14. CASE RAck
  BY <1>14 DEF RAck
<1>15. CASE RUnlinkShm
  BY <1>15 DEF RUnlinkShm, RUnlink
<1>16. CASE RUnlinkReceiverSem
  BY <1>16 DEF RUnlinkReceiverSem, RUnlink
<1>17. CASE RUnlinkSenderSem
  BY <1>17 DEF RUnlinkSenderSem, RUnlink
<1>18. CASE RRemove
  BY <1>18 DEF RRemove
<1>19. CASE RKill
  BY <1>19 DEF RKill
<1>20. CASE RWaitFails
  BY <1>20 DEF RWaitFails
<1>21. CASE RCloseCopy
  BY <1>21 DEF RCloseCopy
<1> QED
  BY <1>1, <1>2, <1>3, <1>4, <1>5, <1>6, <1>7, <1>8, <1>9, <1>10, <1>11, <1>12, <1>13,
     <1>14, <1>15, <1>16, <1>17, <1>18, <1>19, <1>20, <1>21 DEF ReceiverStep

(* What the buffer holds for the program that has the turn.                *)
LEMMA DataSender ==
  ASSUME IInv, SLaunch \/ SenderStep \/ SWaitFails \/ SKill
  PROVE  HeaderPhase' /\ DataPhase' /\ Prefix'
<1> /\ spc \in SenderLabels /\ rpc \in ReceiverLabels
    /\ senderSem \in Nat /\ receiverSem \in Nat
    /\ size \in Sizes /\ Sizes \subseteq Nat
    /\ sent \in Nat /\ lastRead \in 0..BufferSize /\ out \in Seq(Int)
    /\ OneTurn /\ InStep /\ NothingPosted
    /\ HeaderPhase /\ DataPhase /\ Prefix
  BY SizesAssumption DEF IInv, TypeOK
<1> USE DEF OneTurn, InStep, NothingPosted, Turns, Holding,
            HeaderPhase, DataPhase, HeaderPosted
<1>1. CASE SLaunch
  BY <1>1, SameBuffer, SameLoad, SamePrefix DEF SLaunch
<1>2. CASE SShmCreate
  BY <1>2, SameBuffer, SameLoad, SamePrefix DEF SShmCreate
<1>3. CASE SSenderSemCreate
  BY <1>3, SameBuffer, SameLoad, SamePrefix DEF SSenderSemCreate, Created
<1>4. CASE SReceiverSemCreate
  BY <1>4, SameBuffer, SameLoad, SamePrefix DEF SReceiverSemCreate, Created
<1>5. CASE SWaitPeer
  BY <1>5, SameBuffer, SameLoad, SamePrefix DEF SWaitPeer, SWait
<1>6. CASE SHeader
  <2>1. CASE spc' = "headerSize"
    <3>1. announced' \in Sizes /\ HeaderInBuffer' /\ (Prefix' <=> Prefix)
      BY <1>6, <2>1, SamePrefix DEF SHeader, AnnouncedSizes, HeaderInBuffer
    <3> QED
      BY <1>6, <2>1, <3>1 DEF SHeader
  <2>2. CASE spc' # "headerSize"
    BY <1>6, <2>2, SameBuffer, SameLoad, SamePrefix DEF SHeader
  <2> QED
    BY <2>1, <2>2
<1>7. CASE SHeaderSize
  BY <1>7, SameBuffer, SameLoad, SamePrefix DEF SHeaderSize
<1>8. CASE SPostHeader
  BY <1>8, SameBuffer, SameLoad, SamePrefix DEF SPostHeader
<1>9. CASE SWaitTurn
  BY <1>9, SameBuffer, SameLoad, SamePrefix DEF SWaitTurn, SWait
<1>10. CASE SFill
  <2>1. CASE spc' = "fillSize"
    <3>1. /\ lastRead' = ReadFile(sent, size)
          /\ sent' = sent + lastRead'
          /\ cells' = [i \in 1..BufferSize |->
                         IF i <= lastRead' THEN sent + i ELSE cells[i]]
          /\ UNCHANGED <<out, size>>
      BY <1>10, <2>1 DEF SFill
    <3>2. sent = Len(out) /\ sent <= size /\ out = Stretch(0, Len(out))
      BY <1>10 DEF SFill, Prefix
    <3>3. /\ lastRead' \in 0..BufferSize
          /\ sent' <= size
          /\ lastRead' < BufferSize => sent' = size
      BY <3>1, <3>2, ReadFileBounds
    <3>4. Loaded'
      BY <3>1, <3>2, <3>3, BufferSizeAssumption DEF Loaded
    <3>5. Prefix'
      BY <3>1, <3>2, <3>3 DEF Prefix
    <3> QED
      BY <1>10, <2>1, <3>4, <3>5 DEF SFill
  <2>2. CASE spc' # "fillSize"
    BY <1>10, <2>2, SameBuffer, SameLoad, SamePrefix DEF SFill
  <2> QED
    BY <2>1, <2>2
<1>11. CASE SFillSize
  BY <1>11, SameBuffer, SameLoad, SamePrefix DEF SFillSize
<1>12. CASE SPost
  BY <1>12, SameBuffer, SameLoad, SamePrefix DEF SPost, More
<1>13. CASE SUnlinkShm
  BY <1>13, SameBuffer, SameLoad, SamePrefix DEF SUnlinkShm, SUnlink
<1>14. CASE SUnlinkReceiverSem
  BY <1>14, SameBuffer, SameLoad, SamePrefix DEF SUnlinkReceiverSem, SUnlink
<1>15. CASE SUnlinkSenderSem
  BY <1>15, SameBuffer, SameLoad, SamePrefix DEF SUnlinkSenderSem, SUnlink
<1>16. CASE SKill
  BY <1>16, SameBuffer, SameLoad, SamePrefix DEF SKill
<1>17. CASE SWaitFails
  BY <1>17, SameBuffer, SameLoad, SamePrefix DEF SWaitFails
<1> QED
  BY <1>1, <1>2, <1>3, <1>4, <1>5, <1>6, <1>7, <1>8, <1>9, <1>10, <1>11, <1>12, <1>13,
     <1>14, <1>15, <1>16, <1>17 DEF SenderStep

(* What a kill of the receiver, or closing the copy, takes away.           *)
LEMMA Loses ==
  ASSUME IInv, RKill \/ RCloseCopy
  PROVE  \E k \in 0..held :
           /\ out' = SubSeq(out, 1, Len(out) - k)
           /\ Len(out') = Len(out) - k /\ out' = Stretch(0, Len(out) - k)
           /\ k > 0 => Len(out) = size /\ spc \in Over
           /\ RCloseCopy => k <= MostLost(held)
<1>1. /\ out \in Seq(Int) /\ held \in 0..(BufferSize - 1)
      /\ out = Stretch(0, Len(out)) /\ Held
  BY DEF IInv, TypeOK, Prefix
<1>2. held \in 0..Len(out)
  BY <1>1 DEF Held
<1>3. CASE RKill
  <2>1. out' \in CopiesOfKilled(out, held)
    BY <1>3 DEF RKill
  <2>2. PICK k \in {0, held} :
           /\ out' = SubSeq(out, 1, Len(out) - k)
           /\ Len(out') = Len(out) - k /\ out' = Stretch(0, Len(out) - k)
    BY <1>1, <1>2, <2>1, CopyOfKilled
  <2>3. ~RCloseCopy
    BY <1>3 DEF RKill, RCloseCopy, IInv, Results
  <2>4. k \in 0..held /\ (k > 0 => Len(out) = size /\ spc \in Over)
    BY <1>1 DEF Held
  <2> QED
    BY <2>2, <2>3, <2>4
<1>4. CASE RCloseCopy
  <2>1. out' \in ClosedCopies(out, held)
    BY <1>4 DEF RCloseCopy
  <2>2. PICK k \in 0..MostLost(held) :
           /\ out' = SubSeq(out, 1, Len(out) - k)
           /\ Len(out') = Len(out) - k /\ out' = Stretch(0, Len(out) - k)
    BY <1>1, <1>2, <2>1, ClosedCopy
  <2>3. k \in 0..held /\ k <= MostLost(held)
    BY <1>1, MostLostBounds
  <2>4. k > 0 => Len(out) = size /\ spc \in Over
    BY <1>1, <2>3 DEF Held
  <2> QED
    BY <2>2, <2>3, <2>4
<1> QED
  BY <1>3, <1>4

(* The header and the data in the buffer: the steps of the receiver keep   *)
(* what is said of them.                                                   *)
LEMMA DataReceiver ==
  ASSUME IInv, RLaunch \/ ReceiverStep \/ RWaitFails \/ RKill
  PROVE  HeaderPhase' /\ DataPhase' /\ Prefix'
<1> /\ spc \in SenderLabels /\ rpc \in ReceiverLabels
    /\ senderSem \in Nat /\ receiverSem \in Nat
    /\ size \in Sizes /\ Sizes \subseteq Nat
    /\ sent \in Nat /\ lastRead \in 0..BufferSize /\ out \in Seq(Int)
    /\ OneTurn /\ InStep /\ NothingPosted
    /\ HeaderPhase /\ DataPhase /\ Prefix
  BY SizesAssumption DEF IInv, TypeOK
<1> USE DEF OneTurn, InStep, NothingPosted, Turns, Holding,
            HeaderPhase, DataPhase, HeaderPosted
<1>1. CASE RLaunch
  BY <1>1, SameBuffer, SameLoad, SamePrefix DEF RLaunch
<1>2. CASE RConnectReceiverSem
  BY <1>2, SameBuffer, SameLoad, SamePrefix DEF RConnectReceiverSem, RConnect
<1>3. CASE RConnectSenderSem
  BY <1>3, SameBuffer, SameLoad, SamePrefix DEF RConnectSenderSem, RConnect
<1>4. CASE RConnectShm
  BY <1>4, SameBuffer, SameLoad, SamePrefix DEF RConnectShm
<1>5. CASE RHello
  BY <1>5, SameBuffer, SameLoad, SamePrefix DEF RHello
<1>6. CASE RWaitHeader
  BY <1>6, SameBuffer, SameLoad, SamePrefix DEF RWaitHeader, RWait
<1>7. CASE RCheckSize
  BY <1>7, SameBuffer, SameLoad, SamePrefix DEF RCheckSize
<1>8. CASE RReadHeader
  <2>1. announced \in Nat /\ HeaderInBuffer
    BY <1>8 DEF RReadHeader
  <2>3. cells[1] = HeaderByte(announced)
    BY <2>1, BufferSizeAssumption DEF HeaderInBuffer
  <2>2. AnnouncedBy(cells[1]) = announced
    BY <2>1, <2>3 DEF AnnouncedBy, HeaderByte
  <2> QED
    BY <1>8, <2>2, SameBuffer, SameLoad, SamePrefix DEF RReadHeader
<1>9. CASE RAckHeader
  BY <1>9, SameBuffer, SameLoad, SamePrefix DEF RAckHeader
<1>10. CASE RWaitData
  BY <1>10, SameBuffer, SameLoad, SamePrefix DEF RWaitData, RWait
<1>11. CASE RTakeSize
  BY <1>11, SameBuffer, SameLoad, SamePrefix DEF RTakeSize
<1>12. CASE RStore
  <2>1. CASE rpc' = "reset"
    <3>1. /\ out' = out \o [i \in 1..taken |-> cells[i]]
          /\ UNCHANGED <<sent, size, cells, announced, lastRead, taken>>
      BY <1>12, <2>1 DEF RStore
    <3>2. taken = lastRead /\ Loaded
      BY <1>12 DEF RStore
    <3>6. /\ Len(out) \in Nat /\ taken \in 0..BufferSize /\ Len(out) + taken = sent
          /\ out = Stretch(0, Len(out))
          /\ \A i \in 1..taken : cells[i] = Len(out) + i
      BY <3>2 DEF Loaded, Prefix
    <3>3. Len(out') = sent /\ out' = Stretch(0, sent)
      <4>1. /\ out \o [i \in 1..taken |-> cells[i]] = Stretch(0, Len(out) + taken)
            /\ Len(out \o [i \in 1..taken |-> cells[i]]) = Len(out) + taken
        BY <3>6, StoreNext
      <4> QED
        BY <3>1, <3>6, <4>1
    <3>4. Prefix' /\ (HeaderInBuffer' <=> HeaderInBuffer)
      BY <3>1, <3>2, <3>3, SameBuffer DEF Prefix, Loaded
    <3>5. sent' = Len(out') /\ (taken' < BufferSize => sent' = size')
      BY <3>1, <3>2, <3>3 DEF Loaded
    <3> QED
      BY <1>12, <2>1, <3>4, <3>5 DEF RStore
  <2>2. CASE rpc' # "reset"
    BY <1>12, <2>2, SameBuffer, SameLoad, SamePrefix DEF RStore
  <2> QED
    BY <2>1, <2>2
<1>13. CASE RReset
  BY <1>13, SameBuffer, SameLoad, SamePrefix DEF RReset
<1>14. CASE RAck
  BY <1>14, SameBuffer, SameLoad, SamePrefix DEF RAck
<1>15. CASE RUnlinkShm
  BY <1>15, SameBuffer, SameLoad, SamePrefix DEF RUnlinkShm, RUnlink
<1>16. CASE RUnlinkReceiverSem
  BY <1>16, SameBuffer, SameLoad, SamePrefix DEF RUnlinkReceiverSem, RUnlink
<1>17. CASE RUnlinkSenderSem
  BY <1>17, SameBuffer, SameLoad, SamePrefix DEF RUnlinkSenderSem, RUnlink
<1>18. CASE RRemove
  BY <1>18, SameBuffer, SameLoad, SamePrefix DEF RRemove
<1>19. CASE RKill \/ RCloseCopy
  <2>1. PICK k \in 0..held :
           /\ Len(out') = Len(out) - k /\ out' = Stretch(0, Len(out) - k)
           /\ k > 0 => spc \in Over
    BY <1>19, Loses
  <2>2. /\ rpc' = "ended" /\ held \in Nat
        /\ UNCHANGED <<spc, channel, size, senderData, expected, taken>>
    BY <1>19 DEF RKill, RCloseCopy, IInv, TypeOK
  <2>3. Prefix' /\ (HeaderInBuffer' <=> HeaderInBuffer)
    BY <2>1, <2>2, SameBuffer DEF Prefix
  <2>4. CASE k = 0
    <3>1. out' = out
      BY <2>1, <2>4 DEF Prefix
    <3> QED
      BY <2>2, <2>3, <3>1, SameLoad
  <2>5. CASE k > 0
    BY <2>1, <2>2, <2>3, <2>5
  <2> QED
    BY <2>2, <2>3, <2>4, <2>5
<1>20. CASE RWaitFails
  BY <1>20, SameBuffer, SameLoad, SamePrefix DEF RWaitFails
<1> QED
  BY <1>1, <1>2, <1>3, <1>4, <1>5, <1>6, <1>7, <1>8, <1>9, <1>10, <1>11, <1>12, <1>13,
     <1>14, <1>15, <1>16, <1>17, <1>18, <1>19, <1>20 DEF ReceiverStep

(* What a result that was decided means.                                   *)
LEMMA ResultsSender ==
  ASSUME IInv, SLaunch \/ SenderStep \/ SWaitFails \/ SKill
  PROVE  Results'
<1> /\ spc \in SenderLabels /\ rpc \in ReceiverLabels
    /\ sres \in Outcomes /\ rres \in Outcomes
    /\ senderSem \in Nat /\ receiverSem \in Nat
    /\ size \in Sizes /\ lastRead \in 0..BufferSize /\ taken \in 0..BufferSize
    /\ sent \in Nat /\ out \in Seq(Int)
    /\ InStep /\ NothingPosted /\ DataPhase /\ Prefix /\ Results
  BY DEF IInv, TypeOK
<1> USE DEF InStep, NothingPosted, DataPhase, Results, Outcomes
<1>1. CASE SLaunch
  BY <1>1 DEF SLaunch
<1>2. CASE SShmCreate
  BY <1>2 DEF SShmCreate
<1>3. CASE SSenderSemCreate
  BY <1>3 DEF SSenderSemCreate, Created
<1>4. CASE SReceiverSemCreate
  BY <1>4 DEF SReceiverSemCreate, Created
<1>5. CASE SWaitPeer
  BY <1>5 DEF SWaitPeer, SWait
<1>6. CASE SHeader
  BY <1>6 DEF SHeader
<1>7. CASE SHeaderSize
  BY <1>7 DEF SHeaderSize
<1>8. CASE SPostHeader
  BY <1>8 DEF SPostHeader
<1>9. CASE SWaitTurn
  BY <1>9 DEF SWaitTurn, SWait
<1>10. CASE SFill
  BY <1>10 DEF SFill
<1>11. CASE SFillSize
  BY <1>11 DEF SFillSize
<1>12. CASE SPost
  <2>1. CASE receiverSem' = receiverSem + 1 /\ More(lastRead, sent, announced)
    BY <1>12, <2>1 DEF SPost
  <2>2. CASE receiverSem' = receiverSem + 1 /\ ~More(lastRead, sent, announced)
    <3>1. Loaded /\ announced \in Sizes \ {0}
      BY <1>12 DEF SPost
    <3>2. sent = announced => sent = size /\ size > 0 /\ size <= Len(out) + BufferSize
      BY <2>2, <3>1, BufferSizeAssumption, SizesAssumption DEF Loaded, More
    <3> QED
      BY <1>12, <2>2, <3>2 DEF SPost, Verdict
  <2>3. CASE receiverSem' = receiverSem
    BY <1>12, <2>3 DEF SPost
  <2> QED
    BY <1>12, <2>1, <2>2, <2>3 DEF SPost
<1>13. CASE SUnlinkShm
  BY <1>13 DEF SUnlinkShm, SUnlink
<1>14. CASE SUnlinkReceiverSem
  BY <1>14 DEF SUnlinkReceiverSem, SUnlink
<1>15. CASE SUnlinkSenderSem
  BY <1>15 DEF SUnlinkSenderSem, SUnlink
<1>16. CASE SKill
  BY <1>16 DEF SKill
<1>17. CASE SWaitFails
  BY <1>17 DEF SWaitFails
<1> QED
  BY <1>1, <1>2, <1>3, <1>4, <1>5, <1>6, <1>7, <1>8, <1>9, <1>10, <1>11, <1>12, <1>13,
     <1>14, <1>15, <1>16, <1>17 DEF SenderStep

(* What the verdicts mean: the steps of the receiver keep it.              *)
LEMMA ResultsReceiver ==
  ASSUME IInv, RLaunch \/ ReceiverStep \/ RWaitFails \/ RKill
  PROVE  Results'
<1> /\ spc \in SenderLabels /\ rpc \in ReceiverLabels
    /\ sres \in Outcomes /\ rres \in Outcomes
    /\ senderSem \in Nat /\ receiverSem \in Nat
    /\ size \in Sizes /\ lastRead \in 0..BufferSize /\ taken \in 0..BufferSize
    /\ sent \in Nat /\ out \in Seq(Int) /\ held \in 0..(BufferSize - 1)
    /\ InStep /\ NothingPosted /\ DataPhase /\ Prefix /\ Results
  BY DEF IInv, TypeOK
<1> USE DEF InStep, NothingPosted, DataPhase, Results, Outcomes
<1>1. CASE RLaunch
  BY <1>1 DEF RLaunch
<1>2. CASE RConnectReceiverSem
  BY <1>2 DEF RConnectReceiverSem, RConnect
<1>3. CASE RConnectSenderSem
  BY <1>3 DEF RConnectSenderSem, RConnect
<1>4. CASE RConnectShm
  BY <1>4 DEF RConnectShm
<1>5. CASE RHello
  BY <1>5 DEF RHello
<1>6. CASE RWaitHeader
  BY <1>6 DEF RWaitHeader, RWait
<1>7. CASE RCheckSize
  BY <1>7 DEF RCheckSize
<1>8. CASE RReadHeader
  BY <1>8 DEF RReadHeader
<1>9. CASE RAckHeader
  BY <1>9 DEF RAckHeader
<1>10. CASE RWaitData
  BY <1>10 DEF RWaitData, RWait
<1>11. CASE RTakeSize
  BY <1>11 DEF RTakeSize
<1>12. CASE RStore
  <2>1. CASE rpc' = "reset"
    <3>1. Len(out) <= Len(out')
      BY <1>12, <2>1, StoreNext DEF RStore, Loaded, Prefix
    <3> QED
      BY <1>12, <2>1, <3>1, BufferSizeAssumption, SizesAssumption DEF RStore
  <2>2. CASE rpc' # "reset"
    BY <1>12, <2>2 DEF RStore
  <2> QED
    BY <2>1, <2>2
<1>13. CASE RReset
  BY <1>13 DEF RReset
<1>14. CASE RAck
  <2>1. CASE senderSem' = senderSem + 1 /\ More(taken, Len(out), expected)
    BY <1>14, <2>1 DEF RAck
  <2>2. CASE senderSem' = senderSem + 1 /\ ~More(taken, Len(out), expected)
    <3>1. Len(out) = expected => announced = size /\ size > 0 /\ Len(out) = size
      BY <1>14, <2>2, BufferSizeAssumption, SizesAssumption DEF RAck, More
    <3>2. Len(out) \in Nat /\ size \in Nat /\ MostLost(BufferSize - 1) \in Nat
      BY BufferSizeAssumption, SizesAssumption DEF MostLost
    <3>3. /\ rpc' = "unlinkShm" /\ rres' = Verdict(Len(out), expected)
          /\ rpc \notin Over /\ rpc # "idle" /\ expected = announced
          /\ UNCHANGED <<spc, sres, announced, size, out, present>>
      BY <1>14, <2>2 DEF RAck
    <3>4. rres' = "success" => announced = size /\ size > 0 /\ Len(out) = size
      BY <3>1, <3>3 DEF Verdict
    <3>5. rres' \in {"success", "failure"}
      BY <3>3 DEF Verdict
    <3> QED
      BY <3>2, <3>3, <3>4, <3>5
  <2>3. CASE senderSem' = senderSem
    BY <1>14, <2>3 DEF RAck
  <2> QED
    BY <1>14, <2>1, <2>2, <2>3 DEF RAck
<1>15. CASE RUnlinkShm
  BY <1>15 DEF RUnlinkShm, RUnlink
<1>16. CASE RUnlinkReceiverSem
  BY <1>16 DEF RUnlinkReceiverSem, RUnlink
<1>17. CASE RUnlinkSenderSem
  BY <1>17 DEF RUnlinkSenderSem, RUnlink
<1>18. CASE RRemove
  BY <1>18 DEF RRemove
<1>19. CASE RKill
  <2>1. PICK k \in 0..held : Len(out') = Len(out) - k /\ (k > 0 => Len(out) = size)
    BY <1>19, Loses
  <2>2. k < BufferSize
    BY BufferSizeAssumption
  <2>3. /\ rpc' = "ended" /\ rres' = "killed" /\ rpc # "idle"
        /\ UNCHANGED <<spc, sres, size, announced, present>>
    BY <1>19 DEF RKill
  <2>4. size <= Len(out) + BufferSize => size <= Len(out') + BufferSize
    <3>1. size \in Nat /\ Len(out) \in Nat /\ k \in Nat /\ BufferSize \in Nat
      BY SizesAssumption, BufferSizeAssumption
    <3> QED
      BY <2>1, <2>2, <3>1
  <2> QED
    BY <2>3, <2>4
<1>20. CASE RWaitFails
  BY <1>20 DEF RWaitFails
<1>21. CASE RCloseCopy
  <2>1. PICK k \in 0..held :
          /\ Len(out') = Len(out) - k /\ k <= MostLost(held)
          /\ k > 0 => Len(out) = size
    BY <1>21, Loses
  <2>2. /\ k < BufferSize /\ MostLost(held) <= MostLost(BufferSize - 1)
        /\ MostLost(held) \in Nat /\ MostLost(BufferSize - 1) \in Nat
    BY BufferSizeAssumption DEF MostLost
  <2>3. rres' = "success" => Len(out) = size
    BY <1>21 DEF RCloseCopy
  <2>4. rres' = "success" => Len(out') \in (size' - MostLost(BufferSize - 1))..size'
    BY <1>21, <2>1, <2>2, <2>3, SizesAssumption DEF RCloseCopy
  <2>5. /\ rpc = "closeCopy" /\ rpc' = "ended"
        /\ UNCHANGED <<spc, sres, rres, size, announced, present>>
    BY <1>21 DEF RCloseCopy
  <2>6. size <= Len(out) + BufferSize => size <= Len(out') + BufferSize
    <3>1. size \in Nat /\ Len(out) \in Nat /\ k \in Nat /\ BufferSize \in Nat
      BY SizesAssumption, BufferSizeAssumption
    <3> QED
      BY <2>1, <2>2, <3>1
  <2> QED
    BY <2>4, <2>5, <2>6
<1> QED
  BY <1>1, <1>2, <1>3, <1>4, <1>5, <1>6, <1>7, <1>8, <1>9, <1>10, <1>11, <1>12, <1>13,
     <1>14, <1>15, <1>16, <1>17, <1>18, <1>19, <1>20, <1>21 DEF ReceiverStep

(* What the stream holds belongs to the last buffer: no step of the sender *)
(* touches it.                                                             *)
LEMMA HeldSender ==
  ASSUME IInv, SLaunch \/ SenderStep \/ SWaitFails \/ SKill
  PROVE  Held'
<1> spc \in SenderLabels /\ rpc \in ReceiverLabels /\ Held
  BY DEF IInv, TypeOK
<1> USE DEF Held
<1>1. CASE SLaunch
  BY <1>1 DEF SLaunch
<1>2. CASE SShmCreate
  BY <1>2 DEF SShmCreate
<1>3. CASE SSenderSemCreate
  BY <1>3 DEF SSenderSemCreate, Created
<1>4. CASE SReceiverSemCreate
  BY <1>4 DEF SReceiverSemCreate, Created
<1>5. CASE SWaitPeer
  BY <1>5 DEF SWaitPeer, SWait
<1>6. CASE SHeader
  BY <1>6 DEF SHeader
<1>7. CASE SHeaderSize
  BY <1>7 DEF SHeaderSize
<1>8. CASE SPostHeader
  BY <1>8 DEF SPostHeader
<1>9. CASE SWaitTurn
  BY <1>9 DEF SWaitTurn, SWait
<1>10. CASE SFill
  BY <1>10 DEF SFill
<1>11. CASE SFillSize
  BY <1>11 DEF SFillSize
<1>12. CASE SPost
  BY <1>12 DEF SPost
<1>13. CASE SUnlinkShm
  BY <1>13 DEF SUnlinkShm, SUnlink
<1>14. CASE SUnlinkReceiverSem
  BY <1>14 DEF SUnlinkReceiverSem, SUnlink
<1>15. CASE SUnlinkSenderSem
  BY <1>15 DEF SUnlinkSenderSem, SUnlink
<1>16. CASE SKill
  BY <1>16 DEF SKill
<1>17. CASE SWaitFails
  BY <1>17 DEF SWaitFails
<1> QED
  BY <1>1, <1>2, <1>3, <1>4, <1>5, <1>6, <1>7, <1>8, <1>9,
     <1>10, <1>11, <1>12, <1>13, <1>14, <1>15, <1>16, <1>17 DEF SenderStep

(* The receiver fills the stream when it stores a last, short buffer, and  *)
(* empties it when it closes the file or is killed.                        *)
LEMMA HeldReceiver ==
  ASSUME IInv, RLaunch \/ ReceiverStep \/ RWaitFails \/ RKill
  PROVE  Held'
<1> /\ spc \in SenderLabels /\ rpc \in ReceiverLabels
    /\ size \in Nat /\ out \in Seq(Int)
    /\ Held /\ NothingPosted /\ HeaderPhase
  BY SizesAssumption DEF IInv, TypeOK
<1> USE DEF Held
<1>1. CASE RLaunch
  BY <1>1 DEF RLaunch
<1>2. CASE RConnectReceiverSem
  BY <1>2 DEF RConnectReceiverSem, RConnect
<1>3. CASE RConnectSenderSem
  BY <1>3 DEF RConnectSenderSem, RConnect
<1>4. CASE RConnectShm
  BY <1>4 DEF RConnectShm
<1>5. CASE RHello
  BY <1>5 DEF RHello
<1>6. CASE RWaitHeader
  BY <1>6 DEF RWaitHeader, RWait
<1>7. CASE RCheckSize
  BY <1>7 DEF RCheckSize
<1>8. CASE RReadHeader
  BY <1>8 DEF RReadHeader
<1>9. CASE RAckHeader
  BY <1>9 DEF RAckHeader
<1>10. CASE RWaitData
  BY <1>10 DEF RWaitData, RWait
<1>11. CASE RTakeSize
  BY <1>11 DEF RTakeSize
<1>12. CASE RStore
  <2>1. CASE rpc' = "reset"
    <3>1. /\ out' = out \o [i \in 1..taken |-> cells[i]] /\ held' \in HeldOf(taken)
          /\ rpc = "store" /\ UNCHANGED <<spc, size, taken>>
      BY <1>12, <2>1 DEF RStore
    <3>2. /\ taken = lastRead /\ taken \in 0..BufferSize /\ Loaded /\ Prefix
          /\ Len(out) \in Nat
      BY <3>1 DEF IInv, TypeOK, DataPhase
    <3>3. Len(out') = Len(out) + taken
      BY <3>1, <3>2, StoreNext DEF Loaded, Prefix
    <3>4. held' > 0 => held' = taken /\ taken < BufferSize
      BY <3>1, <3>2 DEF HeldOf
    <3>5. taken < BufferSize => Len(out') = size /\ taken <= size
      BY <3>2, <3>3 DEF Loaded
    <3>6. taken < BufferSize => spc \in Over
      BY <3>1, <3>2 DEF DataPhase, IInv
    <3> QED
      BY <2>1, <3>1, <3>4, <3>5, <3>6
  <2>2. CASE rpc' # "reset"
    BY <1>12, <2>2 DEF RStore
  <2> QED
    BY <2>1, <2>2
<1>13. CASE RReset
  BY <1>13 DEF RReset
<1>14. CASE RAck
  <2>1. held > 0 => ~More(taken, Len(out), expected)
    BY <1>14 DEF RAck, More, IInv, TypeOK
  <2> QED
    BY <1>14, <2>1 DEF RAck
<1>15. CASE RUnlinkShm
  BY <1>15 DEF RUnlinkShm, RUnlink
<1>16. CASE RUnlinkReceiverSem
  BY <1>16 DEF RUnlinkReceiverSem, RUnlink
<1>17. CASE RUnlinkSenderSem
  BY <1>17 DEF RUnlinkSenderSem, RUnlink
<1>18. CASE RRemove
  BY <1>18 DEF RRemove
<1>19. CASE RKill
  BY <1>19 DEF RKill
<1>20. CASE RWaitFails
  BY <1>20 DEF RWaitFails
<1>21. CASE RCloseCopy
  BY <1>21 DEF RCloseCopy
<1> QED
  BY <1>1, <1>2, <1>3, <1>4, <1>5, <1>6, <1>7, <1>8, <1>9, <1>10,
     <1>11, <1>12, <1>13, <1>14, <1>15, <1>16, <1>17, <1>18, <1>19, <1>20, <1>21 DEF ReceiverStep

(* The names that are gone stay gone.                                      *)
LEMMA NamesSender ==
  ASSUME IInv, SLaunch \/ SenderStep \/ SWaitFails \/ SKill
  PROVE  NamesGone'
<1> /\ spc \in SenderLabels /\ rpc \in ReceiverLabels /\ linked \subseteq Names
    /\ InStep /\ NothingPosted /\ Results /\ NamesGone
  BY DEF IInv, TypeOK
<1> USE DEF InStep, NothingPosted, Results, NamesGone, UnlinkedAt, Names
<1>1. CASE SLaunch
  BY <1>1 DEF SLaunch
<1>2. CASE SShmCreate
  BY <1>2 DEF SShmCreate
<1>3. CASE SSenderSemCreate
  BY <1>3 DEF SSenderSemCreate, Created
<1>4. CASE SReceiverSemCreate
  BY <1>4 DEF SReceiverSemCreate, Created
<1>5. CASE SWaitPeer
  BY <1>5 DEF SWaitPeer, SWait
<1>6. CASE SHeader
  BY <1>6 DEF SHeader
<1>7. CASE SHeaderSize
  BY <1>7 DEF SHeaderSize
<1>8. CASE SPostHeader
  BY <1>8 DEF SPostHeader
<1>9. CASE SWaitTurn
  BY <1>9 DEF SWaitTurn, SWait
<1>10. CASE SFill
  BY <1>10 DEF SFill
<1>11. CASE SFillSize
  BY <1>11 DEF SFillSize
<1>12. CASE SPost
  BY <1>12 DEF SPost
<1>13. CASE SUnlinkShm
  BY <1>13 DEF SUnlinkShm, SUnlink
<1>14. CASE SUnlinkReceiverSem
  BY <1>14 DEF SUnlinkReceiverSem, SUnlink
<1>15. CASE SUnlinkSenderSem
  BY <1>15 DEF SUnlinkSenderSem, SUnlink
<1>16. CASE SKill
  BY <1>16 DEF SKill
<1>17. CASE SWaitFails
  BY <1>17 DEF SWaitFails
<1> QED
  BY <1>1, <1>2, <1>3, <1>4, <1>5, <1>6, <1>7, <1>8, <1>9, <1>10, <1>11, <1>12, <1>13,
     <1>14, <1>15, <1>16, <1>17 DEF SenderStep

(* Which names are gone: the steps of the receiver keep what is said of    *)
(* them.                                                                   *)
LEMMA NamesReceiver ==
  ASSUME IInv, RLaunch \/ ReceiverStep \/ RWaitFails \/ RKill
  PROVE  NamesGone'
<1> /\ spc \in SenderLabels /\ rpc \in ReceiverLabels /\ linked \subseteq Names
    /\ InStep /\ NothingPosted /\ Results /\ NamesGone
  BY DEF IInv, TypeOK
<1> USE DEF InStep, NothingPosted, Results, NamesGone, UnlinkedAt, Names
<1>1. CASE RLaunch
  BY <1>1 DEF RLaunch
<1>2. CASE RConnectReceiverSem
  BY <1>2 DEF RConnectReceiverSem, RConnect
<1>3. CASE RConnectSenderSem
  BY <1>3 DEF RConnectSenderSem, RConnect
<1>4. CASE RConnectShm
  BY <1>4 DEF RConnectShm
<1>5. CASE RHello
  BY <1>5 DEF RHello
<1>6. CASE RWaitHeader
  BY <1>6 DEF RWaitHeader, RWait
<1>7. CASE RCheckSize
  BY <1>7 DEF RCheckSize
<1>8. CASE RReadHeader
  BY <1>8 DEF RReadHeader
<1>9. CASE RAckHeader
  BY <1>9 DEF RAckHeader
<1>10. CASE RWaitData
  BY <1>10 DEF RWaitData, RWait
<1>11. CASE RTakeSize
  BY <1>11 DEF RTakeSize
<1>12. CASE RStore
  BY <1>12 DEF RStore
<1>13. CASE RReset
  BY <1>13 DEF RReset
<1>14. CASE RAck
  BY <1>14 DEF RAck
<1>15. CASE RUnlinkShm
  BY <1>15 DEF RUnlinkShm, RUnlink
<1>16. CASE RUnlinkReceiverSem
  BY <1>16 DEF RUnlinkReceiverSem, RUnlink
<1>17. CASE RUnlinkSenderSem
  BY <1>17 DEF RUnlinkSenderSem, RUnlink
<1>18. CASE RRemove
  BY <1>18 DEF RRemove
<1>19. CASE RKill
  BY <1>19 DEF RKill
<1>20. CASE RWaitFails
  BY <1>20 DEF RWaitFails
<1>21. CASE RCloseCopy
  BY <1>21 DEF RCloseCopy
<1> QED
  BY <1>1, <1>2, <1>3, <1>4, <1>5, <1>6, <1>7, <1>8, <1>9, <1>10, <1>11, <1>12, <1>13,
     <1>14, <1>15, <1>16, <1>17, <1>18, <1>19, <1>20, <1>21 DEF ReceiverStep

(* The invariant holds at the start.                                       *)
LEMMA InvInit == Quiet /\ Init => IInv
<1> SUFFICES ASSUME Quiet, Init PROVE IInv
  OBVIOUS
<1>1. senderSem = 0 /\ receiverSem = 0
  BY DEF Quiet, Init
<1>2. TypeOK
  BY TypeInit
<1>3. OneTurn /\ InStep /\ OneObject /\ NothingPosted
  BY <1>1 DEF Init, OneTurn, Turns, Holding, InStep, OneObject, NothingPosted
<1>4. HeaderPhase /\ DataPhase
  BY <1>1 DEF Init, HeaderPhase, DataPhase
<1>5. Prefix /\ Results /\ Held /\ NamesGone
  <2>1. Stretch(0, 0) = << >>
    BY DEF Stretch
  <2>2. size \in Nat
    BY SizesAssumption DEF Init
  <2> QED
    BY <2>1, <2>2 DEF Init, Prefix, Results, Held, NamesGone
<1> QED
  BY <1>2, <1>3, <1>4, <1>5 DEF IInv

(* Every step keeps the invariant.                                         *)
LEMMA InvStep == IInv /\ [Next]_vars => IInv'
<1> SUFFICES ASSUME IInv, [Next]_vars PROVE IInv'
  OBVIOUS
<1>1. TypeOK'
  BY TypeStep DEF IInv
<1>2. CASE SLaunch \/ SenderStep \/ SWaitFails \/ SKill
  BY <1>1, <1>2, ControlSender, DataSender, ResultsSender, HeldSender, NamesSender DEF IInv
<1>3. CASE RLaunch \/ ReceiverStep \/ RWaitFails \/ RKill
  BY <1>1, <1>3, ControlReceiver, DataReceiver, ResultsReceiver, HeldReceiver, NamesReceiver
  DEF IInv
<1>4. CASE UNCHANGED vars
  <2>1. (HeaderInBuffer' <=> HeaderInBuffer) /\ (Loaded' <=> Loaded) /\ (Prefix' <=> Prefix)
    BY <1>4, SameBuffer, SameLoad, SamePrefix DEF vars
  <2>2. OneTurn' /\ InStep' /\ OneObject' /\ NothingPosted'
    BY <1>4 DEF vars, IInv, OneTurn, Turns, Holding, InStep, OneObject, NothingPosted
  <2>3. HeaderPhase' /\ DataPhase'
    BY <1>4, <2>1 DEF vars, IInv, HeaderPhase, DataPhase, HeaderPosted
  <2>4. Results' /\ Held' /\ NamesGone'
    BY <1>4 DEF vars, IInv, Results, Held, NamesGone, UnlinkedAt
  <2> QED
    BY <1>1, <2>1, <2>2, <2>3, <2>4 DEF IInv
<1> QED
  BY <1>2, <1>3, <1>4 DEF Next, BothEnded

(* The invariant holds in every reachable state.                           *)
THEOREM InvariantHolds == Quiet => (SafetySpec => []IInv)
<1> SUFFICES ASSUME Quiet PROVE SafetySpec => []IInv
  OBVIOUS
<1>1. Init => IInv
  BY InvInit
<1> QED
  BY <1>1, InvStep, PTL DEF SafetySpec

-----------------------------------------------------------------------------
(* What follows from it *)

(* On a quiet channel at most one program uses the buffer at any time,     *)
(* however the programs interleave, fail, time out or are killed.          *)
THEOREM TurnsAreTaken == Quiet => (SafetySpec => []TurnTaking)
<1>1. IInv => TurnTaking
  BY DEF IInv, TypeOK, OneTurn, Turns, Holding, TurnTaking
<1> QED
  BY <1>1, InvariantHolds, PTL

(* On a quiet channel a copy the receiver calls a success is the source,   *)
(* except for what closing the file may lose on a failing disk: less than  *)
(* a buffer of its last bytes.                                             *)
THEOREM CopyIsExact == Quiet => (SafetySpec => []ExactCopy)
<1>1. IInv => ExactCopy
  BY DEF IInv, Prefix, Results, ExactCopy
<1> QED
  BY <1>1, InvariantHolds, PTL

(* On a quiet channel a program that took part in the transfer and was not *)
(* killed has removed all three names when both have ended.                *)
THEOREM NamesAreUnlinked == Quiet => (SafetySpec => []NamesUnlinked)
<1>1. IInv => NamesUnlinked
  BY DEF IInv, TypeOK, NamesGone, UnlinkedAt, NamesUnlinked
<1> QED
  BY <1>1, InvariantHolds, PTL

-----------------------------------------------------------------------------
(* The promise: the initial states map to initial states of FileCopy, and  *)
(* every step to a step or a stutter.                                      *)

(* The facts of the invariant the mapping needs. *)
LEMMA PromiseFacts ==
  ASSUME IInv
  PROVE  /\ size \in Sizes /\ size \in Nat /\ Sizes \subseteq Nat
         /\ spc \in SenderLabels /\ rpc \in ReceiverLabels
         /\ sres \in Outcomes /\ rres \in Outcomes
         /\ NothingPosted /\ InStep /\ Prefix /\ Results
  BY SizesAssumption DEF IInv, TypeOK

(* The initial states map to initial states of FileCopy.                   *)
LEMMA PromiseInit == Init => Promise!Init
<1> SUFFICES ASSUME Init PROVE Promise!Init
  OBVIOUS
<1>1. present \in BOOLEAN
  BY Zenon DEF Init
<1> QED
  BY <1>1 DEF Init, Promise!Init, Outcome

(* A step of the sender maps to a step of FileCopy or to a stutter.        *)
LEMMA PromiseSender ==
  ASSUME IInv, SLaunch \/ SenderStep \/ SWaitFails \/ SKill
  PROVE  [Promise!Next]_(Promise!vars)
<1> /\ size \in Sizes /\ size \in Nat /\ Sizes \subseteq Nat
    /\ spc \in SenderLabels /\ sres \in Outcomes
    /\ NothingPosted /\ Results
  BY PromiseFacts
<1> USE DEF Outcome, Promise!Next, Promise!vars, NothingPosted, Results, Outcomes
<1>1. CASE SLaunch
  BY <1>1 DEF SLaunch, Promise!GiveUp
<1>2. CASE SShmCreate
  BY <1>2 DEF SShmCreate
<1>3. CASE SSenderSemCreate
  BY <1>3 DEF SSenderSemCreate
<1>4. CASE SReceiverSemCreate
  BY <1>4 DEF SReceiverSemCreate
<1>5. CASE SWaitPeer
  BY <1>5 DEF SWaitPeer, SWait
<1>6. CASE SHeader
  BY <1>6 DEF SHeader, AnnouncedSizes, Promise!Announce
<1>7. CASE SHeaderSize
  BY <1>7 DEF SHeaderSize
<1>8. CASE SPostHeader
  BY <1>8 DEF SPostHeader
<1>9. CASE SWaitTurn
  BY <1>9 DEF SWaitTurn, SWait
<1>10. CASE SFill
  BY <1>10 DEF SFill
<1>11. CASE SFillSize
  BY <1>11 DEF SFillSize
<1>12. CASE SPost
  BY <1>12 DEF SPost
<1>13. CASE SUnlinkShm
  BY <1>13 DEF SUnlinkShm, SUnlink
<1>14. CASE SUnlinkReceiverSem
  BY <1>14 DEF SUnlinkReceiverSem, SUnlink
<1>15. CASE SUnlinkSenderSem
  BY <1>15 DEF SUnlinkSenderSem, SUnlink, Promise!Complete, Promise!GiveUp
<1>16. CASE SKill
  BY <1>16 DEF SKill, Promise!KillSender
<1>17. CASE SWaitFails
  BY <1>17 DEF SWaitFails
<1> QED
  BY <1>1, <1>2, <1>3, <1>4, <1>5, <1>6, <1>7, <1>8, <1>9, <1>10, <1>11, <1>12,
     <1>13, <1>14, <1>15, <1>16, <1>17 DEF SenderStep

(* A step of the receiver maps to a step of FileCopy or to a stutter.      *)
LEMMA PromiseReceiver ==
  ASSUME IInv, RLaunch \/ ReceiverStep \/ RWaitFails \/ RKill
  PROVE  [Promise!Next]_(Promise!vars)
<1> /\ size \in Sizes /\ size \in Nat /\ Sizes \subseteq Nat
    /\ rpc \in ReceiverLabels /\ rres \in Outcomes
    /\ Prefix /\ Results
  BY PromiseFacts
<1> USE DEF Outcome, Promise!Next, Promise!vars, Results, Outcomes
<1>1. CASE RLaunch
  BY <1>1 DEF RLaunch, Promise!CreateCopy, IInv, HeaderPhase
<1>2. CASE RConnectReceiverSem
  BY <1>2 DEF RConnectReceiverSem, RConnect
<1>3. CASE RConnectSenderSem
  BY <1>3 DEF RConnectSenderSem, RConnect
<1>4. CASE RConnectShm
  BY <1>4 DEF RConnectShm
<1>5. CASE RHello
  BY <1>5 DEF RHello
<1>6. CASE RWaitHeader
  BY <1>6 DEF RWaitHeader, RWait
<1>7. CASE RCheckSize
  BY <1>7 DEF RCheckSize
<1>8. CASE RReadHeader
  BY <1>8 DEF RReadHeader
<1>9. CASE RAckHeader
  BY <1>9 DEF RAckHeader
<1>10. CASE RWaitData
  BY <1>10 DEF RWaitData, RWait
<1>11. CASE RTakeSize
  BY <1>11 DEF RTakeSize
<1>12. CASE RStore
  <2>1. CASE rpc' = "reset"
    <3>1. /\ out' = out \o [i \in 1..taken |-> cells[i]]
          /\ rpc = "store" /\ present
          /\ UNCHANGED <<size, announced, present, spc, sres, rres>>
      BY <1>12, <2>1 DEF RStore
    <3>2. /\ taken \in 0..BufferSize /\ taken = lastRead
          /\ Loaded /\ Prefix /\ out \in Seq(Int) /\ sent \in Nat
      BY <3>1 DEF IInv, TypeOK, DataPhase
    <3>3. /\ Len(out) \in Nat /\ Len(out) + taken <= size
          /\ [i \in 1..taken |-> cells[i]] = Promise!NextBytes(taken)
      BY <3>2 DEF Loaded, Prefix, Promise!NextBytes
    <3>4. CASE taken = 0
      <4>1. [i \in 1..taken |-> cells[i]] = << >>
        BY <3>4
      <4>2. out' = out
        BY <3>1, <3>2, <4>1, ConcatEmptySeq
      <4> QED
        BY <2>1, <3>1, <4>2
    <3>5. CASE taken # 0
      <4>1. taken \in 1..BufferSize
        BY <3>2, <3>5, BufferSizeAssumption
      <4>2. Promise!Store(taken)
        BY <2>1, <3>1, <3>3 DEF Promise!Store
      <4> QED
        BY <4>1, <4>2
    <3> QED
      BY <3>4, <3>5
  <2>2. CASE rpc' # "reset"
    BY <1>12, <2>2 DEF RStore
  <2> QED
    BY <2>1, <2>2
<1>13. CASE RReset
  BY <1>13 DEF RReset
<1>14. CASE RAck
  BY <1>14 DEF RAck
<1>15. CASE RUnlinkShm
  BY <1>15 DEF RUnlinkShm, RUnlink
<1>16. CASE RUnlinkReceiverSem
  BY <1>16 DEF RUnlinkReceiverSem, RUnlink
<1>17. CASE RUnlinkSenderSem
  BY <1>17 DEF RUnlinkSenderSem, RUnlink
<1>18. CASE RRemove
  BY <1>18 DEF RRemove, Promise!Reject
<1>19. CASE RKill
  <2>1. PICK k \in 0..held : out' = SubSeq(out, 1, Len(out) - k) /\ Len(out') = Len(out) - k
    BY <1>19, Loses
  <2>2. k \in 0..(BufferSize - 1) /\ k <= Len(out)
    BY BufferSizeAssumption DEF IInv, TypeOK, Held
  <2>3. \E n \in 0..(BufferSize - 1) : Promise!LoseLast(n)
    BY <2>1, <2>2, Zenon DEF Promise!LoseLast
  <2> QED
    BY <1>19, <2>3 DEF RKill, Promise!KillReceiver
<1>20. CASE RWaitFails
  BY <1>20 DEF RWaitFails
<1>21. CASE RCloseCopy
  <2>1. PICK k \in 0..held :
           /\ out' = SubSeq(out, 1, Len(out) - k) /\ Len(out') = Len(out) - k
           /\ k <= MostLost(held)
    BY <1>21, Loses
  <2>2. k \in 0..MostLost(BufferSize - 1) /\ k <= Len(out)
    BY <2>1, BufferSizeAssumption DEF IInv, TypeOK, Held, MostLost
  <2>3. \E n \in 0..MostLost(BufferSize - 1) : Promise!LoseLast(n)
    BY <2>1, <2>2, Zenon DEF Promise!LoseLast
  <2> QED
    BY <1>21, <2>3 DEF RCloseCopy, Promise!Accept
<1> QED
  BY <1>1, <1>2, <1>3, <1>4, <1>5, <1>6, <1>7, <1>8, <1>9, <1>10, <1>11, <1>12,
     <1>13, <1>14, <1>15, <1>16, <1>17, <1>18, <1>19, <1>20, <1>21 DEF ReceiverStep

(* Every step maps to a step of FileCopy or to a stutter.                  *)
LEMMA PromiseStep == IInv /\ [Next]_vars => [Promise!Next]_(Promise!vars)
<1> SUFFICES ASSUME IInv, [Next]_vars PROVE [Promise!Next]_(Promise!vars)
  OBVIOUS
<1>1. CASE UNCHANGED vars
  BY <1>1 DEF vars, Promise!vars, Outcome
<1> QED
  BY <1>1, PromiseSender, PromiseReceiver DEF Next, BothEnded

(* On a quiet channel the two programs, whatever disturbs them, keep the   *)
(* promise: the copy grows by the next bytes of the source only, success   *)
(* of the receiver means a complete copy but for what closing the file     *)
(* loses, its failure leaves no file, and success of the sender means all  *)
(* but one buffer is stored.                                               *)
THEOREM SessionKeepsPromise == Quiet => (SafetySpec => KeepsPromise)
<1> SUFFICES ASSUME Quiet PROVE SafetySpec => KeepsPromise
  OBVIOUS
<1>1. SafetySpec => []IInv
  BY InvariantHolds
<1> QED
  BY <1>1, PromiseInit, PromiseStep, PTL DEF SafetySpec, KeepsPromise, Promise!Spec
=============================================================================

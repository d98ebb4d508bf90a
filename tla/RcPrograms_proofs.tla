-------------------------- MODULE RcPrograms_proofs --------------------------
(***************************************************************************)
(* Proofs about the programs of C++_hands_on_programming_RC for every      *)
(* buffer size, every capacity, every set of lengths and every set of      *)
(* disturbances: the three sessions one after the other, then the programs *)
(* that run one of them.                                                   *)
(***************************************************************************)
EXTENDS RcPrograms, CopyFileThroughIPC_proofs

-----------------------------------------------------------------------------
(* Shared memory                                                           *)

USE DEF Shm!SGoto, Shm!RGoto, Shm!SLeave, Shm!RLeave, Shm!SRefuse, Shm!SConclude,
        Shm!RRefuse, Shm!RConclude,
        Shm!Fails, Shm!STimeout, Shm!RTimeout, Shm!outcomes, Shm!sems, Shm!shm,
        Shm!senderData, Shm!receiverData,
        Shm!channel

-----------------------------------------------------------------------------
(* Data *)

(* A read returns at most a buffer and never reads beyond the source; one  *)
(* that is not full ends it.                                               *)
LEMMA ShmReadFileBounds ==
  ASSUME NEW from \in Nat, NEW length \in Nat
  PROVE  /\ Shm!ReadFile(from, length) \in 0..BufferSize
         /\ from <= length => from + Shm!ReadFile(from, length) <= length
         /\ from <= length /\ Shm!ReadFile(from, length) < BufferSize
              => from + Shm!ReadFile(from, length) = length
<1>1. Shm!ReadFile(from, length) = ReadFile(from, length)
  BY DEF Shm!ReadFile, ReadFile
<1>2. /\ ReadFile(from, length) \in 0..BufferSize
      /\ from <= length => from + ReadFile(from, length) <= length
      /\ from <= length /\ ReadFile(from, length) < BufferSize
           => from + ReadFile(from, length) = length
  BY ReadFileBounds
<1> QED
  BY <1>1, <1>2

(* A stretch of n bytes after m is a sequence of n numbers, the i-th of    *)
(* them m + i.                                                             *)
LEMMA ShmStretchSeq ==
  ASSUME NEW m \in Nat, NEW n \in Nat
  PROVE  /\ Shm!Stretch(m, n) \in Seq(Int)
         /\ Len(Shm!Stretch(m, n)) = n
         /\ \A i \in 1..n : Shm!Stretch(m, n)[i] = m + i
<1>1. Shm!Stretch(m, n) = Stretch(m, n)
  BY DEF Shm!Stretch, Stretch
<1> QED
  BY <1>1, StretchSeq, Zenon

(* A stretch from the start and the one that follows it make a longer      *)
(* stretch from the start.                                                 *)
LEMMA ShmStretchGrows ==
  ASSUME NEW m \in Nat, NEW n \in Nat
  PROVE  /\ Shm!Stretch(0, m) \o Shm!Stretch(m, n) = Shm!Stretch(0, m + n)
         /\ Len(Shm!Stretch(0, m) \o Shm!Stretch(m, n)) = m + n
<1>1. \A a, b : Shm!Stretch(a, b) = Stretch(a, b)
  BY DEF Shm!Stretch, Stretch
<1> QED
  BY <1>1, StretchGrows, Zenon

(* What the receiver appends are integers, whatever the buffer holds.      *)
LEMMA ShmStoreType ==
  ASSUME NEW s \in Seq(Int), NEW n \in 0..BufferSize, NEW f \in [1..BufferSize -> Int]
  PROVE  s \o [i \in 1..n |-> f[i]] \in Seq(Int)
<1>1. [i \in 1..n |-> f[i]] \in [1..n -> Int]
  BY BufferSizeAssumption
<1>2. [i \in 1..n |-> f[i]] \in Seq(Int)
  BY <1>1, BufferSizeAssumption
<1> QED
  BY <1>2

(* A sequence cut in two.                                                  *)
LEMMA CutInTwo ==
  ASSUME NEW s \in Seq(Int), NEW n \in 0..Len(s)
  PROVE  /\ SubSeq(s, 1, n) \in Seq(Int) /\ Len(SubSeq(s, 1, n)) = n
         /\ \A i \in 1..n : SubSeq(s, 1, n)[i] = s[i]
         /\ SubSeq(s, n + 1, Len(s)) \in Seq(Int)
         /\ Len(SubSeq(s, n + 1, Len(s))) = Len(s) - n
         /\ \A i \in 1..(Len(s) - n) : SubSeq(s, n + 1, Len(s))[i] = s[n + i]
<1>1. Len(s) \in Nat /\ \A i \in 1..Len(s) : s[i] \in Int
  OBVIOUS
<1>2. /\ SubSeq(s, 1, n) \in Seq(Int)
      /\ Len(SubSeq(s, 1, n)) = IF 1 <= n THEN n - 1 + 1 ELSE 0
      /\ \A i \in 1..(n - 1 + 1) : SubSeq(s, 1, n)[i] = s[1 + i - 1]
  <2>1. \A i \in 1..n : s[i] \in Int
    BY <1>1
  <2> QED
    BY <2>1, SubSeqProperties
<1>3. /\ SubSeq(s, n + 1, Len(s)) \in Seq(Int)
      /\ Len(SubSeq(s, n + 1, Len(s)))
           = IF n + 1 <= Len(s) THEN Len(s) - (n + 1) + 1 ELSE 0
      /\ \A i \in 1..(Len(s) - (n + 1) + 1) :
           SubSeq(s, n + 1, Len(s))[i] = s[n + 1 + i - 1]
  <2>1. \A i \in (n + 1)..Len(s) : s[i] \in Int
    BY <1>1
  <2> QED
    BY <1>1, <2>1, SubSeqProperties
<1> QED
  BY <1>1, <1>2, <1>3

(* Nothing is lost of a copy of which nothing can be.                      *)
LEMMA NothingLost ==
  ASSUME NEW q \in Seq(Int)
  PROVE  0 <= Len(q) /\ SubSeq(q, 1, Len(q) - 0) = q
  OBVIOUS

(* Closing a copy whose last piece was a full one loses nothing.           *)
LEMMA NothingClosed ==
  ASSUME NEW s \in Seq(Int), NEW c \in ClosedAfter(s, BufferSize)
  PROVE  c = s
<1>1. ~(BufferSize < BufferSize) /\ MostLost(0) \in 0..0
  BY BufferSizeAssumption, MostLostBounds
<1>2. c \in ClosedCopies(s, 0)
  BY <1>1 DEF ClosedAfter
<1>3. PICK k \in 0..MostLost(0) : c = WithoutLast(s, k)
  BY <1>2, Zenon DEF ClosedCopies
<1>4. k = 0
  BY <1>1
<1>5. c = SubSeq(s, 1, Len(s) - 0)
  BY <1>3, <1>4, Zenon DEF WithoutLast
<1> QED
  BY <1>5, NothingLost

(* Closing a copy loses at most bytes of its last piece: what is there     *)
(* afterwards is the copy as it was and a part of that piece.              *)
LEMMA PieceClosed ==
  ASSUME NEW s \in Seq(Int), NEW t \in Seq(Int), Len(t) <= BufferSize,
         s = Stretch(0, Len(s)), s \o t = Stretch(0, Len(s) + Len(t)),
         Len(s \o t) = Len(s) + Len(t), NEW c \in ClosedAfter(s \o t, Len(t))
  PROVE  \E n \in 0..Len(t) :
           /\ c = s \o Stretch(Len(s), n) /\ c = Stretch(0, Len(s) + n)
           /\ c \in Seq(Int) /\ Len(c) = Len(s) + n
<1> DEFINE w == s \o t
           m == IF Len(t) < BufferSize THEN Len(t) ELSE 0
<1>1. /\ w \in Seq(Int) /\ Len(s) \in Nat /\ Len(t) \in Nat
      /\ Len(w) = Len(s) + Len(t) /\ w = Stretch(0, Len(w))
  <2>1. w \in Seq(Int)
    BY ConcatProperties
  <2>2. Len(s) \in Nat /\ Len(t) \in Nat
    OBVIOUS
  <2> QED
    BY <2>1, <2>2, Zenon
<1>2. m \in 0..Len(t) /\ m \in 0..Len(w) /\ m \in Nat /\ c \in ClosedCopies(w, m)
  BY <1>1 DEF ClosedAfter
<1> HIDE DEF w, m
<1>3. PICK k \in 0..MostLost(m) :
        Len(c) = Len(w) - k /\ c = Stretch(0, Len(w) - k)
  BY <1>1, <1>2, ClosedCopy, Zenon
<1>4. PICK n \in 0..Len(t) : n = Len(t) - k /\ n \in Nat
  <2>1. MostLost(m) \in 0..m
    BY <1>2, MostLostBounds
  <2>2. Len(t) - k \in 0..Len(t) /\ Len(t) - k \in Nat
    BY <1>1, <1>2, <2>1
  <2> QED
    BY <2>2, Zenon
<1>5. Len(c) = Len(s) + n /\ c = Stretch(0, Len(s) + n)
  <2>1. Len(w) - k = Len(s) + n
    BY <1>1, <1>4
  <2> QED
    BY <1>3, <2>1, Zenon
<1>6. c = s \o Stretch(Len(s), n)
  <2>1. Stretch(0, Len(s)) \o Stretch(Len(s), n) = Stretch(0, Len(s) + n)
    BY <1>1, <1>4, StretchGrows
  <2> QED
    BY <1>5, <2>1, Zenon
<1>7. c \in Seq(Int)
  BY <1>1, <1>2, CopyType, Zenon
<1> QED
  BY <1>5, <1>6, <1>7

(* A stretch cut in two is two stretches.                                  *)
LEMMA ShmSplit ==
  ASSUME NEW k \in Nat, NEW m \in Nat, NEW n \in 0..m
  PROVE  /\ SubSeq(Shm!Stretch(k, m), 1, n) = Shm!Stretch(k, n)
         /\ SubSeq(Shm!Stretch(k, m), n + 1, m) = Shm!Stretch(k + n, m - n)
<1> DEFINE t == Shm!Stretch(k, m)
           a == SubSeq(t, 1, n)
           b == SubSeq(t, n + 1, m)
<1>1. /\ t \in Seq(Int) /\ Len(t) = m /\ \A i \in 1..m : t[i] = k + i
      /\ n \in Nat /\ m - n \in Nat /\ k + n \in Nat
  BY ShmStretchSeq
<1> HIDE DEF t
<1>2. /\ a \in Seq(Int) /\ Len(a) = n /\ \A i \in 1..n : a[i] = t[i]
      /\ b \in Seq(Int) /\ Len(b) = m - n /\ \A i \in 1..(m - n) : b[i] = t[n + i]
  <2>1. n \in 0..Len(t)
    BY <1>1
  <2>2. /\ SubSeq(t, 1, n) \in Seq(Int) /\ Len(SubSeq(t, 1, n)) = n
        /\ \A i \in 1..n : SubSeq(t, 1, n)[i] = t[i]
        /\ SubSeq(t, n + 1, Len(t)) \in Seq(Int)
        /\ Len(SubSeq(t, n + 1, Len(t))) = Len(t) - n
        /\ \A i \in 1..(Len(t) - n) : SubSeq(t, n + 1, Len(t))[i] = t[n + i]
    BY <1>1, <2>1, CutInTwo
  <2> QED
    BY <1>1, <2>2
<1> HIDE DEF a, b
<1>3. /\ Shm!Stretch(k, n) \in Seq(Int) /\ Len(Shm!Stretch(k, n)) = n
      /\ \A i \in 1..n : Shm!Stretch(k, n)[i] = k + i
  BY <1>1, ShmStretchSeq
<1>4. /\ Shm!Stretch(k + n, m - n) \in Seq(Int) /\ Len(Shm!Stretch(k + n, m - n)) = m - n
      /\ \A i \in 1..(m - n) : Shm!Stretch(k + n, m - n)[i] = k + n + i
  BY <1>1, ShmStretchSeq
<1>5. \A i \in 1..n : a[i] = k + i
  BY <1>1, <1>2
<1>6. \A i \in 1..(m - n) : b[i] = k + n + i
  BY <1>1, <1>2
<1>7. a = Shm!Stretch(k, n)
  BY <1>2, <1>3, <1>5, SeqEqual
<1>8. b = Shm!Stretch(k + n, m - n)
  BY <1>2, <1>4, <1>6, SeqEqual
<1> QED
  BY <1>7, <1>8 DEF a, b, t

(* Storing the next bytes of the source extends the prefix by them.        *)
LEMMA ShmStoreNext ==
  ASSUME Len(out) \in Nat, taken \in 0..BufferSize, out = Shm!Stretch(0, Len(out)),
         \A i \in 1..taken : cells[i] = Len(out) + i
  PROVE  /\ out \o [i \in 1..taken |-> cells[i]] = Shm!Stretch(0, Len(out) + taken)
         /\ Len(out \o [i \in 1..taken |-> cells[i]]) = Len(out) + taken
<1>1. taken \in Nat /\ [i \in 1..taken |-> cells[i]] = Shm!Stretch(Len(out), taken)
  BY BufferSizeAssumption DEF Shm!Stretch
<1> QED
  BY <1>1, ShmStretchGrows

(* A read never goes beyond the end, and is empty only there.              *)
LEMMA ShmReadBounds ==
  ASSUME NEW asked \in 1..BufferSize, NEW from \in Nat, NEW length \in Nat, from <= length
  PROVE  /\ Shm!SyncFileWithBuffer(asked, from, length) \in 0..BufferSize
         /\ from + Shm!SyncFileWithBuffer(asked, from, length) <= length
         /\ asked = BufferSize \/ from = length =>
              \/ Shm!SyncFileWithBuffer(asked, from, length) = BufferSize
              \/ from + Shm!SyncFileWithBuffer(asked, from, length) = length
  BY BufferSizeAssumption DEF Shm!SyncFileWithBuffer

-----------------------------------------------------------------------------
(* Type correctness: the sender asks for what is left of the source only   *)
(* because it never reads beyond the end.                                  *)
ShmWithin ==
  /\ sent <= size
  /\ spc = "fillSize" => sent + lastRead <= size

(* The channels the programs may find, and the two before they start.      *)
ShmFound == ShmLeftovers \cup CalmShm
ChannelsKnown == ShmFound \subseteq Shm!Channels
ShmFresh ==
  /\ spc = "idle" /\ rpc = "idle"
  /\ sres = "none" /\ rres = "none"
  /\ \E c \in ShmFound :
       /\ linked = c.linked
       /\ senderSem = c.senderSem /\ receiverSem = c.receiverSem
       /\ dataSize = c.dataSize /\ cells = c.cells
  /\ size \in Sizes
  /\ announced = Unset /\ expected = Unset
  /\ sent = 0 /\ lastRead = BufferSize /\ taken = BufferSize
  /\ out = << >> /\ held = << >>
  /\ present \in BOOLEAN

(* The types hold at the start.                                            *)
LEMMA ShmTypeInit == ChannelsKnown /\ ShmFresh => Shm!TypeOK /\ ShmWithin
<1> SUFFICES ASSUME ChannelsKnown, ShmFresh PROVE Shm!TypeOK /\ ShmWithin
  OBVIOUS
<1>1. PICK c \in ShmFound :
        /\ linked = c.linked
        /\ senderSem = c.senderSem /\ receiverSem = c.receiverSem
        /\ dataSize = c.dataSize /\ cells = c.cells
  BY DEF ShmFresh
<1>2. c \in Shm!Channels
  BY DEF ChannelsKnown
<1>3. present \in BOOLEAN
  BY Zenon DEF ShmFresh
<1>4. Shm!TypeOK
  BY <1>1, <1>2, <1>3, BufferSizeAssumption, SizesAssumption, SMT
  DEF ShmFresh, Unset, Shm!TypeOK, Shm!Channels, Shm!SenderLabels, Shm!ReceiverLabels,
      Shm!Outcomes, Shm!Unset
<1> QED
  BY <1>4, SizesAssumption DEF ShmFresh, ShmWithin

(* The types hold after each step of the sender, then of the receiver.     *)
LEMMA ShmTypeSender ==
  ASSUME Shm!TypeOK, ShmWithin, Shm!SLaunch \/ Shm!SenderStep \/ Shm!SCallFails \/ Shm!SKill
  PROVE  Shm!TypeOK' /\ ShmWithin'
<1> USE BufferSizeAssumption, SizesAssumption
    DEF Shm!TypeOK, ShmWithin, Shm!SenderLabels, Shm!Creating, Shm!SenderTurn,
        Shm!Unlinking, Shm!Outcomes
<1>1. CASE Shm!SLaunch
  BY <1>1, SMT DEF Shm!SLaunch
<1>2. CASE Shm!SShmCreate
  <2>1. linked' \subseteq Shm!Names
    BY <1>2, Zenon DEF Shm!SShmCreate, Shm!Names
  <2> QED
    BY <1>2, <2>1, SMT DEF Shm!SShmCreate
<1>3. CASE Shm!SSenderSemCreate
  <2>1. linked' \subseteq Shm!Names
    BY <1>3, Zenon DEF Shm!SSenderSemCreate, Shm!Names
  <2> QED
    BY <1>3, <2>1, SMT DEF Shm!SSenderSemCreate, Shm!Created
<1>4. CASE Shm!SReceiverSemCreate
  <2>1. linked' \subseteq Shm!Names
    BY <1>4, Zenon DEF Shm!SReceiverSemCreate, Shm!Names
  <2> QED
    BY <1>4, <2>1, SMT DEF Shm!SReceiverSemCreate, Shm!Created
<1>5. CASE Shm!SWaitPeer
  BY <1>5, SMT DEF Shm!SWaitPeer, Shm!SWait
<1>6. CASE Shm!SHeader
  <2>1. announced' \in Sizes
    BY <1>6, SMT DEF Shm!SHeader, Shm!AnnouncedSizes
  <2>2. cells' \in [1..BufferSize -> Int]
    BY <1>6, <2>1, SMT DEF Shm!SHeader, Shm!HeaderByte
  <2>3. /\ spc' = "postHeader" /\ dataSize' \in 0..BufferSize
        /\ UNCHANGED <<rpc, Shm!outcomes, linked, Shm!sems, size, sent, lastRead, Shm!receiverData>>
    BY <1>6 DEF Shm!SHeader
  <2> QED
    BY <2>1, <2>2, <2>3
<1>7. CASE Shm!SPostHeader
  BY <1>7, SMT DEF Shm!SPostHeader
<1>8. CASE Shm!SWaitTurn
  BY <1>8, SMT DEF Shm!SWaitTurn, Shm!SWait
<1>9. CASE Shm!SFill
  <2>1. /\ lastRead' = Shm!SyncFileWithBuffer(lastRead, sent, size)
        /\ sent \in Nat /\ size \in Nat /\ sent <= size /\ lastRead \in 0..BufferSize
    BY <1>9 DEF Shm!SFill
  <2>2. lastRead' \in 0..BufferSize /\ sent + lastRead' <= size
    BY <2>1 DEF Shm!SyncFileWithBuffer
  <2>3. cells' \in [1..BufferSize -> Int]
    BY <1>9, <2>1, <2>2, SMT DEF Shm!SFill
  <2> QED
    BY <1>9, <2>2, <2>3, SMT DEF Shm!SFill
<1>10. CASE Shm!SFillSize
  BY <1>10, SMT DEF Shm!SFillSize
<1>11. CASE Shm!SPost
  BY <1>11, SMT DEF Shm!SPost
<1>12. CASE Shm!SUnlinkSenderSem
  BY <1>12, SMT DEF Shm!SUnlinkSenderSem, Shm!SUnlink
<1>13. CASE Shm!SUnlinkReceiverSem
  BY <1>13, SMT DEF Shm!SUnlinkReceiverSem, Shm!SUnlink
<1>14. CASE Shm!SUnlinkShm
  BY <1>14, SMT DEF Shm!SUnlinkShm, Shm!SUnlink
<1>15. CASE Shm!SKill
  BY <1>15, SMT DEF Shm!SKill
<1>16. CASE Shm!SCallFails
  BY <1>16, SMT DEF Shm!SCallFails
<1> QED
  BY <1>1, <1>2, <1>3, <1>4, <1>5, <1>6, <1>7, <1>8, <1>9, <1>10, <1>11,
     <1>12, <1>13, <1>14, <1>15, <1>16 DEF Shm!SenderStep

(* Closing the file moves the first bytes the stream holds to it.          *)
LEMMA ShmClosed ==
  ASSUME out \in Seq(Int), held \in Seq(Int), Shm!RCloseAndCheck
  PROVE  \E n \in 0..Len(held) :
           /\ Len(held) - n <= Shm!MostLost(Len(held))
           /\ out' = out \o SubSeq(held, 1, n)
           /\ held' = SubSeq(held, n + 1, Len(held))
           /\ out' \in Seq(Int) /\ held' \in Seq(Int)
<1>1. PICK n \in (Len(held) - Shm!MostLost(Len(held)))..Len(held) :
        /\ out' = out \o SubSeq(held, 1, n)
        /\ held' = SubSeq(held, n + 1, Len(held))
  BY Zenon DEF Shm!RCloseAndCheck
<1>2. Shm!MostLost(Len(held)) \in 0..Len(held)
  BY DEF Shm!MostLost
<1>3. n \in 0..Len(held) /\ Len(held) - n <= Shm!MostLost(Len(held))
  BY <1>2
<1>4. SubSeq(held, 1, n) \in Seq(Int) /\ SubSeq(held, n + 1, Len(held)) \in Seq(Int)
  BY <1>3, CutInTwo
<1>5. out \o SubSeq(held, 1, n) \in Seq(Int)
  BY <1>4, ConcatProperties
<1> QED
  BY <1>1, <1>3, <1>4, <1>5

(* The steps of the receiver keep the types.                               *)
LEMMA ShmTypeReceiver ==
  ASSUME Shm!TypeOK, ShmWithin, Shm!RLaunch \/ Shm!ReceiverStep \/ Shm!RCallFails \/ Shm!RKill
  PROVE  Shm!TypeOK' /\ ShmWithin'
<1> USE BufferSizeAssumption, SizesAssumption
    DEF Shm!TypeOK, ShmWithin, Shm!ReceiverLabels, Shm!Connecting, Shm!ReceiverTurn,
        Shm!Outcomes
<1>1. CASE Shm!RLaunch
  BY <1>1, SMT DEF Shm!RLaunch
<1>2. CASE Shm!RConnectSenderSem
  BY <1>2, SMT DEF Shm!RConnectSenderSem, Shm!RConnect
<1>3. CASE Shm!RConnectReceiverSem
  BY <1>3, SMT DEF Shm!RConnectReceiverSem, Shm!RConnect
<1>4. CASE Shm!RConnectShm
  BY <1>4, SMT DEF Shm!RConnectShm
<1>5. CASE Shm!ROpenFile
  <2>1. present' \in BOOLEAN
    BY <1>5, Zenon DEF Shm!ROpenFile
  <2> QED
    BY <1>5, <2>1, SMT DEF Shm!ROpenFile
<1>6. CASE Shm!RHello
  BY <1>6, SMT DEF Shm!RHello, Shm!RPost
<1>7. CASE Shm!RWaitHeader
  BY <1>7, SMT DEF Shm!RWaitHeader, Shm!RWait
<1>8. CASE Shm!RReadHeader
  BY <1>8, SMT DEF Shm!RReadHeader, Shm!AnnouncedBy
<1>9. CASE Shm!RAckHeader
  BY <1>9, SMT DEF Shm!RAckHeader, Shm!RPost
<1>10. CASE Shm!RWaitData
  BY <1>10, SMT DEF Shm!RWaitData, Shm!RWait
<1>11. CASE Shm!RTakeSize
  BY <1>11, SMT DEF Shm!RTakeSize
<1>12. CASE Shm!RStore
  <2>1. out \o [i \in 1..taken |-> cells[i]] \in Seq(Int)
    BY ShmStoreType
  <2>2. held \o [i \in 1..taken |-> cells[i]] \in Seq(Int)
    BY ShmStoreType
  <2>3. out' \in Seq(Int) /\ held' \in Seq(Int)
    BY <1>12, <2>1, <2>2 DEF Shm!RStore
  <2>4. rpc' = "ack" /\ UNCHANGED <<spc, sres, rres, Shm!channel, size, Shm!senderData,
                                    expected, taken, present>>
    BY <1>12 DEF Shm!RStore
  <2> QED
    BY <2>3, <2>4, SMT
<1>13. CASE Shm!RAck
  <2>1. CASE Shm!GoesOn
    BY <1>13, <2>1, SMT DEF Shm!RAck, Shm!RPost
  <2>2. CASE ~Shm!GoesOn
    <3>1. Shm!RCloseAndCheck
      BY <1>13, <2>2 DEF Shm!RAck
    <3>2. out' \in Seq(Int) /\ held' \in Seq(Int)
      BY <3>1, ShmClosed
    <3>3. rpc' = "unlinkShm" /\ rres' \in {"success", "failure"}
          /\ UNCHANGED <<spc, sres, size, Shm!senderData>>
      BY <3>1 DEF Shm!RCloseAndCheck, Shm!CheckedLength
    <3>4. senderSem' \in Nat
      BY <1>13 DEF Shm!RAck, Shm!RPost
    <3>5. UNCHANGED <<linked, receiverSem, dataSize, cells, expected, taken, present>>
      BY <1>13 DEF Shm!RAck
    <3> QED
      BY <3>2, <3>3, <3>4, <3>5, SMT
  <2> QED
    BY <2>1, <2>2
<1>14. CASE Shm!RUnlinkShm
  BY <1>14, SMT DEF Shm!RUnlinkShm
<1>15. CASE Shm!RRemove
  <2>1. present' \in BOOLEAN
    BY <1>15, Zenon DEF Shm!RRemove
  <2> QED
    BY <1>15, <2>1, SMT DEF Shm!RRemove
<1>16. CASE Shm!RKill
  BY <1>16, SMT DEF Shm!RKill
<1>17. CASE Shm!RCallFails
  BY <1>17, SMT DEF Shm!RCallFails
<1> QED
  BY <1>1, <1>2, <1>3, <1>4, <1>5, <1>6, <1>7, <1>8, <1>9, <1>10, <1>11,
     <1>12, <1>13, <1>14, <1>15, <1>16, <1>17 DEF Shm!ReceiverStep

(* Every step keeps the types.                                             *)
LEMMA ShmTypeStep == Shm!TypeOK /\ ShmWithin /\ [Shm!Next]_(Shm!vars) => Shm!TypeOK' /\ ShmWithin'
<1> SUFFICES ASSUME Shm!TypeOK, ShmWithin, [Shm!Next]_(Shm!vars) PROVE Shm!TypeOK' /\ ShmWithin'
  OBVIOUS
<1>1. CASE UNCHANGED Shm!vars
  BY <1>1 DEF Shm!vars, Shm!TypeOK, ShmWithin
<1>2. CASE Shm!Next
  BY <1>1, <1>2, ShmTypeSender, ShmTypeReceiver DEF Shm!Next, Shm!BothEnded
<1> QED
  BY <1>1, <1>2

-----------------------------------------------------------------------------
(* The invariant of a quiet channel: one lemma for each of its parts and   *)
(* each program, one step for each action.                                 *)

(* Frame conditions: steps that leave the data alone.                      *)
LEMMA ShmSameBuffer ==
  ASSUME UNCHANGED <<cells, announced>>
  PROVE  Shm!HeaderInBuffer' <=> Shm!HeaderInBuffer
  BY DEF Shm!HeaderInBuffer

(* Whether the buffer holds the next bytes depends on a few values only.   *)
LEMMA ShmSameNext ==
  ASSUME Shm!Stored' = Shm!Stored, UNCHANGED <<lastRead, cells, size>>
  PROVE  Shm!NextBytes' <=> Shm!NextBytes
  BY DEF Shm!NextBytes

(* Whether the buffer is loaded depends on the variables of the data only. *)
LEMMA ShmSameLoad ==
  ASSUME Shm!Stored' = Shm!Stored, UNCHANGED <<sent, dataSize, lastRead, cells, size>>
  PROVE  Shm!Loaded' <=> Shm!Loaded
  BY ShmSameNext DEF Shm!Loaded

(* That the copy is a prefix depends on the two positions and the source   *)
(* only.                                                                   *)
LEMMA ShmSamePrefix ==
  ASSUME UNCHANGED <<sent, out, held, size>>
  PROVE  Shm!Prefix' <=> Shm!Prefix
  BY DEF Shm!Prefix, Shm!Stored

(* A step that leaves the data alone leaves all that is said about them.   *)
LEMMA ShmSameData ==
  ASSUME UNCHANGED <<sent, dataSize, out, held, lastRead, cells, size, announced>>
  PROVE  /\ Shm!HeaderInBuffer' <=> Shm!HeaderInBuffer
         /\ Shm!NextBytes' <=> Shm!NextBytes
         /\ Shm!Loaded' <=> Shm!Loaded
         /\ Shm!Prefix' <=> Shm!Prefix
         /\ Shm!Stored' = Shm!Stored
<1>1. Shm!Stored' = Shm!Stored
  BY DEF Shm!Stored
<1> QED
  BY <1>1, ShmSameBuffer, ShmSameNext, ShmSameLoad, ShmSamePrefix

USE DEF Shm!SenderLabels, Shm!ReceiverLabels, Shm!SenderTurn, Shm!ReceiverTurn, Shm!Creating,
        Shm!Connecting, Shm!Unlinking, Shm!Over, Shm!BeforeHello, Shm!BeforeHeader,
        Shm!NotCreated,
        Shm!BeforePost, Shm!Sending, Shm!Receiving, Shm!Unset

(* Storing a piece: the bytes go to the file or stay in the stream.        *)
LEMMA ShmStores ==
  ASSUME Shm!IInv, Shm!RStore
  PROVE  /\ rpc = "store" /\ rpc' = "ack" /\ taken = lastRead /\ Shm!Loaded
         /\ UNCHANGED <<spc, sres, rres, Shm!channel, size, Shm!senderData,
                        expected, taken, present>>
         /\ out' \in Seq(Int) /\ held' \in Seq(Int)
         /\ Shm!Stored' = Shm!Stored + taken /\ Shm!Stored' = sent
         /\ out' = Shm!Stretch(0, Len(out'))
         /\ held' = Shm!Stretch(Len(out'), Len(held')) /\ Len(held') < BufferSize
         /\ held' # << >> => Shm!Stored' = size
         /\ \E n \in 0..BufferSize :
              /\ out' = out \o Shm!Stretch(Len(out), n)
              /\ Len(out) + n <= size
<1> DEFINE bytes == [i \in 1..taken |-> cells[i]]
<1>1. /\ rpc = "store" /\ rpc' = "ack"
      /\ UNCHANGED <<spc, sres, rres, Shm!channel, size, Shm!senderData,
                     expected, taken, present>>
      /\ \/ out' = out \o bytes /\ held' = held
         \/ taken < BufferSize /\ held' = held \o bytes /\ out' = out
  BY DEF Shm!RStore
<1>2. /\ out \in Seq(Int) /\ held \in Seq(Int) /\ taken \in 0..BufferSize
      /\ cells \in [1..BufferSize -> Int] /\ BufferSize \in Nat \ {0}
      /\ size \in Nat /\ sent \in Nat /\ Len(out) \in Nat /\ Len(held) \in Nat
      /\ taken = lastRead /\ Shm!Loaded /\ Shm!Prefix
  BY <1>1, BufferSizeAssumption, SizesAssumption DEF Shm!IInv, Shm!TypeOK, Shm!DataPhase
<1>3. /\ Shm!Stored = Len(out) + Len(held) /\ Shm!Stored + taken = sent
      /\ Shm!Stored + taken <= size
      /\ taken < BufferSize => Shm!Stored + taken = size
      /\ \A i \in 1..taken : cells[i] = Shm!Stored + i
      /\ out = Shm!Stretch(0, Len(out))
      /\ held = Shm!Stretch(Len(out), Len(held)) /\ Len(held) < BufferSize
      /\ held # << >> => Shm!Stored = size
  BY <1>2 DEF Shm!Loaded, Shm!NextBytes, Shm!Prefix, Shm!Stored
<1>4. CASE taken = 0
  <2>1. bytes = << >>
    BY <1>4
  <2> HIDE DEF bytes
  <2>2. out' = out /\ held' = held
    BY <1>1, <1>2, <2>1, ConcatEmptySeq
  <2>3. Shm!Stored' = Shm!Stored + taken /\ Shm!Stored' = sent
        /\ (held' # << >> => Shm!Stored' = size)
    BY <1>1, <1>2, <1>3, <1>4, <2>2 DEF Shm!Stored
  <2>4. out' = out \o Shm!Stretch(Len(out), 0) /\ Len(out) + 0 <= size
    <3>1. Shm!Stretch(Len(out), 0) = << >>
      BY DEF Shm!Stretch
    <3>2. out \in Seq(Int)
      BY <1>2
    <3>3. out \o << >> = out
      BY <3>2, ConcatEmptySeq
    <3>4. Len(out) + 0 <= size
      BY <1>2, <1>3 DEF Shm!Stored
    <3> QED
      BY <2>2, <3>1, <3>3, <3>4, Zenon
  <2>5. 0 \in 0..BufferSize
    BY <1>2
  <2> QED
    BY <1>1, <1>2, <1>3, <2>2, <2>3, <2>4, <2>5
<1>5. CASE taken # 0
  <2>1. held = << >> /\ Len(held) = 0 /\ taken \in 1..BufferSize
    <3>1. held = << >> /\ taken \in 1..BufferSize
      BY <1>2, <1>3, <1>5
    <3> QED
      BY <3>1
  <2>2. \A i \in 1..taken : cells[i] = Len(out) + i
    BY <1>2, <1>3, <2>1
  <2>3. /\ bytes = Shm!Stretch(Len(out), taken)
        /\ bytes \in Seq(Int) /\ Len(bytes) = taken
    <3>1. bytes = Shm!Stretch(Len(out), taken)
      BY <1>2, <2>1, <2>2 DEF Shm!Stretch
    <3>2. taken \in Nat
      BY <1>2, <2>1
    <3>3. /\ Shm!Stretch(Len(out), taken) \in Seq(Int)
          /\ Len(Shm!Stretch(Len(out), taken)) = taken
      BY <1>2, <3>2, ShmStretchSeq
    <3> HIDE DEF bytes
    <3> QED
      BY <3>1, <3>3, Zenon
  <2>4. CASE out' = out \o bytes /\ held' = held
    <3>1. out' = Shm!Stretch(0, Len(out) + taken) /\ Len(out') = Len(out) + taken
      BY <1>2, <1>3, <2>2, <2>4, ShmStoreNext
    <3>2. Shm!Stored' = Shm!Stored + taken /\ Shm!Stored' = sent
      BY <1>2, <1>3, <2>1, <2>4, <3>1 DEF Shm!Stored
    <3>3. out' \in Seq(Int) /\ held' = Shm!Stretch(Len(out'), Len(held'))
      <4>1. out' \in Seq(Int)
        BY <1>2, <2>3, <2>4, ConcatProperties
      <4>2. Shm!Stretch(Len(out'), 0) = << >>
        BY DEF Shm!Stretch
      <4> QED
        BY <2>1, <2>4, <4>1, <4>2
    <3> HIDE DEF bytes
    <3>4. out' = out \o Shm!Stretch(Len(out), taken)
      BY <2>3, <2>4, Zenon
    <3>5. Len(out) + taken <= size /\ taken \in 0..BufferSize
      BY <1>2, <1>3, <2>1
    <3>6. \E n \in 0..BufferSize :
            /\ out' = out \o Shm!Stretch(Len(out), n)
            /\ Len(out) + n <= size
      BY <3>4, <3>5, Zenon
    <3>7. held' = << >> /\ Len(held') < BufferSize
      BY <1>2, <1>3, <2>1, <2>4
    <3>8. out' = Shm!Stretch(0, Len(out'))
      BY <3>1, Zenon
    <3>9. held' # << >> => Shm!Stored' = size
      BY <3>7, Zenon
    <3>10. /\ rpc = "store" /\ rpc' = "ack"
           /\ UNCHANGED <<spc, sres, rres, Shm!channel, size, Shm!senderData,
                          expected, taken, present>>
      BY <1>1, Zenon
    <3>11. taken = lastRead /\ Shm!Loaded
      BY <1>2, Zenon
    <3>12. held' \in Seq(Int)
      BY <1>2, <2>4
    <3> QED
      BY <3>2, <3>3, <3>6, <3>7, <3>8, <3>9, <3>10, <3>11, <3>12, Zenon
  <2>5. CASE taken < BufferSize /\ held' = held \o bytes /\ out' = out
    <3>1. held' = bytes
      BY <2>1, <2>3, <2>5, ConcatEmptySeq
    <3> HIDE DEF bytes
    <3>2. Shm!Stored' = Shm!Stored + taken /\ Shm!Stored' = sent /\ Shm!Stored' = size
      BY <1>1, <1>2, <1>3, <2>1, <2>3, <2>5, <3>1 DEF Shm!Stored
    <3>3. out' = out \o Shm!Stretch(Len(out), 0) /\ Len(out) + 0 <= size
      <4>1. Shm!Stretch(Len(out), 0) = << >>
        BY DEF Shm!Stretch
      <4>2. out' = out \o Shm!Stretch(Len(out), 0)
        BY <1>2, <2>5, <4>1, ConcatEmptySeq
      <4>3. Len(out) + 0 <= size
        BY <1>2, <1>3
      <4> QED
        BY <4>2, <4>3
    <3>4. 0 \in 0..BufferSize
      BY <1>2
    <3> QED
      BY <1>1, <1>2, <1>3, <2>3, <2>5, <3>1, <3>2, <3>3, <3>4
  <2> QED
    BY <1>1, <2>4, <2>5
<1> QED
  BY <1>4, <1>5

(* The answer to a piece: the loop goes on, or the file is closed.         *)
LEMMA ShmAcks ==
  ASSUME Shm!IInv, Shm!RAck
  PROVE  /\ rpc = "ack" /\ senderSem' \in {senderSem, senderSem + 1}
         /\ UNCHANGED <<spc, sres, linked, receiverSem, dataSize, cells, size,
                        Shm!senderData, expected, taken, present>>
         /\ \/ rpc' = "waitData" /\ rres' = rres
            \/ /\ rpc' = "unlinkShm" /\ ~Shm!GoesOn
               /\ rres' = Shm!CheckedLength(Len(out'), expected)
               /\ Len(held') <= Shm!MostLost(BufferSize - 1)
         /\ Shm!Stored' = Shm!Stored /\ (held' # << >> => held # << >>)
         /\ out' \in Seq(Int) /\ held' \in Seq(Int)
         /\ out' = Shm!Stretch(0, Len(out'))
         /\ held' = Shm!Stretch(Len(out'), Len(held')) /\ Len(held') < BufferSize
         /\ \E n \in 0..BufferSize :
              /\ out' = out \o Shm!Stretch(Len(out), n)
              /\ Len(out) + n <= size
<1>1. /\ out \in Seq(Int) /\ held \in Seq(Int) /\ BufferSize \in Nat \ {0}
      /\ size \in Nat /\ sent \in Nat /\ Len(out) \in Nat /\ Len(held) \in Nat
      /\ out = Shm!Stretch(0, Len(out)) /\ held = Shm!Stretch(Len(out), Len(held))
      /\ Len(held) < BufferSize /\ Len(out) + Len(held) <= size
  BY BufferSizeAssumption, SizesAssumption
  DEF Shm!IInv, Shm!TypeOK, Shm!Prefix, Shm!Stored
<1>2. /\ rpc = "ack" /\ senderSem' \in {senderSem, senderSem + 1}
      /\ UNCHANGED <<linked, receiverSem, dataSize, cells, expected, taken, present>>
  BY DEF Shm!RAck, Shm!RPost
<1>3. CASE Shm!GoesOn
  <2>1. rpc' = "waitData" /\ UNCHANGED <<spc, sres, rres, size, Shm!senderData, out, held>>
    BY <1>3 DEF Shm!RAck
  <2>2. out' = out \o Shm!Stretch(Len(out), 0) /\ Len(out) + 0 <= size
    <3>1. Shm!Stretch(Len(out), 0) = << >>
      BY DEF Shm!Stretch
    <3> QED
      BY <1>1, <2>1, <3>1, ConcatEmptySeq
  <2>3. 0 \in 0..BufferSize /\ Shm!Stored' = Shm!Stored
    BY <1>1, <2>1 DEF Shm!Stored
  <2> QED
    BY <1>1, <1>2, <2>1, <2>2, <2>3
<1>4. CASE ~Shm!GoesOn
  <2>1. Shm!RCloseAndCheck
    BY <1>4 DEF Shm!RAck
  <2>2. /\ rpc' = "unlinkShm" /\ UNCHANGED <<spc, sres, size, Shm!senderData>>
        /\ rres' = Shm!CheckedLength(Len(out'), expected)
    BY <2>1 DEF Shm!RCloseAndCheck
  <2>3. PICK n \in 0..Len(held) :
           /\ Len(held) - n <= Shm!MostLost(Len(held))
           /\ out' = out \o SubSeq(held, 1, n)
           /\ held' = SubSeq(held, n + 1, Len(held))
           /\ out' \in Seq(Int) /\ held' \in Seq(Int)
    BY <1>1, <2>1, ShmClosed
  <2>4. /\ SubSeq(held, 1, n) = Shm!Stretch(Len(out), n)
        /\ SubSeq(held, n + 1, Len(held)) = Shm!Stretch(Len(out) + n, Len(held) - n)
    <3> DEFINE k == Len(out)
               m == Len(held)
    <3>1. held = Shm!Stretch(k, m) /\ k \in Nat /\ m \in Nat /\ n \in 0..m
      BY <1>1
    <3> HIDE DEF k, m
    <3>2. /\ SubSeq(Shm!Stretch(k, m), 1, n) = Shm!Stretch(k, n)
          /\ SubSeq(Shm!Stretch(k, m), n + 1, m) = Shm!Stretch(k + n, m - n)
      BY <3>1, ShmSplit
    <3>3. /\ SubSeq(held, 1, n) = Shm!Stretch(k, n)
          /\ SubSeq(held, n + 1, m) = Shm!Stretch(k + n, m - n)
      BY <3>1, <3>2, Zenon
    <3> QED
      BY <3>3 DEF k, m
  <2>5. n \in Nat /\ Len(held) - n \in Nat /\ Len(out) + n \in Nat
    BY <1>1
  <2>6. out' = Shm!Stretch(0, Len(out) + n) /\ Len(out') = Len(out) + n
    BY <1>1, <2>3, <2>4, <2>5, ShmStretchGrows
  <2>7. Len(held') = Len(held) - n /\ held' = Shm!Stretch(Len(out'), Len(held'))
    <3>1. held' = Shm!Stretch(Len(out) + n, Len(held) - n)
      BY <2>3, <2>4, Zenon
    <3>2. Len(held') = Len(held) - n
      BY <2>5, <3>1, ShmStretchSeq
    <3> QED
      BY <2>6, <3>1, <3>2, Zenon
  <2>8. Shm!MostLost(Len(held)) <= Shm!MostLost(BufferSize - 1)
    BY <1>1 DEF Shm!MostLost
  <2>9. /\ Len(held') <= Shm!MostLost(BufferSize - 1) /\ Len(held') < BufferSize
        /\ n \in 0..BufferSize /\ Len(out) + n <= size
        /\ (held' # << >> => held # << >>)
    <3>1. Shm!MostLost(Len(held)) \in Nat /\ Shm!MostLost(BufferSize - 1) \in Nat
      BY <1>1 DEF Shm!MostLost
    <3>2. held' # << >> => Len(held') # 0
      BY <2>3
    <3>3. held = << >> => Len(held) = 0
      OBVIOUS
    <3>4. /\ Len(held') <= Shm!MostLost(BufferSize - 1) /\ Len(held') < BufferSize
          /\ n \in 0..BufferSize /\ Len(out) + n <= size
      <4>1. Len(held) - n <= Shm!MostLost(Len(held)) /\ n \in 0..Len(held)
        BY <2>3
      <4>2. Len(held') = Len(held) - n
        BY <2>7
      <4> QED
        BY <1>1, <2>8, <3>1, <4>1, <4>2
    <3>5. held' # << >> => held # << >>
      <4>1. Len(held') <= Len(held)
        BY <2>5, <2>7
      <4>2. Len(held') \in Nat
        BY <2>5, <2>7
      <4> QED
        BY <3>2, <3>3, <4>1, <4>2
    <3> QED
      BY <3>4, <3>5
  <2>10. Shm!Stored' = Shm!Stored
    <3>1. Len(out') = Len(out) + n /\ Len(held') = Len(held) - n /\ n \in Nat
      BY <2>5, <2>6, <2>7
    <3> QED
      BY <1>1, <3>1 DEF Shm!Stored
  <2> QED
    BY <1>2, <1>4, <2>2, <2>3, <2>4, <2>6, <2>7, <2>9, <2>10
<1> QED
  BY <1>3, <1>4

(* Who has the turn: the steps of the sender, then of the receiver.        *)
LEMMA ShmControlSender ==
  ASSUME Shm!IInv, Shm!SLaunch \/ Shm!SenderStep \/ Shm!SCallFails \/ Shm!SKill
  PROVE  Shm!OneTurn' /\ Shm!InStep' /\ Shm!OneObject' /\ Shm!NothingPosted'
<1> /\ spc \in Shm!SenderLabels /\ rpc \in Shm!ReceiverLabels /\ size \in Sizes
    /\ senderSem \in Nat /\ receiverSem \in Nat
    /\ lastRead \in 0..BufferSize /\ Shm!Unset \notin Sizes /\ Sizes \subseteq Nat
    /\ Shm!OneTurn /\ Shm!InStep /\ Shm!OneObject /\ Shm!NothingPosted /\ Shm!HeaderPhase
    /\ Shm!DataPhase
  BY SizesAssumption DEF Shm!IInv, Shm!TypeOK
<1> USE DEF Shm!OneTurn, Shm!InStep, Shm!OneObject, Shm!NothingPosted, Shm!Turns, Shm!Holding
<1>1. CASE Shm!SLaunch
  BY <1>1 DEF Shm!SLaunch
<1>2. CASE Shm!SShmCreate
  BY <1>2 DEF Shm!SShmCreate
<1>3. CASE Shm!SSenderSemCreate
  BY <1>3 DEF Shm!SSenderSemCreate, Shm!Created
<1>4. CASE Shm!SReceiverSemCreate
  BY <1>4 DEF Shm!SReceiverSemCreate, Shm!Created
<1>5. CASE Shm!SWaitPeer
  BY <1>5 DEF Shm!SWaitPeer, Shm!SWait
<1>6. CASE Shm!SHeader
  <2>1. announced' \in Sizes /\ ("resize" \notin Disturbances => announced' = size)
    BY <1>6 DEF Shm!SHeader, Shm!AnnouncedSizes
  <2>2. /\ spc = "header" /\ spc' = "postHeader"
        /\ UNCHANGED <<rpc, linked, senderSem, receiverSem, size, sent, lastRead,
                       expected>>
    BY <1>6 DEF Shm!SHeader
  <2>3. Shm!OneTurn' /\ Shm!OneObject'
    BY <2>2
  <2>4. Shm!InStep'
    BY <2>1, <2>2
  <2>5. Shm!NothingPosted'
    BY <2>2
  <2> QED
    BY <2>3, <2>4, <2>5
<1>7. CASE Shm!SPostHeader
  <2>1. /\ spc = "postHeader" /\ spc' = "waitTurn" /\ receiverSem' = receiverSem + 1
        /\ UNCHANGED <<rpc, linked, senderSem, size, announced, sent, lastRead, expected>>
    BY <1>7 DEF Shm!SPostHeader
  <2>2. Shm!OneTurn' /\ Shm!OneObject'
    BY <2>1
  <2>3. Shm!InStep' /\ Shm!NothingPosted'
    BY <2>1, BufferSizeAssumption
  <2> QED
    BY <2>2, <2>3
<1>8. CASE Shm!SWaitTurn
  BY <1>8 DEF Shm!SWaitTurn, Shm!SWait
<1>9. CASE Shm!SFill
  BY <1>9 DEF Shm!SFill
<1>10. CASE Shm!SFillSize
  BY <1>10 DEF Shm!SFillSize
<1>11. CASE Shm!SPost
  BY <1>11 DEF Shm!SPost
<1>12. CASE Shm!SUnlinkSenderSem
  BY <1>12 DEF Shm!SUnlinkSenderSem, Shm!SUnlink
<1>13. CASE Shm!SUnlinkReceiverSem
  BY <1>13 DEF Shm!SUnlinkReceiverSem, Shm!SUnlink
<1>14. CASE Shm!SUnlinkShm
  BY <1>14 DEF Shm!SUnlinkShm, Shm!SUnlink
<1>15. CASE Shm!SKill
  BY <1>15 DEF Shm!SKill
<1>16. CASE Shm!SCallFails
  BY <1>16 DEF Shm!SCallFails
<1> QED
  BY <1>1, <1>2, <1>3, <1>4, <1>5, <1>6, <1>7, <1>8, <1>9, <1>10, <1>11,
     <1>12, <1>13, <1>14, <1>15, <1>16 DEF Shm!SenderStep

(* What is said of turns, queues and names: the steps of the receiver keep *)
(* it.                                                                     *)
LEMMA ShmControlReceiver ==
  ASSUME Shm!IInv, Shm!RLaunch \/ Shm!ReceiverStep \/ Shm!RCallFails \/ Shm!RKill
  PROVE  Shm!OneTurn' /\ Shm!InStep' /\ Shm!OneObject' /\ Shm!NothingPosted'
<1> /\ spc \in Shm!SenderLabels /\ rpc \in Shm!ReceiverLabels /\ size \in Sizes
    /\ senderSem \in Nat /\ receiverSem \in Nat
    /\ lastRead \in 0..BufferSize /\ Shm!Unset \notin Sizes /\ Sizes \subseteq Nat
    /\ Shm!OneTurn /\ Shm!InStep /\ Shm!OneObject /\ Shm!NothingPosted /\ Shm!HeaderPhase
    /\ Shm!DataPhase
  BY SizesAssumption DEF Shm!IInv, Shm!TypeOK
<1> USE DEF Shm!OneTurn, Shm!InStep, Shm!OneObject, Shm!NothingPosted, Shm!Turns, Shm!Holding
<1>1. CASE Shm!RLaunch
  BY <1>1 DEF Shm!RLaunch
<1>2. CASE Shm!RConnectSenderSem
  BY <1>2 DEF Shm!RConnectSenderSem, Shm!RConnect
<1>3. CASE Shm!RConnectReceiverSem
  BY <1>3 DEF Shm!RConnectReceiverSem, Shm!RConnect
<1>4. CASE Shm!RConnectShm
  BY <1>4 DEF Shm!RConnectShm
<1>5. CASE Shm!ROpenFile
  BY <1>5 DEF Shm!ROpenFile
<1>6. CASE Shm!RHello
  BY <1>6 DEF Shm!RHello, Shm!RPost
<1>7. CASE Shm!RWaitHeader
  BY <1>7 DEF Shm!RWaitHeader, Shm!RWait
<1>8. CASE Shm!RReadHeader
  BY <1>8 DEF Shm!RReadHeader
<1>9. CASE Shm!RAckHeader
  BY <1>9 DEF Shm!RAckHeader, Shm!RPost
<1>10. CASE Shm!RWaitData
  BY <1>10 DEF Shm!RWaitData, Shm!RWait
<1>11. CASE Shm!RTakeSize
  BY <1>11 DEF Shm!RTakeSize
<1>12. CASE Shm!RStore
  <2>1. rpc = "store" /\ rpc' = "ack"
        /\ UNCHANGED <<spc, linked, senderSem, receiverSem, announced, sent,
                       lastRead, size, expected>>
    BY <1>12 DEF Shm!RStore
  <2>2. Shm!OneTurn' /\ Shm!OneObject'
    BY <2>1
  <2>3. Shm!InStep' /\ Shm!NothingPosted'
    BY <2>1
  <2> QED
    BY <2>2, <2>3
<1>13. CASE Shm!RAck
  <2>1. /\ rpc = "ack" /\ rpc' \in {"waitData", "unlinkShm"}
        /\ senderSem' \in {senderSem, senderSem + 1}
        /\ UNCHANGED <<spc, linked, receiverSem, size, announced, sent, lastRead, expected>>
    BY <1>13, ShmAcks
  <2>2. Shm!OneTurn'
    <3>1. rpc \in Shm!ReceiverTurn /\ rpc' \notin Shm!ReceiverTurn \cup Shm!BeforeHello
      BY <2>1
    <3>2. senderSem = 0 /\ receiverSem = 0 /\ spc \notin Shm!SenderTurn
      BY <3>1
    <3>3. senderSem' \in {0, 1} /\ receiverSem' = 0 /\ spc' \notin Shm!SenderTurn
      BY <2>1, <3>2
    <3>4. senderSem' = 0 => Shm!Turns' = 0
      BY <3>1, <3>3
    <3>5. senderSem' = 1 => Shm!Turns' = 1
      BY <3>1, <3>3
    <3> HIDE DEF Shm!Turns
    <3>6. Shm!Turns' \in {0, 1}
      BY <3>3, <3>4, <3>5, Zenon
    <3> QED
      BY <3>1, <3>6
  <2>4. Shm!OneObject'
    BY <2>1
  <2>3. Shm!InStep' /\ Shm!NothingPosted'
    BY <2>1
  <2> QED
    BY <2>2, <2>3, <2>4
<1>14. CASE Shm!RUnlinkShm
  BY <1>14 DEF Shm!RUnlinkShm
<1>15. CASE Shm!RRemove
  BY <1>15 DEF Shm!RRemove
<1>16. CASE Shm!RKill
  BY <1>16 DEF Shm!RKill
<1>17. CASE Shm!RCallFails
  BY <1>17 DEF Shm!RCallFails
<1> QED
  BY <1>1, <1>2, <1>3, <1>4, <1>5, <1>6, <1>7, <1>8, <1>9, <1>10, <1>11,
     <1>12, <1>13, <1>14, <1>15, <1>16, <1>17 DEF Shm!ReceiverStep

(* What the buffer holds for the program that has the turn.                *)
LEMMA ShmDataSender ==
  ASSUME Shm!IInv, Shm!SLaunch \/ Shm!SenderStep \/ Shm!SCallFails \/ Shm!SKill
  PROVE  Shm!HeaderPhase' /\ Shm!DataPhase' /\ Shm!Prefix'
<1> /\ spc \in Shm!SenderLabels /\ rpc \in Shm!ReceiverLabels
    /\ senderSem \in Nat /\ receiverSem \in Nat
    /\ size \in Sizes /\ Sizes \subseteq Nat /\ Shm!Unset \notin Sizes
    /\ sent \in Nat /\ lastRead \in 0..BufferSize /\ taken \in 0..BufferSize
    /\ out \in Seq(Int) /\ Len(out) \in Nat
    /\ Shm!OneTurn /\ Shm!InStep /\ Shm!NothingPosted /\ Shm!HeaderPhase /\ Shm!DataPhase
    /\ Shm!Prefix
  BY SizesAssumption DEF Shm!IInv, Shm!TypeOK
<1> USE DEF Shm!OneTurn, Shm!InStep, Shm!NothingPosted, Shm!Turns, Shm!Holding,
        Shm!HeaderPhase, Shm!DataPhase
<1>1. CASE Shm!SLaunch
  BY <1>1, ShmSameData DEF Shm!SLaunch
<1>2. CASE Shm!SShmCreate
  <2>1. (Shm!HeaderInBuffer' <=> Shm!HeaderInBuffer) /\ (Shm!Prefix' <=> Shm!Prefix)
    BY <1>2, ShmSameBuffer, ShmSamePrefix DEF Shm!SShmCreate
  <2> QED
    BY <1>2, <2>1 DEF Shm!SShmCreate
<1>3. CASE Shm!SSenderSemCreate
  BY <1>3, ShmSameData DEF Shm!SSenderSemCreate, Shm!Created
<1>4. CASE Shm!SReceiverSemCreate
  BY <1>4, ShmSameData DEF Shm!SReceiverSemCreate, Shm!Created
<1>5. CASE Shm!SWaitPeer
  BY <1>5, ShmSameData DEF Shm!SWaitPeer, Shm!SWait
<1>6. CASE Shm!SHeader
  <2>1. announced' \in Sizes /\ Shm!HeaderInBuffer' /\ (Shm!Prefix' <=> Shm!Prefix)
    BY <1>6, ShmSamePrefix DEF Shm!SHeader, Shm!AnnouncedSizes, Shm!HeaderInBuffer
  <2> QED
    BY <1>6, <2>1 DEF Shm!SHeader
<1>7. CASE Shm!SPostHeader
  BY <1>7, ShmSameData DEF Shm!SPostHeader
<1>8. CASE Shm!SWaitTurn
  BY <1>8, ShmSameData DEF Shm!SWaitTurn, Shm!SWait
<1>9. CASE Shm!SFill
  <2>1. /\ lastRead' = Shm!SyncFileWithBuffer(lastRead, sent, size)
        /\ cells' = [i \in 1..BufferSize |->
                       IF i <= lastRead' THEN sent + i ELSE cells[i]]
        /\ UNCHANGED <<sent, out, held, size>>
    BY <1>9 DEF Shm!SFill
  <2>2. /\ sent = Shm!Stored /\ sent <= size /\ lastRead \in 1..BufferSize
        /\ lastRead = BufferSize \/ sent = size
    BY <1>9, BufferSizeAssumption DEF Shm!SFill, Shm!Prefix
  <2>3. /\ lastRead' \in 0..BufferSize
        /\ sent + lastRead' <= size
        /\ lastRead' < BufferSize => sent + lastRead' = size
    <3>1. /\ Shm!SyncFileWithBuffer(lastRead, sent, size) \in 0..BufferSize
          /\ sent + Shm!SyncFileWithBuffer(lastRead, sent, size) <= size
          /\ \/ Shm!SyncFileWithBuffer(lastRead, sent, size) = BufferSize
             \/ sent + Shm!SyncFileWithBuffer(lastRead, sent, size) = size
      <4>1. sent \in Nat /\ size \in Nat
        OBVIOUS
      <4> QED
        BY <2>2, <4>1, ShmReadBounds, Zenon
    <3> QED
      BY <2>1, <3>1, BufferSizeAssumption
  <2>6. Shm!Stored' = Shm!Stored
    BY <2>1 DEF Shm!Stored
  <2>4. Shm!NextBytes'
    BY <2>1, <2>2, <2>3, <2>6, BufferSizeAssumption DEF Shm!NextBytes
  <2>5. Shm!Prefix' <=> Shm!Prefix
    BY <2>1, ShmSamePrefix
  <2> QED
    BY <1>9, <2>1, <2>2, <2>4, <2>5, <2>6 DEF Shm!SFill
<1>10. CASE Shm!SFillSize
  <2>1. /\ UNCHANGED <<out, held, lastRead, cells, size>>
        /\ sent' = sent + lastRead /\ dataSize' = lastRead
        /\ sent = Shm!Stored /\ Shm!NextBytes
    BY <1>10 DEF Shm!SFillSize
  <2>2. Shm!NextBytes' /\ Shm!Stored' = Shm!Stored
    BY <2>1, ShmSameNext DEF Shm!Stored
  <2>3. Shm!Loaded' /\ Shm!Prefix'
    BY <2>1, <2>2 DEF Shm!Loaded, Shm!NextBytes, Shm!Prefix
  <2> QED
    BY <1>10, <2>3 DEF Shm!SFillSize
<1>11. CASE Shm!SPost
  <2>1. Shm!Loaded
    BY <1>11 DEF Shm!SPost
  <2>2. lastRead < BufferSize => sent = size
    BY <2>1 DEF Shm!Loaded, Shm!NextBytes
  <2> QED
    BY <1>11, <2>1, <2>2, ShmSameData DEF Shm!SPost
<1>12. CASE Shm!SUnlinkSenderSem
  BY <1>12, ShmSameData DEF Shm!SUnlinkSenderSem, Shm!SUnlink
<1>13. CASE Shm!SUnlinkReceiverSem
  BY <1>13, ShmSameData DEF Shm!SUnlinkReceiverSem, Shm!SUnlink
<1>14. CASE Shm!SUnlinkShm
  BY <1>14, ShmSameData DEF Shm!SUnlinkShm, Shm!SUnlink
<1>15. CASE Shm!SKill
  BY <1>15, ShmSameData DEF Shm!SKill
<1>16. CASE Shm!SCallFails
  BY <1>16, ShmSameData DEF Shm!SCallFails
<1> QED
  BY <1>1, <1>2, <1>3, <1>4, <1>5, <1>6, <1>7, <1>8, <1>9, <1>10, <1>11,
     <1>12, <1>13, <1>14, <1>15, <1>16 DEF Shm!SenderStep

(* The header and the data in the buffer: the steps of the receiver keep   *)
(* what is said of them.                                                   *)
LEMMA ShmDataReceiver ==
  ASSUME Shm!IInv, Shm!RLaunch \/ Shm!ReceiverStep \/ Shm!RCallFails \/ Shm!RKill
  PROVE  Shm!HeaderPhase' /\ Shm!DataPhase' /\ Shm!Prefix'
<1> /\ spc \in Shm!SenderLabels /\ rpc \in Shm!ReceiverLabels
    /\ senderSem \in Nat /\ receiverSem \in Nat
    /\ size \in Sizes /\ Sizes \subseteq Nat /\ Shm!Unset \notin Sizes
    /\ sent \in Nat /\ lastRead \in 0..BufferSize /\ taken \in 0..BufferSize
    /\ out \in Seq(Int) /\ Len(out) \in Nat
    /\ Shm!OneTurn /\ Shm!InStep /\ Shm!NothingPosted /\ Shm!HeaderPhase /\ Shm!DataPhase
    /\ Shm!Prefix
  BY SizesAssumption DEF Shm!IInv, Shm!TypeOK
<1> USE DEF Shm!OneTurn, Shm!InStep, Shm!NothingPosted, Shm!Turns, Shm!Holding,
        Shm!HeaderPhase, Shm!DataPhase
<1>1. CASE Shm!RLaunch
  BY <1>1, ShmSameData DEF Shm!RLaunch
<1>2. CASE Shm!RConnectSenderSem
  BY <1>2, ShmSameData DEF Shm!RConnectSenderSem, Shm!RConnect
<1>3. CASE Shm!RConnectReceiverSem
  BY <1>3, ShmSameData DEF Shm!RConnectReceiverSem, Shm!RConnect
<1>4. CASE Shm!RConnectShm
  BY <1>4, ShmSameData DEF Shm!RConnectShm
<1>5. CASE Shm!ROpenFile
  BY <1>5, ShmSameData DEF Shm!ROpenFile
<1>6. CASE Shm!RHello
  BY <1>6, ShmSameData DEF Shm!RHello, Shm!RPost
<1>7. CASE Shm!RWaitHeader
  BY <1>7, ShmSameData DEF Shm!RWaitHeader, Shm!RWait
<1>8. CASE Shm!RReadHeader
  <2>1. announced \in Sizes /\ Shm!HeaderInBuffer
    BY <1>8 DEF Shm!RReadHeader
  <2>2. cells[1] = Shm!HeaderByte(announced)
    BY <2>1, BufferSizeAssumption DEF Shm!HeaderInBuffer
  <2>3. Shm!AnnouncedBy(cells[1]) = announced
    BY <2>1, <2>2 DEF Shm!AnnouncedBy, Shm!HeaderByte
  <2>4. /\ UNCHANGED <<spc, Shm!channel, size, Shm!senderData, taken, out, held>>
        /\ rpc = "readHeader"
        /\ (rpc' = "ackHeader" /\ expected' = announced) \/ rpc' = "unlinkShm"
    BY <1>8, <2>3 DEF Shm!RReadHeader
  <2>5. /\ Shm!HeaderInBuffer' <=> Shm!HeaderInBuffer
        /\ Shm!NextBytes' <=> Shm!NextBytes
        /\ Shm!Loaded' <=> Shm!Loaded
        /\ Shm!Prefix' <=> Shm!Prefix
        /\ Shm!Stored' = Shm!Stored
    BY <2>4, ShmSameData
  <2>6. Shm!Prefix'
    BY <2>5
  <2>7. Shm!HeaderPhase'
    BY <2>1, <2>4, <2>5
  <2>8. /\ UNCHANGED <<spc, senderSem, receiverSem, announced, sent, lastRead, size>>
        /\ rpc' = "ackHeader" => expected' = announced
        /\ rpc = "readHeader" /\ rpc' \in {"ackHeader", "unlinkShm"}
    BY <2>4
  <2>9. Shm!DataPhase'
    BY <2>1, <2>5, <2>8
  <2> QED
    BY <2>6, <2>7, <2>9
<1>9. CASE Shm!RAckHeader
  <2>1. /\ rpc = "ackHeader" /\ rpc' = "waitData"
        /\ senderSem' \in {senderSem, senderSem + 1}
        /\ UNCHANGED <<spc, receiverSem, dataSize, cells, size, announced, sent,
                       lastRead, expected, taken, out, held>>
    BY <1>9 DEF Shm!RAckHeader, Shm!RPost
  <2>2. /\ Shm!HeaderInBuffer' <=> Shm!HeaderInBuffer
        /\ Shm!NextBytes' <=> Shm!NextBytes
        /\ Shm!Loaded' <=> Shm!Loaded
        /\ Shm!Prefix' <=> Shm!Prefix
        /\ Shm!Stored' = Shm!Stored
    BY <2>1, ShmSameData
  <2>3. Shm!HeaderPhase' /\ Shm!Prefix'
    BY <2>1, <2>2
  <2>4. /\ receiverSem = 0 /\ out = << >> /\ held = << >> /\ Shm!Stored = 0 /\ sent = 0
        /\ spc \notin Shm!SenderTurn /\ senderSem = 0
    <3>1. Len(<< >>) = 0
      OBVIOUS
    <3> QED
      BY <2>1, <3>1 DEF Shm!Stored
  <2>5. Shm!DataPhase'
    BY <2>1, <2>2, <2>4
  <2> QED
    BY <2>3, <2>5
<1>10. CASE Shm!RWaitData
  BY <1>10, ShmSameData DEF Shm!RWaitData, Shm!RWait
<1>11. CASE Shm!RTakeSize
  <2>1. dataSize = lastRead
    BY <1>11 DEF Shm!RTakeSize, Shm!Loaded
  <2> QED
    BY <1>11, <2>1, ShmSameData DEF Shm!RTakeSize
<1>12. CASE Shm!RStore
  <2>1. /\ rpc = "store" /\ rpc' = "ack" /\ taken = lastRead /\ Shm!Loaded
        /\ UNCHANGED <<spc, sres, rres, Shm!channel, size, Shm!senderData,
                       expected, taken, present>>
        /\ Shm!Stored' = sent /\ Shm!Prefix'
    BY <1>12, ShmStores DEF Shm!Prefix
  <2>2. taken = 0 => sent = size
    BY <2>1, BufferSizeAssumption DEF Shm!Loaded, Shm!NextBytes
  <2>3. Shm!HeaderInBuffer' <=> Shm!HeaderInBuffer
    BY <2>1, ShmSameBuffer
  <2> QED
    BY <2>1, <2>2, <2>3
<1>13. CASE Shm!RAck
  <2>1. /\ rpc = "ack" /\ rpc' \in {"waitData", "unlinkShm"}
        /\ senderSem' \in {senderSem, senderSem + 1}
        /\ UNCHANGED <<spc, sres, linked, receiverSem, dataSize, cells, size,
                       Shm!senderData, expected, taken, present>>
        /\ Shm!Stored' = Shm!Stored /\ Shm!Prefix'
    BY <1>13, ShmAcks DEF Shm!Prefix
  <2>2. /\ Shm!HeaderInBuffer' <=> Shm!HeaderInBuffer
        /\ Shm!NextBytes' <=> Shm!NextBytes
        /\ Shm!Loaded' <=> Shm!Loaded
    BY <2>1, ShmSameBuffer, ShmSameNext, ShmSameLoad
  <2> QED
    BY <2>1, <2>2
<1>14. CASE Shm!RUnlinkShm
  BY <1>14, ShmSameData DEF Shm!RUnlinkShm
<1>15. CASE Shm!RRemove
  BY <1>15, ShmSameData DEF Shm!RRemove
<1>16. CASE Shm!RKill
  BY <1>16, ShmSameData DEF Shm!RKill
<1>17. CASE Shm!RCallFails
  BY <1>17, ShmSameData DEF Shm!RCallFails
<1> QED
  BY <1>1, <1>2, <1>3, <1>4, <1>5, <1>6, <1>7, <1>8, <1>9, <1>10, <1>11,
     <1>12, <1>13, <1>14, <1>15, <1>16, <1>17 DEF Shm!ReceiverStep

(* What a result that was decided means.                                   *)
LEMMA ShmResultsSender ==
  ASSUME Shm!IInv, Shm!SLaunch \/ Shm!SenderStep \/ Shm!SCallFails \/ Shm!SKill
  PROVE  Shm!Results'
<1> /\ spc \in Shm!SenderLabels /\ rpc \in Shm!ReceiverLabels
    /\ sres \in Shm!Outcomes /\ rres \in Shm!Outcomes
    /\ size \in Sizes /\ Sizes \subseteq Nat
    /\ lastRead \in 0..BufferSize /\ taken \in 0..BufferSize
    /\ sent \in Nat /\ out \in Seq(Int) /\ Len(out) \in Nat
    /\ Shm!OneTurn /\ Shm!InStep /\ Shm!NothingPosted /\ Shm!HeaderPhase /\ Shm!DataPhase
    /\ Shm!Prefix /\ Shm!Results
  BY SizesAssumption DEF Shm!IInv, Shm!TypeOK
<1> USE DEF Shm!InStep, Shm!NothingPosted, Shm!DataPhase, Shm!Results, Shm!Outcomes,
        Shm!Stored
<1>1. CASE Shm!SLaunch
  BY <1>1 DEF Shm!SLaunch
<1>2. CASE Shm!SShmCreate
  BY <1>2 DEF Shm!SShmCreate
<1>3. CASE Shm!SSenderSemCreate
  BY <1>3 DEF Shm!SSenderSemCreate, Shm!Created
<1>4. CASE Shm!SReceiverSemCreate
  BY <1>4 DEF Shm!SReceiverSemCreate, Shm!Created
<1>5. CASE Shm!SWaitPeer
  BY <1>5 DEF Shm!SWaitPeer, Shm!SWait
<1>6. CASE Shm!SHeader
  BY <1>6 DEF Shm!SHeader, Shm!AnnouncedSizes
<1>7. CASE Shm!SPostHeader
  BY <1>7 DEF Shm!SPostHeader
<1>8. CASE Shm!SWaitTurn
  BY <1>8 DEF Shm!SWaitTurn, Shm!SWait
<1>9. CASE Shm!SFill
  BY <1>9 DEF Shm!SFill
<1>10. CASE Shm!SFillSize
  BY <1>10 DEF Shm!SFillSize
<1>11. CASE Shm!SPost
  <2>1. Shm!Loaded /\ announced \in Sizes
    BY <1>11 DEF Shm!SPost
  <2>2. lastRead = 0 => Shm!Stored = size
    BY <2>1, BufferSizeAssumption DEF Shm!Loaded, Shm!NextBytes
  <2>3. Shm!Stored' = Shm!Stored
    BY <1>11 DEF Shm!SPost, Shm!Stored
  <2> QED
    BY <1>11, <2>1, <2>2, <2>3 DEF Shm!SPost
<1>12. CASE Shm!SUnlinkSenderSem
  BY <1>12 DEF Shm!SUnlinkSenderSem, Shm!SUnlink
<1>13. CASE Shm!SUnlinkReceiverSem
  BY <1>13 DEF Shm!SUnlinkReceiverSem, Shm!SUnlink
<1>14. CASE Shm!SUnlinkShm
  BY <1>14 DEF Shm!SUnlinkShm, Shm!SUnlink
<1>15. CASE Shm!SKill
  BY <1>15 DEF Shm!SKill
<1>16. CASE Shm!SCallFails
  BY <1>16 DEF Shm!SCallFails
<1> QED
  BY <1>1, <1>2, <1>3, <1>4, <1>5, <1>6, <1>7, <1>8, <1>9, <1>10, <1>11,
     <1>12, <1>13, <1>14, <1>15, <1>16 DEF Shm!SenderStep

(* What the verdicts mean: the steps of the receiver keep it.              *)
LEMMA ShmResultsReceiver ==
  ASSUME Shm!IInv, Shm!RLaunch \/ Shm!ReceiverStep \/ Shm!RCallFails \/ Shm!RKill
  PROVE  Shm!Results'
<1> /\ spc \in Shm!SenderLabels /\ rpc \in Shm!ReceiverLabels
    /\ sres \in Shm!Outcomes /\ rres \in Shm!Outcomes
    /\ size \in Sizes /\ Sizes \subseteq Nat
    /\ lastRead \in 0..BufferSize /\ taken \in 0..BufferSize
    /\ sent \in Nat /\ out \in Seq(Int) /\ Len(out) \in Nat
    /\ Shm!OneTurn /\ Shm!InStep /\ Shm!NothingPosted /\ Shm!HeaderPhase /\ Shm!DataPhase
    /\ Shm!Prefix /\ Shm!Results
  BY SizesAssumption DEF Shm!IInv, Shm!TypeOK
<1> USE DEF Shm!InStep, Shm!NothingPosted, Shm!DataPhase, Shm!Results, Shm!Outcomes,
        Shm!Stored
<1>1. CASE Shm!RLaunch
  BY <1>1 DEF Shm!RLaunch
<1>2. CASE Shm!RConnectSenderSem
  BY <1>2 DEF Shm!RConnectSenderSem, Shm!RConnect
<1>3. CASE Shm!RConnectReceiverSem
  BY <1>3 DEF Shm!RConnectReceiverSem, Shm!RConnect
<1>4. CASE Shm!RConnectShm
  BY <1>4 DEF Shm!RConnectShm
<1>5. CASE Shm!ROpenFile
  BY <1>5 DEF Shm!ROpenFile
<1>6. CASE Shm!RHello
  BY <1>6 DEF Shm!RHello, Shm!RPost
<1>7. CASE Shm!RWaitHeader
  BY <1>7 DEF Shm!RWaitHeader, Shm!RWait
<1>8. CASE Shm!RReadHeader
  BY <1>8 DEF Shm!RReadHeader
<1>9. CASE Shm!RAckHeader
  BY <1>9 DEF Shm!RAckHeader, Shm!RPost
<1>10. CASE Shm!RWaitData
  BY <1>10 DEF Shm!RWaitData, Shm!RWait
<1>11. CASE Shm!RTakeSize
  BY <1>11 DEF Shm!RTakeSize
<1>12. CASE Shm!RStore
  <2>1. /\ rpc = "store" /\ rpc' = "ack"
        /\ UNCHANGED <<spc, sres, rres, size, announced, present>>
        /\ Shm!Stored' = sent /\ Shm!Stored' = Shm!Stored + taken /\ taken \in Nat
    BY <1>12, ShmStores, BufferSizeAssumption
  <2>2. Shm!Stored = size => Shm!Stored' = size
    BY <2>1 DEF Shm!Prefix
  <2> HIDE DEF Shm!Stored
  <2> QED
    BY <2>1, <2>2
<1>13. CASE Shm!RAck
  <2>1. /\ rpc = "ack" /\ UNCHANGED <<spc, sres, size, announced, present>>
        /\ \/ rpc' = "waitData" /\ rres' = rres
           \/ /\ rpc' = "unlinkShm" /\ ~Shm!GoesOn
              /\ rres' = Shm!CheckedLength(Len(out'), expected)
              /\ Len(held') <= Shm!MostLost(BufferSize - 1)
        /\ Shm!Stored' = Shm!Stored /\ (held' # << >> => held # << >>)
        /\ out' \in Seq(Int) /\ held' \in Seq(Int)
    BY <1>13, ShmAcks
  <2>2. /\ expected = announced /\ announced \in Nat
        /\ sent = Shm!Stored /\ (taken = 0 => sent = size)
        /\ held # << >> => Shm!Stored = size
    BY <2>1 DEF Shm!Prefix
  <2>3. ~Shm!GoesOn /\ Len(out') = expected => Shm!Stored = size
    <3>1. held' = << >> => Len(held') = 0
      OBVIOUS
    <3>2. ~Shm!GoesOn => taken = 0 \/ Shm!Stored > expected
      BY <2>2, BufferSizeAssumption DEF Shm!GoesOn, Shm!Stored
    <3>3. Shm!Stored = Len(out') + Len(held') /\ Len(out') \in Nat
      BY <2>1 DEF Shm!Stored
    <3> HIDE DEF Shm!Stored
    <3> QED
      BY <2>1, <2>2, <3>1, <3>2, <3>3
  <2> HIDE DEF Shm!Stored
  <2> QED
    BY <2>1, <2>2, <2>3 DEF Shm!CheckedLength
<1>14. CASE Shm!RUnlinkShm
  BY <1>14 DEF Shm!RUnlinkShm
<1>15. CASE Shm!RRemove
  BY <1>15 DEF Shm!RRemove
<1>16. CASE Shm!RKill
  BY <1>16 DEF Shm!RKill
<1>17. CASE Shm!RCallFails
  BY <1>17 DEF Shm!RCallFails
<1> QED
  BY <1>1, <1>2, <1>3, <1>4, <1>5, <1>6, <1>7, <1>8, <1>9, <1>10, <1>11,
     <1>12, <1>13, <1>14, <1>15, <1>16, <1>17 DEF Shm!ReceiverStep

(* The names that are gone stay gone.                                      *)
LEMMA ShmNamesSender ==
  ASSUME Shm!IInv, Shm!SLaunch \/ Shm!SenderStep \/ Shm!SCallFails \/ Shm!SKill
  PROVE  Shm!NamesGone'
<1> /\ spc \in Shm!SenderLabels /\ rpc \in Shm!ReceiverLabels /\ linked \subseteq Shm!Names
    /\ Shm!Unset \notin Sizes
    /\ Shm!InStep /\ Shm!NothingPosted /\ Shm!Results /\ Shm!NamesGone
    /\ rpc \in Shm!Receiving \cup {"ackHeader"} => announced \in Sizes /\ expected = announced
  BY SizesAssumption DEF Shm!IInv, Shm!TypeOK, Shm!DataPhase
<1> USE DEF Shm!InStep, Shm!NothingPosted, Shm!Results, Shm!NamesGone, Shm!UnlinkedAt, Shm!Names
<1>1. CASE Shm!SLaunch
  BY <1>1 DEF Shm!SLaunch
<1>2. CASE Shm!SShmCreate
  BY <1>2 DEF Shm!SShmCreate
<1>3. CASE Shm!SSenderSemCreate
  BY <1>3 DEF Shm!SSenderSemCreate, Shm!Created
<1>4. CASE Shm!SReceiverSemCreate
  BY <1>4 DEF Shm!SReceiverSemCreate, Shm!Created
<1>5. CASE Shm!SWaitPeer
  BY <1>5 DEF Shm!SWaitPeer, Shm!SWait
<1>6. CASE Shm!SHeader
  BY <1>6 DEF Shm!SHeader
<1>7. CASE Shm!SPostHeader
  BY <1>7 DEF Shm!SPostHeader
<1>8. CASE Shm!SWaitTurn
  BY <1>8 DEF Shm!SWaitTurn, Shm!SWait
<1>9. CASE Shm!SFill
  BY <1>9 DEF Shm!SFill
<1>10. CASE Shm!SFillSize
  BY <1>10 DEF Shm!SFillSize
<1>11. CASE Shm!SPost
  BY <1>11 DEF Shm!SPost
<1>12. CASE Shm!SUnlinkSenderSem
  BY <1>12 DEF Shm!SUnlinkSenderSem, Shm!SUnlink
<1>13. CASE Shm!SUnlinkReceiverSem
  BY <1>13 DEF Shm!SUnlinkReceiverSem, Shm!SUnlink
<1>14. CASE Shm!SUnlinkShm
  BY <1>14 DEF Shm!SUnlinkShm, Shm!SUnlink
<1>15. CASE Shm!SKill
  BY <1>15 DEF Shm!SKill
<1>16. CASE Shm!SCallFails
  BY <1>16 DEF Shm!SCallFails
<1> QED
  BY <1>1, <1>2, <1>3, <1>4, <1>5, <1>6, <1>7, <1>8, <1>9, <1>10, <1>11,
     <1>12, <1>13, <1>14, <1>15, <1>16 DEF Shm!SenderStep

(* Which names are gone: the steps of the receiver keep what is said of    *)
(* them.                                                                   *)
LEMMA ShmNamesReceiver ==
  ASSUME Shm!IInv, Shm!RLaunch \/ Shm!ReceiverStep \/ Shm!RCallFails \/ Shm!RKill
  PROVE  Shm!NamesGone'
<1> /\ spc \in Shm!SenderLabels /\ rpc \in Shm!ReceiverLabels /\ linked \subseteq Shm!Names
    /\ Shm!Unset \notin Sizes
    /\ Shm!InStep /\ Shm!NothingPosted /\ Shm!Results /\ Shm!NamesGone
    /\ rpc \in Shm!Receiving \cup {"ackHeader"} => announced \in Sizes /\ expected = announced
  BY SizesAssumption DEF Shm!IInv, Shm!TypeOK, Shm!DataPhase
<1> USE DEF Shm!InStep, Shm!NothingPosted, Shm!Results, Shm!NamesGone, Shm!UnlinkedAt, Shm!Names
<1>1. CASE Shm!RLaunch
  BY <1>1 DEF Shm!RLaunch
<1>2. CASE Shm!RConnectSenderSem
  BY <1>2 DEF Shm!RConnectSenderSem, Shm!RConnect
<1>3. CASE Shm!RConnectReceiverSem
  BY <1>3 DEF Shm!RConnectReceiverSem, Shm!RConnect
<1>4. CASE Shm!RConnectShm
  BY <1>4 DEF Shm!RConnectShm
<1>5. CASE Shm!ROpenFile
  BY <1>5 DEF Shm!ROpenFile
<1>6. CASE Shm!RHello
  BY <1>6 DEF Shm!RHello, Shm!RPost
<1>7. CASE Shm!RWaitHeader
  BY <1>7 DEF Shm!RWaitHeader, Shm!RWait
<1>8. CASE Shm!RReadHeader
  BY <1>8 DEF Shm!RReadHeader
<1>9. CASE Shm!RAckHeader
  BY <1>9 DEF Shm!RAckHeader, Shm!RPost
<1>10. CASE Shm!RWaitData
  BY <1>10 DEF Shm!RWaitData, Shm!RWait
<1>11. CASE Shm!RTakeSize
  BY <1>11 DEF Shm!RTakeSize
<1>12. CASE Shm!RStore
  BY <1>12, ShmStores
<1>13. CASE Shm!RAck
  BY <1>13, ShmAcks
<1>14. CASE Shm!RUnlinkShm
  BY <1>14 DEF Shm!RUnlinkShm
<1>15. CASE Shm!RRemove
  BY <1>15 DEF Shm!RRemove
<1>16. CASE Shm!RKill
  BY <1>16 DEF Shm!RKill
<1>17. CASE Shm!RCallFails
  BY <1>17 DEF Shm!RCallFails
<1> QED
  BY <1>1, <1>2, <1>3, <1>4, <1>5, <1>6, <1>7, <1>8, <1>9, <1>10, <1>11,
     <1>12, <1>13, <1>14, <1>15, <1>16, <1>17 DEF Shm!ReceiverStep

(* A quiet channel has no turn.                                            *)
NoTurnLeft == ChannelsKnown /\ \A c \in ShmFound : c.senderSem = 0 /\ c.receiverSem = 0

(* The invariant holds at the start.                                       *)
LEMMA ShmInvInit == NoTurnLeft /\ ShmFresh => Shm!IInv
<1> SUFFICES ASSUME NoTurnLeft, ShmFresh PROVE Shm!IInv
  OBVIOUS
<1>1. senderSem = 0 /\ receiverSem = 0
  BY DEF NoTurnLeft, ShmFresh
<1>2. Shm!TypeOK
  BY ShmTypeInit DEF NoTurnLeft
<1>3. Shm!OneTurn /\ Shm!InStep /\ Shm!OneObject /\ Shm!NothingPosted
  BY <1>1, BufferSizeAssumption
  DEF ShmFresh, Unset, Shm!OneTurn, Shm!Turns, Shm!Holding, Shm!InStep, Shm!OneObject,
      Shm!NothingPosted
<1>4. Shm!HeaderPhase /\ Shm!DataPhase
  BY <1>1 DEF ShmFresh, Unset, Shm!HeaderPhase, Shm!DataPhase
<1>5. Shm!Prefix /\ Shm!Results /\ Shm!NamesGone
  <2>1. Shm!Stretch(0, 0) = << >> /\ size \in Nat
    BY SizesAssumption DEF ShmFresh, Unset, Shm!Stretch
  <2> QED
    BY <2>1, BufferSizeAssumption
    DEF ShmFresh, Unset, Shm!Prefix, Shm!Stored, Shm!Results, Shm!NamesGone
<1> QED
  BY <1>2, <1>3, <1>4, <1>5 DEF Shm!IInv

(* Every step keeps the invariant.                                         *)
LEMMA ShmInvStep == Shm!IInv /\ [Shm!Next]_(Shm!vars) => Shm!IInv'
<1> SUFFICES ASSUME Shm!IInv, [Shm!Next]_(Shm!vars) PROVE Shm!IInv'
  OBVIOUS
<1>1. Shm!TypeOK'
  <2>1. Shm!TypeOK /\ ShmWithin
    BY DEF Shm!IInv, Shm!TypeOK, Shm!Prefix, Shm!DataPhase, Shm!NextBytes, ShmWithin
  <2> QED
    BY <2>1, ShmTypeStep
<1>2. CASE Shm!SLaunch \/ Shm!SenderStep \/ Shm!SCallFails \/ Shm!SKill
  BY <1>1, <1>2, ShmControlSender, ShmDataSender, ShmResultsSender, ShmNamesSender DEF Shm!IInv
<1>3. CASE Shm!RLaunch \/ Shm!ReceiverStep \/ Shm!RCallFails \/ Shm!RKill
  BY <1>1, <1>3, ShmControlReceiver, ShmDataReceiver, ShmResultsReceiver, ShmNamesReceiver
  DEF Shm!IInv
<1>4. CASE UNCHANGED Shm!vars
  <2>1. /\ Shm!HeaderInBuffer' <=> Shm!HeaderInBuffer
        /\ Shm!NextBytes' <=> Shm!NextBytes
        /\ Shm!Loaded' <=> Shm!Loaded
        /\ Shm!Prefix' <=> Shm!Prefix
        /\ Shm!Stored' = Shm!Stored
    BY <1>4, ShmSameData DEF Shm!vars
  <2>2. Shm!OneTurn' /\ Shm!InStep' /\ Shm!OneObject' /\ Shm!NothingPosted'
    BY <1>4 DEF Shm!vars, Shm!IInv, Shm!OneTurn, Shm!Turns, Shm!Holding, Shm!InStep,
       Shm!OneObject, Shm!NothingPosted
  <2>3. Shm!HeaderPhase' /\ Shm!DataPhase'
    BY <1>4, <2>1 DEF Shm!vars, Shm!IInv, Shm!HeaderPhase, Shm!DataPhase
  <2>4. Shm!Results' /\ Shm!NamesGone'
    BY <1>4, <2>1 DEF Shm!vars, Shm!IInv, Shm!Results, Shm!NamesGone, Shm!UnlinkedAt
  <2> QED
    BY <1>1, <2>1, <2>2, <2>3, <2>4 DEF Shm!IInv
<1> QED
  BY <1>2, <1>3, <1>4 DEF Shm!Next, Shm!BothEnded

-----------------------------------------------------------------------------
(* What follows from it.                                                   *)
LEMMA ShmImplied ==
  Shm!IInv => Shm!TypeOK /\ Shm!TurnTaking /\ Shm!ExactCopy /\ Shm!NamesUnlinked
<1>1. Shm!IInv => Shm!TurnTaking
  BY DEF Shm!IInv, Shm!TypeOK, Shm!OneTurn, Shm!Turns, Shm!Holding, Shm!TurnTaking
<1>2. Shm!IInv => Shm!ExactCopy
  <2> SUFFICES ASSUME Shm!IInv, rres = "success" PROVE Shm!ExactCopy
    BY DEF Shm!ExactCopy
  <2>1. /\ out = Shm!Stretch(0, Len(out)) /\ announced = Len(out)
        /\ Len(out) + Len(held) = size /\ Len(held) <= Shm!MostLost(BufferSize - 1)
        /\ Len(out) \in Nat /\ Len(held) \in Nat
    BY DEF Shm!IInv, Shm!TypeOK, Shm!Prefix, Shm!Results, Shm!Stored
  <2>2. Shm!MostLost(BufferSize - 1) \in Int
    BY BufferSizeAssumption DEF Shm!MostLost
  <2> QED
    BY <2>1, <2>2 DEF Shm!ExactCopy
<1>3. Shm!IInv => Shm!NamesUnlinked
  BY DEF Shm!IInv, Shm!TypeOK, Shm!Results, Shm!NamesGone, Shm!UnlinkedAt,
         Shm!NamesUnlinked, Shm!Outcomes
<1> QED
  BY <1>1, <1>2, <1>3 DEF Shm!IInv

-----------------------------------------------------------------------------
(* The promise: the initial states map to initial states of FileCopy, and  *)
(* every step to a step or a stutter.                                      *)

(* The initial states map to initial states of FileCopy.                   *)
LEMMA ShmPromiseInit == ShmFresh => Shm!Promise!Init
<1> SUFFICES ASSUME ShmFresh PROVE Shm!Promise!Init
  OBVIOUS
<1>1. present \in BOOLEAN
  BY Zenon DEF ShmFresh, Unset
<1> QED
  BY <1>1 DEF ShmFresh, Unset, Shm!Promise!Init, Shm!Outcome, Shm!SenderOutcome

(* A step of the sender maps to a step of FileCopy or to a stutter.        *)
LEMMA ShmPromiseSender ==
  ASSUME Shm!IInv, Shm!SLaunch \/ Shm!SenderStep \/ Shm!SCallFails \/ Shm!SKill
  PROVE  [Shm!Promise!Next]_(Shm!Promise!vars)
<1> /\ size \in Sizes /\ Sizes \subseteq Nat /\ Len(out) \in Nat
    /\ spc \in Shm!SenderLabels /\ sres \in Shm!Outcomes
    /\ Shm!NothingPosted /\ Shm!Results
  BY SizesAssumption DEF Shm!IInv, Shm!TypeOK
<1> USE DEF Shm!Outcome, Shm!SenderOutcome, Shm!Promise!Next, Shm!Promise!vars,
        Shm!NothingPosted,
            Shm!Results, Shm!Outcomes
<1>1. CASE Shm!SLaunch
  BY <1>1 DEF Shm!SLaunch, Shm!Promise!GiveUp
<1>2. CASE Shm!SShmCreate
  BY <1>2 DEF Shm!SShmCreate, Shm!Promise!GiveUp
<1>3. CASE Shm!SSenderSemCreate
  BY <1>3 DEF Shm!SSenderSemCreate, Shm!Promise!GiveUp
<1>4. CASE Shm!SReceiverSemCreate
  BY <1>4 DEF Shm!SReceiverSemCreate, Shm!Promise!GiveUp
<1>5. CASE Shm!SWaitPeer
  BY <1>5 DEF Shm!SWaitPeer, Shm!SWait
<1>6. CASE Shm!SHeader
  BY <1>6 DEF Shm!SHeader, Shm!AnnouncedSizes, Shm!Promise!Announce
<1>7. CASE Shm!SPostHeader
  BY <1>7 DEF Shm!SPostHeader
<1>8. CASE Shm!SWaitTurn
  BY <1>8 DEF Shm!SWaitTurn, Shm!SWait
<1>9. CASE Shm!SFill
  BY <1>9 DEF Shm!SFill
<1>10. CASE Shm!SFillSize
  BY <1>10 DEF Shm!SFillSize
<1>11. CASE Shm!SPost
  BY <1>11 DEF Shm!SPost
<1>12. CASE Shm!SUnlinkSenderSem
  BY <1>12 DEF Shm!SUnlinkSenderSem, Shm!SUnlink
<1>13. CASE Shm!SUnlinkReceiverSem
  BY <1>13 DEF Shm!SUnlinkReceiverSem, Shm!SUnlink
<1>14. CASE Shm!SUnlinkShm
  <2>1. sres = "success" => Len(out) + (BufferSize - 1) >= size
    BY BufferSizeAssumption DEF Shm!IInv, Shm!TypeOK, Shm!Prefix, Shm!Stored
  <2> QED
    BY <1>14, <2>1 DEF Shm!SUnlinkShm, Shm!SUnlink, Shm!Promise!Complete, Shm!Promise!GiveUp
<1>15. CASE Shm!SKill
  BY <1>15 DEF Shm!SKill, Shm!Promise!KillSender
<1>16. CASE Shm!SCallFails
  BY <1>16 DEF Shm!SCallFails
<1> QED
  BY <1>1, <1>2, <1>3, <1>4, <1>5, <1>6, <1>7, <1>8, <1>9, <1>10, <1>11,
     <1>12, <1>13, <1>14, <1>15, <1>16 DEF Shm!SenderStep

(* The copy grows by at most a buffer of the next bytes, or not at all.    *)
LEMMA ShmPromiseStores ==
  ASSUME Shm!IInv, NEW n \in 0..BufferSize,
         out' = out \o Shm!Stretch(Len(out), n), Len(out) + n <= size,
         present, rres = "none" \/ rpc # "ended", rpc' # "ended",
         UNCHANGED <<size, announced, present, spc, sres>>
  PROVE  out' = out \/ \E k \in 1..BufferSize : Shm!Promise!Store(k)
<1>1. CASE n = 0
  <2>1. Shm!Stretch(Len(out), n) = << >> /\ out \in Seq(Int)
    BY <1>1 DEF Shm!Stretch, Shm!IInv, Shm!TypeOK
  <2> QED
    BY <2>1, ConcatEmptySeq
<1>2. CASE n # 0
  <2>1. Shm!Stretch(Len(out), n) = Shm!Promise!NextBytes(n)
    BY DEF Shm!Stretch, Shm!Promise!NextBytes
  <2>2. Shm!Promise!Store(n) /\ n \in 1..BufferSize
    BY <1>2, <2>1, BufferSizeAssumption
    DEF Shm!Promise!Store, Shm!Outcome, Shm!SenderOutcome
  <2> QED
    BY <2>2
<1> QED
  BY <1>1, <1>2

(* A step of the receiver maps to a step of FileCopy or to a stutter.      *)
LEMMA ShmPromiseReceiver ==
  ASSUME Shm!IInv, Shm!RLaunch \/ Shm!ReceiverStep \/ Shm!RCallFails \/ Shm!RKill
  PROVE  [Shm!Promise!Next]_(Shm!Promise!vars)
<1> /\ size \in Sizes /\ Sizes \subseteq Nat /\ Len(out) \in Nat
    /\ rpc \in Shm!ReceiverLabels /\ rres \in Shm!Outcomes
    /\ Shm!HeaderPhase /\ Shm!Prefix /\ Shm!Results
  BY SizesAssumption DEF Shm!IInv, Shm!TypeOK
<1> USE DEF Shm!Outcome, Shm!SenderOutcome, Shm!Promise!Next, Shm!Promise!vars, Shm!Results,
        Shm!Outcomes
<1>1. CASE Shm!RLaunch
  BY <1>1 DEF Shm!RLaunch
<1>2. CASE Shm!RConnectSenderSem
  BY <1>2 DEF Shm!RConnectSenderSem, Shm!RConnect
<1>3. CASE Shm!RConnectReceiverSem
  BY <1>3 DEF Shm!RConnectReceiverSem, Shm!RConnect
<1>4. CASE Shm!RConnectShm
  BY <1>4 DEF Shm!RConnectShm
<1>5. CASE Shm!ROpenFile
  BY <1>5 DEF Shm!ROpenFile, Shm!HeaderPhase, Shm!Promise!CreateCopy
<1>6. CASE Shm!RHello
  BY <1>6 DEF Shm!RHello, Shm!RPost
<1>7. CASE Shm!RWaitHeader
  BY <1>7 DEF Shm!RWaitHeader, Shm!RWait
<1>8. CASE Shm!RReadHeader
  BY <1>8 DEF Shm!RReadHeader
<1>9. CASE Shm!RAckHeader
  BY <1>9 DEF Shm!RAckHeader, Shm!RPost
<1>10. CASE Shm!RWaitData
  BY <1>10 DEF Shm!RWaitData, Shm!RWait
<1>11. CASE Shm!RTakeSize
  BY <1>11 DEF Shm!RTakeSize
<1>12. CASE Shm!RStore
  <2>1. /\ rpc = "store" /\ rpc' = "ack" /\ present
        /\ UNCHANGED <<size, announced, present, spc, sres, rres>>
    BY <1>12, ShmStores
  <2>2. PICK n \in 0..BufferSize :
          out' = out \o Shm!Stretch(Len(out), n) /\ Len(out) + n <= size
    BY <1>12, ShmStores
  <2>3. out' = out \/ \E k \in 1..BufferSize : Shm!Promise!Store(k)
    BY <2>1, <2>2, ShmPromiseStores
  <2> QED
    BY <2>1, <2>3
<1>13. CASE Shm!RAck
  <2>1. /\ rpc = "ack" /\ present
        /\ UNCHANGED <<size, announced, present, spc, sres>>
        /\ (rpc' = "waitData" /\ rres' = rres) \/ rpc' = "unlinkShm"
    BY <1>13, ShmAcks
  <2>2. PICK n \in 0..BufferSize :
          out' = out \o Shm!Stretch(Len(out), n) /\ Len(out) + n <= size
    BY <1>13, ShmAcks
  <2>3. out' = out \/ \E k \in 1..BufferSize : Shm!Promise!Store(k)
    BY <2>1, <2>2, ShmPromiseStores
  <2> QED
    BY <2>1, <2>3
<1>14. CASE Shm!RUnlinkShm
  <2>1. \E n \in 0..0 : Shm!Promise!LoseLast(n)
    BY <1>14, NothingLost DEF Shm!RUnlinkShm, Shm!IInv, Shm!TypeOK, Shm!Promise!LoseLast
  <2>2. rres = "success" => /\ announced >= 0 /\ Len(out) = announced
                            /\ announced = size \/ {"resize", "error"} \subseteq Disturbances
    <3>1. rres = "success" =>
            /\ Len(out) = announced
            /\ announced \in {Unset, size} \/ "resize" \in Disturbances
      BY DEF Shm!IInv, Shm!InStep, Unset
    <3>2. rres = "success" /\ "error" \notin Disturbances => size = Len(out)
      BY DEF Shm!IInv, Shm!TypeOK, Shm!Prefix, Shm!Stored, Shm!MostLost
    <3> QED
      BY <3>1, <3>2 DEF Unset
  <2> QED
    BY <1>14, <2>1, <2>2 DEF Shm!RUnlinkShm, Shm!Promise!Accept
<1>15. CASE Shm!RRemove
  BY <1>15 DEF Shm!RRemove, Shm!Promise!Reject
<1>16. CASE Shm!RKill
  <2>1. \E n \in 0..0 : Shm!Promise!LoseLast(n)
    BY <1>16, NothingLost DEF Shm!RKill, Shm!IInv, Shm!TypeOK, Shm!Promise!LoseLast
  <2> QED
    BY <1>16, <2>1 DEF Shm!RKill, Shm!Promise!KillReceiver
<1>17. CASE Shm!RCallFails
  BY <1>17 DEF Shm!RCallFails
<1> QED
  BY <1>1, <1>2, <1>3, <1>4, <1>5, <1>6, <1>7, <1>8, <1>9, <1>10, <1>11,
     <1>12, <1>13, <1>14, <1>15, <1>16, <1>17 DEF Shm!ReceiverStep

(* Every step maps to a step of FileCopy or to a stutter.                  *)
LEMMA ShmPromiseStep == Shm!IInv /\ [Shm!Next]_(Shm!vars) => [Shm!Promise!Next]_(Shm!Promise!vars)
<1> SUFFICES ASSUME Shm!IInv, [Shm!Next]_(Shm!vars) PROVE [Shm!Promise!Next]_(Shm!Promise!vars)
  OBVIOUS
<1>1. CASE UNCHANGED Shm!vars
  BY <1>1 DEF Shm!vars, Shm!Promise!vars, Shm!Outcome, Shm!SenderOutcome
<1> QED
  BY <1>1, ShmPromiseSender, ShmPromiseReceiver DEF Shm!Next, Shm!BothEnded

-----------------------------------------------------------------------------
(* Message queue                                                           *)

USE DEF Queue!SGoto, Queue!RGoto, Queue!SLeave, Queue!RLeave, Queue!SRefuse,
        Queue!SConclude, Queue!RRefuse, Queue!RConclude,
        Queue!STimeout, Queue!RTimeout, Queue!SGoesOn, Queue!RGoesOn, Queue!PutFails,
        Queue!GetFails, Queue!outcomes, Queue!queues,
        Queue!opened, Queue!senderData, Queue!receiverData,
        Queue!SenderLabels, Queue!ReceiverLabels, Queue!Opening, Queue!NotSent,
        Queue!Sending, Queue!NotCreated,
        Queue!Receiving, Queue!NotReceived, Queue!Queues, Queue!Unset

-----------------------------------------------------------------------------
(* Data *)

(* A read returns at most a buffer and never reads beyond the source; one  *)
(* that is not full ends it.                                               *)
LEMMA QueueReadFileBounds ==
  ASSUME NEW from \in Nat, NEW length \in Nat
  PROVE  /\ Queue!ReadFile(from, length) \in 0..BufferSize
         /\ from <= length => from + Queue!ReadFile(from, length) <= length
         /\ from <= length /\ Queue!ReadFile(from, length) < BufferSize
              => from + Queue!ReadFile(from, length) = length
<1>1. Queue!ReadFile(from, length) = ReadFile(from, length)
  BY DEF Queue!ReadFile, ReadFile
<1>2. /\ ReadFile(from, length) \in 0..BufferSize
      /\ from <= length => from + ReadFile(from, length) <= length
      /\ from <= length /\ ReadFile(from, length) < BufferSize
           => from + ReadFile(from, length) = length
  BY ReadFileBounds
<1> QED
  BY <1>1, <1>2

(* A stretch of n bytes after m is a sequence of n numbers, the i-th of    *)
(* them m + i.                                                             *)
LEMMA QueueStretchSeq ==
  ASSUME NEW m \in Nat, NEW n \in Nat
  PROVE  /\ Queue!Stretch(m, n) \in Seq(Int)
         /\ Len(Queue!Stretch(m, n)) = n
         /\ \A i \in 1..n : Queue!Stretch(m, n)[i] = m + i
<1>1. Queue!Stretch(m, n) = Stretch(m, n)
  BY DEF Queue!Stretch, Stretch
<1> QED
  BY <1>1, StretchSeq, Zenon

(* A stretch from the start and the one that follows it make a longer      *)
(* stretch from the start.                                                 *)
LEMMA QueueStretchGrows ==
  ASSUME NEW m \in Nat, NEW n \in Nat
  PROVE  /\ Queue!Stretch(0, m) \o Queue!Stretch(m, n) = Queue!Stretch(0, m + n)
         /\ Len(Queue!Stretch(0, m) \o Queue!Stretch(m, n)) = m + n
<1>1. \A a, b : Queue!Stretch(a, b) = Stretch(a, b)
  BY DEF Queue!Stretch, Stretch
<1> QED
  BY <1>1, StretchGrows, Zenon

(* Products of a number of pieces and the length of a piece: their type,   *)
(* successor and order.                                                    *)
LEMMA QueueMultiples ==
  ASSUME NEW a \in Nat, NEW b \in Nat \ {0}
  PROVE  /\ a * b \in Nat
         /\ (a + 1) * b = a * b + b
         /\ \A c \in Nat : a < c => a * b + b <= c * b
<1>1. a * b \in Nat /\ (a + 1) * b = a * b + b
  OBVIOUS
<1>2. ASSUME NEW c \in Nat, a < c
      PROVE  a * b + b <= c * b
  <2>1. PICK d \in Nat : c = a + 1 + d
    <3>1. c - a - 1 \in Nat /\ c = a + 1 + (c - a - 1)
      BY <1>2
    <3> QED
      BY <3>1
  <2>2. c * b = a * b + b + d * b /\ d * b \in Nat
    BY <2>1
  <2> QED
    BY <1>1, <2>2
<1> QED
  BY <1>1, <1>2

(* The multiples of a length go on from one to the next.                   *)
LEMMA QueueNextMultiple ==
  ASSUME NEW a \in Nat, NEW b \in Nat \ {0}, a % b = 0
  PROVE  (a + b) % b = 0
<1>1. PICK q \in Nat : a = q * b
  OBVIOUS
<1>2. PICK r \in Nat : r = q + 1
  OBVIOUS
<1>3. a + b = r * b
  BY <1>1, <1>2
<1>4. (r * b) % b = 0
  OBVIOUS
<1> QED
  BY <1>3, <1>4, Zenon

(* What the proofs about a step use of the state before it.                *)
LEMMA QueueBefore ==
  ASSUME Queue!IInv
  PROVE  /\ spc \in Queue!SenderLabels /\ rpc \in Queue!ReceiverLabels
         /\ sres \in Queue!Outcomes /\ rres \in Queue!Outcomes
         /\ name \in Queue!Queues /\ checked \in Queue!Queues /\ target \in Queue!Queues
         /\ old \in Nat \cup {Queue!Unset} /\ old <= QueueCapacity
         /\ queue \in Seq(Seq(Int)) /\ Len(queue) \in Nat /\ Len(queue) <= QueueCapacity
         /\ size \in Sizes /\ size \in Nat /\ Sizes \subseteq Nat
         /\ toSend \in Nat \cup {Queue!Unset} /\ announced \in Nat \cup {Queue!Unset}
         /\ sent \in Nat /\ lastRead \in 0..BufferSize /\ lastRead \in Nat
         /\ expected \in Nat \cup {Queue!Unset}
         /\ inbox \in Seq(Int) /\ out \in Seq(Int)
         /\ Len(inbox) \in Nat /\ Len(out) \in Nat
         /\ present \in BOOLEAN
         /\ BufferSize \in Nat \ {0} /\ QueueCapacity \in Nat \ {0}
         /\ Queue!TwoQueues /\ Queue!NothingSent /\ Queue!InTransit /\ Queue!Reads
         /\ Queue!Prefix /\ Queue!Results /\ Queue!NameGone
<1>1. Queue!TypeOK /\ Sizes \subseteq Nat /\ QueueCapacity \in Nat \ {0} /\ BufferSize \in Nat \ {0}
  BY BufferSizeAssumption, SizesAssumption, RcProgramsAssumption DEF Queue!IInv
<1>2. Len(queue) \in Nat /\ Len(inbox) \in Nat /\ Len(out) \in Nat
  BY <1>1, LenProperties DEF Queue!TypeOK
<1>3. old \in Nat \cup {Queue!Unset} /\ old <= QueueCapacity
  BY <1>1, SMT DEF Queue!TypeOK
<1>4. lastRead \in Nat /\ size \in Nat /\ toSend \in Nat \cup {Queue!Unset}
      /\ announced \in Nat \cup {Queue!Unset}
  BY <1>1, SMT DEF Queue!TypeOK
<1> QED
  BY <1>1, <1>2, <1>3, <1>4, Zenon DEF Queue!IInv, Queue!TypeOK

(* The piece that begins after k bytes, or at the end.                     *)
LEMMA QueuePieceIs ==
  ASSUME size \in Nat, NEW k \in Nat
  PROVE  /\ Queue!Piece(k) \in Seq(Int)
         /\ k <= size => Queue!Piece(k) = Queue!Stretch(k, Queue!ReadFile(k, size))
         /\ k >= size => Queue!Piece(k) = Queue!Stretch(size, Queue!ReadFile(size, size))
         /\ Len(Queue!Piece(k)) \in 0..BufferSize
         /\ k <= size => /\ Len(Queue!Piece(k)) = Queue!ReadFile(k, size)
                         /\ k + Len(Queue!Piece(k)) <= size
                         /\ Len(Queue!Piece(k)) < BufferSize => k + Len(Queue!Piece(k)) = size
<1>1. PICK f \in Nat : f = IF k < size THEN k ELSE size
  OBVIOUS
<1>2. Queue!Piece(k) = Queue!Stretch(f, Queue!ReadFile(f, size))
  BY <1>1 DEF Queue!Piece
<1>3. Queue!ReadFile(f, size) \in 0..BufferSize /\ Queue!ReadFile(f, size) \in Nat
  BY QueueReadFileBounds, BufferSizeAssumption
<1>4. Queue!Piece(k) \in Seq(Int) /\ Len(Queue!Piece(k)) = Queue!ReadFile(f, size)
  BY <1>2, <1>3, QueueStretchSeq
<1>5. k <= size => f = k
  BY <1>1
<1>6. k >= size => f = size
  BY <1>1
<1>7. k <= size => /\ k + Queue!ReadFile(k, size) <= size
                   /\ Queue!ReadFile(k, size) < BufferSize => k + Queue!ReadFile(k, size) = size
  BY QueueReadFileBounds
<1> QED
  BY <1>2, <1>3, <1>4, <1>5, <1>6, <1>7, Zenon

(* Pieces of the end of the source are empty, wherever they begin.         *)
LEMMA QueuePiecesAtEnd ==
  ASSUME size \in Nat, NEW j \in Nat, NEW k \in Nat, j >= size, k >= size
  PROVE  Queue!Piece(j) = Queue!Piece(k)
  BY QueuePieceIs, Zenon

(* What a queue holds after a message was taken from it, or put into it.   *)
LEMMA QueuePopped ==
  ASSUME queue \in Seq(Seq(Int)), queue # << >>, queue' = Tail(queue)
  PROVE  /\ Len(queue) \in Nat /\ Len(queue) >= 1
         /\ Len(queue') = Len(queue) - 1 /\ queue' \in Seq(Seq(Int))
         /\ Head(queue) = queue[1] /\ queue[1] \in Seq(Int)
         /\ \A i \in 1..(Len(queue) - 1) : queue'[i] = queue[i + 1]
<1>1. /\ Tail(queue) \in Seq(Seq(Int))
      /\ Len(Tail(queue)) = Len(queue) - 1
      /\ \A i \in 1..Len(Tail(queue)) : Tail(queue)[i] = queue[i + 1]
  BY HeadTailProperties
<1>2. Len(queue) \in Nat /\ Len(queue) >= 1
  BY EmptySeq
<1>3. Head(queue) = queue[1] /\ queue[1] \in Seq(Int)
  BY <1>2
<1> QED
  BY <1>1, <1>2, <1>3

(* What a queue holds after a message was put into it.                     *)
LEMMA QueuePushed ==
  ASSUME queue \in Seq(Seq(Int)), NEW m \in Seq(Int), queue' = Append(queue, m)
  PROVE  /\ Len(queue) \in Nat /\ queue' \in Seq(Seq(Int))
         /\ Len(queue') = Len(queue) + 1
         /\ queue' # << >>
         /\ queue'[Len(queue) + 1] = m
         /\ \A i \in 1..Len(queue) : queue'[i] = queue[i]
  BY AppendProperties

(* The header that is received is the one that was sent.                   *)
QueueHeaderFor(n) == [i \in 1..BufferSize |-> Queue!HeaderByte(n)]
(* The header is a message of a full buffer that can be read back.         *)
LEMMA QueueHeaderIs ==
  ASSUME NEW n \in Nat
  PROVE  /\ QueueHeaderFor(n) \in Seq(Int)
         /\ Queue!HasKey(QueueHeaderFor(n)[1]) /\ Queue!AnnouncedBy(QueueHeaderFor(n)[1]) = n
<1>1. QueueHeaderFor(n) \in Seq(Int)
  BY BufferSizeAssumption DEF QueueHeaderFor, Queue!HeaderByte
<1>2. QueueHeaderFor(n)[1] = Queue!HeaderByte(n)
  BY BufferSizeAssumption DEF QueueHeaderFor
<1> QED
  BY <1>1, <1>2 DEF Queue!HeaderByte, Queue!HasKey, Queue!AnnouncedBy

(* The message that the receiver takes for the header is the header that   *)
(* was sent.                                                               *)
LEMMA QueueHeaderReceived ==
  ASSUME Queue!IInv, rpc = "receiveHeader", queue # << >>
  PROVE  /\ Head(queue) = queue[1] /\ queue[1] = QueueHeaderFor(announced)
         /\ announced \in Nat /\ target = "new" /\ Queue!Headers = 1
         /\ Queue!HasKey(Head(queue)[1]) /\ Queue!AnnouncedBy(Head(queue)[1]) = announced
         /\ spc \notin Queue!NotSent
<1>1. target = "new" /\ announced \in Nat /\ spc \notin Queue!NotSent
  BY QueueBefore DEF Queue!NothingSent
<1>2. Queue!Headers = 1
  BY <1>1 DEF Queue!Headers
<1>3. queue[1] = QueueHeaderFor(announced)
  BY <1>1, <1>2, QueueBefore DEF Queue!InTransit, QueueHeaderFor
<1>4. Head(queue) = queue[1]
  BY QueueBefore, EmptySeq
<1> QED
  BY <1>1, <1>2, <1>3, <1>4, QueueHeaderIs

(* The header leaves the copy alone, also when it is closed at once.       *)
LEMMA QueueHeaderKeepsCopy ==
  ASSUME Queue!IInv, Queue!RReceiveHeader
  PROVE  out' = out
<1>1. CASE Queue!Get
  <2>1. out' = out \/ out' \in Queue!ClosedAfter(out, BufferSize)
    BY <1>1 DEF Queue!RReceiveHeader
  <2>2. out' = out \/ out' \in ClosedAfter(out, BufferSize)
    BY <2>1 DEF Queue!ClosedAfter, Queue!ClosedCopies, Queue!WithoutLast, Queue!MostLost,
       ClosedAfter, ClosedCopies, WithoutLast, MostLost
  <2> QED
    BY <2>2, QueueBefore, NothingClosed
<1>2. CASE ~Queue!Get
  BY <1>2 DEF Queue!RReceiveHeader
<1> QED
  BY <1>1, <1>2

(* The piece in the receiver's buffer is what the copy needs next.         *)
LEMMA QueueStoredPiece ==
  ASSUME Queue!IInv, rpc = "store"
  PROVE  /\ inbox = Queue!Stretch(Len(out), Len(inbox)) /\ Len(inbox) \in 0..BufferSize
         /\ out \o inbox = Queue!Stretch(0, Len(out) + Len(inbox))
         /\ Len(out \o inbox) = Len(out) + Len(inbox)
         /\ Len(out) + Len(inbox) <= size
         /\ Len(inbox) < BufferSize => Len(out) + Len(inbox) = size
         /\ Len(out) % BufferSize = 0 /\ target = "new"
         /\ announced = expected /\ Len(out) < expected
<1>1. target = "new" /\ announced = expected /\ Len(out) < expected
  BY QueueBefore DEF Queue!NothingSent
<1>2. inbox = Queue!Piece(Len(out)) /\ Len(out) % BufferSize = 0
  BY <1>1, QueueBefore DEF Queue!InTransit
<1>3. Len(out) <= size /\ out = Queue!Stretch(0, Len(out)) /\ size \in Nat /\ Len(out) \in Nat
  BY QueueBefore DEF Queue!Prefix
<1>4. /\ inbox = Queue!Stretch(Len(out), Len(inbox)) /\ Len(inbox) \in 0..BufferSize
      /\ Len(inbox) \in Nat
      /\ Len(out) + Len(inbox) <= size
      /\ Len(inbox) < BufferSize => Len(out) + Len(inbox) = size
  BY <1>2, <1>3, QueuePieceIs, QueueBefore
<1>5. \A m \in Nat, n \in Nat :
        /\ Queue!Stretch(0, m) \o Queue!Stretch(m, n) = Queue!Stretch(0, m + n)
        /\ Len(Queue!Stretch(0, m) \o Queue!Stretch(m, n)) = m + n
  BY QueueStretchGrows
<1>6. out \o inbox = Queue!Stretch(0, Len(out)) \o Queue!Stretch(Len(out), Len(inbox))
  BY <1>3, <1>4, Zenon
<1>7. /\ out \o inbox = Queue!Stretch(0, Len(out) + Len(inbox))
      /\ Len(out \o inbox) = Len(out) + Len(inbox)
  BY <1>3, <1>4, <1>5, <1>6, Zenon
<1> QED
  BY <1>1, <1>2, <1>4, <1>7, Zenon

(* Storing a piece: the transfer goes on with all of it in the copy, or    *)
(* ends with a part of it, or with nothing more when the write fails.      *)
LEMMA QueueStores ==
  ASSUME Queue!IInv, Queue!RStore
  PROVE  /\ rpc = "store"
         /\ UNCHANGED <<spc, sres, name, old, queue, checked, target, size, toSend,
                        announced, sent, lastRead, expected, inbox, present>>
         /\ \/ /\ rpc' = "receive" /\ rres' = rres /\ Len(out') < expected
               /\ Len(inbox) = BufferSize /\ out' = out \o inbox
            \/ rpc' = "unlink" /\ rres' \in {"failure", Queue!CheckedLength(Len(out'), expected)}
         /\ \E n \in 0..Len(inbox) :
              /\ out' = out \o Queue!Stretch(Len(out), n)
              /\ out' = Queue!Stretch(0, Len(out) + n)
              /\ out' \in Seq(Int) /\ Len(out') = Len(out) + n
<1>1. /\ out \in Seq(Int) /\ inbox \in Seq(Int) /\ Len(out) \in Nat /\ Len(inbox) \in Nat
      /\ out = Queue!Stretch(0, Len(out)) /\ BufferSize \in Nat \ {0}
  BY QueueBefore DEF Queue!Prefix
<1>2. /\ rpc = "store"
      /\ UNCHANGED <<spc, sres, name, old, queue, checked, target, size, toSend,
                     announced, sent, lastRead, expected, inbox, present>>
  BY DEF Queue!RStore
<1>3. /\ inbox = Queue!Stretch(Len(out), Len(inbox)) /\ Len(inbox) <= BufferSize
      /\ out \o inbox = Queue!Stretch(0, Len(out) + Len(inbox))
      /\ Len(out \o inbox) = Len(out) + Len(inbox)
  BY <1>1, <1>2, QueueStoredPiece
<1>4. \A a, b : Queue!Stretch(a, b) = Stretch(a, b)
  BY DEF Queue!Stretch, Stretch
<1>5. CASE out' = out /\ rpc' = "unlink" /\ rres' = "failure"
  <2>1. Queue!Stretch(Len(out), 0) = << >>
    BY DEF Queue!Stretch
  <2>2. out' = out \o Queue!Stretch(Len(out), 0)
    BY <1>1, <1>5, <2>1, ConcatEmptySeq
  <2>3. Len(out) + 0 = Len(out) /\ 0 \in 0..Len(inbox)
    BY <1>1
  <2> QED
    BY <1>1, <1>2, <1>5, <2>2, <2>3, Zenon
<1>6. CASE rpc' = "receive"
  <2>1. /\ rres' = rres /\ out' = out \o inbox /\ Len(out') < expected
        /\ Len(inbox) = BufferSize
    BY <1>2, <1>6 DEF Queue!RStore, Queue!ReceivesMore
  <2>2. /\ out' = out \o Queue!Stretch(Len(out), Len(inbox))
        /\ out' = Queue!Stretch(0, Len(out) + Len(inbox))
        /\ Len(out') = Len(out) + Len(inbox)
    BY <1>3, <2>1, Zenon
  <2>3. out' \in Seq(Int) /\ Len(inbox) \in 0..Len(inbox)
    BY <1>1, <2>1, ConcatProperties
  <2> QED
    BY <1>2, <1>6, <2>1, <2>2, <2>3, Zenon
<1>7. CASE /\ out' \in Queue!ClosedAfter(out \o inbox, Len(inbox))
           /\ rpc' = "unlink" /\ rres' = Queue!CheckedLength(Len(out'), expected)
  <2>1. out' \in ClosedAfter(out \o inbox, Len(inbox))
    BY <1>7 DEF Queue!ClosedAfter, Queue!ClosedCopies, Queue!WithoutLast, Queue!MostLost,
       ClosedAfter, ClosedCopies, WithoutLast, MostLost
  <2>2. \E n \in 0..Len(inbox) :
          /\ out' = out \o Stretch(Len(out), n) /\ out' = Stretch(0, Len(out) + n)
          /\ out' \in Seq(Int) /\ Len(out') = Len(out) + n
    BY <1>1, <1>3, <1>4, <2>1, PieceClosed, Zenon
  <2>3. rres' \in {"failure", Queue!CheckedLength(Len(out'), expected)}
    BY <1>7, Zenon
  <2> QED
    BY <1>2, <1>4, <1>7, <2>2, <2>3, Zenon
<1> QED
  BY <1>2, <1>5, <1>6, <1>7 DEF Queue!RStore

(* A read asks for a full buffer until it meets the end.                   *)
LEMMA QueueFilled ==
  ASSUME Queue!IInv, spc = "fill"
  PROVE  /\ Queue!SyncFileWithBuffer(lastRead, sent, size) = Queue!ReadFile(sent, size)
         /\ Queue!ReadFile(sent, size) \in 0..BufferSize
<1>1. sent <= size /\ (lastRead = BufferSize \/ sent = size)
  BY QueueBefore DEF Queue!Reads
<1>2. /\ sent \in Nat /\ size \in Nat /\ lastRead \in 0..BufferSize
      /\ BufferSize \in Nat \ {0}
  BY QueueBefore
<1>3. Queue!SyncFileWithBuffer(lastRead, sent, size) = Queue!ReadFile(sent, size)
  BY <1>1, <1>2 DEF Queue!SyncFileWithBuffer, Queue!ReadFile
<1> QED
  BY <1>2, <1>3, QueueReadFileBounds

(* What is sent next, and where the sender is then.                        *)
LEMMA QueueSentPiece ==
  ASSUME Queue!IInv, spc = "send"
  PROVE  /\ Queue!Stretch(sent, lastRead) \in Seq(Int)
         /\ sent + lastRead <= size
         /\ lastRead < BufferSize => sent + lastRead = size
         /\ lastRead = Queue!ReadFile(sent, size)
<1>1. sent <= size /\ lastRead = Queue!ReadFile(sent, size) /\ sent \in Nat /\ size \in Nat
  BY QueueBefore DEF Queue!Reads
<1>2. lastRead \in Nat
  BY QueueBefore
<1> QED
  BY <1>1, <1>2, QueueReadFileBounds, QueueStretchSeq

-----------------------------------------------------------------------------
(* The invariant, for each program: its parts about types and control,     *)
(* then those about the messages, one step for each action.                *)

(* Sending a message keeps the types of both queues.                       *)
LEMMA QueuePutType ==
  ASSUME Queue!IInv, NEW m \in Seq(Int), Queue!Put(m)
  PROVE  /\ queue' \in Seq(Seq(Int)) /\ Len(queue') <= QueueCapacity
         /\ old' \in (0..QueueCapacity) \cup {Queue!Unset} /\ name' = name
<1>1. CASE target = "old"
  <2>1. old < QueueCapacity /\ old' = old + 1 /\ UNCHANGED <<name, queue>>
    BY <1>1 DEF Queue!Put
  <2>2. old \in (0..QueueCapacity) \cup {Queue!Unset}
    BY DEF Queue!IInv, Queue!TypeOK
  <2>3. old' \in (0..QueueCapacity) \cup {Queue!Unset}
    BY <2>1, <2>2, QueueBefore
  <2> QED
    BY <2>1, <2>3, QueueBefore
<1>2. CASE target # "old"
  <2>1. Len(queue) < QueueCapacity /\ queue' = Append(queue, m) /\ UNCHANGED <<name, old>>
    BY <1>2 DEF Queue!Put
  <2>2. queue' \in Seq(Seq(Int)) /\ Len(queue') = Len(queue) + 1
    BY <2>1, QueueBefore, QueuePushed
  <2>3. old \in (0..QueueCapacity) \cup {Queue!Unset}
    BY DEF Queue!IInv, Queue!TypeOK
  <2> QED
    BY <2>1, <2>2, <2>3, QueueBefore
<1> QED
  BY <1>1, <1>2

(* The types hold after each step of the sender, then of the receiver.     *)
LEMMA QueueTypeSender ==
  ASSUME Queue!IInv, Queue!SLaunch \/ Queue!SenderStep \/ Queue!SCallFails \/ Queue!SKill
  PROVE  Queue!TypeOK'
<1> USE BufferSizeAssumption, SizesAssumption, RcProgramsAssumption DEF Queue!TypeOK,
        Queue!Outcomes
<1> Queue!TypeOK
  BY DEF Queue!IInv
<1>1. CASE Queue!SLaunch
  BY <1>1, SMT DEF Queue!SLaunch
<1>2. CASE Queue!SFind
  BY <1>2, SMT DEF Queue!SFind
<1>3. CASE Queue!SCheck
  BY <1>3, SMT DEF Queue!SCheck
<1>4. CASE Queue!SOpen
  BY <1>4, SMT DEF Queue!SOpen
<1>5. CASE Queue!SMeasure
  <2>1. toSend' \in Sizes \cup {Queue!Unset}
    BY <1>5, SMT DEF Queue!SMeasure, Queue!AnnouncedSizes
  <2> QED
    BY <1>5, <2>1, SMT DEF Queue!SMeasure
<1>6. CASE Queue!SSendHeader
  <2>1. announced' \in Sizes \cup {Queue!Unset}
    BY <1>6, SMT DEF Queue!SSendHeader, Queue!AnnouncedSizes
  <2>2. /\ queue' \in Seq(Seq(Int)) /\ Len(queue') <= QueueCapacity
        /\ old' \in (0..QueueCapacity) \cup {Queue!Unset} /\ name' = name
    <3>1. CASE UNCHANGED <<name, old, queue>>
      BY <3>1, SMT
    <3>2. CASE Queue!Put(QueueHeaderFor(announced')) /\ announced' \in Sizes
      <4>1. QueueHeaderFor(announced') \in Seq(Int)
        <5>1. PICK n \in Nat : n = announced'
          BY <3>2
        <5> QED
          BY <5>1, QueueHeaderIs, Zenon
      <4> QED
        BY <3>2, <4>1, QueuePutType
    <3> QED
      BY <1>6, <3>1, <3>2 DEF Queue!SSendHeader, QueueHeaderFor, Queue!AnnouncedSizes
  <2>3. spc' \in {"fill", "unlink"} /\ sres' \in Queue!Outcomes
    BY <1>6 DEF Queue!SSendHeader
  <2> QED
    BY <1>6, <2>1, <2>2, <2>3 DEF Queue!SSendHeader
<1>7. CASE Queue!SFill
  <2>1. lastRead' \in 0..BufferSize
    BY <1>7, QueueFilled DEF Queue!SFill
  <2> QED
    BY <1>7, <2>1, SMT DEF Queue!SFill
<1>8. CASE Queue!SSend
  <2>1. Queue!Stretch(sent, lastRead) \in Seq(Int) /\ sent \in Nat /\ lastRead \in Nat
    BY <1>8, QueueSentPiece DEF Queue!SSend
  <2>2. /\ queue' \in Seq(Seq(Int)) /\ Len(queue') <= QueueCapacity
        /\ old' \in (0..QueueCapacity) \cup {Queue!Unset} /\ name' = name
    <3>1. CASE UNCHANGED <<name, old, queue>>
      BY <3>1, SMT
    <3>2. CASE Queue!Put(Queue!Stretch(sent, lastRead))
      BY <2>1, <3>2, QueuePutType
    <3> QED
      BY <1>8, <3>1, <3>2 DEF Queue!SSend
  <2>3. spc' \in {"fill", "unlink"} /\ sres' \in Queue!Outcomes /\ sent' \in Nat
    BY <1>8, <2>1 DEF Queue!SSend
  <2> QED
    BY <1>8, <2>2, <2>3, SMTT(40) DEF Queue!SSend
<1>9. CASE Queue!SUnlink
  BY <1>9, SMT DEF Queue!SUnlink
<1>10. CASE Queue!SCallFails
  BY <1>10, SMT DEF Queue!SCallFails
<1>11. CASE Queue!SKill
  BY <1>11, SMT DEF Queue!SKill
<1> QED
  BY <1>1, <1>2, <1>3, <1>4, <1>5, <1>6, <1>7, <1>8, <1>9, <1>10, <1>11
  DEF Queue!SenderStep

(* The steps of the receiver keep the types.                               *)
LEMMA QueueTypeReceiver ==
  ASSUME Queue!IInv, Queue!RLaunch \/ Queue!ReceiverStep \/ Queue!RCallFails \/ Queue!RKill
  PROVE  Queue!TypeOK'
<1> USE BufferSizeAssumption, SizesAssumption, RcProgramsAssumption DEF Queue!TypeOK,
        Queue!Outcomes
<1> Queue!TypeOK
  BY DEF Queue!IInv
<1>1. CASE Queue!RLaunch
  BY <1>1, SMT DEF Queue!RLaunch
<1>2. CASE Queue!RUnlinkOld
  BY <1>2, SMT DEF Queue!RUnlinkOld
<1>3. CASE Queue!RCreate
  BY <1>3, SMT DEF Queue!RCreate
<1>4. CASE Queue!ROpenFile
  <2>1. present' \in BOOLEAN
    BY <1>4, Zenon DEF Queue!ROpenFile
  <2> QED
    BY <1>4, <2>1, SMT DEF Queue!ROpenFile
<1>5. CASE Queue!RReceiveHeader
  <2>1. CASE Queue!Get
    <3>1. queue # << >> /\ inbox' = Head(queue) /\ queue' = Tail(queue)
      BY <2>1 DEF Queue!Get
    <3>2. /\ inbox' \in Seq(Int) /\ queue' \in Seq(Seq(Int)) /\ Len(queue') <= QueueCapacity
          /\ UNCHANGED <<name, old>>
      BY <2>1, <3>1, QueueBefore, QueuePopped DEF Queue!Get
    <3>3. expected' \in Nat
      BY <1>5, <2>1, <3>1, QueueHeaderReceived DEF Queue!RReceiveHeader
    <3>4. /\ rpc' \in {"receive", "unlink"} /\ rres' \in Queue!Outcomes
          /\ UNCHANGED <<spc, sres, Queue!opened, size, Queue!senderData, out, present>>
      BY <1>5, QueueHeaderKeepsCopy DEF Queue!RReceiveHeader, Queue!CheckedLength
    <3> QED
      BY <3>2, <3>3, <3>4, SMT
  <2>2. CASE ~Queue!Get
    BY <1>5, <2>2, SMTT(40) DEF Queue!RReceiveHeader
  <2> QED
    BY <2>1, <2>2
<1>6. CASE Queue!RReceive
  <2>1. CASE Queue!Get
    <3>1. queue # << >> /\ inbox' = Head(queue) /\ queue' = Tail(queue)
      BY <2>1 DEF Queue!Get
    <3>2. /\ inbox' \in Seq(Int) /\ queue' \in Seq(Seq(Int)) /\ Len(queue') <= QueueCapacity
          /\ UNCHANGED <<name, old>>
      BY <2>1, <3>1, QueueBefore, QueuePopped DEF Queue!Get
    <3>3. /\ rpc' = "store"
          /\ UNCHANGED <<spc, Queue!outcomes, Queue!opened, size, Queue!senderData, expected,
                         out, present>>
      BY <1>6, <3>1 DEF Queue!RReceive
    <3> QED
      BY <3>2, <3>3, SMT
  <2>2. CASE ~Queue!Get
    BY <1>6, <2>2, SMTT(40) DEF Queue!RReceive
  <2> QED
    BY <2>1, <2>2
<1>7. CASE Queue!RStore
  <2>1. /\ rpc' \in {"receive", "unlink"} /\ rres' \in Queue!Outcomes /\ out' \in Seq(Int)
        /\ UNCHANGED <<spc, sres, name, old, queue, checked, target, size, toSend,
                       announced, sent, lastRead, expected, inbox, present>>
    BY <1>7, QueueStores DEF Queue!CheckedLength
  <2> QED
    BY <2>1, SMTT(40)
<1>8. CASE Queue!RUnlink
  BY <1>8, SMT DEF Queue!RUnlink
<1>9. CASE Queue!RRemove
  <2>1. present' \in BOOLEAN
    BY <1>9, Zenon DEF Queue!RRemove
  <2> QED
    BY <1>9, <2>1, SMT DEF Queue!RRemove
<1>10. CASE Queue!RCallFails
  BY <1>10, SMT DEF Queue!RCallFails
<1>11. CASE Queue!RKill
  BY <1>11, SMT DEF Queue!RKill
<1> QED
  BY <1>1, <1>2, <1>3, <1>4, <1>5, <1>6, <1>7, <1>8, <1>9, <1>10, <1>11
  DEF Queue!ReceiverStep

(* What the programs look at, and what their results mean.                 *)
LEMMA QueueControlSender ==
  ASSUME Queue!IInv, Queue!SLaunch \/ Queue!SenderStep \/ Queue!SCallFails \/ Queue!SKill
  PROVE  Queue!TwoQueues' /\ Queue!NothingSent' /\ Queue!Results' /\ Queue!NameGone'
<1> /\ spc \in Queue!SenderLabels /\ rpc \in Queue!ReceiverLabels
    /\ sres \in Queue!Outcomes /\ rres \in Queue!Outcomes
    /\ name \in Queue!Queues /\ checked \in Queue!Queues /\ target \in Queue!Queues
    /\ size \in Nat /\ sent \in Nat /\ BufferSize \in Nat \ {0}
    /\ toSend \in Nat \cup {Queue!Unset} /\ announced \in Nat \cup {Queue!Unset}
    /\ expected \in Nat \cup {Queue!Unset} /\ Len(out) \in Nat
    /\ old \in Nat \cup {Queue!Unset}
    /\ Queue!TwoQueues /\ Queue!NothingSent /\ Queue!Results /\ Queue!NameGone
  BY QueueBefore
<1> USE DEF Queue!TwoQueues, Queue!NothingSent, Queue!Results, Queue!NameGone, Queue!Outcomes
<1>1. CASE Queue!SLaunch
  BY <1>1 DEF Queue!SLaunch
<1>2. CASE Queue!SFind
  BY <1>2 DEF Queue!SFind
<1>3. CASE Queue!SCheck
  BY <1>3 DEF Queue!SCheck
<1>4. CASE Queue!SOpen
  BY <1>4 DEF Queue!SOpen
<1>5. CASE Queue!SMeasure
  BY <1>5, SizesAssumption, QueueBefore DEF Queue!SMeasure, Queue!AnnouncedSizes
<1>6. CASE Queue!SSendHeader
  BY <1>6, QueueBefore, SMTT(40)
  DEF Queue!SSendHeader, Queue!AnnouncedSizes, Queue!Put, Queue!SendsMore
<1>7. CASE Queue!SFill
  BY <1>7 DEF Queue!SFill
<1>8. CASE Queue!SSend
  <2>1. lastRead \in Nat /\ announced # Queue!Unset
    BY <1>8, QueueBefore DEF Queue!SSend
  <2>2. CASE Queue!Put(Queue!Stretch(sent, lastRead))
    <3>1. /\ target \in {"old", "new"} /\ UNCHANGED <<name, Queue!opened, toSend, announced>>
          /\ target # "new" => queue' = queue
          /\ old # Queue!Unset => old' # Queue!Unset
      BY <1>8, <2>2 DEF Queue!SSend, Queue!Put
    <3>2. PICK total \in Nat : total = sent + lastRead
      BY <2>1
    <3>3. /\ spc = "send" /\ sent' = total
          /\ UNCHANGED <<rpc, rres, size, Queue!receiverData, lastRead>>
          /\ \/ spc' = "fill" /\ total < toSend /\ sres' = sres
             \/ spc' = "unlink" /\ ~(total < toSend) /\ sres' = "success"
      BY <1>8, <2>2, <3>2, QueueBefore DEF Queue!SSend, Queue!SendsMore, Queue!Put, Queue!Holds
    <3>4. CASE spc' = "fill"
      <4>1. Queue!TwoQueues' /\ Queue!NothingSent'
        BY <2>1, <3>1, <3>3, <3>4
      <4>2. Queue!Results' /\ Queue!NameGone'
        BY <2>1, <3>1, <3>3, <3>4
      <4> QED
        BY <4>1, <4>2
    <3>5. CASE spc' = "unlink"
      <4>1. Queue!TwoQueues' /\ Queue!NothingSent'
        BY <2>1, <3>1, <3>3, <3>5
      <4>2. Queue!Results' /\ Queue!NameGone'
        BY <2>1, <3>1, <3>3, <3>5
      <4> QED
        BY <4>1, <4>2
    <3> QED
      BY <3>3, <3>4, <3>5
  <2>3. CASE ~Queue!Put(Queue!Stretch(sent, lastRead))
    BY <1>8, <2>3 DEF Queue!SSend
  <2> QED
    BY <2>2, <2>3
<1>9. CASE Queue!SUnlink
  BY <1>9 DEF Queue!SUnlink
<1>10. CASE Queue!SCallFails
  BY <1>10 DEF Queue!SCallFails
<1>11. CASE Queue!SKill
  BY <1>11 DEF Queue!SKill
<1> QED
  BY <1>1, <1>2, <1>3, <1>4, <1>5, <1>6, <1>7, <1>8, <1>9, <1>10, <1>11
  DEF Queue!SenderStep

(* What is said of turns, queues and names: the steps of the receiver keep *)
(* it.                                                                     *)
LEMMA QueueControlReceiver ==
  ASSUME Queue!IInv, Queue!RLaunch \/ Queue!ReceiverStep \/ Queue!RCallFails \/ Queue!RKill
  PROVE  Queue!TwoQueues' /\ Queue!NothingSent' /\ Queue!Results' /\ Queue!NameGone'
<1> /\ spc \in Queue!SenderLabels /\ rpc \in Queue!ReceiverLabels
    /\ sres \in Queue!Outcomes /\ rres \in Queue!Outcomes
    /\ name \in Queue!Queues /\ checked \in Queue!Queues /\ target \in Queue!Queues
    /\ size \in Nat /\ sent \in Nat /\ BufferSize \in Nat \ {0}
    /\ toSend \in Nat \cup {Queue!Unset} /\ announced \in Nat \cup {Queue!Unset}
    /\ expected \in Nat \cup {Queue!Unset} /\ Len(out) \in Nat
    /\ old \in Nat \cup {Queue!Unset}
    /\ Queue!TwoQueues /\ Queue!NothingSent /\ Queue!Results /\ Queue!NameGone
  BY QueueBefore
<1> USE DEF Queue!TwoQueues, Queue!NothingSent, Queue!Results, Queue!NameGone, Queue!Outcomes
<1>1. CASE Queue!RLaunch
  BY <1>1 DEF Queue!RLaunch
<1>2. CASE Queue!RUnlinkOld
  BY <1>2 DEF Queue!RUnlinkOld
<1>3. CASE Queue!RCreate
  BY <1>3 DEF Queue!RCreate
<1>4. CASE Queue!ROpenFile
  BY <1>4 DEF Queue!ROpenFile
<1>5. CASE Queue!RReceiveHeader
  <2>1. CASE queue # << >>
    <3>1. /\ expected' = announced /\ announced \in Nat /\ target = "new"
          /\ spc \notin Queue!NotSent
          /\ UNCHANGED <<spc, sres, name, old, Queue!opened, size, Queue!senderData, out, present>>
      BY <1>5, <2>1, QueueHeaderReceived, QueueHeaderKeepsCopy
      DEF Queue!RReceiveHeader, Queue!Get
    <3>2. \/ rpc' = "receive" /\ Len(out) < announced /\ rres' = rres
          \/ rpc' = "unlink" /\ rres' = Queue!CheckedLength(Len(out), announced)
      BY <1>5, <2>1, <3>1, QueueHeaderReceived DEF Queue!RReceiveHeader, Queue!Get,
         Queue!ReceivesMore
    <3>3. rpc = "receiveHeader" /\ UNCHANGED out
      BY <1>5, <3>1 DEF Queue!RReceiveHeader
    <3>4. CASE rpc' = "receive"
      BY <3>1, <3>2, <3>3, <3>4
    <3>5. CASE rpc' = "unlink"
      <4>1. rres' \in {"success", "failure"} /\ (rres' = "success" => expected' = Len(out'))
        BY <3>1, <3>2, <3>3, <3>5 DEF Queue!CheckedLength
      <4> QED
        BY <3>1, <3>3, <3>5, <4>1
    <3> QED
      BY <3>2, <3>4, <3>5
  <2>2. CASE queue = << >>
    BY <1>5, <2>2 DEF Queue!RReceiveHeader, Queue!Get
  <2> QED
    BY <2>1, <2>2
<1>6. CASE Queue!RReceive
  <2>1. CASE queue # << >>
    <3>1. /\ rpc' = "store" /\ target = "new" /\ announced # Queue!Unset
          /\ UNCHANGED <<spc, Queue!outcomes, name, old, Queue!opened, size,
                         Queue!senderData, expected, out, present>>
      BY <1>6, <2>1 DEF Queue!RReceive, Queue!Get
    <3> QED
      BY <1>6, <3>1 DEF Queue!RReceive
  <2>2. CASE queue = << >>
    BY <1>6, <2>2 DEF Queue!RReceive, Queue!Get
  <2> QED
    BY <2>1, <2>2
<1>7. CASE Queue!RStore
  <2>1. /\ rpc = "store"
        /\ UNCHANGED <<spc, sres, name, old, queue, checked, target, size, toSend,
                       announced, sent, lastRead, expected, inbox, present>>
        /\ \/ rpc' = "receive" /\ rres' = rres /\ Len(out') < expected
           \/ rpc' = "unlink" /\ rres' \in {"failure", Queue!CheckedLength(Len(out'), expected)}
    BY <1>7, QueueStores
  <2>2. CASE rpc' = "receive"
    BY <2>1, <2>2
  <2>3. CASE rpc' = "unlink"
    <3>1. rres' \in {"success", "failure"} /\ (rres' = "success" => expected' = Len(out'))
      BY <2>1, <2>3 DEF Queue!CheckedLength
    <3>2. expected # Queue!Unset
      BY <2>1, QueueStoredPiece
    <3> QED
      BY <2>1, <2>3, <3>1, <3>2
  <2> QED
    BY <2>1, <2>2, <2>3
<1>8. CASE Queue!RUnlink
  BY <1>8 DEF Queue!RUnlink
<1>9. CASE Queue!RRemove
  BY <1>9 DEF Queue!RRemove
<1>10. CASE Queue!RCallFails
  BY <1>10 DEF Queue!RCallFails
<1>11. CASE Queue!RKill
  BY <1>11 DEF Queue!RKill
<1> QED
  BY <1>1, <1>2, <1>3, <1>4, <1>5, <1>6, <1>7, <1>8, <1>9, <1>10, <1>11
  DEF Queue!ReceiverStep

(* The parts of the invariant that are about the messages.                 *)
QueueStream == Queue!InTransit /\ Queue!Reads /\ Queue!Prefix

(* A sender that puts nothing and does not go on leaves them alone.        *)
LEMMA QueueSenderRests ==
  ASSUME Queue!IInv, spc' \notin Queue!Sending,
         UNCHANGED <<rpc, queue, size, sent, out, inbox, announced>>,
         target' = target \/ announced = Queue!Unset,
         spc' \in {"open", "measure", "sendHeader"} => Queue!Reads',
         sres' = "success" => sres = "success"
  PROVE  QueueStream'
<1>1. Queue!InTransit'
  <2>1. CASE target' = target
    BY <2>1, QueueBefore DEF Queue!InTransit, Queue!Piece, Queue!Reached, Queue!Headers,
       Queue!Ahead
  <2>2. CASE announced = Queue!Unset
    <3>1. queue' = << >> /\ Queue!Headers' = 0 /\ rpc \notin Queue!Receiving
      BY <2>2, QueueBefore DEF Queue!NothingSent, Queue!Headers
    <3> QED
      BY <3>1 DEF Queue!InTransit
  <2> QED
    BY <2>1, <2>2
<1>2. Queue!Reads'
  BY QueueBefore DEF Queue!Reads
<1>3. Queue!Prefix'
  BY QueueBefore DEF Queue!Prefix
<1> QED
  BY <1>1, <1>2, <1>3 DEF QueueStream

(* So does a receiver that takes nothing and waits for no data.            *)
LEMMA QueueReceiverRests ==
  ASSUME Queue!IInv, rpc' \notin Queue!Receiving,
         rpc' \in Queue!NotReceived => rpc \in Queue!NotReceived,
         UNCHANGED <<spc, sres, old, queue, checked, target, size, announced, sent, lastRead,
                     out, inbox>>
  PROVE  QueueStream'
<1>1. Queue!InTransit'
  <2>1. CASE rpc' \in Queue!NotReceived
    <3>1. Queue!Headers' = Queue!Headers /\ Queue!Reached' = Queue!Reached
          /\ Queue!Ahead' = Queue!Ahead
      BY <2>1, QueueBefore DEF Queue!Headers, Queue!Reached, Queue!Ahead
    <3> QED
      BY <2>1, <3>1, QueueBefore DEF Queue!InTransit, Queue!Piece
  <2>2. CASE rpc' \notin Queue!NotReceived
    BY <2>2 DEF Queue!InTransit
  <2> QED
    BY <2>1, <2>2
<1>2. Queue!Reads'
  BY QueueBefore DEF Queue!Reads
<1>3. Queue!Prefix'
  BY QueueBefore DEF Queue!Prefix
<1> QED
  BY <1>1, <1>2, <1>3 DEF QueueStream

(* The header is put into the new queue, which is empty, or lost in an old *)
(* one.                                                                    *)
LEMMA QueueHeaderPut ==
  ASSUME Queue!IInv, spc = "sendHeader", announced' \in Nat, Queue!Put(QueueHeaderFor(announced')),
         \/ spc' = "fill" /\ sres' = sres
         \/ spc' = "unlink",
         UNCHANGED <<rpc, target, size, sent, lastRead, out, inbox>>
  PROVE  QueueStream'
<1>1. /\ queue = << >> /\ Len(queue) = 0 /\ rpc \notin Queue!Receiving
      /\ sent = 0 /\ lastRead = BufferSize /\ sres # "success"
      /\ BufferSize \in Nat \ {0} /\ size \in Nat /\ QueueCapacity \in Nat \ {0}
      /\ rpc \in Queue!NotReceived => out = << >> /\ Len(out) = 0
      /\ Len(out) \in Nat
  BY QueueBefore DEF Queue!NothingSent, Queue!Results
<1>2. Queue!Prefix'
  BY QueueBefore DEF Queue!Prefix
<1>3. CASE target = "new"
  <2>1. queue' = <<QueueHeaderFor(announced')>>
    BY <1>1, <1>3 DEF Queue!Put
  <2>2. Len(queue') = 1 /\ queue'[1] = QueueHeaderFor(announced') /\ queue' # << >>
    BY <2>1
  <2>3. Queue!InTransit'
    <3>1. SUFFICES ASSUME rpc \in Queue!NotReceived PROVE Queue!InTransit'
      BY <1>1 DEF Queue!InTransit
    <3>2. Queue!Headers' = 1
      BY <3>1, <1>1 DEF Queue!Headers
    <3>3. Queue!Reached' = 0
      BY <1>1, <3>1 DEF Queue!Reached
    <3>4. Queue!Ahead' = 0
      BY <1>1, <2>2, <3>2 DEF Queue!Ahead
    <3> QED
      BY <1>1, <2>2, <3>1, <3>2, <3>3, <3>4 DEF Queue!InTransit, QueueHeaderFor
  <2>4. Queue!Reads'
    <3>1. (Len(queue') + 1) * BufferSize \in Nat /\ (QueueCapacity + 1) * BufferSize \in Nat
      BY <1>1, <2>2
    <3>2. sent' <= Len(out') + (Len(queue') + 1) * BufferSize
      BY <1>1, <3>1
    <3>3. sent' <= Len(out') + (QueueCapacity + 1) * BufferSize
      BY <1>1, <3>1
    <3> QED
      BY <1>1, <1>3, <3>2, <3>3 DEF Queue!Reads
  <2> QED
    BY <1>2, <2>3, <2>4 DEF QueueStream
<1>4. CASE target # "new"
  <2>1. target = "old" /\ old = 0 /\ old' = 1
    BY <1>4, QueueBefore DEF Queue!Put, Queue!Reads
  <2>2. Queue!InTransit'
    BY <1>4 DEF Queue!InTransit
  <2>3. old' * BufferSize = BufferSize
    BY <1>1, <2>1
  <2>4. (QueueCapacity + 1) * BufferSize \in Nat
    BY <1>1
  <2>5. Queue!Reads'
    BY <1>1, <2>1, <2>3, <2>4 DEF Queue!Reads
  <2> QED
    BY <1>2, <2>2, <2>5 DEF QueueStream
<1> QED
  BY <1>3, <1>4

(* A read gets the piece the sender will put next.                         *)
LEMMA QueueBufferFilled ==
  ASSUME Queue!IInv, spc = "fill", spc' = "send",
         lastRead' = Queue!SyncFileWithBuffer(lastRead, sent, size),
         UNCHANGED <<rpc, sres, old, queue, checked, target, size, announced, sent,
                     out, inbox>>
  PROVE  QueueStream'
<1>1. Queue!InTransit'
  BY QueueBefore DEF Queue!InTransit, Queue!Piece, Queue!Reached, Queue!Headers, Queue!Ahead
<1>2. lastRead' = Queue!ReadFile(sent, size)
  BY QueueFilled
<1>3. Queue!Reads'
  BY <1>2, QueueBefore DEF Queue!Reads
<1>4. Queue!Prefix'
  BY QueueBefore DEF Queue!Prefix
<1> QED
  BY <1>1, <1>3, <1>4 DEF QueueStream

(* The messages after the first h are the pieces after the first k bytes.  *)
QueuePieceOf(k, length) == LET from == IF k < length THEN k ELSE length
                      IN  Queue!Stretch(from, Queue!ReadFile(from, length))
QueuePieces(messages, h, k, length) ==
  \A i \in (h + 1)..Len(messages) :
    messages[i] = QueuePieceOf(k + (i - h - 1) * BufferSize, length)

(* The messages on the way and the one being stored are pieces of the      *)
(* source.                                                                 *)
LEMMA QueuePiecesBefore ==
  ASSUME Queue!IInv, target = "new", rpc \in Queue!NotReceived \cup Queue!Receiving
  PROVE  /\ QueuePieces(queue, Queue!Headers, Queue!Reached, size)
         /\ rpc = "store" => inbox = QueuePieceOf(Len(out), size)
  BY QueueBefore DEF Queue!InTransit, Queue!Piece, QueuePieces, QueuePieceOf

(* Pieces of the source on the way are all that the invariant asks for.    *)
LEMMA QueuePiecesAfter ==
  ASSUME QueuePieces(queue', Queue!Headers', Queue!Reached', size'),
         rpc' = "store" => inbox' = QueuePieceOf(Len(out)', size'),
         Queue!Headers' = 1 =>
           /\ queue' # << >>
           /\ queue'[1] = [i \in 1..BufferSize |-> Queue!HeaderByte(announced')],
         rpc' \in {"receive", "store"} => Len(out)' % BufferSize = 0,
         spc' \in Queue!Sending =>
           sent' = IF Queue!Reached' + Queue!Ahead' < size'
                   THEN Queue!Reached' + Queue!Ahead' ELSE size'
  PROVE  Queue!InTransit'
  BY DEF Queue!InTransit, Queue!Piece, QueuePieces, QueuePieceOf

(* How far the messages in the new queue go.                               *)
LEMMA QueueAheadIs ==
  ASSUME Queue!IInv, target = "new", rpc \in Queue!NotReceived \cup Queue!Receiving
  PROVE  /\ Queue!Headers \in {0, 1} /\ Queue!Headers <= Len(queue)
         /\ Queue!Reached \in Nat
         /\ Queue!Ahead \in Nat
<1>1. Queue!Headers = 1 => queue # << >>
  BY QueueBefore DEF Queue!InTransit
<1>2. queue # << >> => Len(queue) >= 1
  BY QueueBefore, EmptySeq
<1>3. Queue!Headers \in {0, 1}
  BY DEF Queue!Headers
<1>4. Queue!Reached \in Nat
  BY QueueBefore DEF Queue!Reached
<1>5. Queue!Headers <= Len(queue)
  BY <1>1, <1>2, <1>3, QueueBefore
<1>6. Queue!Ahead \in Nat
  <2>1. PICK k \in Nat : k = Len(queue) - Queue!Headers
    <3>1. PICK h \in {0, 1} : h = Queue!Headers
      BY <1>3
    <3>2. PICK n \in Nat : n = Len(queue)
      BY QueueBefore
    <3>3. n - h \in Nat
      BY <1>5, <3>1, <3>2
    <3> QED
      BY <3>1, <3>2, <3>3
  <2>2. Queue!Ahead = k * BufferSize
    BY <2>1 DEF Queue!Ahead
  <2>3. BufferSize \in Nat
    BY BufferSizeAssumption
  <2>4. k * BufferSize \in Nat
    BY <2>3
  <2> QED
    BY <2>2, <2>4
<1> QED
  BY <1>3, <1>4, <1>5, <1>6

(* One buffer further.                                                     *)
LEMMA QueueOneMore ==
  ASSUME NEW b \in Nat \ {0}, NEW n \in Nat
  PROVE  /\ n * b \in Nat /\ (n + 1) * b \in Nat /\ (n + 2) * b \in Nat
         /\ (n + 1) * b = n * b + b /\ (n + 2) * b = (n + 1) * b + b
         /\ \A c \in Nat : n < c => (n + 1) * b <= c * b
<1>1. n * b \in Nat /\ (n + 1) * b = n * b + b
      /\ \A c \in Nat : n < c => n * b + b <= c * b
  BY QueueMultiples
<1>2. PICK m \in Nat : m = n + 1
  OBVIOUS
<1>3. (m + 1) * b = m * b + b
  BY QueueMultiples
<1>4. n + 2 = m + 1
  BY <1>2
<1>5. (n + 2) * b = (n + 1) * b + b
  BY <1>2, <1>3, <1>4, Zenon
<1>6. (n + 1) * b \in Nat
  BY <1>1
<1>7. (n + 2) * b \in Nat
  BY <1>5, <1>6
<1> QED
  BY <1>1, <1>5, <1>6, <1>7

(* A piece is put behind those on the way, or lost in an old queue.        *)
LEMMA QueuePiecePut ==
  ASSUME Queue!IInv, spc = "send", Queue!Put(Queue!Stretch(sent, lastRead)),
         sent' = sent + lastRead,
         \/ spc' = "fill" /\ sres' = sres
         \/ spc' = "unlink",
         UNCHANGED <<rpc, checked, target, size, announced, lastRead, out, inbox>>
  PROVE  QueueStream'
<1> DEFINE B == BufferSize
           s == sent + lastRead
<1>1. /\ sent \in Nat /\ lastRead \in Nat /\ s \in Nat /\ s <= size /\ size \in Nat
      /\ lastRead < B => s = size
      /\ lastRead = Queue!ReadFile(sent, size) /\ lastRead <= B
      /\ B \in Nat \ {0} /\ QueueCapacity \in Nat \ {0}
      /\ announced \in Nat /\ sres = "none"
      /\ Queue!Stretch(sent, lastRead) \in Seq(Int)
  BY QueueBefore, QueueSentPiece, SMTT(40) DEF Queue!NothingSent, Queue!Results
<1>2. Queue!Prefix'
  BY QueueBefore DEF Queue!Prefix
<1>3. /\ Len(out) \in Nat /\ Len(queue) \in Nat /\ queue \in Seq(Seq(Int))
      /\ (QueueCapacity + 1) * B \in Nat /\ (QueueCapacity + 1) * B = QueueCapacity * B + B
      /\ QueueCapacity * B \in Nat
  BY <1>1, QueueBefore, QueueOneMore
<1>4. CASE target = "new"
  <2>1. /\ Len(queue) < QueueCapacity /\ queue' = Append(queue, Queue!Stretch(sent, lastRead))
        /\ UNCHANGED <<name, old>>
    BY <1>4 DEF Queue!Put
  <2>2. /\ queue' # << >> /\ Len(queue') = Len(queue) + 1
        /\ queue'[Len(queue) + 1] = Queue!Stretch(sent, lastRead)
        /\ \A i \in 1..Len(queue) : queue'[i] = queue[i]
    BY <1>1, <1>3, <2>1, QueuePushed
  <2>3. Queue!InTransit'
    <3>1. SUFFICES ASSUME rpc \in Queue!NotReceived \cup Queue!Receiving PROVE Queue!InTransit'
      BY <1>4 DEF Queue!InTransit
    <3>2. PICK h \in {0, 1} : h = Queue!Headers
      BY <1>4, <3>1, QueueAheadIs
    <3>3. PICK r \in Nat : r = Queue!Reached
      BY <1>4, <3>1, QueueAheadIs
    <3>4. PICK n \in Nat : n = Len(queue)
      BY <1>3
    <3>5. h <= n
      BY <1>4, <3>1, <3>2, <3>4, QueueAheadIs
    <3>6. PICK k \in Nat : k = n - h
      BY <3>5
    <3>7. Queue!Ahead = k * B
      BY <3>2, <3>4, <3>6 DEF Queue!Ahead
    <3>8. /\ h = 1 => /\ queue # << >>
                      /\ queue[1] = [i \in 1..BufferSize |-> Queue!HeaderByte(announced)]
          /\ \A i \in (h + 1)..n : queue[i] = Queue!Piece(r + (i - h - 1) * B)
          /\ rpc = "receive" => Len(out) % B = 0
          /\ rpc = "store" => inbox = Queue!Piece(Len(out)) /\ Len(out) % B = 0
          /\ sent = IF r + k * B < size THEN r + k * B ELSE size
      BY <1>4, <3>1, <3>2, <3>3, <3>4, <3>7, QueueBefore DEF Queue!InTransit
    <3>9. k * B \in Nat /\ (k + 1) * B = k * B + B
      BY <1>1, QueueOneMore
    <3>10. Queue!Headers' = h /\ Queue!Reached' = r /\ Len(queue') = n + 1
      BY <2>2, <3>2, <3>3, <3>4, Zenon DEF Queue!Headers, Queue!Reached
    <3>11. Queue!Ahead' = (k + 1) * B
      <4>1. (n + 1) - h = k + 1
        BY <3>6
      <4> QED
        BY <3>10, <4>1, Zenon DEF Queue!Ahead
    <3>12. h = 1 => queue'[1] = queue[1]
      BY <2>2, <3>4, <3>5
    <3>13. ASSUME NEW i \in (h + 1)..(n + 1)
           PROVE  queue'[i] = Queue!Piece(r + (i - h - 1) * B)
      <4>1. CASE i \in (h + 1)..n
        <5>1. queue'[i] = queue[i]
          BY <2>2, <3>4, <4>1
        <5> QED
          BY <3>8, <4>1, <5>1
      <4>2. CASE i = n + 1
        <5>1. i - h - 1 = k
          BY <3>6, <4>2
        <5>2. Queue!Piece(r + k * B) = Queue!Stretch(sent, lastRead)
          <6>1. PICK z \in Nat : z = r + k * B
            BY <3>9
          <6>2. sent = IF z < size THEN z ELSE size
            BY <3>8, <6>1
          <6> QED
            BY <1>1, <6>1, <6>2 DEF Queue!Piece
        <5> QED
          BY <2>2, <3>4, <4>2, <5>1, <5>2
      <4> QED
        BY <4>1, <4>2
    <3>14. s = IF r + (k + 1) * B < size THEN r + (k + 1) * B ELSE size
      <4>1. PICK y \in Nat : y = k * B
        BY <3>9
      <4>2. PICK z \in Nat : z = (k + 1) * B
        BY <3>9, <1>1
      <4>3. z = y + B
        BY <3>9, <4>1, <4>2, Zenon
      <4>4. sent = IF r + y < size THEN r + y ELSE size
        BY <3>8, <4>1, Zenon
      <4>5. s = IF r + z < size THEN r + z ELSE size
        BY <1>1, <4>3, <4>4
      <4> QED
        BY <4>2, <4>5, Zenon
    <3>15. QueuePieces(queue', h, r, size)
      BY <3>10, <3>13 DEF QueuePieces, Queue!Piece, QueuePieceOf
    <3>16. QueuePieces(queue', Queue!Headers', Queue!Reached', size')
      BY <3>10, <3>15, Zenon
    <3>17. sent' = IF Queue!Reached' + Queue!Ahead' < size'
                   THEN Queue!Reached' + Queue!Ahead' ELSE size'
      BY <3>10, <3>11, <3>14, Zenon
    <3>18. Queue!Headers' = 1 =>
             /\ queue' # << >>
             /\ queue'[1] = [i \in 1..BufferSize |-> Queue!HeaderByte(announced')]
      BY <2>2, <3>8, <3>10, <3>12, Zenon
    <3>19. /\ rpc' = "store" => inbox' = QueuePieceOf(Len(out)', size')
           /\ rpc' \in {"receive", "store"} => Len(out)' % BufferSize = 0
      BY <3>8 DEF Queue!Piece, QueuePieceOf
    <3> QED
      BY <3>16, <3>17, <3>18, <3>19, QueuePiecesAfter
  <2>4. Queue!Reads'
    <3>1. PICK n \in Nat : n = Len(queue)
      BY <1>3
    <3>2. PICK u \in Nat : u = Len(out)
      BY <1>3
    <3>3. sent <= u + (n + 1) * B
      BY <1>4, <3>1, <3>2, QueueBefore DEF Queue!Reads
    <3>4. /\ (n + 1) * B \in Nat /\ (n + 2) * B = (n + 1) * B + B
          /\ (n + 1) * B <= QueueCapacity * B
      BY <1>1, <2>1, <3>1, QueueOneMore
    <3>5. s <= u + (n + 2) * B /\ s <= u + (QueueCapacity + 1) * B
      <4>1. PICK y \in Nat : y = (n + 1) * B
        BY <3>4
      <4>2. PICK z \in Nat : z = QueueCapacity * B
        BY <1>3
      <4>3. sent <= u + y /\ y <= z
        BY <3>3, <3>4, <4>1, <4>2, Zenon
      <4>4. sent + lastRead <= u + (y + B) /\ sent + lastRead <= u + (z + B)
        BY <1>1, <4>3
      <4> QED
        BY <1>3, <3>4, <4>1, <4>2, <4>4, Zenon
    <3>6. n + 2 = Len(queue') + 1
      BY <2>2, <3>1
    <3>7. sent' <= Len(out') + (Len(queue') + 1) * B
      BY <3>2, <3>5, <3>6, Zenon
    <3>8. sent' <= Len(out') + (QueueCapacity + 1) * B
      BY <3>2, <3>5, Zenon
    <3>9. sent' <= size' /\ (lastRead' = B \/ sent' = size')
      BY <1>1
    <3> QED
      BY <1>1, <1>4, <3>7, <3>8, <3>9 DEF Queue!Reads
  <2> QED
    BY <1>2, <2>3, <2>4 DEF QueueStream
<1>5. CASE target # "new"
  <2>1. target = "old" /\ old < QueueCapacity /\ old' = old + 1 /\ old \in Nat
    BY <1>5, QueueBefore DEF Queue!Put, Queue!TwoQueues
  <2>2. Queue!InTransit'
    BY <1>5 DEF Queue!InTransit
  <2>3. Queue!Reads'
    <3>1. PICK n \in Nat : n = old
      BY <2>1
    <3>2. PICK u \in Nat : u = Len(out)
      BY <1>3
    <3>3. sent + B <= n * B
      BY <2>1, <3>1, QueueBefore DEF Queue!Reads
    <3>4. /\ n * B \in Nat /\ (n + 1) * B = n * B + B
          /\ (n + 1) * B <= QueueCapacity * B
      BY <1>1, <2>1, <3>1, QueueOneMore
    <3>5. s + B <= (n + 1) * B /\ s <= u + (QueueCapacity + 1) * B
      <4>1. PICK y \in Nat : y = n * B
        BY <3>4
      <4>2. PICK z \in Nat : z = QueueCapacity * B
        BY <1>3
      <4>3. sent + B <= y /\ y + B <= z
        BY <3>3, <3>4, <4>1, <4>2, Zenon
      <4>4. sent + lastRead + B <= y + B /\ sent + lastRead <= u + (z + B)
        BY <1>1, <4>3
      <4> QED
        BY <1>3, <3>4, <4>1, <4>2, <4>4, Zenon
    <3>6. sent' + B <= old' * B
      BY <2>1, <3>1, <3>5, Zenon
    <3>7. sent' <= Len(out') + (QueueCapacity + 1) * B
      BY <3>2, <3>5, Zenon
    <3>8. sent' <= size' /\ (lastRead' = B \/ sent' = size')
      BY <1>1
    <3> QED
      BY <1>1, <2>1, <3>6, <3>7, <3>8 DEF Queue!Reads
  <2> QED
    BY <1>2, <2>2, <2>3 DEF QueueStream
<1> QED
  BY <1>4, <1>5

(* The receiver takes the header: the pieces follow what it has stored,    *)
(* nothing.                                                                *)
LEMMA QueueHeaderTaken ==
  ASSUME Queue!IInv, rpc = "receiveHeader", queue # << >>, queue' = Tail(queue),
         rpc' \in {"receive", "unlink"},
         UNCHANGED <<spc, sres, old, checked, target, size, announced, sent, lastRead, out>>
  PROVE  QueueStream'
<1> DEFINE B == BufferSize
<1>1. Queue!Prefix'
  BY QueueBefore DEF Queue!Prefix
<1>2. /\ target = "new" /\ Queue!Headers = 1 /\ announced \in Nat /\ B \in Nat \ {0}
      /\ out = << >> /\ Len(out) = 0 /\ Queue!Reached = 0 /\ size \in Nat /\ sent \in Nat
  BY QueueHeaderReceived, QueueBefore DEF Queue!NothingSent, Queue!Reached
<1>3. /\ Len(queue) \in Nat /\ Len(queue) >= 1 /\ Len(queue') = Len(queue) - 1
      /\ \A i \in 1..(Len(queue) - 1) : queue'[i] = queue[i + 1]
  BY QueueBefore, QueuePopped
<1>4. PICK n \in Nat : n = Len(queue')
  <2>1. Len(queue) - 1 \in Nat
    BY <1>3
  <2> QED
    BY <1>3, <2>1, Zenon
<1>5. Len(queue) = n + 1
  BY <1>3, <1>4
<1>6. Queue!Ahead = n * B /\ n * B \in Nat /\ (n + 1) * B = n * B + B
  <2>1. (n + 1) - 1 = n
    OBVIOUS
  <2>2. Queue!Ahead = n * B
    BY <1>2, <1>5, <2>1, Zenon DEF Queue!Ahead
  <2> QED
    BY <1>2, <2>2, QueueOneMore
<1>7. spc \in Queue!Sending => sent = IF n * B < size THEN n * B ELSE size
  BY <1>2, <1>6, QueueBefore DEF Queue!InTransit
<1>8. Queue!InTransit'
  <2>1. SUFFICES ASSUME rpc' = "receive" PROVE Queue!InTransit'
    BY DEF Queue!InTransit
  <2>2. Queue!Headers' = 0 /\ Queue!Reached' = 0
    BY <1>2, <2>1 DEF Queue!Headers, Queue!Reached
  <2>3. Queue!Ahead' = n * B
    <3>1. n - 0 = n
      OBVIOUS
    <3> QED
      BY <1>4, <2>2, <3>1, Zenon DEF Queue!Ahead
  <2>4. QueuePieces(queue', 0, 0, size)
    <3>1. QueuePieces(queue, 1, 0, size)
      BY <1>2, QueuePiecesBefore
    <3>2. \A i \in (1 + 1)..(n + 1) : queue[i] = QueuePieceOf(0 + (i - 1 - 1) * B, size)
      BY <1>5, <3>1, Zenon DEF QueuePieces
    <3>3. ASSUME NEW i \in (0 + 1)..n
          PROVE  queue'[i] = QueuePieceOf(0 + (i - 0 - 1) * B, size)
      <4>1. queue'[i] = queue[i + 1]
        BY <1>3, <1>5
      <4>2. i + 1 \in (1 + 1)..(n + 1) /\ (i + 1) - 1 - 1 = i - 0 - 1
        OBVIOUS
      <4> QED
        BY <3>2, <4>1, <4>2, Zenon
    <3> QED
      BY <1>4, <3>3 DEF QueuePieces
  <2>5. QueuePieces(queue', Queue!Headers', Queue!Reached', size')
    BY <2>2, <2>4, Zenon
  <2>6. spc' \in Queue!Sending =>
          sent' = IF Queue!Reached' + Queue!Ahead' < size'
                  THEN Queue!Reached' + Queue!Ahead' ELSE size'
    <3>1. PICK y \in Nat : y = n * B
      BY <1>6
    <3>2. Queue!Reached' + Queue!Ahead' = y
      BY <2>2, <2>3, <3>1
    <3> QED
      BY <1>7, <3>1, <3>2, Zenon
  <2>7. Len(out)' % B = 0
    BY <1>2
  <2> QED
    BY <2>1, <2>2, <2>5, <2>6, <2>7, QueuePiecesAfter
<1>9. Queue!Reads'
  <2>1. PICK y \in Nat : y = n * B
    BY <1>6
  <2>2. PICK z \in Nat : z = (n + 1) * B
    BY <1>2, QueueOneMore
  <2>3. spc \in Queue!Sending => sent <= z
    <3>1. z = y + B
      BY <1>6, <2>1, <2>2, Zenon
    <3>2. spc \in Queue!Sending => sent = IF y < size THEN y ELSE size
      BY <1>7, <2>1, Zenon
    <3> QED
      BY <1>2, <3>1, <3>2
  <2>4. spc \in Queue!Sending => sent' <= Len(out') + (Len(queue') + 1) * BufferSize
    <3>1. Len(out') + (Len(queue') + 1) * BufferSize = 0 + z
      BY <1>2, <1>4, <2>2, Zenon
    <3> QED
      BY <1>2, <2>2, <2>3, <3>1
  <2> QED
    BY <1>2, <2>4, QueueBefore DEF Queue!Reads
<1> QED
  BY <1>1, <1>8, <1>9 DEF QueueStream

(* Where the pieces go on when one was taken: a full one moves them on by  *)
(* a buffer, and after one that is not full all are at the end.            *)
LEMMA QueueTakenNext ==
  ASSUME size \in Nat, NEW u \in Nat, u <= size, NEW y \in Nat
  PROVE  /\ Queue!Piece(u + Len(Queue!Piece(u)) + y) = Queue!Piece(u + BufferSize + y)
         /\ (IF u + Len(Queue!Piece(u)) + y < size THEN u + Len(Queue!Piece(u)) + y ELSE size)
              = (IF u + BufferSize + y < size THEN u + BufferSize + y ELSE size)
<1>1. PICK p \in Nat : p = Len(Queue!Piece(u))
  BY QueuePieceIs, BufferSizeAssumption
<1>2. p <= BufferSize /\ u + p <= size /\ (p < BufferSize => u + p = size)
  BY <1>1, QueuePieceIs, BufferSizeAssumption
<1>3. CASE p = BufferSize
  BY <1>1, <1>3
<1>4. CASE p < BufferSize
  <2>1. u + p + y >= size /\ u + BufferSize + y >= size
    BY <1>2, <1>4, BufferSizeAssumption
  <2>2. Queue!Piece(u + p + y) = Queue!Piece(u + BufferSize + y)
    <3>1. u + p + y \in Nat /\ u + BufferSize + y \in Nat
      BY BufferSizeAssumption
    <3> QED
      BY <2>1, <3>1, QueuePiecesAtEnd
  <2> QED
    BY <1>1, <2>1, <2>2, BufferSizeAssumption
<1> QED
  BY <1>2, <1>3, <1>4, BufferSizeAssumption

(* Receiving a piece: the others on the way follow it.                     *)
LEMMA QueuePieceTaken ==
  ASSUME Queue!IInv, rpc = "receive", rpc' = "store", queue # << >>,
         queue' = Tail(queue), inbox' = Head(queue),
         UNCHANGED <<spc, sres, old, checked, target, size, announced, sent, lastRead, out>>
  PROVE  QueueStream'
<1> DEFINE B == BufferSize
<1>1. Queue!Prefix'
  BY QueueBefore DEF Queue!Prefix
<1>2. /\ target = "new" /\ announced # Queue!Unset /\ B \in Nat \ {0} /\ size \in Nat
      /\ sent \in Nat /\ Queue!Headers = 0 /\ Queue!Headers' = 0 /\ Queue!Reached = Len(out)
      /\ Len(out) % B = 0
  BY QueueBefore DEF Queue!NothingSent, Queue!Headers, Queue!Reached, Queue!InTransit
<1>3. /\ Len(queue) \in Nat /\ Len(queue) >= 1 /\ Len(queue') = Len(queue) - 1
      /\ Head(queue) = queue[1]
      /\ \A i \in 1..(Len(queue) - 1) : queue'[i] = queue[i + 1]
  BY QueueBefore, QueuePopped
<1>4. PICK n \in Nat : n = Len(queue')
  <2>1. Len(queue) - 1 \in Nat
    BY <1>3
  <2> QED
    BY <1>3, <2>1, Zenon
<1>5. Len(queue) = n + 1
  BY <1>3, <1>4
<1>6. PICK u \in Nat : u = Len(out)
  BY QueueBefore
<1>7. u <= size
  BY <1>6, QueueBefore DEF Queue!Prefix
<1>8. n * B \in Nat /\ (n + 1) * B = n * B + B
  BY <1>2, QueueOneMore
<1>9. spc \in Queue!Sending => sent = IF u + (n + 1) * B < size THEN u + (n + 1) * B ELSE size
  <2>1. (n + 1) - 0 = n + 1
    OBVIOUS
  <2>2. Queue!Ahead = (n + 1) * B
    BY <1>2, <1>5, <2>1, Zenon DEF Queue!Ahead
  <2> QED
    BY <1>2, <1>6, <2>2, QueueBefore DEF Queue!InTransit
<1>10. \A i \in 1..(n + 1) : queue[i] = Queue!Piece(u + (i - 0 - 1) * B)
  <2>1. QueuePieces(queue, 0, u, size)
    BY <1>2, <1>6, QueuePiecesBefore
  <2>2. 0 + 1 = 1
    OBVIOUS
  <2> QED
    BY <1>5, <2>1, <2>2 DEF QueuePieces, Queue!Piece, QueuePieceOf
<1>11. inbox' = Queue!Piece(u)
  <2>1. u + (1 - 0 - 1) * B = u
    BY <1>2
  <2>2. 1 \in 1..(n + 1)
    OBVIOUS
  <2> QED
    BY <1>3, <1>10, <2>1, <2>2, Zenon
<1>12. PICK p \in Nat : p = Len(Queue!Piece(u))
  BY <1>2, QueuePieceIs
<1>13. Queue!InTransit'
  <2>1. Queue!Reached' = u + p
    BY <1>6, <1>11, <1>12 DEF Queue!Reached
  <2>2. QueuePieces(queue', 0, u + p, size)
    <3>1. ASSUME NEW i \in (0 + 1)..n
          PROVE  queue'[i] = Queue!Piece(u + p + (i - 0 - 1) * B)
      <4>1. queue'[i] = queue[i + 1]
        BY <1>3, <1>5
      <4>2. PICK j \in Nat : j = i - 0 - 1
        OBVIOUS
      <4>3. PICK y \in Nat : y = j * B
        BY <1>2, QueueOneMore
      <4>4. i + 1 \in 1..(n + 1) /\ (i + 1) - 0 - 1 = j + 1
        BY <4>2
      <4>5. (j + 1) * B = y + B
        BY <1>2, <4>3, QueueOneMore
      <4>6. u + (y + B) = u + B + y
        BY <1>2
      <4>7. queue[i + 1] = Queue!Piece(u + B + y)
        BY <1>10, <4>4, <4>5, <4>6, Zenon
      <4>8. Queue!Piece(u + p + y) = Queue!Piece(u + B + y)
        BY <1>2, <1>7, <1>12, QueueTakenNext
      <4> QED
        BY <4>1, <4>2, <4>3, <4>7, <4>8, Zenon
    <3> QED
      BY <1>4, <3>1 DEF QueuePieces, Queue!Piece, QueuePieceOf
  <2>3. QueuePieces(queue', Queue!Headers', Queue!Reached', size')
    BY <1>2, <2>1, <2>2, Zenon
  <2>4. spc' \in Queue!Sending =>
          sent' = IF Queue!Reached' + Queue!Ahead' < size'
                  THEN Queue!Reached' + Queue!Ahead' ELSE size'
    <3>1. PICK y \in Nat : y = n * B
      BY <1>8
    <3>2. n - 0 = n
      OBVIOUS
    <3>3. Queue!Ahead' = y
      BY <1>2, <1>4, <3>1, <3>2, Zenon DEF Queue!Ahead
    <3>4. (n + 1) * B = y + B
      BY <1>8, <3>1, Zenon
    <3>5. u + (y + B) = u + B + y
      BY <1>2
    <3>6. spc \in Queue!Sending => sent = IF u + p + y < size THEN u + p + y ELSE size
      <4>1. spc \in Queue!Sending => sent = IF u + B + y < size THEN u + B + y ELSE size
        BY <1>9, <3>4, <3>5, Zenon
      <4>2. (IF u + p + y < size THEN u + p + y ELSE size)
              = (IF u + B + y < size THEN u + B + y ELSE size)
        BY <1>2, <1>7, <1>12, QueueTakenNext
      <4> QED
        BY <4>1, <4>2, Zenon
    <3> QED
      BY <2>1, <3>3, <3>6, Zenon
  <2>5. inbox' = QueuePieceOf(Len(out)', size')
    BY <1>6, <1>11 DEF Queue!Piece, QueuePieceOf
  <2>6. Len(out)' % B = 0
    BY <1>2
  <2> QED
    BY <1>2, <2>3, <2>4, <2>5, <2>6, QueuePiecesAfter
<1>14. Queue!Reads'
  <2>1. PICK z \in Nat : z = (n + 1) * B
    BY <1>2, QueueOneMore
  <2>2. spc \in Queue!Sending => sent <= u + z
    <3>1. spc \in Queue!Sending => sent = IF u + z < size THEN u + z ELSE size
      BY <1>9, <2>1, Zenon
    <3> QED
      BY <1>2, <3>1
  <2>3. spc \in Queue!Sending => sent' <= Len(out') + (Len(queue') + 1) * BufferSize
    BY <1>4, <1>6, <2>1, <2>2, Zenon
  <2> QED
    BY <2>3, QueueBefore DEF Queue!Reads
<1> QED
  BY <1>1, <1>13, <1>14 DEF QueueStream

(* The piece in the buffer is stored, and the receiver goes on or stops.   *)
LEMMA QueuePieceStored ==
  ASSUME Queue!IInv, Queue!RStore
  PROVE  QueueStream'
<1> DEFINE B == BufferSize
<1>1. /\ Len(out) \in Nat /\ Len(inbox) \in Nat /\ Len(inbox) <= B
      /\ Len(out) + Len(inbox) <= size /\ rpc = "store"
      /\ Len(out) % B = 0 /\ target = "new" /\ announced # Queue!Unset
      /\ B \in Nat \ {0} /\ size \in Nat /\ sent \in Nat
  BY QueueStores, QueueStoredPiece, QueueBefore DEF Queue!NothingSent
<1>2. /\ UNCHANGED <<spc, sres, queue, old, checked, target, size, announced, sent,
                     lastRead, inbox>>
      /\ rpc' \in {"receive", "unlink"}
      /\ rpc' = "receive" => Len(inbox) = B /\ out' = out \o inbox
  BY QueueStores
<1>3. PICK n \in 0..Len(inbox) :
        out' = Queue!Stretch(0, Len(out) + n) /\ Len(out') = Len(out) + n
  BY QueueStores
<1>4. n \in Nat /\ Len(out') \in Nat /\ Len(out') <= size /\ Len(out) <= Len(out')
  BY <1>1, <1>3
<1>5. out' = Queue!Stretch(0, Len(out'))
  BY <1>3, Zenon
<1>6. Queue!Prefix'
  BY <1>2, <1>4, <1>5 DEF Queue!Prefix
<1>7. Queue!InTransit'
  <2>1. SUFFICES ASSUME rpc' = "receive" PROVE Queue!InTransit'
    BY <1>2 DEF Queue!InTransit
  <2>9. Len(inbox) = B /\ Len(out') = Len(out) + B
    BY <1>2, <2>1, QueueStoredPiece, <1>1
  <2>2. Queue!Headers' = Queue!Headers /\ Queue!Reached' = Queue!Reached
        /\ Queue!Ahead' = Queue!Ahead /\ Queue!Headers = 0
    BY <1>1, <1>2, <2>1, <2>9 DEF Queue!Headers, Queue!Reached, Queue!Ahead
  <2>3. QueuePieces(queue, Queue!Headers, Queue!Reached, size)
    BY <1>1, QueuePiecesBefore
  <2>4. QueuePieces(queue', Queue!Headers', Queue!Reached', size')
    BY <1>2, <2>2, <2>3, Zenon
  <2>5. spc \in Queue!Sending =>
          sent = IF Queue!Reached + Queue!Ahead < size THEN Queue!Reached + Queue!Ahead ELSE size
    BY <1>1, QueueBefore DEF Queue!InTransit
  <2>6. spc' \in Queue!Sending =>
          sent' = IF Queue!Reached' + Queue!Ahead' < size'
                  THEN Queue!Reached' + Queue!Ahead' ELSE size'
    BY <1>2, <2>2, <2>5, Zenon
  <2>7. Len(out)' % B = 0
    <3>1. (Len(out) + B) % B = 0
      BY <1>1, QueueNextMultiple
    <3> QED
      BY <2>9, <3>1, Zenon
  <2> QED
    BY <1>1, <1>2, <2>1, <2>2, <2>4, <2>6, <2>7, QueuePiecesAfter
<1>8. Queue!Reads'
  <2>1. PICK y \in Nat : y = (Len(queue) + 1) * B
    BY <1>1, QueueBefore, QueueOneMore
  <2>2. PICK z \in Nat : z = (QueueCapacity + 1) * B
    BY <1>1, QueueBefore, QueueOneMore
  <2>3. spc \in Queue!Sending => sent <= Len(out) + y
    BY <1>1, <2>1, QueueBefore DEF Queue!Reads
  <2>4. sres = "success" => sent <= Len(out) + z
    BY <2>2, QueueBefore DEF Queue!Reads
  <2>5. /\ spc \in Queue!Sending => sent <= Len(out') + y
        /\ sres = "success" => sent <= Len(out') + z
    BY <1>1, <1>4, <2>1, <2>2, <2>3, <2>4
  <2>6. spc' \in Queue!Sending => sent' <= Len(out') + (Len(queue') + 1) * BufferSize
    BY <1>2, <2>1, <2>5, Zenon
  <2>7. sres' = "success" => sent' <= Len(out') + (QueueCapacity + 1) * BufferSize
    BY <1>2, <2>2, <2>5, Zenon
  <2> QED
    BY <1>1, <1>2, <2>6, <2>7, QueueBefore DEF Queue!Reads
<1> QED
  BY <1>6, <1>7, <1>8 DEF QueueStream

(* What is on the way: the steps of the sender keep what is said of it.    *)
LEMMA QueueStreamSender ==
  ASSUME Queue!IInv, Queue!SLaunch \/ Queue!SenderStep \/ Queue!SCallFails \/ Queue!SKill
  PROVE  QueueStream'
<1>1. CASE Queue!SLaunch
  BY <1>1, QueueSenderRests DEF Queue!SLaunch
<1>2. CASE Queue!SFind
  BY <1>2, QueueSenderRests DEF Queue!SFind
<1>3. CASE Queue!SCheck
  <2>1. spc' = "open" => Queue!Reads'
    BY <1>3, QueueBefore DEF Queue!SCheck, Queue!Holds, Queue!Reads
  <2> QED
    BY <1>3, <2>1, QueueSenderRests DEF Queue!SCheck
<1>4. CASE Queue!SOpen
  <2>1. announced = Queue!Unset /\ sres # "success"
    BY <1>4, QueueBefore DEF Queue!SOpen, Queue!NothingSent, Queue!Results
  <2>2. target' = "old" => old' = 0
    BY <1>4, QueueBefore DEF Queue!SOpen, Queue!TwoQueues, Queue!Reads
  <2>3. spc' = "measure" => Queue!Reads'
    BY <1>4, <2>1, <2>2, QueueBefore DEF Queue!SOpen, Queue!Reads
  <2> QED
    BY <1>4, <2>1, <2>3, QueueSenderRests DEF Queue!SOpen
<1>5. CASE Queue!SMeasure
  <2>1. spc' = "sendHeader" => Queue!Reads'
    BY <1>5, QueueBefore DEF Queue!SMeasure, Queue!Reads
  <2> QED
    BY <1>5, <2>1, QueueSenderRests DEF Queue!SMeasure
<1>6. CASE Queue!SSendHeader
  <2>1. CASE Queue!PutFails /\ UNCHANGED announced
    BY <1>6, <2>1, QueueSenderRests DEF Queue!SSendHeader
  <2>2. CASE ~(Queue!PutFails /\ UNCHANGED announced)
    <3>1. /\ announced' \in Sizes
          /\ Queue!Put([i \in 1..BufferSize |-> Queue!HeaderByte(announced')])
          /\ Queue!SGoesOn(0)
      BY <1>6, <2>2, QueueBefore DEF Queue!SSendHeader, Queue!AnnouncedSizes
    <3>2. announced' \in Nat
      BY <3>1, QueueBefore
    <3>3. Queue!Put(QueueHeaderFor(announced'))
      BY <3>1 DEF QueueHeaderFor
    <3> QED
      BY <1>6, <3>1, <3>2, <3>3, QueueHeaderPut DEF Queue!SSendHeader
  <2> QED
    BY <2>1, <2>2
<1>7. CASE Queue!SFill
  <2>1. CASE spc' = "send"
    BY <1>7, <2>1, QueueBufferFilled DEF Queue!SFill
  <2>2. CASE spc' # "send"
    BY <1>7, <2>2, QueueSenderRests DEF Queue!SFill
  <2> QED
    BY <2>1, <2>2
<1>8. CASE Queue!SSend
  <2>1. CASE Queue!PutFails /\ UNCHANGED sent
    BY <1>8, <2>1, QueueSenderRests DEF Queue!SSend
  <2>2. CASE ~(Queue!PutFails /\ UNCHANGED sent)
    <3>1. Queue!Put(Queue!Stretch(sent, lastRead)) /\ sent' = sent + lastRead
          /\ Queue!SGoesOn(sent')
      BY <1>8, <2>2 DEF Queue!SSend
    <3> QED
      BY <1>8, <3>1, QueuePiecePut DEF Queue!SSend
  <2> QED
    BY <2>1, <2>2
<1>9. CASE Queue!SUnlink
  BY <1>9, QueueSenderRests DEF Queue!SUnlink
<1>10. CASE Queue!SCallFails
  BY <1>10, QueueSenderRests DEF Queue!SCallFails
<1>11. CASE Queue!SKill
  BY <1>11, QueueSenderRests DEF Queue!SKill
<1> QED
  BY <1>1, <1>2, <1>3, <1>4, <1>5, <1>6, <1>7, <1>8, <1>9, <1>10, <1>11 DEF Queue!SenderStep

(* What is on the way: the steps of the receiver keep what is said of it.  *)
LEMMA QueueStreamReceiver ==
  ASSUME Queue!IInv, Queue!RLaunch \/ Queue!ReceiverStep \/ Queue!RCallFails \/ Queue!RKill
  PROVE  QueueStream'
<1>1. CASE Queue!RLaunch
  BY <1>1, QueueReceiverRests DEF Queue!RLaunch
<1>2. CASE Queue!RUnlinkOld
  BY <1>2, QueueReceiverRests DEF Queue!RUnlinkOld
<1>3. CASE Queue!RCreate
  BY <1>3, QueueReceiverRests DEF Queue!RCreate
<1>4. CASE Queue!ROpenFile
  BY <1>4, QueueReceiverRests DEF Queue!ROpenFile
<1>5. CASE Queue!RReceiveHeader
  <2>1. CASE Queue!Get
    BY <1>5, <2>1, QueueHeaderTaken, QueueHeaderKeepsCopy DEF Queue!RReceiveHeader, Queue!Get
  <2>2. CASE ~Queue!Get
    BY <1>5, <2>2, QueueReceiverRests DEF Queue!RReceiveHeader
  <2> QED
    BY <2>1, <2>2
<1>6. CASE Queue!RReceive
  <2>1. CASE Queue!Get
    <3>1. queue # << >> /\ queue' = Tail(queue) /\ inbox' = Head(queue) /\ UNCHANGED old
      BY <2>1 DEF Queue!Get
    <3>2. /\ rpc = "receive" /\ rpc' = "store"
          /\ UNCHANGED <<spc, sres, checked, target, size, announced, sent, lastRead, out>>
      BY <1>6, <3>1 DEF Queue!RReceive
    <3> QED
      BY <3>1, <3>2, QueuePieceTaken
  <2>2. CASE ~Queue!Get
    BY <1>6, <2>2, QueueReceiverRests DEF Queue!RReceive
  <2> QED
    BY <2>1, <2>2
<1>7. CASE Queue!RStore
  BY <1>7, QueuePieceStored
<1>8. CASE Queue!RUnlink
  BY <1>8, QueueReceiverRests DEF Queue!RUnlink
<1>9. CASE Queue!RRemove
  BY <1>9, QueueReceiverRests DEF Queue!RRemove
<1>10. CASE Queue!RCallFails
  BY <1>10, QueueReceiverRests DEF Queue!RCallFails
<1>11. CASE Queue!RKill
  BY <1>11, QueueReceiverRests DEF Queue!RKill
<1> QED
  BY <1>1, <1>2, <1>3, <1>4, <1>5, <1>6, <1>7, <1>8, <1>9, <1>10, <1>11 DEF Queue!ReceiverStep

(* The two programs before they are launched.                              *)
QueueFresh ==
  /\ spc = "idle" /\ rpc = "idle"
  /\ sres = "none" /\ rres = "none"
  /\ old \in (0..QueueCapacity) \cup {Queue!Unset}
  /\ name = IF old = Queue!Unset THEN "none" ELSE "old"
  /\ checked = "none" /\ target = "none"
  /\ queue = << >>
  /\ size \in Sizes
  /\ toSend = Queue!Unset /\ announced = Queue!Unset
  /\ sent = 0 /\ lastRead = BufferSize
  /\ expected = Queue!Unset
  /\ inbox = << >> /\ out = << >>
  /\ present \in BOOLEAN

(* The invariant holds at the start.                                       *)
LEMMA QueueInvInit == QueueFresh => Queue!IInv
<1> SUFFICES ASSUME QueueFresh PROVE Queue!IInv
  OBVIOUS
<1> USE BufferSizeAssumption, SizesAssumption, RcProgramsAssumption
<1>1. /\ queue = << >> /\ Len(queue) = 0 /\ queue \in Seq(Seq(Int))
      /\ Len(queue) <= QueueCapacity
      /\ inbox \in Seq(Int) /\ out \in Seq(Int) /\ size \in Nat
  BY DEF QueueFresh
<1>2. Queue!TypeOK
  <2>1. present \in BOOLEAN
    BY Zenon DEF QueueFresh
  <2>2. /\ spc \in Queue!SenderLabels /\ rpc \in Queue!ReceiverLabels
        /\ sres \in Queue!Outcomes /\ rres \in Queue!Outcomes
        /\ name \in Queue!Queues /\ checked \in Queue!Queues /\ target \in Queue!Queues
        /\ lastRead \in 0..BufferSize /\ sent \in Nat
    BY DEF QueueFresh, Queue!Outcomes
  <2>3. /\ old \in (0..QueueCapacity) \cup {Queue!Unset} /\ size \in Sizes
        /\ toSend \in Sizes \cup {Queue!Unset} /\ announced \in Sizes \cup {Queue!Unset}
        /\ expected \in Nat \cup {Queue!Unset}
    BY DEF QueueFresh
  <2> QED
    BY <1>1, <2>1, <2>2, <2>3, Zenon DEF Queue!TypeOK
<1>3. Queue!TwoQueues /\ Queue!NothingSent
  BY <1>1 DEF QueueFresh, Queue!TwoQueues, Queue!NothingSent
<1>4. Queue!Results /\ Queue!NameGone
  BY <1>1 DEF QueueFresh, Queue!Results, Queue!NameGone
<1>5. Queue!InTransit /\ Queue!Reads
  BY <1>1 DEF QueueFresh, Queue!InTransit, Queue!Reads
<1>6. Queue!Prefix
  <2>1. Queue!Stretch(0, 0) = << >>
    BY DEF Queue!Stretch
  <2> QED
    BY <1>1, <2>1 DEF QueueFresh, Queue!Prefix
<1> QED
  BY <1>2, <1>3, <1>4, <1>5, <1>6, Zenon DEF Queue!IInv

(* Every step keeps the invariant.                                         *)
LEMMA QueueInvStep == Queue!IInv /\ [Queue!Next]_(Queue!vars) => Queue!IInv'
<1> SUFFICES ASSUME Queue!IInv, [Queue!Next]_(Queue!vars) PROVE Queue!IInv'
  OBVIOUS
<1>1. CASE Queue!SLaunch \/ Queue!SenderStep \/ Queue!SCallFails \/ Queue!SKill
  BY <1>1, QueueTypeSender, QueueControlSender, QueueStreamSender, Zenon DEF Queue!IInv,
     QueueStream
<1>2. CASE Queue!RLaunch \/ Queue!ReceiverStep \/ Queue!RCallFails \/ Queue!RKill
  BY <1>2, QueueTypeReceiver, QueueControlReceiver, QueueStreamReceiver,
     Zenon DEF Queue!IInv, QueueStream
<1>3. CASE UNCHANGED Queue!vars
  <2>1. Queue!TypeOK'
    <3>1. UNCHANGED <<spc, rpc, sres, rres, name, checked, target, old, queue, size,
                      toSend, announced, sent, lastRead, expected, inbox, out, present>>
      BY <1>3 DEF Queue!vars
    <3>2. Queue!TypeOK
      BY DEF Queue!IInv
    <3> QED
      BY <3>1, <3>2, SMT DEF Queue!TypeOK, Queue!Outcomes
  <2>2. Queue!TwoQueues' /\ Queue!NothingSent' /\ Queue!Results' /\ Queue!NameGone'
    BY <1>3, QueueBefore DEF Queue!vars, Queue!TwoQueues, Queue!NothingSent, Queue!Results,
       Queue!NameGone
  <2>3. Queue!InTransit' /\ Queue!Prefix'
    BY <1>3, QueueBefore DEF Queue!vars, Queue!InTransit, Queue!Prefix, Queue!Piece,
       Queue!Reached, Queue!Headers, Queue!Ahead
  <2>4. Queue!Reads'
    BY <1>3, QueueBefore DEF Queue!vars, Queue!Reads
  <2> QED
    BY <2>1, <2>2, <2>3, <2>4, Zenon DEF Queue!IInv
<1> QED
  BY <1>1, <1>2, <1>3 DEF Queue!Next, Queue!BothEnded

(* What follows from it.                                                   *)
LEMMA QueueImplied == Queue!IInv => Queue!TypeOK /\ Queue!ExactCopy /\ Queue!NameUnlinked
<1> SUFFICES ASSUME Queue!IInv PROVE Queue!TypeOK /\ Queue!ExactCopy /\ Queue!NameUnlinked
  OBVIOUS
<1>1. Queue!TypeOK
  BY DEF Queue!IInv
<1>2. Queue!ExactCopy
  BY QueueBefore DEF Queue!Prefix, Queue!Results, Queue!NothingSent, Queue!ExactCopy
<1>3. Queue!NameUnlinked
  BY QueueBefore DEF Queue!NothingSent, Queue!NameGone, Queue!NameUnlinked, Queue!Outcomes
<1> QED
  BY <1>1, <1>2, <1>3

-----------------------------------------------------------------------------
(* The initial states map to initial states of FileCopy.                   *)
LEMMA QueuePromiseInit == QueueFresh => Queue!Promise!Init
<1> SUFFICES ASSUME QueueFresh PROVE Queue!Promise!Init
  OBVIOUS
<1>1. present \in BOOLEAN
  BY Zenon DEF QueueFresh
<1> QED
  BY <1>1 DEF QueueFresh, Queue!Promise!Init, Queue!Outcome, Queue!SenderOutcome

(* A sender that measured the right length twice only succeeds when what   *)
(* is not stored fits in the queue and in the buffer of the receiver.      *)
LEMMA QueueRestIsOnTheWay ==
  ASSUME Queue!IInv, sres = "success", announced = size, toSend = size
  PROVE  Len(out) + (QueueCapacity + 1) * BufferSize >= size
<1>1. sent >= size /\ sent <= Len(out) + (QueueCapacity + 1) * BufferSize
  BY QueueBefore DEF Queue!Results, Queue!Reads
<1>2. PICK z \in Nat : z = (QueueCapacity + 1) * BufferSize
  BY QueueBefore, QueueOneMore
<1>3. sent <= Len(out) + z
  BY <1>1, <1>2, Zenon
<1>4. Len(out) + z >= size
  BY <1>1, <1>3, QueueBefore
<1> QED
  BY <1>2, <1>4, Zenon

(* A step of the sender maps to a step of FileCopy or to a stutter.        *)
LEMMA QueuePromiseSender ==
  ASSUME Queue!IInv, Queue!SLaunch \/ Queue!SenderStep \/ Queue!SCallFails \/ Queue!SKill
  PROVE  [Queue!Promise!Next]_(Queue!Promise!vars)
<1> /\ size \in Sizes /\ size \in Nat /\ Sizes \subseteq Nat /\ Len(out) \in Nat
    /\ spc \in Queue!SenderLabels /\ sres \in Queue!Outcomes
    /\ Queue!NothingSent /\ Queue!Results
  BY QueueBefore, SizesAssumption
<1> USE DEF Queue!Outcome, Queue!SenderOutcome, Queue!Promise!Next, Queue!Promise!vars,
        Queue!NothingSent,
            Queue!Results, Queue!Outcomes
<1>1. CASE Queue!SLaunch
  BY <1>1 DEF Queue!SLaunch, Queue!Promise!GiveUp
<1>2. CASE Queue!SFind
  BY <1>2 DEF Queue!SFind, Queue!Promise!GiveUp
<1>3. CASE Queue!SCheck
  BY <1>3 DEF Queue!SCheck, Queue!Promise!GiveUp
<1>4. CASE Queue!SOpen
  BY <1>4 DEF Queue!SOpen, Queue!Promise!GiveUp
<1>5. CASE Queue!SMeasure
  BY <1>5 DEF Queue!SMeasure
<1>6. CASE Queue!SSendHeader
  <2>1. CASE Queue!PutFails /\ UNCHANGED announced
    BY <1>6, <2>1 DEF Queue!SSendHeader
  <2>2. CASE ~(Queue!PutFails /\ UNCHANGED announced)
    <3>1. /\ announced' \in Sizes /\ announced = Queue!Unset /\ Queue!SGoesOn(0)
          /\ spc = "sendHeader"
      BY <1>6, <2>2 DEF Queue!SSendHeader, Queue!AnnouncedSizes
    <3>2. Queue!Promise!Announce
      BY <3>1 DEF Queue!Promise!Announce
    <3> QED
      BY <3>2
  <2> QED
    BY <2>1, <2>2
<1>7. CASE Queue!SFill
  BY <1>7 DEF Queue!SFill
<1>8. CASE Queue!SSend
  BY <1>8 DEF Queue!SSend
<1>9. CASE Queue!SUnlink
  BY <1>9, QueueRestIsOnTheWay DEF Queue!SUnlink, Queue!Promise!Complete, Queue!Promise!GiveUp
<1>10. CASE Queue!SCallFails
  BY <1>10 DEF Queue!SCallFails, Queue!Promise!GiveUp
<1>11. CASE Queue!SKill
  BY <1>11 DEF Queue!SKill, Queue!Promise!KillSender
<1> QED
  BY <1>1, <1>2, <1>3, <1>4, <1>5, <1>6, <1>7, <1>8, <1>9, <1>10, <1>11 DEF Queue!SenderStep

(* A step of the receiver maps to a step of FileCopy or to a stutter.      *)
LEMMA QueuePromiseReceiver ==
  ASSUME Queue!IInv, Queue!RLaunch \/ Queue!ReceiverStep \/ Queue!RCallFails \/ Queue!RKill
  PROVE  [Queue!Promise!Next]_(Queue!Promise!vars)
<1> /\ size \in Sizes /\ size \in Nat /\ Sizes \subseteq Nat /\ Len(out) \in Nat
    /\ rpc \in Queue!ReceiverLabels /\ rres \in Queue!Outcomes
    /\ Queue!NothingSent /\ Queue!Prefix /\ Queue!Results
    /\ announced \in Nat \cup {Queue!Unset} /\ out \in Seq(Int)
  BY QueueBefore, SizesAssumption
<1> USE DEF Queue!Outcome, Queue!SenderOutcome, Queue!Promise!Next, Queue!Promise!vars,
        Queue!Results, Queue!Outcomes
<1>1. CASE Queue!RLaunch
  BY <1>1 DEF Queue!RLaunch
<1>2. CASE Queue!RUnlinkOld
  BY <1>2 DEF Queue!RUnlinkOld
<1>3. CASE Queue!RCreate
  BY <1>3 DEF Queue!RCreate
<1>4. CASE Queue!ROpenFile
  BY <1>4 DEF Queue!ROpenFile, Queue!NothingSent, Queue!Promise!CreateCopy
<1>5. CASE Queue!RReceiveHeader
  BY <1>5, QueueHeaderKeepsCopy DEF Queue!RReceiveHeader
<1>6. CASE Queue!RReceive
  BY <1>6 DEF Queue!RReceive
<1>7. CASE Queue!RStore
  <2>1. CASE out' = out
    BY <1>7, <2>1, QueueStores
  <2>2. CASE out' # out
    <3>1. /\ rpc = "store" /\ rpc' \in {"receive", "unlink"} /\ present
          /\ rres = "none" /\ Len(inbox) \in Nat
          /\ Len(out) + Len(inbox) <= size /\ Len(inbox) <= BufferSize
          /\ UNCHANGED <<size, toSend, announced, present, spc, sres>>
      BY <1>7, QueueStores, QueueStoredPiece, QueueBefore
    <3>2. PICK n \in 0..Len(inbox) : out' = out \o Queue!Stretch(Len(out), n)
      BY <1>7, QueueStores
    <3>3. n \in Nat /\ n <= BufferSize /\ Len(out) + n <= size
      BY <3>1, BufferSizeAssumption
    <3>4. Queue!Stretch(Len(out), n) = Queue!Promise!NextBytes(n)
      BY DEF Queue!Stretch, Queue!Promise!NextBytes
    <3>5. n # 0
      <4>1. ASSUME n = 0
            PROVE  FALSE
        <5>1. Queue!Stretch(Len(out), n) = << >>
          BY <4>1 DEF Queue!Stretch
        <5>2. out' = out
          BY <3>2, <5>1, ConcatEmptySeq
        <5> QED
          BY <2>2, <5>2
      <4> QED
        BY <4>1
    <3>6. n \in 1..BufferSize
      BY <3>3, <3>5, BufferSizeAssumption
    <3>7. Queue!Promise!Store(n)
      BY <3>1, <3>2, <3>3, <3>4 DEF Queue!Promise!Store
    <3> QED
      BY <3>6, <3>7
  <2> QED
    BY <2>1, <2>2
<1>12. UNCHANGED out => \E n \in 0..0 : Queue!Promise!LoseLast(n)
  <2>1. 0 \in 0..0
    OBVIOUS
  <2> QED
    BY <2>1, NothingLost, Zenon DEF Queue!Promise!LoseLast
<1>8. CASE Queue!RUnlink
  BY <1>8, <1>12 DEF Queue!RUnlink, Queue!Promise!Accept, Queue!NothingSent
<1>9. CASE Queue!RRemove
  BY <1>9 DEF Queue!RRemove, Queue!Promise!Reject
<1>10. CASE Queue!RCallFails
  BY <1>10 DEF Queue!RCallFails
<1>11. CASE Queue!RKill
  BY <1>11, <1>12 DEF Queue!RKill, Queue!Promise!KillReceiver
<1> QED
  BY <1>1, <1>2, <1>3, <1>4, <1>5, <1>6, <1>7, <1>8, <1>9, <1>10, <1>11 DEF Queue!ReceiverStep

(* Every step maps to a step of FileCopy or to a stutter.                  *)
LEMMA QueuePromiseStep ==
  Queue!IInv /\ [Queue!Next]_(Queue!vars) => [Queue!Promise!Next]_(Queue!Promise!vars)
<1> SUFFICES ASSUME Queue!IInv, [Queue!Next]_(Queue!vars)
             PROVE [Queue!Promise!Next]_(Queue!Promise!vars)
  OBVIOUS
<1>1. CASE UNCHANGED Queue!vars
  BY <1>1 DEF Queue!vars, Queue!Promise!vars, Queue!Outcome, Queue!SenderOutcome
<1> QED
  BY <1>1, QueuePromiseSender, QueuePromiseReceiver DEF Queue!Next, Queue!BothEnded

-----------------------------------------------------------------------------
(* Pipe                                                                    *)

USE DEF Pipe!SGoto, Pipe!RGoto, Pipe!SLeave, Pipe!RLeave, Pipe!SRefuse, Pipe!SConclude,
        Pipe!RRefuse, Pipe!RConclude, Pipe!Fails,
        Pipe!SGoesOn, Pipe!RGoesOn, Pipe!outcomes, Pipe!channel, Pipe!senderData,
        Pipe!receiverData,
        Pipe!SenderOpen, Pipe!ReceiverOpen, Pipe!SenderLabels, Pipe!ReceiverLabels,
        Pipe!Connecting, Pipe!NotSent,
        Pipe!Sending, Pipe!Waiting, Pipe!NotReceived, Pipe!Receiving, Pipe!Unset

-----------------------------------------------------------------------------
(* Data *)

(* A read returns at most a buffer and never reads beyond the source; one  *)
(* that is not full ends it.                                               *)
LEMMA PipeReadFileBounds ==
  ASSUME NEW from \in Nat, NEW length \in Nat
  PROVE  /\ Pipe!ReadFile(from, length) \in 0..BufferSize
         /\ from <= length => from + Pipe!ReadFile(from, length) <= length
         /\ from <= length /\ Pipe!ReadFile(from, length) < BufferSize
              => from + Pipe!ReadFile(from, length) = length
<1>1. Pipe!ReadFile(from, length) = ReadFile(from, length)
  BY DEF Pipe!ReadFile, ReadFile
<1>2. /\ ReadFile(from, length) \in 0..BufferSize
      /\ from <= length => from + ReadFile(from, length) <= length
      /\ from <= length /\ ReadFile(from, length) < BufferSize
           => from + ReadFile(from, length) = length
  BY ReadFileBounds
<1> QED
  BY <1>1, <1>2

(* A stretch of n bytes after m is a sequence of n numbers, the i-th of    *)
(* them m + i.                                                             *)
LEMMA PipeStretchSeq ==
  ASSUME NEW m \in Nat, NEW n \in Nat
  PROVE  /\ Pipe!Stretch(m, n) \in Seq(Int)
         /\ Len(Pipe!Stretch(m, n)) = n
         /\ \A i \in 1..n : Pipe!Stretch(m, n)[i] = m + i
<1>1. Pipe!Stretch(m, n) = Stretch(m, n)
  BY DEF Pipe!Stretch, Stretch
<1> QED
  BY <1>1, StretchSeq, Zenon

(* A stretch from the start and the one that follows it make a longer      *)
(* stretch from the start.                                                 *)
LEMMA PipeStretchGrows ==
  ASSUME NEW m \in Nat, NEW n \in Nat
  PROVE  /\ Pipe!Stretch(0, m) \o Pipe!Stretch(m, n) = Pipe!Stretch(0, m + n)
         /\ Len(Pipe!Stretch(0, m) \o Pipe!Stretch(m, n)) = m + n
<1>1. \A a, b : Pipe!Stretch(a, b) = Stretch(a, b)
  BY DEF Pipe!Stretch, Stretch
<1> QED
  BY <1>1, StretchGrows, Zenon

(* What was in the pipe, then what is written to it.                       *)
LEMMA PipeJoined ==
  ASSUME NEW s \in Seq(Int), NEW t \in Seq(Int)
  PROVE  /\ s \o t \in Seq(Int)
         /\ Len(s \o t) = Len(s) + Len(t)
         /\ \A i \in 1..(Len(s) + Len(t)) :
              (s \o t)[i] = IF i <= Len(s) THEN s[i] ELSE t[i - Len(s)]
  BY ConcatProperties

(* The bytes of a header are those of no source.                           *)
LEMMA PipeHeaderBytesAre ==
  ASSUME NEW n \in Int
  PROVE  /\ [i \in 1..BufferSize |-> Pipe!HeaderByte(n)] \in Seq(Int)
         /\ Len([i \in 1..BufferSize |-> Pipe!HeaderByte(n)]) = BufferSize
         /\ \A i \in 1..BufferSize :
              [j \in 1..BufferSize |-> Pipe!HeaderByte(n)][i] = Pipe!HeaderByte(n)
  BY BufferSizeAssumption DEF Pipe!HeaderByte

(* What the proofs about a step use of the state before it.                *)
LEMMA PipeBefore ==
  ASSUME Pipe!IInv
  PROVE  /\ spc \in Pipe!SenderLabels /\ rpc \in Pipe!ReceiverLabels
         /\ sres \in Pipe!Outcomes /\ rres \in Pipe!Outcomes
         /\ name \in {"none", "fifo"} /\ target \in {"none", "fifo"}
         /\ pipe \in Seq(Int) /\ Len(pipe) \in Nat /\ Len(pipe) <= PipeCapacity
         /\ kept \in Seq(Int) /\ Len(kept) \in Nat /\ Len(kept) < BufferSize
         /\ inbox \in Seq(Int) /\ Len(inbox) \in Nat
         /\ out \in Seq(Int) /\ Len(out) \in Nat
         /\ size \in Sizes /\ Sizes \subseteq Nat /\ size \in Nat /\ sent \in Nat
         /\ BufferSize \in Nat \ {0} /\ PipeCapacity \in Nat
         /\ lastRead \in 0..BufferSize /\ lastRead \in Nat
         /\ toSend \in Nat \cup {Pipe!Unset} /\ announced \in Nat \cup {Pipe!Unset}
         /\ expected \in Nat \cup {Pipe!Unset} /\ present \in BOOLEAN
         /\ Pipe!OneName /\ Pipe!NothingSent /\ Pipe!InTransit /\ Pipe!Reads /\ Pipe!Ahead
         /\ Pipe!Prefix /\ Pipe!Results /\ Pipe!NameGone
<1>1. Pipe!TypeOK /\ Sizes \subseteq Nat /\ PipeCapacity \in Nat /\ BufferSize \in Nat \ {0}
  BY BufferSizeAssumption, SizesAssumption, RcProgramsAssumption DEF Pipe!IInv
<1>2. Len(pipe) \in Nat /\ Len(kept) \in Nat /\ Len(inbox) \in Nat /\ Len(out) \in Nat
  BY <1>1, LenProperties DEF Pipe!TypeOK
<1>3. name \in {"none", "fifo"} /\ target \in {"none", "fifo"}
  BY <1>1 DEF Pipe!TypeOK, Pipe!IInv, Pipe!OneName, Pipe!FifoOpened
<1>4. lastRead \in Nat /\ size \in Nat /\ toSend \in Nat \cup {Pipe!Unset}
      /\ announced \in Nat \cup {Pipe!Unset}
  BY <1>1, SMT DEF Pipe!TypeOK
<1> QED
  BY <1>1, <1>2, <1>3, <1>4, Zenon DEF Pipe!IInv, Pipe!TypeOK

(* A write to the FIFO has a reader, and finds room.                       *)
LEMMA PipeWriteFacts ==
  ASSUME Pipe!IInv, NEW b \in Seq(Int), Pipe!Write(b)
  PROVE  /\ rpc \in Pipe!ReceiverOpen
         /\ pipe' = pipe \o b /\ pipe' \in Seq(Int)
         /\ Len(pipe') = Len(pipe) + Len(b) /\ Len(pipe') <= PipeCapacity
         /\ \A i \in 1..Len(pipe) : pipe'[i] = pipe[i]
         /\ \A i \in 1..Len(b) : pipe'[Len(pipe) + i] = b[i]
<1>1. Pipe!Reading /\ pipe' = pipe \o b /\ Len(pipe) + Len(b) <= PipeCapacity
  BY DEF Pipe!Write
<1>2. pipe \in Seq(Int) /\ Len(pipe) \in Nat /\ Len(b) \in Nat
  BY PipeBefore
<1>3. /\ pipe \o b \in Seq(Int) /\ Len(pipe \o b) = Len(pipe) + Len(b)
      /\ \A i \in 1..(Len(pipe) + Len(b)) :
           (pipe \o b)[i] = IF i <= Len(pipe) THEN pipe[i] ELSE b[i - Len(pipe)]
  BY <1>2, PipeJoined
<1>4. \A i \in 1..Len(pipe) : pipe'[i] = pipe[i]
  BY <1>1, <1>2, <1>3
<1>5. ASSUME NEW i \in 1..Len(b) PROVE pipe'[Len(pipe) + i] = b[i]
  <2>1. Len(pipe) + i \in 1..(Len(pipe) + Len(b)) /\ ~(Len(pipe) + i <= Len(pipe))
        /\ Len(pipe) + i - Len(pipe) = i
    BY <1>2
  <2> QED
    BY <1>1, <1>3, <2>1
<1> QED
  BY <1>1, <1>3, <1>4, <1>5 DEF Pipe!Reading

(* What a read takes out of it, n bytes.                                   *)
LEMMA PipeReadFacts ==
  ASSUME Pipe!IInv, Pipe!Read
  PROVE  \E n \in 0..BufferSize :
           /\ n <= Len(pipe)
           /\ n = BufferSize \/ (n = Len(pipe) /\ Pipe!EndOfFile)
           /\ inbox' \in Seq(Int) /\ Len(inbox') = n
           /\ \A i \in 1..n : inbox'[i] = pipe[i]
           /\ pipe' \in Seq(Int) /\ Len(pipe') = Len(pipe) - n
           /\ \A i \in 1..(Len(pipe) - n) : pipe'[i] = pipe[n + i]
<1> DEFINE n == IF Pipe!EndOfFile THEN Len(pipe) ELSE BufferSize
<1>1. pipe \in Seq(Int) /\ Len(pipe) \in Nat /\ BufferSize \in Nat
  BY PipeBefore
<1>2. n \in 0..Len(pipe) /\ n \in 0..BufferSize
      /\ (n = BufferSize \/ (n = Len(pipe) /\ Pipe!EndOfFile))
  BY <1>1 DEF Pipe!Read, Pipe!EndOfFile
<1>3. inbox' = SubSeq(pipe, 1, n) /\ pipe' = SubSeq(pipe, n + 1, Len(pipe))
  BY DEF Pipe!Read
<1> HIDE DEF n
<1>4. /\ SubSeq(pipe, 1, n) \in Seq(Int) /\ Len(SubSeq(pipe, 1, n)) = n
      /\ \A i \in 1..n : SubSeq(pipe, 1, n)[i] = pipe[i]
      /\ SubSeq(pipe, n + 1, Len(pipe)) \in Seq(Int)
      /\ Len(SubSeq(pipe, n + 1, Len(pipe))) = Len(pipe) - n
      /\ \A i \in 1..(Len(pipe) - n) : SubSeq(pipe, n + 1, Len(pipe))[i] = pipe[n + i]
  BY <1>1, <1>2, CutInTwo
<1>5. n <= Len(pipe)
  BY <1>1, <1>2
<1> QED
  BY <1>2, <1>3, <1>4, <1>5, Zenon

(* The first bytes that are read are the header that was sent, or nothing. *)
LEMMA PipeHeaderReceived ==
  ASSUME Pipe!IInv, rpc = "receiveHeader", Pipe!Read
  PROVE  \/ inbox' = << >> /\ pipe' = pipe /\ pipe = << >> /\ spc \notin Pipe!SenderOpen
         \/ /\ inbox' # << >> /\ Pipe!HasKey(inbox'[1]) /\ Pipe!AnnouncedBy(inbox'[1]) = announced
            /\ announced \in Nat /\ pipe # << >>
            /\ Len(inbox') = BufferSize /\ inbox' \in Seq(Int)
            /\ pipe' \in Seq(Int) /\ Len(pipe') = Len(pipe) - BufferSize
            /\ \A i \in 1..(Len(pipe) - BufferSize) : pipe'[i] = pipe[BufferSize + i]
<1>1. PICK n \in 0..BufferSize :
           /\ n <= Len(pipe)
           /\ n = BufferSize \/ (n = Len(pipe) /\ Pipe!EndOfFile)
           /\ inbox' \in Seq(Int) /\ Len(inbox') = n
           /\ \A i \in 1..n : inbox'[i] = pipe[i]
           /\ pipe' \in Seq(Int) /\ Len(pipe') = Len(pipe) - n
           /\ \A i \in 1..(Len(pipe) - n) : pipe'[i] = pipe[n + i]
  BY PipeReadFacts
<1>2. pipe \in Seq(Int) /\ Len(pipe) \in Nat /\ BufferSize \in Nat \ {0}
  BY PipeBefore
<1>3. CASE pipe = << >>
  <2>1. Len(pipe) = 0 /\ n = 0
    BY <1>1, <1>2, <1>3
  <2>2. inbox' = << >> /\ pipe' = << >>
    BY <1>1, <1>2, <2>1, EmptySeq
  <2>3. spc \notin Pipe!SenderOpen
    BY <1>1, <1>2, <2>1 DEF Pipe!EndOfFile, Pipe!Writing
  <2> QED
    BY <1>3, <2>2, <2>3
<1>4. CASE pipe # << >>
  <2>1. Len(pipe) >= 1
    BY <1>2, <1>4, EmptySeq
  <2>2. Pipe!HeaderLength = BufferSize /\ Pipe!InPipe >= 0
    BY <1>4, PipeBefore DEF Pipe!InTransit, Pipe!HeaderLength
  <2>3. Len(pipe) >= BufferSize
    BY <1>2, <2>2 DEF Pipe!InPipe
  <2>4. n = BufferSize
    BY <1>1, <1>2, <2>3 DEF Pipe!EndOfFile
  <2>5. inbox'[1] = pipe[1]
    BY <1>1, <1>2, <2>4
  <2>6. pipe[1] = Pipe!HeaderByte(announced)
    BY <1>2, <2>1, <2>2, PipeBefore DEF Pipe!InTransit
  <2>7. announced \in Nat
    BY <1>4, PipeBefore DEF Pipe!NothingSent
  <2>8. inbox' # << >>
    BY <1>1, <1>2, <2>4, EmptySeq
  <2> QED
    BY <1>1, <1>4, <2>4, <2>5, <2>6, <2>7, <2>8 DEF Pipe!HeaderByte, Pipe!HasKey,
       Pipe!AnnouncedBy
<1> QED
  BY <1>3, <1>4

(* What closing the copy leaves of it is what it leaves in any session.    *)
LEMMA PipeClosedAfterIs ==
  \A c, n : Pipe!ClosedAfter(c, n) = ClosedAfter(c, n)
  BY DEF Pipe!ClosedAfter, Pipe!ClosedCopies, Pipe!WithoutLast, Pipe!MostLost,
     ClosedAfter, ClosedCopies, WithoutLast, MostLost

(* The header leaves the copy alone, also when it is closed at once.       *)
LEMMA PipeHeaderKeepsCopy ==
  ASSUME Pipe!IInv, Pipe!RReceiveHeader
  PROVE  out' = out
<1>1. out' = out \/ out' \in Pipe!ClosedAfter(out, BufferSize)
  BY DEF Pipe!RReceiveHeader
<1>2. out' = out \/ out' \in ClosedAfter(out, BufferSize)
  BY <1>1, PipeClosedAfterIs, Zenon
<1> QED
  BY <1>2, PipeBefore, NothingClosed

(* A read asks for a full buffer until it meets the end.                   *)
LEMMA PipeFilled ==
  ASSUME Pipe!IInv, spc = "fill"
  PROVE  /\ Pipe!SyncFileWithBuffer(lastRead, sent, size) = Pipe!ReadFile(sent, size)
         /\ Pipe!ReadFile(sent, size) \in 0..BufferSize
<1>1. sent <= size /\ (lastRead = BufferSize \/ sent = size)
  BY PipeBefore DEF Pipe!Reads
<1>2. /\ sent \in Nat /\ size \in Nat /\ lastRead \in 0..BufferSize
      /\ BufferSize \in Nat \ {0}
  BY PipeBefore
<1>3. Pipe!SyncFileWithBuffer(lastRead, sent, size) = Pipe!ReadFile(sent, size)
  BY <1>1, <1>2 DEF Pipe!SyncFileWithBuffer, Pipe!ReadFile
<1> QED
  BY <1>2, <1>3, PipeReadFileBounds

(* What is sent next, and what the stream keeps when it keeps that.        *)
LEMMA PipeSentPiece ==
  ASSUME Pipe!IInv, spc = "send"
  PROVE  /\ Pipe!Stretch(sent, lastRead) \in Seq(Int)
         /\ Len(Pipe!Stretch(sent, lastRead)) = lastRead
         /\ \A i \in 1..lastRead : Pipe!Stretch(sent, lastRead)[i] = sent + i
         /\ sent + lastRead <= size
         /\ lastRead < BufferSize => sent + lastRead = size
         /\ lastRead > 0 => kept = << >>
         /\ kept \o Pipe!Stretch(sent, lastRead) \in Seq(Int)
         /\ Len(kept \o Pipe!Stretch(sent, lastRead)) = Len(kept) + lastRead
         /\ lastRead > 0 => kept \o Pipe!Stretch(sent, lastRead) = Pipe!Stretch(sent, lastRead)
         /\ lastRead = 0 => kept \o Pipe!Stretch(sent, lastRead) = kept
<1>1. sent <= size /\ lastRead = Pipe!ReadFile(sent, size) /\ sent \in Nat /\ size \in Nat
  BY PipeBefore DEF Pipe!Reads
<1>2. lastRead \in Nat /\ kept \in Seq(Int) /\ Len(kept) \in Nat
  BY PipeBefore
<1>3. /\ Pipe!Stretch(sent, lastRead) \in Seq(Int) /\ Len(Pipe!Stretch(sent, lastRead)) = lastRead
      /\ \A i \in 1..lastRead : Pipe!Stretch(sent, lastRead)[i] = sent + i
  BY <1>1, <1>2, PipeStretchSeq
<1>4. /\ sent + lastRead <= size
      /\ lastRead < BufferSize => sent + lastRead = size
  BY <1>1, PipeReadFileBounds
<1>5. lastRead > 0 => kept = << >>
  BY <1>1, <1>2, <1>4, PipeBefore DEF Pipe!Reads
<1>6. /\ kept \o Pipe!Stretch(sent, lastRead) \in Seq(Int)
      /\ Len(kept \o Pipe!Stretch(sent, lastRead)) = Len(kept) + lastRead
  BY <1>2, <1>3, PipeJoined
<1>7. lastRead > 0 => kept \o Pipe!Stretch(sent, lastRead) = Pipe!Stretch(sent, lastRead)
  BY <1>3, <1>5, ConcatEmptySeq
<1>8. lastRead = 0 => kept \o Pipe!Stretch(sent, lastRead) = kept
  <2>1. lastRead = 0 => Pipe!Stretch(sent, lastRead) = << >>
    BY <1>3, EmptySeq
  <2> QED
    BY <1>2, <2>1, ConcatEmptySeq
<1> QED
  BY <1>3, <1>4, <1>5, <1>6, <1>7, <1>8

-----------------------------------------------------------------------------
(* The invariant, for each program: its parts about types and control,     *)
(* then those about the bytes, one step for each action.                   *)

(* The types hold after each step of the sender, then of the receiver.     *)
LEMMA PipeTypeSender ==
  ASSUME Pipe!IInv, Pipe!SLaunch \/ Pipe!SenderStep \/ Pipe!SCallFails \/ Pipe!SKill
  PROVE  Pipe!TypeOK'
<1> USE BufferSizeAssumption, SizesAssumption, RcProgramsAssumption DEF Pipe!TypeOK,
        Pipe!Outcomes
<1> Pipe!TypeOK
  BY DEF Pipe!IInv
<1>1. CASE Pipe!SLaunch
  BY <1>1, SMT DEF Pipe!SLaunch
<1>2. CASE Pipe!SMake
  <2>1. name' \in {"none", "fifo", "file"}
    BY <1>2, SMT DEF Pipe!SMake
  <2> QED
    BY <1>2, <2>1, SMT DEF Pipe!SMake
<1>3. CASE Pipe!SOpen
  <2>1. name' \in {"none", "fifo", "file"} /\ target' = name'
    BY <1>3, SMT DEF Pipe!SOpen
  <2>2. spc' \in Pipe!SenderLabels
    BY <1>3, SMT DEF Pipe!SOpen
  <2> QED
    BY <1>3, <2>1, <2>2, SMT DEF Pipe!SOpen
<1>4. CASE Pipe!SGiveUp
  BY <1>4, SMT DEF Pipe!SGiveUp
<1>5. CASE Pipe!SOpened
  BY <1>5, SMT DEF Pipe!SOpened
<1>6. CASE Pipe!SMeasure
  <2>1. toSend' \in Sizes \cup {Pipe!Unset}
    BY <1>6, SMT DEF Pipe!SMeasure, Pipe!AnnouncedSizes
  <2> QED
    BY <1>6, <2>1, SMT DEF Pipe!SMeasure
<1>7. CASE Pipe!SSendHeader
  <2>1. announced' \in Sizes /\ announced' \in Int
    BY <1>7, SMT DEF Pipe!SSendHeader, Pipe!AnnouncedSizes
  <2>2. pipe' \in Seq(Int) /\ Len(pipe') <= PipeCapacity
    <3>1. CASE Pipe!Write([i \in 1..BufferSize |-> Pipe!HeaderByte(announced')])
      <4>1. PICK n \in Int : n = announced'
        BY <2>1
      <4>2. [i \in 1..BufferSize |-> Pipe!HeaderByte(announced')] \in Seq(Int)
        BY <4>1, PipeHeaderBytesAre, Zenon
      <4> QED
        BY <3>1, <4>2, PipeWriteFacts
    <3>2. CASE UNCHANGED pipe
      BY <3>2, SMT
    <3> QED
      BY <1>7, <3>1, <3>2 DEF Pipe!SSendHeader, Pipe!Broken
  <2>3. /\ spc' \in {"fill", "close"} /\ sres' \in Pipe!Outcomes
        /\ UNCHANGED <<name, target, kept, toSend, sent, lastRead, rpc, rres, size,
                       expected, inbox, out, present>>
    BY <1>7 DEF Pipe!SSendHeader
  <2> QED
    BY <2>1, <2>2, <2>3, SMT
<1>8. CASE Pipe!SFill
  <2>1. lastRead' \in 0..BufferSize
    BY <1>8, PipeFilled DEF Pipe!SFill
  <2> QED
    BY <1>8, <2>1, SMTT(40) DEF Pipe!SFill
<1>9. CASE Pipe!SSend
  <2>1. /\ spc = "send" /\ spc' \in {"fill", "close"} /\ sres' \in Pipe!Outcomes
        /\ UNCHANGED <<name, target, toSend, announced, lastRead, rpc, rres, size,
                       expected, inbox, out, present>>
        /\ sent' = sent \/ sent' = sent + lastRead
    BY <1>9 DEF Pipe!SSend
  <2>2. lastRead \in Nat /\ lastRead \in 0..BufferSize /\ sent' \in Nat
    BY <2>1, PipeBefore
  <2>3. pipe' \in Seq(Int) /\ Len(pipe') <= PipeCapacity
    <3>1. CASE Pipe!Write(Pipe!Stretch(sent, lastRead))
      BY <2>1, <3>1, PipeSentPiece, PipeWriteFacts
    <3>2. CASE UNCHANGED pipe
      BY <3>2, SMT
    <3> QED
      BY <1>9, <3>1, <3>2 DEF Pipe!SSend, Pipe!Broken
  <2>4. kept' \in Seq(Int) /\ Len(kept') < BufferSize
    <3>1. CASE UNCHANGED kept
      BY <3>1, SMT
    <3>2. CASE lastRead < BufferSize /\ kept' = kept \o Pipe!Stretch(sent, lastRead)
      <4>1. CASE lastRead > 0
        BY <2>1, <3>2, <4>1, PipeSentPiece
      <4>2. CASE lastRead = 0
        BY <2>1, <3>2, <4>2, PipeSentPiece
      <4> QED
        BY <2>2, <4>1, <4>2
    <3> QED
      BY <1>9, <3>1, <3>2 DEF Pipe!SSend
  <2> QED
    BY <2>1, <2>2, <2>3, <2>4, SMT
<1>10. CASE Pipe!SClose
  <2>1. pipe' \in Seq(Int) /\ Len(pipe') <= PipeCapacity
    <3>1. CASE Pipe!Write(kept)
      BY <3>1, PipeBefore, PipeWriteFacts
    <3>2. CASE UNCHANGED pipe
      BY <3>2, SMT
    <3> QED
      BY <1>10, <3>1, <3>2 DEF Pipe!SClose, Pipe!Broken
  <2> QED
    BY <1>10, <2>1, SMT DEF Pipe!SClose
<1>11. CASE Pipe!SUnlink
  BY <1>11, SMT DEF Pipe!SUnlink
<1>12. CASE Pipe!SCallFails
  BY <1>12, SMT DEF Pipe!SCallFails
<1>13. CASE Pipe!SKill
  BY <1>13, SMT DEF Pipe!SKill
<1>14. CASE Pipe!STimer
  BY <1>14, SMT DEF Pipe!STimer
<1> QED
  BY <1>1, <1>2, <1>3, <1>4, <1>5, <1>6, <1>7, <1>8, <1>9, <1>10, <1>11,
     <1>12, <1>13, <1>14 DEF Pipe!SenderStep

(* The steps of the receiver keep the types.                               *)
LEMMA PipeTypeReceiver ==
  ASSUME Pipe!IInv, Pipe!RLaunch \/ Pipe!ReceiverStep \/ Pipe!RCallFails \/ Pipe!RKill
  PROVE  Pipe!TypeOK'
<1> USE BufferSizeAssumption, SizesAssumption, RcProgramsAssumption DEF Pipe!TypeOK,
        Pipe!Outcomes
<1> Pipe!TypeOK
  BY DEF Pipe!IInv
<1>1. CASE Pipe!RLaunch
  BY <1>1, SMT DEF Pipe!RLaunch
<1>2. CASE Pipe!RLook
  BY <1>2, SMTT(40) DEF Pipe!RLook
<1>3. CASE Pipe!ROpen
  BY <1>3, SMT DEF Pipe!ROpen
<1>4. CASE Pipe!ROpenFile
  <2>1. present' \in BOOLEAN
    BY <1>4, Zenon DEF Pipe!ROpenFile
  <2> QED
    BY <1>4, <2>1, SMT DEF Pipe!ROpenFile
<1>5. CASE Pipe!RReceiveHeader
  <2>1. rpc = "receiveHeader" /\ Pipe!Read
    BY <1>5 DEF Pipe!RReceiveHeader
  <2>2. /\ inbox' \in Seq(Int) /\ pipe' \in Seq(Int) /\ Len(pipe') <= PipeCapacity
        /\ inbox' # << >> => Pipe!AnnouncedBy(inbox'[1]) = announced /\ announced \in Nat
    BY <2>1, PipeHeaderReceived, PipeBefore
  <2>3. expected' \in Nat \cup {Pipe!Unset}
    BY <1>5, <2>2 DEF Pipe!RReceiveHeader
  <2>4. /\ rpc' \in {"receive", "close"} /\ rres' \in Pipe!Outcomes
        /\ UNCHANGED <<spc, sres, size, Pipe!senderData, name, target, kept, out, present>>
    BY <1>5, PipeHeaderKeepsCopy DEF Pipe!RReceiveHeader, Pipe!CheckedLength
  <2> QED
    BY <2>2, <2>3, <2>4, SMT
<1>6. CASE Pipe!RReceive
  <2>1. Pipe!Read
    BY <1>6 DEF Pipe!RReceive
  <2>2. PICK n \in 0..BufferSize :
          /\ n <= Len(pipe)
          /\ inbox' \in Seq(Int) /\ Len(inbox') = n
          /\ pipe' \in Seq(Int) /\ Len(pipe') = Len(pipe) - n
    BY <2>1, PipeReadFacts, Zenon
  <2>3. Len(pipe') <= PipeCapacity
    BY <2>2
  <2> QED
    BY <1>6, <2>2, <2>3, SMT DEF Pipe!RReceive
<1>7. CASE Pipe!RStore
  <2>1. out \o inbox \in Seq(Int)
    BY PipeJoined
  <2>2. out' \in Seq(Int)
    <3>1. CASE out' = out \/ out' = out \o inbox
      BY <2>1, <3>1
    <3>2. CASE out' \in Pipe!ClosedAfter(out \o inbox, Len(inbox))
      <4>1. out' \in ClosedAfter(out \o inbox, Len(inbox))
        BY <3>2, PipeClosedAfterIs, Zenon
      <4>2. (IF Len(inbox) < BufferSize THEN Len(inbox) ELSE 0) \in Nat
        BY PipeBefore
      <4> QED
        BY <2>1, <4>1, <4>2, CopyType, Zenon DEF ClosedAfter
    <3> QED
      BY <1>7, <3>1, <3>2 DEF Pipe!RStore
  <2>3. /\ rpc' \in {"receive", "close"} /\ rres' \in Pipe!Outcomes
        /\ UNCHANGED <<spc, sres, size, Pipe!senderData, Pipe!channel, expected, inbox, present>>
    BY <1>7 DEF Pipe!RStore, Pipe!CheckedLength
  <2> QED
    BY <2>2, <2>3, SMT
<1>8. CASE Pipe!RClose
  BY <1>8, SMT DEF Pipe!RClose
<1>9. CASE Pipe!RUnlink
  BY <1>9, SMT DEF Pipe!RUnlink
<1>10. CASE Pipe!RRemove
  <2>1. present' \in BOOLEAN
    BY <1>10, Zenon DEF Pipe!RRemove
  <2> QED
    BY <1>10, <2>1, SMT DEF Pipe!RRemove
<1>11. CASE Pipe!RCallFails
  BY <1>11, SMT DEF Pipe!RCallFails
<1>12. CASE Pipe!RKill
  BY <1>12, SMT DEF Pipe!RKill
<1> QED
  BY <1>1, <1>2, <1>3, <1>4, <1>5, <1>6, <1>7, <1>8, <1>9, <1>10, <1>11, <1>12
  DEF Pipe!ReceiverStep

(* Which programs hold the FIFO, what they know of the header, and what    *)
(* their results mean.                                                     *)
PipeControl == Pipe!OneName /\ Pipe!NothingSent /\ Pipe!Results /\ Pipe!NameGone

(* The name of the FIFO and the verdicts: the steps of the sender.         *)
LEMMA PipeControlSender ==
  ASSUME Pipe!IInv, Pipe!SLaunch \/ Pipe!SenderStep \/ Pipe!SCallFails \/ Pipe!SKill
  PROVE  PipeControl'
<1> /\ spc \in Pipe!SenderLabels /\ rpc \in Pipe!ReceiverLabels
    /\ sres \in Pipe!Outcomes /\ rres \in Pipe!Outcomes
    /\ name \in {"none", "fifo"} /\ target \in {"none", "fifo"}
    /\ size \in Nat /\ sent \in Nat /\ BufferSize \in Nat \ {0}
    /\ toSend \in Nat \cup {Pipe!Unset} /\ announced \in Nat \cup {Pipe!Unset}
    /\ expected \in Nat \cup {Pipe!Unset} /\ Len(out) \in Nat
    /\ Pipe!OneName /\ Pipe!NothingSent /\ Pipe!Results /\ Pipe!NameGone
  BY PipeBefore
<1> USE DEF PipeControl, Pipe!OneName, Pipe!FifoOpened, Pipe!NothingSent, Pipe!Results,
        Pipe!NameGone, Pipe!Outcomes
<1>1. CASE Pipe!SLaunch
  BY <1>1 DEF Pipe!SLaunch
<1>2. CASE Pipe!SMake
  BY <1>2 DEF Pipe!SMake
<1>3. CASE Pipe!SOpen
  BY <1>3 DEF Pipe!SOpen
<1>4. CASE Pipe!SGiveUp
  BY <1>4 DEF Pipe!SGiveUp
<1>5. CASE Pipe!SOpened
  BY <1>5 DEF Pipe!SOpened
<1>6. CASE Pipe!SMeasure
  BY <1>6, SizesAssumption, PipeBefore DEF Pipe!SMeasure, Pipe!AnnouncedSizes
<1>7. CASE Pipe!SSendHeader
  <2>1. /\ spc = "sendHeader" /\ announced' \in Sizes /\ announced' \in Nat
        /\ "resize" \notin Disturbances => announced' = size
        /\ UNCHANGED <<name, target, kept, toSend, sent, lastRead, rpc, rres, size,
                       expected, inbox, out, present>>
    BY <1>7, PipeBefore DEF Pipe!SSendHeader, Pipe!AnnouncedSizes
  <2>2. \/ spc' = "fill" /\ sres' = sres /\ 0 < toSend
        \/ spc' = "close" /\ sres' = "success" /\ ~(0 < toSend)
        \/ spc' = "close" /\ sres' = "failure"
    BY <1>7 DEF Pipe!SSendHeader, Pipe!SendsMore
  <2>3. rpc \in Pipe!NotReceived => expected = Pipe!Unset
    OBVIOUS
  <2>4. CASE spc' = "fill"
    BY <2>1, <2>2, <2>4
  <2>5. CASE spc' = "close" /\ sres' = "success"
    BY <2>1, <2>2, <2>5
  <2>6. CASE spc' = "close" /\ sres' = "failure"
    BY <2>1, <2>2, <2>6
  <2> QED
    BY <2>2, <2>4, <2>5, <2>6
<1>8. CASE Pipe!SFill
  BY <1>8 DEF Pipe!SFill
<1>9. CASE Pipe!SSend
  <2>1. /\ spc = "send" /\ lastRead \in Nat
        /\ UNCHANGED <<name, target, toSend, announced, lastRead, rpc, rres, size,
                       expected, inbox, out, present>>
    BY <1>9, PipeBefore DEF Pipe!SSend
  <2>2. PICK total \in Nat : total = sent + lastRead
    BY <2>1
  <2>3. \/ spc' = "fill" /\ sres' = sres /\ sent' = total /\ total < toSend
        \/ spc' = "close" /\ sres' = "success" /\ sent' = total /\ ~(total < toSend)
        \/ spc' = "close" /\ sres' = "failure"
    BY <1>9, <2>2 DEF Pipe!SSend, Pipe!SendsMore
  <2>4. CASE spc' = "fill"
    BY <2>1, <2>3, <2>4
  <2>5. CASE spc' = "close" /\ sres' = "success"
    BY <2>1, <2>3, <2>5
  <2>6. CASE spc' = "close" /\ sres' = "failure"
    BY <2>1, <2>3, <2>6
  <2> QED
    BY <2>3, <2>4, <2>5, <2>6
<1>10. CASE Pipe!SClose
  <2>1. announced = Pipe!Unset => pipe' = << >>
    <3>1. pipe = << >> /\ kept = << >> => pipe' = << >>
      BY <1>10, ConcatEmptySeq, EmptySeq DEF Pipe!SClose, Pipe!Write, Pipe!Broken
    <3> QED
      BY <3>1
  <2>2. UNCHANGED <<rpc, Pipe!outcomes, name, target, kept, size, Pipe!senderData,
        Pipe!receiverData>>
    BY <1>10 DEF Pipe!SClose
  <2> QED
    BY <1>10, <2>1, <2>2 DEF Pipe!SClose
<1>11. CASE Pipe!SUnlink
  BY <1>11 DEF Pipe!SUnlink
<1>12. CASE Pipe!SCallFails
  BY <1>12 DEF Pipe!SCallFails
<1>13. CASE Pipe!SKill
  BY <1>13 DEF Pipe!SKill
<1>14. CASE Pipe!STimer
  BY <1>14 DEF Pipe!STimer
<1> QED
  BY <1>1, <1>2, <1>3, <1>4, <1>5, <1>6, <1>7, <1>8, <1>9, <1>10, <1>11,
     <1>12, <1>13, <1>14 DEF Pipe!SenderStep

(* What is said of turns, queues and names: the steps of the receiver keep *)
(* it.                                                                     *)
LEMMA PipeControlReceiver ==
  ASSUME Pipe!IInv, Pipe!RLaunch \/ Pipe!ReceiverStep \/ Pipe!RCallFails \/ Pipe!RKill
  PROVE  PipeControl'
<1> /\ spc \in Pipe!SenderLabels /\ rpc \in Pipe!ReceiverLabels
    /\ sres \in Pipe!Outcomes /\ rres \in Pipe!Outcomes
    /\ name \in {"none", "fifo"} /\ target \in {"none", "fifo"}
    /\ size \in Nat /\ sent \in Nat /\ BufferSize \in Nat \ {0}
    /\ toSend \in Nat \cup {Pipe!Unset} /\ announced \in Nat \cup {Pipe!Unset}
    /\ expected \in Nat \cup {Pipe!Unset} /\ Len(out) \in Nat
    /\ Pipe!OneName /\ Pipe!NothingSent /\ Pipe!Results /\ Pipe!NameGone
  BY PipeBefore
<1> USE DEF PipeControl, Pipe!OneName, Pipe!FifoOpened, Pipe!NothingSent, Pipe!Results,
        Pipe!NameGone, Pipe!Outcomes
<1>1. CASE Pipe!RLaunch
  BY <1>1 DEF Pipe!RLaunch
<1>2. CASE Pipe!RLook
  BY <1>2 DEF Pipe!RLook
<1>3. CASE Pipe!ROpen
  BY <1>3 DEF Pipe!ROpen
<1>4. CASE Pipe!ROpenFile
  BY <1>4 DEF Pipe!ROpenFile
<1>5. CASE Pipe!RReceiveHeader
  <2>1. /\ rpc = "receiveHeader" /\ Pipe!Read
        /\ UNCHANGED <<spc, sres, name, target, size, Pipe!senderData, out, present>>
    BY <1>5, PipeHeaderKeepsCopy DEF Pipe!RReceiveHeader
  <2>2. CASE inbox' = << >> /\ pipe' = pipe
    BY <1>5, <2>1, <2>2 DEF Pipe!RReceiveHeader
  <2>3. CASE inbox' # << >> /\ Pipe!HasKey(inbox'[1]) /\ pipe # << >>
             /\ Pipe!AnnouncedBy(inbox'[1]) = announced /\ announced \in Nat
    <3>1. expected' = announced
      BY <1>5, <2>3 DEF Pipe!RReceiveHeader
    <3>2. \/ rpc' = "receive" /\ Len(out) < announced /\ rres' = rres
          \/ rpc' = "close" /\ rres' = Pipe!CheckedLength(Len(out), announced)
      BY <1>5, <2>1, <2>3, <3>1 DEF Pipe!RReceiveHeader, Pipe!ReceivesMore
    <3>3. rpc' = "close" => /\ rres' \in {"success", "failure"}
                            /\ rres' = "success" => Len(out) = announced
      BY <3>2 DEF Pipe!CheckedLength
    <3>4. CASE rpc' = "receive"
      BY <2>1, <2>3, <3>1, <3>2, <3>4
    <3>5. CASE rpc' = "close"
      BY <2>1, <2>3, <3>1, <3>3, <3>5
    <3> QED
      BY <3>2, <3>4, <3>5
  <2> QED
    BY <2>1, <2>2, <2>3, PipeHeaderReceived
<1>6. CASE Pipe!RReceive
  <2>1. /\ rpc = "receive" /\ rpc' = "store"
        /\ UNCHANGED <<spc, Pipe!outcomes, name, target, kept, size, Pipe!senderData, expected,
                       out, present>>
    BY <1>6 DEF Pipe!RReceive
  <2>2. announced # Pipe!Unset
    BY <2>1
  <2> QED
    BY <2>1, <2>2
<1>7. CASE Pipe!RStore
  <2>1. /\ rpc = "store"
        /\ UNCHANGED <<spc, sres, Pipe!channel, size, Pipe!senderData, expected, inbox, present>>
        /\ \/ rpc' = "receive" /\ rres' = rres /\ Len(out') < expected
           \/ rpc' = "close" /\ rres' = Pipe!CheckedLength(Len(out'), expected)
           \/ rpc' = "close" /\ rres' = "failure"
    BY <1>7 DEF Pipe!RStore, Pipe!ReceivesMore
  <2>2. rpc' = "close" => /\ rres' \in {"success", "failure"}
                          /\ rres' = "success" => Len(out') = expected
    BY <2>1 DEF Pipe!CheckedLength
  <2>3. CASE rpc' = "receive"
    BY <2>1, <2>3
  <2>4. CASE rpc' = "close"
    BY <2>1, <2>2, <2>4
  <2> QED
    BY <2>1, <2>3, <2>4
<1>8. CASE Pipe!RClose
  BY <1>8 DEF Pipe!RClose
<1>9. CASE Pipe!RUnlink
  BY <1>9 DEF Pipe!RUnlink
<1>10. CASE Pipe!RRemove
  BY <1>10 DEF Pipe!RRemove
<1>11. CASE Pipe!RCallFails
  BY <1>11 DEF Pipe!RCallFails
<1>12. CASE Pipe!RKill
  BY <1>12 DEF Pipe!RKill
<1> QED
  BY <1>1, <1>2, <1>3, <1>4, <1>5, <1>6, <1>7, <1>8, <1>9, <1>10, <1>11, <1>12
  DEF Pipe!ReceiverStep

(* Opening the FIFO in both programs keeps it.                             *)
LEMMA PipeControlMeet ==
  ASSUME Pipe!IInv, Pipe!Meet
  PROVE  PipeControl'
<1> /\ spc \in Pipe!SenderLabels /\ rpc \in Pipe!ReceiverLabels
    /\ sres \in Pipe!Outcomes /\ rres \in Pipe!Outcomes
    /\ name \in {"none", "fifo"} /\ target \in {"none", "fifo"}
    /\ size \in Nat /\ sent \in Nat /\ BufferSize \in Nat \ {0}
    /\ toSend \in Nat \cup {Pipe!Unset} /\ announced \in Nat \cup {Pipe!Unset}
    /\ expected \in Nat \cup {Pipe!Unset} /\ Len(out) \in Nat
    /\ Pipe!OneName /\ Pipe!NothingSent /\ Pipe!Results /\ Pipe!NameGone
  BY PipeBefore
<1> USE DEF PipeControl, Pipe!OneName, Pipe!FifoOpened, Pipe!NothingSent, Pipe!Results,
        Pipe!NameGone, Pipe!Outcomes
<1> QED
  BY DEF Pipe!Meet

(* So does a crash of the sender on the way.                               *)
LEMMA PipeControlCrash ==
  ASSUME Pipe!IInv, Pipe!SCrash
  PROVE  PipeControl'
<1> /\ spc \in Pipe!SenderLabels /\ rpc \in Pipe!ReceiverLabels
    /\ sres \in Pipe!Outcomes /\ rres \in Pipe!Outcomes
    /\ name \in {"none", "fifo"} /\ target \in {"none", "fifo"}
    /\ size \in Nat /\ sent \in Nat /\ BufferSize \in Nat \ {0}
    /\ toSend \in Nat \cup {Pipe!Unset} /\ announced \in Nat \cup {Pipe!Unset}
    /\ expected \in Nat \cup {Pipe!Unset} /\ Len(out) \in Nat
    /\ Pipe!OneName /\ Pipe!NothingSent /\ Pipe!Results /\ Pipe!NameGone
  BY PipeBefore
<1> USE DEF PipeControl, Pipe!OneName, Pipe!FifoOpened, Pipe!NothingSent, Pipe!Results,
        Pipe!NameGone, Pipe!Outcomes
<1> QED
  BY DEF Pipe!SCrash

-----------------------------------------------------------------------------
PipeListening == {"openFile", "receiveHeader"} \cup Pipe!Receiving
PipeStream == Pipe!InTransit /\ Pipe!Reads /\ Pipe!Ahead /\ Pipe!Prefix

(* What the receiver reads in the pipe from its state on.                  *)
PipeFollows ==
  /\ Pipe!InPipe >= 0 /\ Pipe!Reached + Pipe!InPipe <= size
  /\ \A i \in 1..Len(pipe) :
       pipe[i] = IF i <= Pipe!HeaderLength THEN Pipe!HeaderByte(announced)
                 ELSE Pipe!Reached + i - Pipe!HeaderLength
  /\ rpc = "store" => \A i \in 1..Len(inbox) : inbox[i] = Len(out) + i
PipeStarts ==
  rpc \in Pipe!NotReceived => /\ spc \in Pipe!Sending => pipe # << >>
                              /\ spc = "close" /\ kept # << >> => pipe # << >>

(* Lengths of a source, of a buffer and of a pipe are numbers.             *)
LEMMA PipeLengthsAre ==
  ASSUME Pipe!IInv
  PROVE  /\ Pipe!HeaderLength \in Nat /\ Pipe!InPipe \in Int /\ Pipe!Reached \in Nat
         /\ Pipe!Written \in Int
         /\ kept = << >> => Pipe!Written = sent
         /\ rpc \in PipeListening => PipeFollows /\ PipeStarts
         /\ rpc \in PipeListening /\ spc \in Pipe!Sending \cup {"close"}
              => Pipe!Written = Pipe!Reached + Pipe!InPipe
         /\ pipe = << >> <=> Len(pipe) = 0
         /\ kept = << >> <=> Len(kept) = 0
<1>1. /\ Pipe!HeaderLength \in Nat /\ Pipe!Reached \in Nat /\ (pipe = << >> <=> Len(pipe) = 0)
      /\ (kept = << >> <=> Len(kept) = 0)
  BY PipeBefore, EmptySeq DEF Pipe!HeaderLength, Pipe!Reached
<1>2. Pipe!InPipe \in Int
  BY <1>1, PipeBefore DEF Pipe!InPipe
<1>3. Pipe!Written \in Int /\ (kept = << >> => Pipe!Written = sent)
  BY <1>1, PipeBefore DEF Pipe!Written
<1>4. /\ rpc \in PipeListening => PipeFollows /\ PipeStarts
      /\ rpc \in PipeListening /\ spc \in Pipe!Sending \cup {"close"}
           => Pipe!Written = Pipe!Reached + Pipe!InPipe
  BY PipeBefore DEF Pipe!InTransit, PipeFollows, PipeStarts, PipeListening
<1> QED
  BY <1>1, <1>2, <1>3, <1>4

(* Bytes that follow each other up to where the sender is are all that the *)
(* invariant asks for.                                                     *)
LEMMA PipeTransitThen ==
  ASSUME rpc' \in PipeListening => PipeFollows' /\ PipeStarts',
         rpc' \in PipeListening /\ spc' \in Pipe!Sending \cup {"close"}
           => Pipe!Written' = Pipe!Reached' + Pipe!InPipe'
  PROVE  Pipe!InTransit'
  BY DEF Pipe!InTransit, PipeFollows, PipeStarts, PipeListening

(* Before there is a header no one has taken anything.                     *)
LEMMA PipeNothingYet ==
  ASSUME Pipe!IInv, announced = Pipe!Unset
  PROVE  /\ pipe = << >> /\ Len(pipe) = 0 /\ kept = << >> /\ Len(kept) = 0
         /\ rpc \notin Pipe!Receiving /\ spc \notin Pipe!Sending
         /\ rpc \in PipeListening => /\ out = << >> /\ Len(out) = 0
                                     /\ Pipe!Reached = 0 /\ Pipe!InPipe = 0 /\ Pipe!HeaderLength = 0
<1>1. /\ pipe = << >> /\ kept = << >> /\ rpc \notin Pipe!Receiving /\ spc \notin Pipe!Sending
      /\ rpc \in Pipe!NotReceived => out = << >>
  BY PipeBefore DEF Pipe!NothingSent
<1>2. Len(pipe) = 0 /\ Len(kept) = 0 /\ (out = << >> => Len(out) = 0)
  BY <1>1, PipeBefore, EmptySeq
<1> QED
  BY <1>1, <1>2 DEF PipeListening, Pipe!Reached, Pipe!InPipe, Pipe!HeaderLength

(* A sender that writes nothing and neither goes on nor keeps bytes leaves *)
(* them alone.                                                             *)
LEMMA PipeSenderRests ==
  ASSUME Pipe!IInv, spc' \notin Pipe!Sending,
         UNCHANGED <<rpc, pipe, kept, size, sent, out, inbox>>,
         announced' = announced \/ rpc \notin PipeListening,
         spc' = "close" => spc \in Pipe!Sending \/ (announced = Pipe!Unset /\ sent = 0),
         sres' = "success" => sres = "success"
  PROVE  PipeStream'
<1>1. Pipe!Prefix'
  BY PipeBefore DEF Pipe!Prefix
<1>2. Pipe!Reads'
  <2>1. CASE spc' = "close" /\ announced = Pipe!Unset
    <3>1. kept = << >>
      BY <2>1, PipeNothingYet
    <3> QED
      BY <2>1, <3>1, PipeBefore DEF Pipe!Reads
  <2>2. CASE ~(spc' = "close" /\ announced = Pipe!Unset)
    BY <2>2, PipeBefore DEF Pipe!Reads
  <2> QED
    BY <2>1, <2>2
<1>3. Pipe!Ahead'
  BY PipeBefore DEF Pipe!Ahead
<1>4. /\ Pipe!HeaderLength' = Pipe!HeaderLength /\ Pipe!InPipe' = Pipe!InPipe
      /\ Pipe!Reached' = Pipe!Reached
      /\ Pipe!Written' = Pipe!Written
  BY DEF Pipe!HeaderLength, Pipe!InPipe, Pipe!Reached, Pipe!Written
<1>5. ASSUME rpc \in PipeListening PROVE PipeFollows' /\ PipeStarts'
  <2>1. PipeFollows /\ PipeStarts /\ announced' = announced
    BY <1>5, PipeLengthsAre
  <2>2. PipeFollows'
    BY <1>4, <2>1 DEF PipeFollows
  <2>3. spc' = "close" /\ kept # << >> => spc \in Pipe!Sending
    BY PipeNothingYet
  <2>4. PipeStarts'
    BY <2>1, <2>3 DEF PipeStarts
  <2> QED
    BY <2>2, <2>4
<1>6. rpc \in PipeListening /\ spc' = "close" => Pipe!Written = Pipe!Reached + Pipe!InPipe
  <2>1. CASE spc \in Pipe!Sending
    BY <2>1, PipeLengthsAre
  <2>2. CASE announced = Pipe!Unset /\ sent = 0
    BY <2>2, PipeNothingYet, PipeLengthsAre
  <2> QED
    BY <2>1, <2>2
<1>7. Pipe!InTransit'
  BY <1>4, <1>5, <1>6, PipeTransitThen
<1> QED
  BY <1>1, <1>2, <1>3, <1>7 DEF PipeStream

(* So does a receiver that takes nothing and reads no more, or opens its   *)
(* file.                                                                   *)
LEMMA PipeReceiverRests ==
  ASSUME Pipe!IInv, rpc' \in PipeListening => rpc = "openFile" /\ rpc' = "receiveHeader",
         UNCHANGED <<spc, sres, pipe, kept, size, announced, sent, lastRead, out, inbox>>
  PROVE  PipeStream'
<1>1. Pipe!Written' = Pipe!Written
  BY DEF Pipe!Written
<1>2. Pipe!Reads'
  BY PipeBefore DEF Pipe!Reads
<1>3. Pipe!Ahead'
  BY <1>1, PipeBefore DEF Pipe!Ahead
<1>4. Pipe!InTransit'
  <2>1. CASE rpc' \in PipeListening
    <3>1. Pipe!HeaderLength' = Pipe!HeaderLength /\ Pipe!InPipe' = Pipe!InPipe
          /\ Pipe!Reached' = Pipe!Reached
      BY <2>1 DEF Pipe!HeaderLength, Pipe!InPipe, Pipe!Reached
    <3>2. rpc \in PipeListening /\ rpc \in Pipe!NotReceived
      BY <2>1 DEF PipeListening
    <3>3. PipeFollows /\ PipeStarts
      BY <3>2, PipeLengthsAre
    <3>4. PipeFollows' /\ PipeStarts'
      BY <2>1, <3>1, <3>2, <3>3 DEF PipeFollows, PipeStarts
    <3>5. spc' \in Pipe!Sending \cup {"close"} => Pipe!Written' = Pipe!Reached' + Pipe!InPipe'
      BY <1>1, <3>1, <3>2, PipeLengthsAre
    <3> QED
      BY <3>4, <3>5, PipeTransitThen
  <2>2. CASE rpc' \notin PipeListening
    BY <2>2, PipeTransitThen
  <2> QED
    BY <2>1, <2>2
<1> QED
  BY <1>2, <1>3, <1>4, PipeBefore DEF PipeStream, Pipe!Prefix

(* The header is written to an empty pipe.                                 *)
LEMMA PipeHeaderPut ==
  ASSUME Pipe!IInv, spc = "sendHeader", announced' \in Nat,
         Pipe!Write([i \in 1..BufferSize |-> Pipe!HeaderByte(announced')]),
         \/ spc' = "fill" /\ sres' = sres
         \/ spc' = "close",
         UNCHANGED <<kept, sent, lastRead, rpc, size, inbox, out>>
  PROVE  PipeStream'
<1>1. /\ announced = Pipe!Unset /\ sent = 0 /\ kept = << >> /\ lastRead = BufferSize
      /\ pipe = << >> /\ Len(pipe) = 0 /\ rpc \notin Pipe!Receiving /\ Len(kept) = 0
      /\ sres = "none"
      /\ rpc \in PipeListening => Len(out) = 0
      /\ BufferSize \in Nat \ {0} /\ PipeCapacity \in Nat /\ size \in Nat
      /\ Len(out) \in Nat /\ Len(inbox) \in Nat
  BY PipeBefore, PipeNothingYet DEF Pipe!NothingSent, Pipe!Results
<1>2. PICK a \in Nat : a = announced'
  OBVIOUS
<1>3. PICK h \in Seq(Int) :
        /\ Len(h) = BufferSize /\ \A i \in 1..BufferSize : h[i] = Pipe!HeaderByte(a)
        /\ Pipe!Write(h)
  <2>1. Pipe!Write([i \in 1..BufferSize |-> Pipe!HeaderByte(a)])
    BY <1>2, Zenon
  <2>2. a \in Int
    OBVIOUS
  <2> QED
    BY <2>1, <2>2, PipeHeaderBytesAre, Zenon
<1>4. /\ pipe' \in Seq(Int) /\ Len(pipe') = BufferSize /\ pipe' # << >>
      /\ \A i \in 1..BufferSize : pipe'[i] = Pipe!HeaderByte(a)
  <2>1. /\ pipe' \in Seq(Int) /\ Len(pipe') = Len(pipe) + Len(h)
        /\ \A i \in 1..Len(h) : pipe'[Len(pipe) + i] = h[i]
    BY <1>3, PipeWriteFacts
  <2>2. Len(pipe') = BufferSize /\ pipe' # << >>
    BY <1>1, <1>3, <2>1, EmptySeq
  <2>3. ASSUME NEW i \in 1..BufferSize PROVE pipe'[i] = Pipe!HeaderByte(a)
    <3>1. pipe'[0 + i] = h[i] /\ 0 + i = i
      BY <1>1, <1>3, <2>1
    <3> QED
      BY <1>3, <3>1
  <2> QED
    BY <2>1, <2>2, <2>3
<1>5. Pipe!Written' = 0
  <2>1. sent' = 0 /\ Len(kept') = 0
    BY <1>1, Zenon
  <2> QED
    BY <2>1 DEF Pipe!Written
<1>6. Pipe!Reads'
  BY <1>1, PipeBefore DEF Pipe!Reads
<1>7. Pipe!Ahead'
  BY <1>1, <1>4, <1>5, PipeBefore DEF Pipe!Ahead
<1>8. Pipe!InTransit'
  <2> SUFFICES ASSUME rpc \in PipeListening PROVE Pipe!InTransit'
    BY PipeTransitThen
  <2>1. Pipe!HeaderLength' = BufferSize /\ Pipe!Reached' = 0 /\ Pipe!InPipe' = 0
    BY <1>1, <1>4 DEF Pipe!HeaderLength, Pipe!Reached, Pipe!InPipe, PipeListening
  <2>2. \A i \in 1..Len(pipe') :
          pipe'[i] = IF i <= BufferSize THEN Pipe!HeaderByte(a) ELSE 0 + i - BufferSize
    BY <1>1, <1>4
  <2>3. PipeFollows'
    BY <1>1, <1>2, <2>1, <2>2 DEF PipeFollows
  <2>4. PipeStarts'
    BY <1>4 DEF PipeStarts
  <2>5. Pipe!Written' = Pipe!Reached' + Pipe!InPipe'
    BY <1>5, <2>1
  <2> QED
    BY <2>3, <2>4, <2>5, PipeTransitThen
<1> QED
  BY <1>6, <1>7, <1>8, PipeBefore DEF PipeStream, Pipe!Prefix

(* A read only moves what the sender has to its own buffer.                *)
LEMMA PipeBufferFilled ==
  ASSUME Pipe!IInv, spc = "fill", spc' = "send",
         lastRead' = Pipe!SyncFileWithBuffer(lastRead, sent, size),
         UNCHANGED <<rpc, sres, pipe, kept, size, announced, sent, out, inbox>>
  PROVE  PipeStream'
<1>1. /\ Pipe!HeaderLength' = Pipe!HeaderLength /\ Pipe!InPipe' = Pipe!InPipe
      /\ Pipe!Reached' = Pipe!Reached
      /\ Pipe!Written' = Pipe!Written
  BY DEF Pipe!HeaderLength, Pipe!InPipe, Pipe!Reached, Pipe!Written
<1>2. Pipe!InTransit'
  BY <1>1, PipeBefore DEF Pipe!InTransit
<1>3. lastRead' = Pipe!ReadFile(sent, size)
  BY PipeFilled
<1>4. Pipe!Reads'
  BY <1>3, PipeBefore DEF Pipe!Reads
<1>5. Pipe!Ahead'
  BY <1>1, PipeBefore DEF Pipe!Ahead
<1> QED
  BY <1>2, <1>4, <1>5, PipeBefore DEF PipeStream, Pipe!Prefix

(* The next k bytes of the source are written behind the others.           *)
LEMMA PipeAppended ==
  ASSUME Pipe!IInv, NEW m \in Nat, NEW k \in Nat, m + k <= size, Pipe!Write(Pipe!Stretch(m, k)),
         UNCHANGED <<rpc, size, announced, out, inbox>>, rpc \in PipeListening,
         m = Pipe!Reached + Pipe!InPipe, rpc \in Pipe!NotReceived => pipe # << >>
  PROVE  /\ PipeFollows' /\ Pipe!Reached' = Pipe!Reached /\ Pipe!InPipe' = Pipe!InPipe + k
         /\ rpc \in Pipe!NotReceived => pipe' # << >>
<1> DEFINE b == Pipe!Stretch(m, k)
<1>1. b \in Seq(Int) /\ Len(b) = k /\ \A i \in 1..k : b[i] = m + i
  BY PipeStretchSeq
<1> HIDE DEF b
<1>2. /\ pipe' \in Seq(Int) /\ Len(pipe') = Len(pipe) + k
      /\ \A i \in 1..Len(pipe) : pipe'[i] = pipe[i]
      /\ \A i \in 1..k : pipe'[Len(pipe) + i] = m + i
  <2>1. Pipe!Write(b)
    BY DEF b
  <2> QED
    BY <1>1, <2>1, PipeWriteFacts
<1>3. Len(pipe) \in Nat /\ (pipe = << >> <=> Len(pipe) = 0)
      /\ (pipe' = << >> <=> Len(pipe') = 0)
  BY <1>2, PipeBefore, PipeLengthsAre, EmptySeq
<1>4. Pipe!HeaderLength' = Pipe!HeaderLength /\ Pipe!Reached' = Pipe!Reached
      /\ (rpc \in Pipe!NotReceived => pipe' # << >>)
  BY <1>2, <1>3 DEF Pipe!HeaderLength, Pipe!Reached
<1>5. Pipe!InPipe' = Pipe!InPipe + k
  BY <1>2, <1>3, <1>4, PipeLengthsAre DEF Pipe!InPipe
<1>6. PipeFollows
  BY PipeLengthsAre
<1>7. ASSUME NEW i \in 1..Len(pipe')
      PROVE  pipe'[i] = IF i <= Pipe!HeaderLength THEN Pipe!HeaderByte(announced)
                        ELSE Pipe!Reached + i - Pipe!HeaderLength
  <2>1. CASE i \in 1..Len(pipe)
    BY <1>2, <1>6, <2>1 DEF PipeFollows
  <2>2. CASE i \notin 1..Len(pipe)
    <3>1. i - Len(pipe) \in 1..k /\ Len(pipe) + (i - Len(pipe)) = i
      BY <1>2, <1>3, <2>2
    <3>2. pipe'[i] = m + (i - Len(pipe))
      BY <1>2, <3>1
    <3>3. Pipe!InPipe = Len(pipe) - Pipe!HeaderLength /\ Pipe!InPipe >= 0
      BY <1>6 DEF Pipe!InPipe, PipeFollows
    <3>4. ~(i <= Pipe!HeaderLength)
      <4>1. Pipe!HeaderLength \in Int
        BY PipeLengthsAre
      <4>2. i \in Int /\ i > Len(pipe)
        BY <1>2, <1>3, <3>1
      <4> QED
        BY <1>3, <3>3, <4>1, <4>2
    <3>5. m + (i - Len(pipe)) = Pipe!Reached + i - Pipe!HeaderLength
      <4>1. /\ i \in Int /\ Len(pipe) \in Int /\ Pipe!Reached \in Int /\ Pipe!HeaderLength \in Int
            /\ m = Pipe!Reached + (Len(pipe) - Pipe!HeaderLength)
        BY <1>2, <1>3, <3>3, PipeLengthsAre
      <4> QED
        BY <4>1
    <3> QED
      BY <3>2, <3>4, <3>5
  <2> QED
    BY <2>1, <2>2
<1>8. Pipe!Reached + Pipe!InPipe + k <= size /\ Pipe!InPipe + k >= 0
  BY <1>6, PipeLengthsAre DEF PipeFollows
<1>9. rpc = "store" => \A i \in 1..Len(inbox) : inbox[i] = Len(out) + i
  BY <1>6 DEF PipeFollows
<1> QED
  BY <1>4, <1>5, <1>7, <1>8, <1>9, PipeLengthsAre DEF PipeFollows

(* With what is in both buffers, in the stream and in the pipe, a sender   *)
(* is ahead.                                                               *)
LEMMA PipeSentBounded ==
  ASSUME Pipe!IInv, spc = "send"
  PROVE  sent + lastRead <= Len(out) + PipeCapacity + 2 * BufferSize
<1>1. Pipe!Written <= Len(out) + Len(inbox) + Len(pipe) /\ Len(inbox) <= BufferSize
  BY PipeBefore DEF Pipe!Ahead
<1>2. Pipe!Written = sent - Len(kept)
  BY DEF Pipe!Written
<1>3. Len(kept) + lastRead <= BufferSize
  <2>1. lastRead > 0 => kept = << >>
    BY PipeSentPiece
  <2> QED
    BY <2>1, PipeLengthsAre, PipeBefore
<1>4. /\ Len(out) \in Nat /\ Len(inbox) \in Nat /\ Len(pipe) \in Nat /\ Len(kept) \in Nat
      /\ Len(pipe) <= PipeCapacity /\ lastRead \in Nat /\ sent \in Nat
      /\ PipeCapacity \in Nat /\ BufferSize \in Nat
  BY PipeBefore
<1> QED
  BY <1>1, <1>2, <1>3, <1>4

(* A piece is written.                                                     *)
LEMMA PipePieceWritten ==
  ASSUME Pipe!IInv, spc = "send", lastRead > 0, Pipe!Write(Pipe!Stretch(sent, lastRead)),
         sent' = sent + lastRead,
         \/ spc' = "fill" /\ sres' = sres
         \/ spc' = "close",
         UNCHANGED <<kept, rpc, size, announced, lastRead, inbox, out>>
  PROVE  PipeStream'
<1>1. /\ sent \in Nat /\ lastRead \in Nat /\ sent + lastRead <= size /\ kept = << >>
      /\ lastRead < BufferSize => sent + lastRead = size
      /\ lastRead \in 0..BufferSize /\ Len(kept) = 0 /\ sres = "none"
      /\ Pipe!Written = sent /\ size \in Nat /\ BufferSize \in Nat \ {0} /\ PipeCapacity \in Nat
      /\ Pipe!Stretch(sent, lastRead) \in Seq(Int) /\ Len(Pipe!Stretch(sent, lastRead)) = lastRead
  BY PipeBefore, PipeSentPiece, PipeLengthsAre DEF Pipe!Results
<1>2. Pipe!Written' = sent + lastRead
  <2>1. Len(kept') = 0
    BY <1>1, Zenon
  <2> QED
    BY <1>1, <2>1 DEF Pipe!Written
<1>3. Pipe!Reads'
  BY <1>1, PipeBefore DEF Pipe!Reads
<1>4. Pipe!Ahead'
  <2>1. Len(pipe') = Len(pipe) + lastRead
    BY <1>1, PipeWriteFacts
  <2>2. Pipe!Written <= Len(out) + Len(inbox) + Len(pipe) /\ Len(inbox) <= BufferSize
    BY PipeBefore DEF Pipe!Ahead
  <2>3. Pipe!Written' <= Len(out) + Len(inbox) + Len(pipe')
    BY <1>1, <1>2, <2>1, <2>2, PipeBefore
  <2>4. sent' <= Len(out) + PipeCapacity + 2 * BufferSize
    BY PipeSentBounded
  <2> QED
    BY <2>2, <2>3, <2>4 DEF Pipe!Ahead
<1>5. Pipe!InTransit'
  <2> SUFFICES ASSUME rpc \in PipeListening PROVE Pipe!InTransit'
    BY PipeTransitThen
  <2>1. PipeStarts /\ sent = Pipe!Reached + Pipe!InPipe
    BY <1>1, PipeLengthsAre
  <2>2. rpc \in Pipe!NotReceived => pipe # << >>
    BY <2>1 DEF PipeStarts
  <2>3. /\ PipeFollows' /\ Pipe!Reached' = Pipe!Reached /\ Pipe!InPipe' = Pipe!InPipe + lastRead
        /\ rpc \in Pipe!NotReceived => pipe' # << >>
    BY <1>1, <2>1, <2>2, PipeAppended
  <2>4. PipeStarts'
    BY <2>3 DEF PipeStarts
  <2>5. Pipe!Written' = Pipe!Reached' + Pipe!InPipe'
    BY <1>1, <1>2, <2>1, <2>3, PipeLengthsAre
  <2> QED
    BY <2>3, <2>4, <2>5, PipeTransitThen
<1> QED
  BY <1>3, <1>4, <1>5, PipeBefore DEF PipeStream, Pipe!Prefix

(* A piece that is not full is kept in the stream.                         *)
LEMMA PipePieceKept ==
  ASSUME Pipe!IInv, spc = "send", lastRead < BufferSize,
         kept' = kept \o Pipe!Stretch(sent, lastRead), sent' = sent + lastRead,
         \/ spc' = "fill" /\ sres' = sres
         \/ spc' = "close",
         UNCHANGED <<pipe, rpc, size, announced, lastRead, inbox, out>>
  PROVE  PipeStream'
<1>1. /\ sent \in Nat /\ lastRead \in Nat /\ sent + lastRead = size /\ size \in Nat
      /\ lastRead \in 0..BufferSize /\ sres = "none"
      /\ Len(kept) \in Nat /\ Len(kept') = Len(kept) + lastRead
      /\ BufferSize \in Nat \ {0} /\ PipeCapacity \in Nat
  BY PipeBefore, PipeSentPiece DEF Pipe!Results
<1>2. Pipe!Written' = Pipe!Written
  <2>1. PICK k \in Nat : k = Len(kept')
    BY <1>1
  <2>2. (sent + lastRead) - k = sent - Len(kept)
    BY <1>1, <2>1
  <2>3. Pipe!Written' = (sent + lastRead) - k
    BY <2>1, Zenon DEF Pipe!Written
  <2> QED
    BY <2>2, <2>3, Zenon DEF Pipe!Written
<1>3. kept' # << >> => kept' = Pipe!Stretch(sent' - Len(kept'), Len(kept'))
  <2>1. CASE lastRead > 0
    <3>1. kept' = Pipe!Stretch(sent, lastRead) /\ Len(kept) = 0
      BY <2>1, PipeSentPiece, PipeLengthsAre
    <3>2. PICK k \in Nat : k = Len(kept')
      BY <1>1
    <3>3. k = lastRead /\ (sent + lastRead) - k = sent
      BY <1>1, <3>1, <3>2
    <3> QED
      BY <3>1, <3>2, <3>3, Zenon
  <2>2. CASE lastRead = 0
    <3>1. kept' = kept /\ sent' = sent
      BY <1>1, <2>2, PipeSentPiece
    <3>2. kept # << >> => kept = Pipe!Stretch(sent - Len(kept), Len(kept))
      BY PipeBefore DEF Pipe!Reads
    <3> QED
      BY <3>1, <3>2, Zenon
  <2> QED
    BY <1>1, <2>1, <2>2
<1>4. Pipe!Reads'
  <2>1. sent' = size'
    BY <1>1
  <2> QED
    BY <1>1, <1>3, <2>1 DEF Pipe!Reads
<1>5. Pipe!Ahead'
  <2>1. Pipe!Written <= Len(out) + Len(inbox) + Len(pipe) /\ Len(inbox) <= BufferSize
    BY PipeBefore DEF Pipe!Ahead
  <2>2. sent' <= Len(out) + PipeCapacity + 2 * BufferSize
    BY PipeSentBounded
  <2> QED
    BY <1>2, <2>1, <2>2 DEF Pipe!Ahead
<1>6. Pipe!InTransit'
  <2> SUFFICES ASSUME rpc \in PipeListening PROVE Pipe!InTransit'
    BY PipeTransitThen
  <2>1. PipeFollows /\ PipeStarts /\ Pipe!Written = Pipe!Reached + Pipe!InPipe
    BY PipeLengthsAre
  <2>2. Pipe!HeaderLength' = Pipe!HeaderLength /\ Pipe!InPipe' = Pipe!InPipe
        /\ Pipe!Reached' = Pipe!Reached
    BY DEF Pipe!HeaderLength, Pipe!InPipe, Pipe!Reached
  <2>3. PipeFollows' /\ PipeStarts'
    BY <2>1, <2>2 DEF PipeFollows, PipeStarts
  <2> QED
    BY <1>2, <2>1, <2>2, <2>3, PipeTransitThen
<1> QED
  BY <1>4, <1>5, <1>6, PipeBefore DEF PipeStream, Pipe!Prefix

(* What was kept is the end of the source, and is written behind the rest. *)
LEMMA PipeKeptPut ==
  ASSUME Pipe!IInv, Pipe!SClose
  PROVE  PipeStream'
<1>1. /\ spc = "close" /\ spc' = "unlink" /\ sres' = sres
      /\ UNCHANGED <<kept, announced, sent, lastRead>>
      /\ UNCHANGED <<rpc, size, inbox, out>>
      /\ UNCHANGED pipe \/ Pipe!Write(kept)
  BY Zenon DEF Pipe!SClose, Pipe!Broken
<1>2. CASE UNCHANGED pipe
  BY <1>1, <1>2, PipeSenderRests
<1>3. CASE Pipe!Write(kept) /\ ~UNCHANGED pipe
  <2>1. kept # << >>
    <3>1. pipe' = pipe \o kept /\ pipe \in Seq(Int)
      BY <1>3, PipeBefore DEF Pipe!Write
    <3> QED
      BY <1>3, <3>1, ConcatEmptySeq
  <2>2. /\ kept = Pipe!Stretch(Pipe!Written, Len(kept)) /\ Pipe!Written + Len(kept) = sent
        /\ sent <= size
        /\ Len(kept) \in Nat /\ Pipe!Written \in Int
    BY <1>1, <2>1, PipeBefore DEF Pipe!Reads, Pipe!Written
  <2>3. rpc \in PipeListening => PipeFollows' /\ PipeStarts'
    <3> SUFFICES ASSUME rpc \in PipeListening PROVE PipeFollows' /\ PipeStarts'
      OBVIOUS
    <3>1. PipeFollows /\ PipeStarts /\ Pipe!Written = Pipe!Reached + Pipe!InPipe
      BY <1>1, PipeLengthsAre
    <3>2. Pipe!Written \in Nat
      BY <3>1, PipeLengthsAre DEF PipeFollows
    <3>3. rpc \in Pipe!NotReceived => pipe # << >>
      BY <1>1, <2>1, <3>1 DEF PipeStarts
    <3>4. PipeFollows'
      <4>1. PICK m \in Nat : m = Pipe!Written
        BY <3>2
      <4>2. PICK k \in Nat : k = Len(kept)
        BY <2>2
      <4>3. Pipe!Write(Pipe!Stretch(m, k))
        BY <1>3, <2>2, <4>1, <4>2, Zenon
      <4>4. m + k <= size /\ m = Pipe!Reached + Pipe!InPipe
        BY <2>2, <3>1, <4>1, <4>2, PipeBefore
      <4> QED
        BY <1>1, <3>3, <4>3, <4>4, PipeAppended
    <3>5. PipeStarts'
      BY <1>1 DEF PipeStarts
    <3> QED
      BY <3>4, <3>5
  <2>4. Pipe!InTransit'
    BY <1>1, <2>3, PipeTransitThen
  <2>5. Pipe!Reads'
    BY <1>1, PipeBefore DEF Pipe!Reads
  <2>6. Pipe!Ahead'
    BY <1>1, PipeBefore DEF Pipe!Ahead
  <2> QED
    BY <1>1, <2>4, <2>5, <2>6, PipeBefore DEF PipeStream, Pipe!Prefix
<1> QED
  BY <1>1, <1>2, <1>3

(* What is on the way is what the receiver needs next: a step of the       *)
(* sender keeps it.                                                        *)
LEMMA PipeStreamSender ==
  ASSUME Pipe!IInv, Pipe!SLaunch \/ Pipe!SenderStep \/ Pipe!SCallFails \/ Pipe!SKill
  PROVE  PipeStream'
<1> Pipe!NothingSent /\ Pipe!Results
  BY PipeBefore
<1> USE DEF Pipe!NothingSent, Pipe!Results
<1>1. CASE Pipe!SLaunch
  BY <1>1, PipeSenderRests DEF Pipe!SLaunch
<1>2. CASE Pipe!SMake
  BY <1>2, PipeSenderRests DEF Pipe!SMake
<1>3. CASE Pipe!SOpen
  BY <1>3, PipeSenderRests DEF Pipe!SOpen
<1>4. CASE Pipe!SGiveUp
  BY <1>4, PipeSenderRests DEF Pipe!SGiveUp
<1>5. CASE Pipe!SOpened
  BY <1>5, PipeSenderRests DEF Pipe!SOpened
<1>6. CASE Pipe!SMeasure
  BY <1>6, PipeSenderRests DEF Pipe!SMeasure
<1>7. CASE Pipe!SSendHeader
  <2>1. CASE Pipe!Broken /\ Pipe!SConclude("failure")
    <3>1. rpc \notin PipeListening
      BY <2>1 DEF Pipe!Broken, Pipe!Reading, PipeListening
    <3> QED
      BY <1>7, <2>1, <3>1, PipeSenderRests DEF Pipe!SSendHeader, Pipe!Broken
  <2>2. CASE ~(Pipe!Broken /\ Pipe!SConclude("failure"))
    <3>1. /\ Pipe!Write([i \in 1..BufferSize |-> Pipe!HeaderByte(announced')]) /\ Pipe!SGoesOn(0)
          /\ announced' \in Nat
      BY <1>7, <2>2, PipeBefore DEF Pipe!SSendHeader, Pipe!AnnouncedSizes
    <3> QED
      BY <1>7, <3>1, PipeHeaderPut DEF Pipe!SSendHeader
  <2> QED
    BY <2>1, <2>2
<1>8. CASE Pipe!SFill
  <2>1. CASE spc' = "send"
    BY <1>8, <2>1, PipeBufferFilled DEF Pipe!SFill
  <2>2. CASE spc' # "send"
    <3>1. /\ spc \in Pipe!Sending /\ spc' = "close" /\ sres' = "failure"
          /\ UNCHANGED <<rpc, pipe, kept, size, announced, sent, out, inbox>>
      BY <1>8, <2>2 DEF Pipe!SFill
    <3>2. spc' \notin Pipe!Sending /\ announced' = announced /\ sres' # "success"
      BY <3>1
    <3> QED
      BY <3>1, <3>2, PipeSenderRests, Zenon
  <2> QED
    BY <2>1, <2>2
<1>9. CASE Pipe!SSend
  <2>1. CASE Pipe!Broken /\ Pipe!SConclude("failure") /\ UNCHANGED <<kept, sent>>
    <3>1. /\ spc \in Pipe!Sending /\ spc' = "close" /\ sres' = "failure"
          /\ UNCHANGED <<rpc, pipe, kept, size, announced, sent, out, inbox>>
      BY <1>9, <2>1 DEF Pipe!SSend, Pipe!Broken
    <3>2. spc' \notin Pipe!Sending /\ announced' = announced /\ sres' # "success"
      BY <3>1
    <3> QED
      BY <3>1, <3>2, PipeSenderRests, Zenon
  <2>2. CASE ~(Pipe!Broken /\ Pipe!SConclude("failure") /\ UNCHANGED <<kept, sent>>)
    <3>1. /\ spc = "send" /\ sent' = sent + lastRead /\ Pipe!SGoesOn(sent')
          /\ UNCHANGED <<rpc, size, announced, lastRead, inbox, out>>
          /\ \/ Pipe!Stretch(sent, lastRead) # << >>
                /\ Pipe!Write(Pipe!Stretch(sent, lastRead)) /\ UNCHANGED kept
             \/ /\ lastRead < BufferSize /\ kept' = kept \o Pipe!Stretch(sent, lastRead)
                /\ UNCHANGED pipe
      BY <1>9, <2>2 DEF Pipe!SSend
    <3>2. \/ spc' = "fill" /\ sres' = sres
          \/ spc' = "close"
      BY <3>1
    <3>3. CASE /\ Pipe!Stretch(sent, lastRead) # << >>
               /\ Pipe!Write(Pipe!Stretch(sent, lastRead)) /\ UNCHANGED kept
      <4>1. lastRead > 0
        BY <3>1, <3>3, PipeSentPiece, EmptySeq, PipeBefore, SMTT(40)
      <4> QED
        BY <3>1, <3>2, <3>3, <4>1, PipePieceWritten
    <3>4. CASE /\ lastRead < BufferSize /\ kept' = kept \o Pipe!Stretch(sent, lastRead)
               /\ UNCHANGED pipe
      BY <3>1, <3>2, <3>4, PipePieceKept
    <3> QED
      BY <3>1, <3>3, <3>4
  <2> QED
    BY <2>1, <2>2
<1>10. CASE Pipe!SClose
  BY <1>10, PipeKeptPut
<1>11. CASE Pipe!SUnlink
  BY <1>11, PipeSenderRests DEF Pipe!SUnlink
<1>12. CASE Pipe!SCallFails
  <2>1. /\ spc = "send" \/ spc = "sendHeader"
        /\ spc' = "close" /\ sres' = "failure"
        /\ UNCHANGED <<rpc, pipe, kept, size, announced, sent, out, inbox>>
    BY <1>12 DEF Pipe!SCallFails
  <2>2. spc \in Pipe!Sending \/ (announced = Pipe!Unset /\ sent = 0)
    BY <2>1
  <2>3. spc' \notin Pipe!Sending /\ announced' = announced /\ sres' # "success"
    BY <2>1
  <2> QED
    BY <2>1, <2>2, <2>3, PipeSenderRests, Zenon
<1>13. CASE Pipe!SKill
  BY <1>13, PipeSenderRests DEF Pipe!SKill
<1>14. CASE Pipe!STimer
  BY <1>14, PipeSenderRests DEF Pipe!STimer
<1> QED
  BY <1>1, <1>2, <1>3, <1>4, <1>5, <1>6, <1>7, <1>8, <1>9, <1>10, <1>11, <1>12,
     <1>13, <1>14
  DEF Pipe!SenderStep

(* The next piece is in the buffer of the receiver.                        *)
LEMMA PipeReceived ==
  ASSUME Pipe!IInv, Pipe!RReceive
  PROVE  PipeStream'
<1>1. PICK n \in 0..BufferSize :
           /\ n <= Len(pipe)
           /\ inbox' \in Seq(Int) /\ Len(inbox') = n
           /\ \A i \in 1..n : inbox'[i] = pipe[i]
           /\ pipe' \in Seq(Int) /\ Len(pipe') = Len(pipe) - n
           /\ \A i \in 1..(Len(pipe) - n) : pipe'[i] = pipe[n + i]
  <2>1. Pipe!Read
    BY DEF Pipe!RReceive
  <2> QED
    BY <2>1, PipeReadFacts, Zenon
<1>2. /\ rpc = "receive" /\ rpc' = "store"
      /\ UNCHANGED <<spc, sres, size, announced, sent, lastRead>>
      /\ UNCHANGED <<target, kept, out>>
  BY DEF Pipe!RReceive
<1>3. /\ Pipe!HeaderLength = 0 /\ Pipe!HeaderLength' = 0 /\ Pipe!Reached = Len(out)
      /\ Pipe!Reached' = Len(out) + n /\ Pipe!InPipe = Len(pipe) /\ Pipe!InPipe' = Len(pipe) - n
      /\ Pipe!Written' = Pipe!Written
  BY <1>1, <1>2, PipeBefore DEF Pipe!HeaderLength, Pipe!Reached, Pipe!InPipe, Pipe!Written
<1>4. /\ n \in Nat /\ Len(pipe) \in Nat /\ Len(out) \in Nat /\ size \in Nat
      /\ BufferSize \in Nat /\ n <= BufferSize
      /\ Len(out) + Len(pipe) <= size
      /\ \A i \in 1..Len(pipe) : pipe[i] = Len(out) + i
      /\ spc \in Pipe!Sending \cup {"close"} => Pipe!Written = Len(out) + Len(pipe)
  <2>1. PipeFollows
    BY <1>2, PipeLengthsAre DEF PipeListening
  <2>2. \A i \in 1..Len(pipe) : pipe[i] = Len(out) + i
    BY <1>3, <2>1, PipeBefore DEF PipeFollows
  <2>3. spc \in Pipe!Sending \cup {"close"} => Pipe!Written = Len(out) + Len(pipe)
    BY <1>2, <1>3, PipeLengthsAre DEF PipeListening
  <2> QED
    BY <1>1, <1>3, <2>1, <2>2, <2>3, PipeBefore DEF PipeFollows
<1>5. \A i \in 1..Len(inbox') : inbox'[i] = Len(out) + i
  <2>1. ASSUME NEW i \in 1..Len(inbox') PROVE inbox'[i] = Len(out) + i
    <3>1. i \in 1..n /\ i \in 1..Len(pipe)
      BY <1>1, <1>4
    <3> QED
      BY <1>1, <1>4, <3>1
  <2> QED
    BY <2>1
<1>6. \A i \in 1..Len(pipe') : pipe'[i] = Len(out) + n + i
  <2>1. ASSUME NEW i \in 1..Len(pipe') PROVE pipe'[i] = Len(out) + n + i
    <3>1. n + i \in 1..Len(pipe) /\ pipe'[i] = pipe[n + i]
      BY <1>1, <1>4
    <3> QED
      BY <1>4, <3>1
  <2> QED
    BY <2>1
<1>7. Pipe!InTransit'
  <2>1. PipeFollows'
    <3>1. Pipe!InPipe' >= 0 /\ Pipe!Reached' + Pipe!InPipe' <= size'
      BY <1>2, <1>3, <1>4, <1>1
    <3>2. \A i \in 1..Len(pipe') :
            pipe'[i] = IF i <= 0 THEN Pipe!HeaderByte(announced) ELSE Len(out) + n + i - 0
      BY <1>1, <1>4, <1>6
    <3> QED
      BY <1>2, <1>3, <1>5, <3>1, <3>2 DEF PipeFollows
  <2>2. PipeStarts'
    BY <1>2 DEF PipeStarts
  <2>3. spc' \in Pipe!Sending \cup {"close"} => Pipe!Written' = Pipe!Reached' + Pipe!InPipe'
    BY <1>1, <1>2, <1>3, <1>4
  <2> QED
    BY <2>1, <2>2, <2>3, PipeTransitThen
<1>8. Pipe!Reads'
  BY <1>2, PipeBefore DEF Pipe!Reads
<1>9. Pipe!Ahead'
  <2>1. spc \in Pipe!Sending => Pipe!Written = Len(out) + n + (Len(pipe) - n)
    BY <1>4
  <2> QED
    BY <1>1, <1>2, <1>3, <1>4, <2>1, PipeBefore DEF Pipe!Ahead
<1> QED
  BY <1>2, <1>7, <1>8, <1>9, PipeBefore DEF PipeStream, Pipe!Prefix

(* The receiver takes the header and nothing of the file with it.          *)
LEMMA PipeHeaderTaken ==
  ASSUME Pipe!IInv, Pipe!RReceiveHeader
  PROVE  PipeStream'
<1>1. /\ rpc = "receiveHeader" /\ rpc' \in {"receive", "close"} /\ Pipe!Read
      /\ inbox' = << >> => rpc' = "close"
      /\ UNCHANGED <<spc, sres, size, announced, sent, lastRead>>
      /\ UNCHANGED <<target, kept, out>>
  BY PipeHeaderKeepsCopy, Zenon DEF Pipe!RReceiveHeader
<1>2. /\ out = << >> /\ Len(out) = 0 /\ Pipe!Reached = 0 /\ Pipe!Written' = Pipe!Written
      /\ Pipe!Written \in Int
      /\ Len(pipe) \in Nat /\ BufferSize \in Nat \ {0} /\ PipeCapacity \in Nat /\ sent \in Nat
  BY <1>1, PipeBefore, PipeLengthsAre, EmptySeq DEF Pipe!NothingSent, Pipe!Reached, Pipe!Written
<1>3. Pipe!Reads'
  BY <1>1, PipeBefore DEF Pipe!Reads
<1>4. CASE inbox' = << >> /\ pipe' = pipe /\ pipe = << >> /\ spc \notin Pipe!SenderOpen
  <2>1. Pipe!InTransit'
    BY <1>1, <1>4, PipeTransitThen DEF PipeListening
  <2>2. Len(inbox') = 0
    BY <1>4, EmptySeq
  <2>3. Pipe!Ahead'
    BY <1>1, <1>2, <1>4, <2>2, PipeBefore DEF Pipe!Ahead
  <2> QED
    BY <1>1, <1>3, <2>1, <2>3, PipeBefore DEF PipeStream, Pipe!Prefix
<1>5. CASE /\ pipe # << >> /\ Len(inbox') = BufferSize
           /\ pipe' \in Seq(Int) /\ Len(pipe') = Len(pipe) - BufferSize
           /\ \A i \in 1..(Len(pipe) - BufferSize) : pipe'[i] = pipe[BufferSize + i]
  <2>1. /\ Pipe!HeaderLength = BufferSize /\ Pipe!InPipe = Len(pipe) - BufferSize
    BY <1>1, <1>5 DEF Pipe!HeaderLength, Pipe!InPipe
  <2>2. /\ Pipe!InPipe >= 0 /\ Pipe!InPipe <= size
        /\ \A i \in 1..Len(pipe) : ~(i <= BufferSize) => pipe[i] = i - BufferSize
        /\ spc \in Pipe!Sending \cup {"close"} => Pipe!Written = Pipe!InPipe
    <3>1. PipeFollows
      BY <1>1, PipeLengthsAre DEF PipeListening
    <3>2. spc \in Pipe!Sending \cup {"close"} => Pipe!Written = Pipe!Reached + Pipe!InPipe
      BY <1>1, PipeLengthsAre DEF PipeListening
    <3> QED
      BY <1>2, <2>1, <3>1, <3>2, PipeLengthsAre, PipeBefore DEF PipeFollows
  <2>3. Pipe!Ahead'
    <3>1. Len(inbox') <= BufferSize
      BY <1>2, <1>5
    <3>2. spc \in Pipe!Sending => Pipe!Written' <= Len(out') + Len(inbox') + Len(pipe')
      <4>1. Len(out') = 0 /\ Len(inbox') + Len(pipe') = Len(pipe) /\ Len(inbox') = BufferSize
        BY <1>1, <1>2, <1>5
      <4>2. spc \in Pipe!Sending => Pipe!Written' <= Len(pipe)
        BY <1>2, <2>1, <2>2
      <4> QED
        BY <1>2, <1>5, <4>1, <4>2
    <3>3. sres = "success" => sent <= Len(out) + PipeCapacity + 2 * BufferSize
      BY PipeBefore DEF Pipe!Ahead
    <3>4. UNCHANGED <<spc, sres, sent, out>>
      BY <1>1
    <3> QED
      BY <3>1, <3>2, <3>3, <3>4, Zenon DEF Pipe!Ahead
  <2>4. CASE rpc' = "close"
    <3>1. Pipe!InTransit'
      BY <2>4, PipeTransitThen DEF PipeListening
    <3> QED
      BY <1>1, <1>3, <2>3, <3>1, PipeBefore DEF PipeStream, Pipe!Prefix
  <2>5. CASE rpc' = "receive"
    <3>1. Pipe!HeaderLength' = 0 /\ Pipe!Reached' = 0 /\ Pipe!InPipe' = Pipe!InPipe
      BY <1>1, <1>2, <1>5, <2>1, <2>5 DEF Pipe!HeaderLength, Pipe!Reached, Pipe!InPipe
    <3>2. \A i \in 1..Len(pipe') : pipe'[i] = i
      <4>1. ASSUME NEW i \in 1..Len(pipe') PROVE pipe'[i] = i
        <5>1. /\ BufferSize + i \in 1..Len(pipe) /\ pipe'[i] = pipe[BufferSize + i]
              /\ ~(BufferSize + i <= BufferSize) /\ (BufferSize + i) - BufferSize = i
          BY <1>2, <1>5
        <5>2. pipe[BufferSize + i] = (BufferSize + i) - BufferSize
          BY <2>2, <5>1, Zenon
        <5> QED
          BY <5>1, <5>2
      <4> QED
        BY <4>1
    <3>3. PipeFollows'
      <4>1. Pipe!InPipe' \in Int /\ Pipe!InPipe' >= 0 /\ Pipe!Reached' + Pipe!InPipe' <= size'
        BY <1>1, <2>2, <3>1, PipeLengthsAre
      <4>2. \A i \in 1..Len(pipe') :
              pipe'[i] = IF i <= 0 THEN Pipe!HeaderByte(announced) ELSE 0 + i - 0
        BY <1>5, <3>2
      <4> QED
        BY <1>1, <2>5, <3>1, <4>1, <4>2 DEF PipeFollows
    <3>4. PipeStarts'
      BY <2>5 DEF PipeStarts
    <3>5. spc' \in Pipe!Sending \cup {"close"} => Pipe!Written' = Pipe!Reached' + Pipe!InPipe'
      BY <1>1, <1>2, <2>2, <3>1, PipeLengthsAre
    <3>6. Pipe!InTransit'
      BY <3>3, <3>4, <3>5, PipeTransitThen
    <3> QED
      BY <1>1, <1>3, <2>3, <3>6, PipeBefore DEF PipeStream, Pipe!Prefix
  <2> QED
    BY <1>1, <2>4, <2>5
<1> QED
  BY <1>1, <1>4, <1>5, PipeHeaderReceived

(* The bytes in the receiver's buffer are those the copy needs next.       *)
LEMMA PipePiece ==
  ASSUME Pipe!IInv, rpc = "store"
  PROVE  /\ inbox = Pipe!Stretch(Len(out), Len(inbox)) /\ Len(out) + Len(inbox) <= size
         /\ out \o inbox = Pipe!Stretch(0, Len(out) + Len(inbox))
         /\ Len(out \o inbox) = Len(out) + Len(inbox)
<1>1. /\ Len(out) \in Nat /\ Len(inbox) \in Nat /\ inbox \in Seq(Int) /\ size \in Nat
      /\ \A i \in 1..Len(inbox) : inbox[i] = Len(out) + i
      /\ out = Pipe!Stretch(0, Len(out))
      /\ Pipe!InPipe >= 0 /\ Pipe!Reached + Pipe!InPipe <= size /\ Pipe!InPipe \in Int
  BY PipeBefore, PipeLengthsAre DEF PipeFollows, PipeListening, Pipe!Prefix
<1>2. inbox = Pipe!Stretch(Len(out), Len(inbox))
  <2>1. /\ Pipe!Stretch(Len(out), Len(inbox)) \in Seq(Int)
        /\ Len(Pipe!Stretch(Len(out), Len(inbox))) = Len(inbox)
        /\ \A i \in 1..Len(inbox) : Pipe!Stretch(Len(out), Len(inbox))[i] = Len(out) + i
    BY <1>1, PipeStretchSeq
  <2>2. \A i \in 1..Len(inbox) : Pipe!Stretch(Len(out), Len(inbox))[i] = inbox[i]
    BY <1>1, <2>1
  <2> QED
    BY <1>1, <2>1, <2>2, SeqEqual
<1>3. Pipe!Reached = Len(out) + Len(inbox)
  BY DEF Pipe!Reached
<1>4. Len(out) + Len(inbox) <= size
  BY <1>1, <1>3
<1>5. out \o inbox = Pipe!Stretch(0, Len(out)) \o Pipe!Stretch(Len(out), Len(inbox))
  BY <1>1, <1>2, Zenon
<1> QED
  BY <1>1, <1>2, <1>4, <1>5, PipeStretchGrows

(* Storing a piece: the transfer goes on with all of it in the copy, or    *)
(* ends with a part of it, or with nothing more when the write fails.      *)
LEMMA PipeStores ==
  ASSUME Pipe!IInv, Pipe!RStore
  PROVE  /\ rpc = "store"
         /\ UNCHANGED <<spc, sres, name, target, pipe, kept, size, toSend,
                        announced, sent, lastRead, expected, inbox, present>>
         /\ \/ /\ rpc' = "receive" /\ rres' = rres /\ Len(out') < expected
               /\ Len(inbox) = BufferSize /\ out' = out \o inbox
            \/ rpc' = "close" /\ rres' \in {"failure", Pipe!CheckedLength(Len(out'), expected)}
         /\ \E n \in 0..Len(inbox) :
              /\ out' = out \o Pipe!Stretch(Len(out), n)
              /\ out' = Pipe!Stretch(0, Len(out) + n)
              /\ out' \in Seq(Int) /\ Len(out') = Len(out) + n
<1>1. /\ out \in Seq(Int) /\ inbox \in Seq(Int) /\ Len(out) \in Nat /\ Len(inbox) \in Nat
      /\ out = Pipe!Stretch(0, Len(out)) /\ BufferSize \in Nat \ {0}
  BY PipeBefore DEF Pipe!Prefix
<1>2. /\ rpc = "store"
      /\ UNCHANGED <<spc, sres, name, target, pipe, kept, size, toSend,
                     announced, sent, lastRead, expected, inbox, present>>
  BY DEF Pipe!RStore
<1>3. /\ inbox = Pipe!Stretch(Len(out), Len(inbox)) /\ Len(inbox) <= BufferSize
      /\ out \o inbox = Pipe!Stretch(0, Len(out) + Len(inbox))
      /\ Len(out \o inbox) = Len(out) + Len(inbox)
  BY <1>1, <1>2, PipePiece, PipeBefore DEF Pipe!Ahead
<1>4. \A a, b : Pipe!Stretch(a, b) = Stretch(a, b)
  BY DEF Pipe!Stretch, Stretch
<1>5. CASE out' = out /\ rpc' = "close" /\ rres' = "failure"
  <2>1. Pipe!Stretch(Len(out), 0) = << >>
    BY DEF Pipe!Stretch
  <2>2. out' = out \o Pipe!Stretch(Len(out), 0)
    BY <1>1, <1>5, <2>1, ConcatEmptySeq
  <2>3. Len(out) + 0 = Len(out) /\ 0 \in 0..Len(inbox)
    BY <1>1
  <2> QED
    BY <1>1, <1>2, <1>5, <2>2, <2>3, Zenon
<1>6. CASE rpc' = "receive"
  <2>1. /\ rres' = rres /\ out' = out \o inbox /\ Len(out') < expected
        /\ Len(inbox) = BufferSize
    BY <1>2, <1>6 DEF Pipe!RStore, Pipe!ReceivesMore
  <2>2. /\ out' = out \o Pipe!Stretch(Len(out), Len(inbox))
        /\ out' = Pipe!Stretch(0, Len(out) + Len(inbox))
        /\ Len(out') = Len(out) + Len(inbox)
    BY <1>3, <2>1, Zenon
  <2>3. out' \in Seq(Int) /\ Len(inbox) \in 0..Len(inbox)
    BY <1>1, <2>1, ConcatProperties
  <2> QED
    BY <1>2, <1>6, <2>1, <2>2, <2>3, Zenon
<1>7. CASE /\ out' \in Pipe!ClosedAfter(out \o inbox, Len(inbox))
           /\ rpc' = "close" /\ rres' = Pipe!CheckedLength(Len(out'), expected)
  <2>1. out' \in ClosedAfter(out \o inbox, Len(inbox))
    BY <1>7, PipeClosedAfterIs, Zenon
  <2>2. \E n \in 0..Len(inbox) :
          /\ out' = out \o Stretch(Len(out), n) /\ out' = Stretch(0, Len(out) + n)
          /\ out' \in Seq(Int) /\ Len(out') = Len(out) + n
    BY <1>1, <1>3, <1>4, <2>1, PieceClosed, Zenon
  <2>3. rres' \in {"failure", Pipe!CheckedLength(Len(out'), expected)}
    BY <1>7, Zenon
  <2> QED
    BY <1>2, <1>4, <1>7, <2>2, <2>3, Zenon
<1> QED
  BY <1>2, <1>5, <1>6, <1>7 DEF Pipe!RStore

(* Storing what was read: the copy grows by the next bytes of the source.  *)
LEMMA PipeStored ==
  ASSUME Pipe!IInv, Pipe!RStore
  PROVE  PipeStream'
<1>1. /\ rpc = "store" /\ rpc' \in {"receive", "close"}
      /\ UNCHANGED <<spc, sres, size, announced, sent, lastRead, target, kept, pipe, inbox>>
      /\ rpc' = "receive" => out' = out \o inbox
  BY PipeStores
<1>2. PICK n \in 0..Len(inbox) :
        out' = Pipe!Stretch(0, Len(out) + n) /\ Len(out') = Len(out) + n
  BY PipeStores
<1>3. /\ Len(out) \in Nat /\ Len(inbox) \in Nat /\ Len(out) + Len(inbox) <= size
      /\ rpc' = "receive" => Len(out') = Len(out) + Len(inbox)
  BY <1>1, PipePiece, PipeBefore
<1>4. n \in Nat /\ Len(out') \in Nat /\ Len(out') <= size /\ Len(out) <= Len(out')
  BY <1>2, <1>3, PipeBefore
<1>5. out' = Pipe!Stretch(0, Len(out'))
  BY <1>2, Zenon
<1>6. PipeStream'
  <2>1. Len(out) \in Nat /\ Len(inbox) \in Nat
    BY <1>3
  <2>2. /\ Pipe!Reached = Len(out) + Len(inbox)
        /\ rpc' = "receive" => Pipe!Reached' = Pipe!Reached
        /\ Pipe!HeaderLength' = Pipe!HeaderLength /\ Pipe!InPipe' = Pipe!InPipe
        /\ Pipe!Written' = Pipe!Written
    BY <1>1, <1>3 DEF Pipe!Reached, Pipe!HeaderLength, Pipe!InPipe, Pipe!Written
  <2>3. Pipe!Prefix'
    BY <1>1, <1>4, <1>5 DEF Pipe!Prefix
  <2>4. Pipe!InTransit'
    <3>1. CASE rpc' = "receive"
      <4>1. /\ PipeFollows
            /\ spc \in Pipe!Sending \cup {"close"} =>
                 Pipe!Written = Pipe!Reached + Pipe!InPipe
        BY <1>1, PipeLengthsAre DEF PipeListening
      <4>2. PipeFollows'
        BY <1>1, <2>2, <3>1, <4>1 DEF PipeFollows
      <4>3. PipeStarts'
        BY <3>1 DEF PipeStarts
      <4>4. spc' \in Pipe!Sending \cup {"close"} => Pipe!Written' = Pipe!Reached' + Pipe!InPipe'
        BY <1>1, <2>2, <3>1, <4>1
      <4> QED
        BY <4>2, <4>3, <4>4, PipeTransitThen
    <3>2. CASE rpc' = "close"
      BY <3>2, PipeTransitThen DEF PipeListening
    <3> QED
      BY <1>1, <3>1, <3>2
  <2>5. Pipe!Reads'
    BY <1>1, PipeBefore DEF Pipe!Reads
  <2>6. Pipe!Ahead'
    <3>1. Len(out) <= Len(out') /\ Len(out') \in Nat
      BY <1>4
    <3>2. \A k \in Int : k <= Len(out) + Len(inbox) + Len(pipe) =>
                          k <= Len(out') + Len(inbox) + Len(pipe)
      BY <2>1, <3>1, PipeBefore
    <3>3. 2 * BufferSize \in Int /\ PipeCapacity \in Int /\ sent \in Int
      BY PipeBefore
    <3>4. sent <= Len(out) + PipeCapacity + 2 * BufferSize =>
            sent <= Len(out') + PipeCapacity + 2 * BufferSize
      BY <2>1, <3>1, <3>3
    <3>5. Len(inbox) <= BufferSize /\ Pipe!Written \in Int
      BY PipeBefore, PipeLengthsAre DEF Pipe!Ahead
    <3> QED
      BY <1>1, <2>2, <3>2, <3>4, <3>5, PipeBefore DEF Pipe!Ahead
  <2> QED
    BY <2>3, <2>4, <2>5, <2>6 DEF PipeStream
<1> QED
  BY <1>6

(* A step of the receiver keeps what is on the way.                        *)
LEMMA PipeStreamReceiver ==
  ASSUME Pipe!IInv, Pipe!RLaunch \/ Pipe!ReceiverStep \/ Pipe!RCallFails \/ Pipe!RKill
  PROVE  PipeStream'
<1> USE DEF PipeListening
<1>1. CASE Pipe!RLaunch
  BY <1>1, PipeReceiverRests DEF Pipe!RLaunch
<1>2. CASE Pipe!RLook
  BY <1>2, PipeReceiverRests DEF Pipe!RLook
<1>3. CASE Pipe!ROpen
  BY <1>3, PipeReceiverRests DEF Pipe!ROpen
<1>4. CASE Pipe!ROpenFile
  <2>1. /\ rpc = "openFile" /\ rpc' \in {"receiveHeader", "close"}
        /\ UNCHANGED <<spc, sres, pipe, kept, size, announced, sent, lastRead, out, inbox>>
    BY <1>4, Zenon DEF Pipe!ROpenFile
  <2> QED
    BY <2>1, PipeReceiverRests
<1>5. CASE Pipe!RReceiveHeader
  BY <1>5, PipeHeaderTaken
<1>6. CASE Pipe!RReceive
  BY <1>6, PipeReceived
<1>7. CASE Pipe!RStore
  BY <1>7, PipeStored
<1>8. CASE Pipe!RClose
  BY <1>8, PipeReceiverRests DEF Pipe!RClose
<1>9. CASE Pipe!RUnlink
  BY <1>9, PipeReceiverRests DEF Pipe!RUnlink
<1>10. CASE Pipe!RRemove
  BY <1>10, PipeReceiverRests DEF Pipe!RRemove
<1>11. CASE Pipe!RCallFails
  BY <1>11, PipeReceiverRests DEF Pipe!RCallFails
<1>12. CASE Pipe!RKill
  BY <1>12, PipeReceiverRests DEF Pipe!RKill
<1> QED
  BY <1>1, <1>2, <1>3, <1>4, <1>5, <1>6, <1>7, <1>8, <1>9, <1>10, <1>11, <1>12
  DEF Pipe!ReceiverStep

(* When both programs have opened the FIFO nothing is in it.               *)
LEMMA PipeStreamMeet ==
  ASSUME Pipe!IInv, Pipe!Meet
  PROVE  PipeStream'
<1>1. /\ spc \in {"untimed", "opening"} /\ spc' = "opened"
      /\ rpc = "opening" /\ rpc' = "openFile"
      /\ UNCHANGED <<sres, pipe, kept, size, announced, sent, lastRead, inbox, out>>
  BY DEF Pipe!Meet
<1>2. announced = Pipe!Unset /\ sres = "none" /\ out = << >> /\ Len(out) = 0
  BY <1>1, PipeBefore, EmptySeq DEF Pipe!NothingSent, Pipe!Results
<1>3. pipe = << >> /\ Len(pipe) = 0
  BY <1>2, PipeNothingYet
<1>4. Pipe!HeaderLength' = 0 /\ Pipe!Reached' = 0 /\ Pipe!InPipe' = 0
  BY <1>1, <1>2, <1>3 DEF Pipe!HeaderLength, Pipe!Reached, Pipe!InPipe
<1>5. Pipe!InTransit'
  <2>1. PipeFollows'
    BY <1>1, <1>3, <1>4, PipeBefore DEF PipeFollows
  <2>2. PipeStarts'
    BY <1>1 DEF PipeStarts
  <2> QED
    BY <1>1, <2>1, <2>2, PipeTransitThen
<1>6. Pipe!Reads' /\ Pipe!Ahead'
  BY <1>1, <1>2, PipeBefore DEF Pipe!Reads, Pipe!Ahead
<1> QED
  BY <1>1, <1>5, <1>6, PipeBefore DEF PipeStream, Pipe!Prefix

(* So it is when the sender crashes on the way.                            *)
LEMMA PipeStreamCrash ==
  ASSUME Pipe!IInv, Pipe!SCrash
  PROVE  PipeStream'
<1>1. /\ spc = "untimed" /\ spc' = "ended" /\ sres' = "killed"
      /\ (rpc = "opening" /\ rpc' = "openFile") \/ rpc' = rpc
      /\ UNCHANGED <<pipe, kept, size, announced, sent, lastRead, inbox, out>>
  BY DEF Pipe!SCrash
<1>2. /\ announced = Pipe!Unset /\ rpc \in Pipe!Waiting \cup {"remove", "ended"}
      /\ rpc \in Pipe!Waiting => out = << >> /\ Len(out) = 0
  BY <1>1, PipeBefore, EmptySeq DEF Pipe!NothingSent, Pipe!OneName
<1>3. pipe = << >> /\ Len(pipe) = 0
  BY <1>2, PipeNothingYet
<1>4. rpc' = "openFile" => Pipe!HeaderLength' = 0 /\ Pipe!Reached' = 0 /\ Pipe!InPipe' = 0
  BY <1>1, <1>2, <1>3 DEF Pipe!HeaderLength, Pipe!Reached, Pipe!InPipe
<1>5. Pipe!InTransit'
  <2>1. rpc' \in PipeListening => rpc' = "openFile"
    BY <1>1, <1>2 DEF PipeListening
  <2>3. rpc' = "openFile" => PipeFollows'
    BY <1>1, <1>3, <1>4, PipeBefore DEF PipeFollows
  <2>2. PipeStarts'
    BY <1>1 DEF PipeStarts
  <2> QED
    BY <1>1, <2>1, <2>2, <2>3, PipeTransitThen
<1>6. Pipe!Reads' /\ Pipe!Ahead'
  BY <1>1, <1>2, PipeBefore DEF Pipe!Reads, Pipe!Ahead
<1> QED
  BY <1>1, <1>5, <1>6, PipeBefore DEF PipeStream, Pipe!Prefix

(* The two programs before they are launched.                              *)
PipeFresh ==
  /\ spc = "idle" /\ rpc = "idle"
  /\ sres = "none" /\ rres = "none"
  /\ name \in {"none", "fifo"} /\ target = "none"
  /\ pipe = << >> /\ kept = << >>
  /\ size \in Sizes
  /\ toSend = Pipe!Unset /\ announced = Pipe!Unset
  /\ sent = 0 /\ lastRead = BufferSize
  /\ expected = Pipe!Unset
  /\ inbox = << >> /\ out = << >>
  /\ present \in BOOLEAN

(* The invariant holds at the start.                                       *)
LEMMA PipeInvInit == PipeFresh => Pipe!IInv
<1> SUFFICES ASSUME PipeFresh PROVE Pipe!IInv
  OBVIOUS
<1> USE BufferSizeAssumption, SizesAssumption, RcProgramsAssumption
<1>1. /\ pipe = << >> /\ Len(pipe) = 0 /\ pipe \in Seq(Int) /\ Len(pipe) <= PipeCapacity
      /\ kept = << >> /\ Len(kept) = 0 /\ kept \in Seq(Int) /\ Len(kept) < BufferSize
      /\ inbox \in Seq(Int) /\ Len(inbox) = 0 /\ out \in Seq(Int) /\ Len(out) = 0
      /\ size \in Nat
  BY DEF PipeFresh
<1>2. Pipe!TypeOK
  <2>1. present \in BOOLEAN
    BY Zenon DEF PipeFresh
  <2>2. /\ spc \in Pipe!SenderLabels /\ rpc \in Pipe!ReceiverLabels
        /\ sres \in Pipe!Outcomes /\ rres \in Pipe!Outcomes
        /\ name \in {"none", "fifo", "file"} /\ target \in {"none", "fifo", "file"}
        /\ lastRead \in 0..BufferSize /\ sent \in Nat
    BY DEF PipeFresh, Pipe!Outcomes
  <2>3. /\ size \in Sizes
        /\ toSend \in Sizes \cup {Pipe!Unset} /\ announced \in Sizes \cup {Pipe!Unset}
        /\ expected \in Nat \cup {Pipe!Unset}
    BY DEF PipeFresh
  <2> QED
    BY <1>1, <2>1, <2>2, <2>3, Zenon DEF Pipe!TypeOK
<1>3. Pipe!OneName /\ Pipe!NothingSent
  BY <1>1 DEF PipeFresh, Pipe!OneName, Pipe!FifoOpened, Pipe!NothingSent
<1>4. Pipe!Results /\ Pipe!NameGone
  BY <1>1 DEF PipeFresh, Pipe!Results, Pipe!NameGone
<1>5. Pipe!InTransit /\ Pipe!Reads /\ Pipe!Ahead
  BY <1>1 DEF PipeFresh, Pipe!InTransit, Pipe!Reads, Pipe!Ahead
<1>6. Pipe!Prefix
  <2>1. Pipe!Stretch(0, 0) = << >>
    BY DEF Pipe!Stretch
  <2> QED
    BY <1>1, <2>1 DEF PipeFresh, Pipe!Prefix
<1> QED
  BY <1>2, <1>3, <1>4, <1>5, <1>6, Zenon DEF Pipe!IInv

(* Every step keeps the invariant.                                         *)
LEMMA PipeInvStep == Pipe!IInv /\ [Pipe!Next]_(Pipe!vars) => Pipe!IInv'
<1> SUFFICES ASSUME Pipe!IInv, [Pipe!Next]_(Pipe!vars) PROVE Pipe!IInv'
  OBVIOUS
<1>1. CASE Pipe!SLaunch \/ Pipe!SenderStep \/ Pipe!SCallFails \/ Pipe!SKill
  BY <1>1, PipeTypeSender, PipeControlSender, PipeStreamSender, Zenon DEF Pipe!IInv,
     PipeStream, PipeControl
<1>2. CASE Pipe!RLaunch \/ Pipe!ReceiverStep \/ Pipe!RCallFails \/ Pipe!RKill
  BY <1>2, PipeTypeReceiver, PipeControlReceiver, PipeStreamReceiver, Zenon DEF Pipe!IInv,
     PipeStream, PipeControl
<1>3. CASE Pipe!Meet
  <2>1. Pipe!TypeOK'
    <3>1. /\ spc' = "opened" /\ rpc' = "openFile"
          /\ UNCHANGED <<sres, rres, name, target, pipe, kept, size, toSend, announced,
                         sent, lastRead, expected, inbox, out, present>>
      BY <1>3 DEF Pipe!Meet
    <3>2. Pipe!TypeOK
      BY DEF Pipe!IInv
    <3> QED
      BY <3>1, <3>2, SMT DEF Pipe!TypeOK, Pipe!Outcomes
  <2> QED
    BY <1>3, <2>1, PipeControlMeet, PipeStreamMeet, Zenon DEF Pipe!IInv, PipeStream, PipeControl
<1>4. CASE Pipe!SCrash
  <2>1. Pipe!TypeOK'
    <3>1. /\ spc' = "ended" /\ (rpc' = "openFile" \/ rpc' = rpc) /\ sres' = "killed"
          /\ UNCHANGED <<rres, name, target, pipe, kept, size, toSend, announced,
                         sent, lastRead, expected, inbox, out, present>>
      BY <1>4 DEF Pipe!SCrash
    <3>2. Pipe!TypeOK
      BY DEF Pipe!IInv
    <3> QED
      BY <3>1, <3>2, SMT DEF Pipe!TypeOK, Pipe!Outcomes
  <2> QED
    BY <1>4, <2>1, PipeControlCrash, PipeStreamCrash, Zenon DEF Pipe!IInv, PipeStream, PipeControl
<1>5. CASE UNCHANGED Pipe!vars
  <2>1. Pipe!TypeOK'
    <3>1. UNCHANGED <<spc, rpc, sres, rres, name, target, pipe, kept, size, toSend,
                      announced, sent, lastRead, expected, inbox, out, present>>
      BY <1>5 DEF Pipe!vars
    <3>2. Pipe!TypeOK
      BY DEF Pipe!IInv
    <3> QED
      BY <3>1, <3>2, SMT DEF Pipe!TypeOK, Pipe!Outcomes
  <2>2. Pipe!OneName' /\ Pipe!NothingSent' /\ Pipe!Results' /\ Pipe!NameGone'
    BY <1>5, PipeBefore DEF Pipe!vars, Pipe!OneName, Pipe!FifoOpened, Pipe!NothingSent,
       Pipe!Results, Pipe!NameGone
  <2>3. Pipe!InTransit' /\ Pipe!Prefix'
    BY <1>5, PipeBefore DEF Pipe!vars, Pipe!InTransit, Pipe!Prefix, Pipe!Reached,
       Pipe!InPipe, Pipe!HeaderLength, Pipe!Written
  <2>4. Pipe!Reads' /\ Pipe!Ahead'
    BY <1>5, PipeBefore DEF Pipe!vars, Pipe!Reads, Pipe!Ahead, Pipe!Written
  <2> QED
    BY <2>1, <2>2, <2>3, <2>4, Zenon DEF Pipe!IInv
<1> QED
  BY <1>1, <1>2, <1>3, <1>4, <1>5 DEF Pipe!Next, Pipe!Stopped

(* What follows from it.                                                   *)
LEMMA PipeImplied ==
  Pipe!IInv => Pipe!TypeOK /\ Pipe!FifoOpened /\ Pipe!ExactCopy /\ Pipe!NameUnlinked
<1> SUFFICES ASSUME Pipe!IInv
             PROVE Pipe!TypeOK /\ Pipe!FifoOpened /\ Pipe!ExactCopy /\ Pipe!NameUnlinked
  OBVIOUS
<1>1. Pipe!TypeOK /\ Pipe!FifoOpened
  BY DEF Pipe!IInv, Pipe!OneName
<1>2. Pipe!ExactCopy
  BY PipeBefore DEF Pipe!Prefix, Pipe!Results, Pipe!NothingSent, Pipe!ExactCopy
<1>3. Pipe!NameUnlinked
  BY PipeBefore DEF Pipe!NothingSent, Pipe!NameGone, Pipe!NameUnlinked, Pipe!Outcomes
<1> QED
  BY <1>1, <1>2, <1>3

-----------------------------------------------------------------------------
(* The initial states map to initial states of FileCopy.                   *)
LEMMA PipePromiseInit == PipeFresh => Pipe!Promise!Init
<1> SUFFICES ASSUME PipeFresh PROVE Pipe!Promise!Init
  OBVIOUS
<1>1. present \in BOOLEAN
  BY Zenon DEF PipeFresh
<1> QED
  BY <1>1 DEF PipeFresh, Pipe!Promise!Init, Pipe!Outcome, Pipe!SenderOutcome

(* A sender that measured the right length twice only succeeds when what   *)
(* is not stored fits in the pipe and in the buffers of both programs.     *)
LEMMA PipeRestIsOnTheWay ==
  ASSUME Pipe!IInv, sres = "success", announced = size, toSend = size
  PROVE  Len(out) + (PipeCapacity + 2 * BufferSize) >= size
<1>1. sent >= size /\ sent <= Len(out) + PipeCapacity + 2 * BufferSize
  BY PipeBefore DEF Pipe!Results, Pipe!Ahead
<1>2. /\ sent \in Nat /\ size \in Nat /\ Len(out) \in Nat /\ PipeCapacity \in Nat
      /\ BufferSize \in Nat
  BY PipeBefore
<1> QED
  BY <1>1, <1>2

(* A step of the sender maps to a step of FileCopy or to a stutter.        *)
LEMMA PipePromiseSender ==
  ASSUME Pipe!IInv, Pipe!SLaunch \/ Pipe!SenderStep \/ Pipe!SCallFails \/ Pipe!SKill
  PROVE  [Pipe!Promise!Next]_(Pipe!Promise!vars)
<1> /\ size \in Sizes /\ size \in Nat /\ Sizes \subseteq Nat /\ Len(out) \in Nat
    /\ spc \in Pipe!SenderLabels /\ sres \in Pipe!Outcomes
    /\ Pipe!NothingSent /\ Pipe!Results
  BY PipeBefore, SizesAssumption
<1> USE DEF Pipe!Outcome, Pipe!SenderOutcome, Pipe!Promise!Next, Pipe!Promise!vars,
        Pipe!NothingSent,
            Pipe!Results, Pipe!Outcomes
<1>1. CASE Pipe!SLaunch
  BY <1>1 DEF Pipe!SLaunch, Pipe!Promise!GiveUp
<1>2. CASE Pipe!SMake
  BY <1>2 DEF Pipe!SMake, Pipe!Promise!GiveUp
<1>3. CASE Pipe!SOpen
  BY <1>3 DEF Pipe!SOpen
<1>4. CASE Pipe!SGiveUp
  BY <1>4 DEF Pipe!SGiveUp, Pipe!Promise!GiveUp
<1>5. CASE Pipe!SOpened
  BY <1>5 DEF Pipe!SOpened
<1>6. CASE Pipe!SMeasure
  BY <1>6 DEF Pipe!SMeasure
<1>7. CASE Pipe!SSendHeader
  <2>1. /\ announced' \in Sizes /\ announced = Pipe!Unset /\ spc = "sendHeader"
        /\ spc' \in {"fill", "close"}
        /\ UNCHANGED <<size, out, present, rpc, rres>>
    BY <1>7 DEF Pipe!SSendHeader, Pipe!AnnouncedSizes
  <2>2. Pipe!Promise!Announce
    BY <2>1 DEF Pipe!Promise!Announce
  <2> QED
    BY <2>2
<1>8. CASE Pipe!SFill
  BY <1>8 DEF Pipe!SFill
<1>9. CASE Pipe!SSend
  BY <1>9 DEF Pipe!SSend
<1>10. CASE Pipe!SClose
  BY <1>10 DEF Pipe!SClose
<1>11. CASE Pipe!SUnlink
  BY <1>11, PipeRestIsOnTheWay DEF Pipe!SUnlink, Pipe!Promise!Complete, Pipe!Promise!GiveUp
<1>12. CASE Pipe!SCallFails
  BY <1>12 DEF Pipe!SCallFails
<1>13. CASE Pipe!SKill
  BY <1>13 DEF Pipe!SKill, Pipe!Promise!KillSender
<1>14. CASE Pipe!STimer
  BY <1>14 DEF Pipe!STimer
<1> QED
  BY <1>1, <1>2, <1>3, <1>4, <1>5, <1>6, <1>7, <1>8, <1>9, <1>10, <1>11, <1>12,
     <1>13, <1>14
  DEF Pipe!SenderStep

(* A step of the receiver maps to a step of FileCopy or to a stutter.      *)
LEMMA PipePromiseReceiver ==
  ASSUME Pipe!IInv, Pipe!RLaunch \/ Pipe!ReceiverStep \/ Pipe!RCallFails \/ Pipe!RKill
  PROVE  [Pipe!Promise!Next]_(Pipe!Promise!vars)
<1> /\ size \in Sizes /\ size \in Nat /\ Sizes \subseteq Nat /\ Len(out) \in Nat
    /\ rpc \in Pipe!ReceiverLabels /\ rres \in Pipe!Outcomes
    /\ Pipe!NothingSent /\ Pipe!Prefix /\ Pipe!Results
    /\ announced \in Nat \cup {Pipe!Unset} /\ out \in Seq(Int)
  BY PipeBefore, SizesAssumption
<1> USE DEF Pipe!Outcome, Pipe!SenderOutcome, Pipe!Promise!Next, Pipe!Promise!vars,
        Pipe!Results, Pipe!Outcomes
<1>1. CASE Pipe!RLaunch
  BY <1>1 DEF Pipe!RLaunch
<1>2. CASE Pipe!RLook
  BY <1>2 DEF Pipe!RLook
<1>3. CASE Pipe!ROpen
  BY <1>3 DEF Pipe!ROpen
<1>4. CASE Pipe!ROpenFile
  <2>1. CASE rpc' = "close"
    BY <1>4, <2>1 DEF Pipe!ROpenFile
  <2>2. CASE rpc' # "close"
    BY <1>4, <2>2 DEF Pipe!ROpenFile, Pipe!NothingSent, Pipe!Promise!CreateCopy
  <2> QED
    BY <2>1, <2>2
<1>5. CASE Pipe!RReceiveHeader
  BY <1>5, PipeHeaderKeepsCopy DEF Pipe!RReceiveHeader
<1>6. CASE Pipe!RReceive
  BY <1>6 DEF Pipe!RReceive
<1>7. CASE Pipe!RStore
  <2>1. CASE out' = out
    BY <1>7, <2>1, PipeStores
  <2>2. CASE out' # out
    <3>1. /\ rpc = "store" /\ rpc' \in {"receive", "close"} /\ present
          /\ rres = "none" /\ Len(inbox) \in Nat
          /\ Len(out) + Len(inbox) <= size /\ Len(inbox) <= BufferSize
          /\ UNCHANGED <<size, toSend, announced, present, spc, sres>>
      BY <1>7, PipeStores, PipePiece, PipeBefore DEF Pipe!Ahead
    <3>2. PICK n \in 0..Len(inbox) : out' = out \o Pipe!Stretch(Len(out), n)
      BY <1>7, PipeStores
    <3>3. n \in Nat /\ n <= BufferSize /\ Len(out) + n <= size
      BY <3>1, BufferSizeAssumption
    <3>4. Pipe!Stretch(Len(out), n) = Pipe!Promise!NextBytes(n)
      BY DEF Pipe!Stretch, Pipe!Promise!NextBytes
    <3>5. n # 0
      <4>1. ASSUME n = 0
            PROVE  FALSE
        <5>1. Pipe!Stretch(Len(out), n) = << >>
          BY <4>1 DEF Pipe!Stretch
        <5>2. out' = out
          BY <3>2, <5>1, ConcatEmptySeq
        <5> QED
          BY <2>2, <5>2
      <4> QED
        BY <4>1
    <3>6. n \in 1..BufferSize
      BY <3>3, <3>5, BufferSizeAssumption
    <3>7. Pipe!Promise!Store(n)
      BY <3>1, <3>2, <3>3, <3>4 DEF Pipe!Promise!Store
    <3> QED
      BY <3>6, <3>7
  <2> QED
    BY <2>1, <2>2
<1>13. UNCHANGED out => \E n \in 0..0 : Pipe!Promise!LoseLast(n)
  <2>1. 0 \in 0..0
    OBVIOUS
  <2> QED
    BY <2>1, NothingLost, Zenon DEF Pipe!Promise!LoseLast
<1>8. CASE Pipe!RClose
  BY <1>8 DEF Pipe!RClose
<1>9. CASE Pipe!RUnlink
  BY <1>9, <1>13 DEF Pipe!RUnlink, Pipe!Promise!Accept, Pipe!NothingSent
<1>10. CASE Pipe!RRemove
  BY <1>10 DEF Pipe!RRemove, Pipe!Promise!Reject
<1>11. CASE Pipe!RCallFails
  BY <1>11 DEF Pipe!RCallFails
<1>12. CASE Pipe!RKill
  BY <1>12, <1>13 DEF Pipe!RKill, Pipe!Promise!KillReceiver
<1> QED
  BY <1>1, <1>2, <1>3, <1>4, <1>5, <1>6, <1>7, <1>8, <1>9, <1>10, <1>11, <1>12
  DEF Pipe!ReceiverStep

(* Every step maps to a step of FileCopy or to a stutter.                  *)
LEMMA PipePromiseStep ==
  Pipe!IInv /\ [Pipe!Next]_(Pipe!vars) => [Pipe!Promise!Next]_(Pipe!Promise!vars)
<1> SUFFICES ASSUME Pipe!IInv, [Pipe!Next]_(Pipe!vars) PROVE [Pipe!Promise!Next]_(Pipe!Promise!vars)
  OBVIOUS
<1>1. CASE UNCHANGED Pipe!vars
  BY <1>1 DEF Pipe!vars, Pipe!Promise!vars, Pipe!Outcome, Pipe!SenderOutcome
<1>2. CASE Pipe!Meet
  BY <1>2 DEF Pipe!Meet, Pipe!Promise!vars, Pipe!Outcome, Pipe!SenderOutcome
<1>3. CASE Pipe!SCrash
  <2>1. spc = "untimed" /\ sres = "none"
    BY <1>3, PipeBefore DEF Pipe!SCrash, Pipe!Results
  <2>2. Pipe!Promise!KillSender
    <3>1. /\ spc' = "ended" /\ sres' = "killed" 
          /\ rpc' = rpc \/ (rpc = "opening" /\ rpc' = "openFile")
          /\ UNCHANGED <<rres, size, announced, toSend, out, present>>
      BY <1>3 DEF Pipe!SCrash
    <3> QED
      BY <2>1, <3>1 DEF Pipe!Promise!KillSender, Pipe!Outcome, Pipe!SenderOutcome
  <2> QED
    BY <2>2 DEF Pipe!Promise!Next
<1> QED
  BY <1>1, <1>2, <1>3, PipePromiseSender, PipePromiseReceiver DEF Pipe!Next, Pipe!Stopped

-----------------------------------------------------------------------------
(* Calm weather: nothing happens that could not happen at any time.         *)

(* Closing a file in calm weather loses nothing, which it need not do in   *)
(* any weather.                                                            *)
LEMMA CalmLoses ==
  ASSUME NEW n \in Nat
  PROVE  /\ ShmInCalm!MostLost(n) \in 0..Shm!MostLost(n)
         /\ QueueInCalm!MostLost(n) \in 0..Queue!MostLost(n)
         /\ PipeInCalm!MostLost(n) \in 0..Pipe!MostLost(n)
BY DEF Shm!MostLost, ShmInCalm!MostLost, Queue!MostLost, QueueInCalm!MostLost,
       Pipe!MostLost, PipeInCalm!MostLost

(* What is left of a copy that is closed in calm weather may be left in    *)
(* any weather.                                                            *)
LEMMA CalmCopies ==
  ASSUME NEW copy, NEW n \in Nat
  PROVE  /\ QueueInCalm!ClosedAfter(copy, n) \subseteq Queue!ClosedAfter(copy, n)
         /\ PipeInCalm!ClosedAfter(copy, n) \subseteq Pipe!ClosedAfter(copy, n)
<1> DEFINE m == IF n < BufferSize THEN n ELSE 0
<1>1. m \in Nat
  OBVIOUS
<1> HIDE DEF m
<1>2. /\ 0..QueueInCalm!MostLost(m) \subseteq 0..Queue!MostLost(m)
      /\ 0..PipeInCalm!MostLost(m) \subseteq 0..Pipe!MostLost(m)
  <2>1. Queue!MostLost(m) \in Nat /\ Pipe!MostLost(m) \in Nat
    BY <1>1 DEF Queue!MostLost, Pipe!MostLost
  <2>2. /\ QueueInCalm!MostLost(m) \in 0..Queue!MostLost(m)
        /\ PipeInCalm!MostLost(m) \in 0..Pipe!MostLost(m)
    BY <1>1, CalmLoses, Zenon
  <2> QED
    BY <2>1, <2>2
<1>3. QueueInCalm!ClosedCopies(copy, m) \subseteq Queue!ClosedCopies(copy, m)
  BY <1>2, Zenon DEF Queue!ClosedCopies, QueueInCalm!ClosedCopies, Queue!WithoutLast,
                     QueueInCalm!WithoutLast
<1>4. PipeInCalm!ClosedCopies(copy, m) \subseteq Pipe!ClosedCopies(copy, m)
  BY <1>2, Zenon DEF Pipe!ClosedCopies, PipeInCalm!ClosedCopies, Pipe!WithoutLast,
                     PipeInCalm!WithoutLast
<1> QED
  BY <1>3, <1>4, Zenon DEF m, Queue!ClosedAfter, QueueInCalm!ClosedAfter, Pipe!ClosedAfter,
                           PipeInCalm!ClosedAfter

(* What the programs do in calm weather they may do in any weather.        *)
LEMMA ShmCalm ==
  ASSUME ShmInCalm!Next, size \in Sizes, held \in Seq(Int)
  PROVE  Shm!Next
<1> USE DEF Shm!SGoto, ShmInCalm!SGoto, Shm!RGoto, ShmInCalm!RGoto, Shm!SLeave,
            ShmInCalm!SLeave, Shm!RLeave, ShmInCalm!RLeave, Shm!SRefuse,
            ShmInCalm!SRefuse, Shm!SConclude, ShmInCalm!SConclude, Shm!RRefuse,
            ShmInCalm!RRefuse, Shm!RConclude, ShmInCalm!RConclude, Shm!Fails,
            ShmInCalm!Fails, Shm!STimeout, ShmInCalm!STimeout, Shm!RTimeout,
            ShmInCalm!RTimeout, Shm!ReceiverLive, ShmInCalm!ReceiverLive, Shm!SenderLive,
            ShmInCalm!SenderLive, Shm!Gone, ShmInCalm!Gone, Shm!outcomes,
            ShmInCalm!outcomes, Shm!sems, ShmInCalm!sems, Shm!shm, ShmInCalm!shm,
            Shm!channel, ShmInCalm!channel, Shm!senderData, ShmInCalm!senderData,
            Shm!receiverData, ShmInCalm!receiverData, Shm!vars, ShmInCalm!vars,
            Shm!Unlinking, ShmInCalm!Unlinking
<1>1. ShmInCalm!SLaunch => Shm!SLaunch
  BY DEF Shm!SLaunch, ShmInCalm!SLaunch
<1>2. ShmInCalm!SShmCreate => Shm!SShmCreate
  BY DEF Shm!SShmCreate, ShmInCalm!SShmCreate
<1>3. ShmInCalm!SSenderSemCreate => Shm!SSenderSemCreate
  BY DEF Shm!SSenderSemCreate, ShmInCalm!SSenderSemCreate, Shm!Created, ShmInCalm!Created
<1>4. ShmInCalm!SReceiverSemCreate => Shm!SReceiverSemCreate
  BY DEF Shm!SReceiverSemCreate, ShmInCalm!SReceiverSemCreate, Shm!Created, ShmInCalm!Created
<1>5. ShmInCalm!SWaitPeer => Shm!SWaitPeer
  BY DEF Shm!SWaitPeer, ShmInCalm!SWaitPeer, Shm!SWait, ShmInCalm!SWait
<1>6. ShmInCalm!SHeader => Shm!SHeader
  BY DEF Shm!SHeader, ShmInCalm!SHeader, Shm!AnnouncedSizes, ShmInCalm!AnnouncedSizes,
     Shm!HeaderByte, ShmInCalm!HeaderByte
<1>7. ShmInCalm!SPostHeader => Shm!SPostHeader
  BY DEF Shm!SPostHeader, ShmInCalm!SPostHeader
<1>8. ShmInCalm!SWaitTurn => Shm!SWaitTurn
  BY DEF Shm!SWaitTurn, ShmInCalm!SWaitTurn, Shm!SWait, ShmInCalm!SWait
<1>9. ShmInCalm!SFill => Shm!SFill
  BY DEF Shm!SFill, ShmInCalm!SFill, Shm!SyncFileWithBuffer, ShmInCalm!SyncFileWithBuffer
<1>10. ShmInCalm!SFillSize => Shm!SFillSize
  BY DEF Shm!SFillSize, ShmInCalm!SFillSize
<1>11. ShmInCalm!SPost => Shm!SPost
  BY DEF Shm!SPost, ShmInCalm!SPost
<1>12. ShmInCalm!SUnlinkSenderSem => Shm!SUnlinkSenderSem
  BY DEF Shm!SUnlinkSenderSem, ShmInCalm!SUnlinkSenderSem, Shm!SUnlink, ShmInCalm!SUnlink
<1>13. ShmInCalm!SUnlinkReceiverSem => Shm!SUnlinkReceiverSem
  BY DEF Shm!SUnlinkReceiverSem, ShmInCalm!SUnlinkReceiverSem, Shm!SUnlink, ShmInCalm!SUnlink
<1>14. ShmInCalm!SUnlinkShm => Shm!SUnlinkShm
  BY DEF Shm!SUnlinkShm, ShmInCalm!SUnlinkShm, Shm!SUnlink, ShmInCalm!SUnlink
<1>15. ShmInCalm!SCallFails => Shm!SCallFails
  BY DEF Shm!SCallFails, ShmInCalm!SCallFails
<1>16. ShmInCalm!SKill => Shm!SKill
  BY DEF Shm!SKill, ShmInCalm!SKill
<1>17. ShmInCalm!RLaunch => Shm!RLaunch
  BY DEF Shm!RLaunch, ShmInCalm!RLaunch
<1>18. ShmInCalm!RConnectSenderSem => Shm!RConnectSenderSem
  BY DEF Shm!RConnectSenderSem, ShmInCalm!RConnectSenderSem, Shm!RConnect, ShmInCalm!RConnect
<1>19. ShmInCalm!RConnectReceiverSem => Shm!RConnectReceiverSem
  BY DEF Shm!RConnectReceiverSem, ShmInCalm!RConnectReceiverSem, Shm!RConnect,
     ShmInCalm!RConnect
<1>20. ShmInCalm!RConnectShm => Shm!RConnectShm
  BY DEF Shm!RConnectShm, ShmInCalm!RConnectShm
<1>21. ShmInCalm!ROpenFile => Shm!ROpenFile
  BY DEF Shm!ROpenFile, ShmInCalm!ROpenFile
<1>22. ShmInCalm!RHello => Shm!RHello
  BY DEF Shm!RHello, ShmInCalm!RHello, Shm!RPost, ShmInCalm!RPost
<1>23. ShmInCalm!RWaitHeader => Shm!RWaitHeader
  BY DEF Shm!RWaitHeader, ShmInCalm!RWaitHeader, Shm!RWait, ShmInCalm!RWait
<1>24. ShmInCalm!RReadHeader => Shm!RReadHeader
  BY DEF Shm!RReadHeader, ShmInCalm!RReadHeader, Shm!HasKey, ShmInCalm!HasKey,
     Shm!AnnouncedBy, ShmInCalm!AnnouncedBy
<1>25. ShmInCalm!RAckHeader => Shm!RAckHeader
  BY DEF Shm!RAckHeader, ShmInCalm!RAckHeader, Shm!RPost, ShmInCalm!RPost
<1>26. ShmInCalm!RWaitData => Shm!RWaitData
  BY DEF Shm!RWaitData, ShmInCalm!RWaitData, Shm!RWait, ShmInCalm!RWait
<1>27. ShmInCalm!RTakeSize => Shm!RTakeSize
  BY DEF Shm!RTakeSize, ShmInCalm!RTakeSize
<1>28. ShmInCalm!RStore => Shm!RStore
  BY DEF Shm!RStore, ShmInCalm!RStore
<1>29. ShmInCalm!RAck => Shm!RAck
  <2>1. ShmInCalm!RCloseAndCheck => Shm!RCloseAndCheck
    <3>1. Len(held) \in Nat
      OBVIOUS
    <3>2. ShmInCalm!MostLost(Len(held)) \in 0..Shm!MostLost(Len(held))
      BY <3>1, CalmLoses
    <3>3. Shm!MostLost(Len(held)) \in Nat
      BY <3>1 DEF Shm!MostLost
    <3>4. \A n \in (Len(held) - ShmInCalm!MostLost(Len(held)))..Len(held) :
            n \in (Len(held) - Shm!MostLost(Len(held)))..Len(held)
      BY <3>1, <3>2, <3>3
    <3> QED
      BY <3>4, Zenon DEF Shm!RCloseAndCheck, ShmInCalm!RCloseAndCheck, Shm!CheckedLength,
                         ShmInCalm!CheckedLength
  <2>2. ShmInCalm!GoesOn <=> Shm!GoesOn
    BY DEF Shm!GoesOn, ShmInCalm!GoesOn, Shm!Stored, ShmInCalm!Stored
  <2> QED
    BY <2>1, <2>2, Zenon DEF Shm!RAck, ShmInCalm!RAck, Shm!RPost, ShmInCalm!RPost
<1>30. ShmInCalm!RUnlinkShm => Shm!RUnlinkShm
  BY DEF Shm!RUnlinkShm, ShmInCalm!RUnlinkShm
<1>31. ShmInCalm!RRemove => Shm!RRemove
  BY DEF Shm!RRemove, ShmInCalm!RRemove
<1>32. ShmInCalm!RCallFails => Shm!RCallFails
  BY DEF Shm!RCallFails, ShmInCalm!RCallFails
<1>33. ShmInCalm!RKill => Shm!RKill
  BY DEF Shm!RKill, ShmInCalm!RKill
<1>34. ShmInCalm!BothEnded => Shm!BothEnded
  BY DEF Shm!BothEnded, ShmInCalm!BothEnded
<1> QED
  BY <1>1, <1>2, <1>3, <1>4, <1>5, <1>6, <1>7, <1>8, <1>9, <1>10, <1>11, <1>12, <1>13,
     <1>14, <1>15, <1>16, <1>17, <1>18, <1>19, <1>20, <1>21, <1>22, <1>23, <1>24, <1>25,
     <1>26, <1>27, <1>28, <1>29, <1>30, <1>31, <1>32, <1>33, <1>34
  DEF Shm!Next, ShmInCalm!Next, Shm!SenderStep, ShmInCalm!SenderStep, Shm!ReceiverStep,
      ShmInCalm!ReceiverStep

(* What the programs do in calm weather they may do in any weather.        *)
LEMMA QueueCalm ==
  ASSUME QueueInCalm!Next, size \in Sizes, inbox \in Seq(Int)
  PROVE  Queue!Next
<1> USE DEF Queue!SGoto, QueueInCalm!SGoto, Queue!RGoto, QueueInCalm!RGoto, Queue!SLeave,
            QueueInCalm!SLeave, Queue!RLeave, QueueInCalm!RLeave, Queue!SRefuse,
            QueueInCalm!SRefuse, Queue!SConclude, QueueInCalm!SConclude, Queue!RRefuse,
            QueueInCalm!RRefuse, Queue!RConclude, QueueInCalm!RConclude, Queue!Fails,
            QueueInCalm!Fails, Queue!Late, QueueInCalm!Late, Queue!STimeout,
            QueueInCalm!STimeout, Queue!RTimeout, QueueInCalm!RTimeout,
            Queue!ReceiverLive, QueueInCalm!ReceiverLive, Queue!SenderLive,
            QueueInCalm!SenderLive, Queue!Gone, QueueInCalm!Gone, Queue!outcomes,
            QueueInCalm!outcomes, Queue!queues, QueueInCalm!queues, Queue!opened,
            QueueInCalm!opened, Queue!senderData, QueueInCalm!senderData,
            Queue!receiverData, QueueInCalm!receiverData, Queue!vars, QueueInCalm!vars,
            Queue!SGoesOn, QueueInCalm!SGoesOn,
            Queue!Apart, QueueInCalm!Apart, Queue!SendsMore, QueueInCalm!SendsMore,
            Queue!ReceivesMore, QueueInCalm!ReceivesMore, Queue!CheckedLength,
            QueueInCalm!CheckedLength
<1> DEFINE Ends(bytes, n) == QueueInCalm!RGoesOn(bytes, n) => Queue!RGoesOn(bytes, n)
<1>0. Ends(out, BufferSize) /\ Ends(out \o inbox, Len(inbox))
  <2>1. ASSUME NEW bytes, NEW n \in Nat PROVE Ends(bytes, n)
    BY <2>1, CalmCopies, Zenon
    DEF Queue!RGoesOn, QueueInCalm!RGoesOn, Queue!ReceivesMore,
        QueueInCalm!ReceivesMore, Queue!CheckedLength, QueueInCalm!CheckedLength
  <2>2. BufferSize \in Nat /\ Len(inbox) \in Nat
    BY BufferSizeAssumption
  <2> QED
    BY <2>1, <2>2, Zenon
<1>1. QueueInCalm!SLaunch => Queue!SLaunch
  BY DEF Queue!SLaunch, QueueInCalm!SLaunch
<1>2. QueueInCalm!SFind => Queue!SFind
  BY DEF Queue!SFind, QueueInCalm!SFind
<1>3. QueueInCalm!SCheck => Queue!SCheck
  BY DEF Queue!SCheck, QueueInCalm!SCheck, Queue!Holds, QueueInCalm!Holds
<1>4. QueueInCalm!SOpen => Queue!SOpen
  BY DEF Queue!SOpen, QueueInCalm!SOpen
<1>5. QueueInCalm!SMeasure => Queue!SMeasure
  BY DEF Queue!SMeasure, QueueInCalm!SMeasure, Queue!AnnouncedSizes, QueueInCalm!AnnouncedSizes
<1>6. QueueInCalm!SSendHeader => Queue!SSendHeader
  BY DEF Queue!SSendHeader, QueueInCalm!SSendHeader, Queue!AnnouncedSizes,
     QueueInCalm!AnnouncedSizes, Queue!Put, QueueInCalm!Put, Queue!HeaderByte,
     QueueInCalm!HeaderByte, Queue!PutFails, QueueInCalm!PutFails, Queue!Holds,
     QueueInCalm!Holds
<1>7. QueueInCalm!SFill => Queue!SFill
  BY DEF Queue!SFill, QueueInCalm!SFill, Queue!SyncFileWithBuffer,
     QueueInCalm!SyncFileWithBuffer
<1>8. QueueInCalm!SSend => Queue!SSend
  BY DEF Queue!SSend, QueueInCalm!SSend, Queue!Put, QueueInCalm!Put, Queue!Stretch,
     QueueInCalm!Stretch, Queue!PutFails, QueueInCalm!PutFails, Queue!Holds,
     QueueInCalm!Holds
<1>9. QueueInCalm!SUnlink => Queue!SUnlink
  BY DEF Queue!SUnlink, QueueInCalm!SUnlink
<1>10. QueueInCalm!SCallFails => Queue!SCallFails
  BY DEF Queue!SCallFails, QueueInCalm!SCallFails
<1>11. QueueInCalm!SKill => Queue!SKill
  BY DEF Queue!SKill, QueueInCalm!SKill
<1>12. QueueInCalm!RLaunch => Queue!RLaunch
  BY DEF Queue!RLaunch, QueueInCalm!RLaunch
<1>13. QueueInCalm!RUnlinkOld => Queue!RUnlinkOld
  BY DEF Queue!RUnlinkOld, QueueInCalm!RUnlinkOld
<1>14. QueueInCalm!RCreate => Queue!RCreate
  BY DEF Queue!RCreate, QueueInCalm!RCreate
<1>15. QueueInCalm!ROpenFile => Queue!ROpenFile
  BY DEF Queue!ROpenFile, QueueInCalm!ROpenFile
<1>16. QueueInCalm!RReceiveHeader => Queue!RReceiveHeader
  BY <1>0 DEF Queue!RReceiveHeader, QueueInCalm!RReceiveHeader, Queue!Get, QueueInCalm!Get,
     Queue!HasKey, QueueInCalm!HasKey, Queue!AnnouncedBy, QueueInCalm!AnnouncedBy,
     Queue!GetFails, QueueInCalm!GetFails
<1>17. QueueInCalm!RReceive => Queue!RReceive
  BY DEF Queue!RReceive, QueueInCalm!RReceive, Queue!Get, QueueInCalm!Get, Queue!GetFails,
     QueueInCalm!GetFails
<1>18. QueueInCalm!RStore => Queue!RStore
  BY <1>0 DEF Queue!RStore, QueueInCalm!RStore
<1>19. QueueInCalm!RUnlink => Queue!RUnlink
  BY DEF Queue!RUnlink, QueueInCalm!RUnlink
<1>20. QueueInCalm!RRemove => Queue!RRemove
  BY DEF Queue!RRemove, QueueInCalm!RRemove
<1>21. QueueInCalm!RCallFails => Queue!RCallFails
  BY DEF Queue!RCallFails, QueueInCalm!RCallFails
<1>22. QueueInCalm!RKill => Queue!RKill
  BY DEF Queue!RKill, QueueInCalm!RKill
<1>23. QueueInCalm!BothEnded => Queue!BothEnded
  BY DEF Queue!BothEnded, QueueInCalm!BothEnded
<1> QED
  BY <1>1, <1>2, <1>3, <1>4, <1>5, <1>6, <1>7, <1>8, <1>9, <1>10, <1>11, <1>12, <1>13,
     <1>14, <1>15, <1>16, <1>17, <1>18, <1>19, <1>20, <1>21, <1>22, <1>23
  DEF Queue!Next, QueueInCalm!Next, Queue!SenderStep, QueueInCalm!SenderStep,
      Queue!ReceiverStep, QueueInCalm!ReceiverStep

(* What the programs do in calm weather they may do in any weather.        *)
LEMMA PipeCalm ==
  ASSUME PipeInCalm!Next, size \in Sizes, inbox \in Seq(Int)
  PROVE  Pipe!Next
<1> USE DEF Pipe!SGoto, PipeInCalm!SGoto, Pipe!RGoto, PipeInCalm!RGoto, Pipe!SLeave,
            PipeInCalm!SLeave, Pipe!RLeave, PipeInCalm!RLeave, Pipe!SRefuse,
            PipeInCalm!SRefuse, Pipe!SConclude, PipeInCalm!SConclude, Pipe!RRefuse,
            PipeInCalm!RRefuse, Pipe!RConclude, PipeInCalm!RConclude, Pipe!Fails,
            PipeInCalm!Fails, Pipe!Late, PipeInCalm!Late, Pipe!STimeout,
            PipeInCalm!STimeout, Pipe!RTimeout, PipeInCalm!RTimeout, Pipe!ReceiverLive,
            PipeInCalm!ReceiverLive, Pipe!SenderLive, PipeInCalm!SenderLive, Pipe!Gone,
            PipeInCalm!Gone, Pipe!outcomes, PipeInCalm!outcomes, Pipe!channel,
            PipeInCalm!channel, Pipe!senderData, PipeInCalm!senderData, Pipe!receiverData,
            PipeInCalm!receiverData, Pipe!vars, PipeInCalm!vars, Pipe!SGoesOn,
            PipeInCalm!SGoesOn, Pipe!SendsMore,
            PipeInCalm!SendsMore, Pipe!ReceivesMore, PipeInCalm!ReceivesMore,
            Pipe!CheckedLength, PipeInCalm!CheckedLength
<1> DEFINE Ends(bytes, n) == PipeInCalm!RGoesOn(bytes, n) => Pipe!RGoesOn(bytes, n)
<1>0. Ends(out, BufferSize) /\ Ends(out \o inbox, Len(inbox))
  <2>1. ASSUME NEW bytes, NEW n \in Nat PROVE Ends(bytes, n)
    BY <2>1, CalmCopies, Zenon
    DEF Pipe!RGoesOn, PipeInCalm!RGoesOn, Pipe!ReceivesMore,
        PipeInCalm!ReceivesMore, Pipe!CheckedLength, PipeInCalm!CheckedLength
  <2>2. BufferSize \in Nat /\ Len(inbox) \in Nat
    BY BufferSizeAssumption
  <2> QED
    BY <2>1, <2>2, Zenon
<1>1. PipeInCalm!SLaunch => Pipe!SLaunch
  BY DEF Pipe!SLaunch, PipeInCalm!SLaunch
<1>2. PipeInCalm!SMake => Pipe!SMake
  BY DEF Pipe!SMake, PipeInCalm!SMake
<1>3. PipeInCalm!SOpen => Pipe!SOpen
  BY DEF Pipe!SOpen, PipeInCalm!SOpen
<1>4. PipeInCalm!SGiveUp => Pipe!SGiveUp
  BY DEF Pipe!SGiveUp, PipeInCalm!SGiveUp
<1>5. PipeInCalm!SOpened => Pipe!SOpened
  BY DEF Pipe!SOpened, PipeInCalm!SOpened
<1>6. PipeInCalm!SMeasure => Pipe!SMeasure
  BY DEF Pipe!SMeasure, PipeInCalm!SMeasure, Pipe!AnnouncedSizes, PipeInCalm!AnnouncedSizes
<1>7. PipeInCalm!SSendHeader => Pipe!SSendHeader
  BY DEF Pipe!SSendHeader, PipeInCalm!SSendHeader, Pipe!AnnouncedSizes,
     PipeInCalm!AnnouncedSizes, Pipe!Write, PipeInCalm!Write, Pipe!Reading,
     PipeInCalm!Reading, Pipe!ReceiverOpen, PipeInCalm!ReceiverOpen, Pipe!HeaderByte,
     PipeInCalm!HeaderByte, Pipe!Broken, PipeInCalm!Broken
<1>8. PipeInCalm!SFill => Pipe!SFill
  BY DEF Pipe!SFill, PipeInCalm!SFill, Pipe!SyncFileWithBuffer, PipeInCalm!SyncFileWithBuffer
<1>9. PipeInCalm!SSend => Pipe!SSend
  BY DEF Pipe!SSend, PipeInCalm!SSend, Pipe!Stretch, PipeInCalm!Stretch, Pipe!Write,
     PipeInCalm!Write, Pipe!Reading, PipeInCalm!Reading, Pipe!ReceiverOpen,
     PipeInCalm!ReceiverOpen, Pipe!Broken, PipeInCalm!Broken
<1>10. PipeInCalm!SClose => Pipe!SClose
  BY DEF Pipe!SClose, PipeInCalm!SClose, Pipe!Write, PipeInCalm!Write, Pipe!Reading,
     PipeInCalm!Reading, Pipe!ReceiverOpen, PipeInCalm!ReceiverOpen, Pipe!Broken,
     PipeInCalm!Broken
<1>11. PipeInCalm!SUnlink => Pipe!SUnlink
  BY DEF Pipe!SUnlink, PipeInCalm!SUnlink
<1>12. PipeInCalm!SCallFails => Pipe!SCallFails
  BY DEF Pipe!SCallFails, PipeInCalm!SCallFails
<1>13. PipeInCalm!SKill => Pipe!SKill
  BY DEF Pipe!SKill, PipeInCalm!SKill
<1>14. PipeInCalm!RLaunch => Pipe!RLaunch
  BY DEF Pipe!RLaunch, PipeInCalm!RLaunch
<1>15. PipeInCalm!RLook => Pipe!RLook
  BY DEF Pipe!RLook, PipeInCalm!RLook
<1>16. PipeInCalm!ROpen => Pipe!ROpen
  BY DEF Pipe!ROpen, PipeInCalm!ROpen
<1>17. PipeInCalm!ROpenFile => Pipe!ROpenFile
  BY DEF Pipe!ROpenFile, PipeInCalm!ROpenFile
<1>18. PipeInCalm!RReceiveHeader => Pipe!RReceiveHeader
  BY <1>0 DEF Pipe!RReceiveHeader, PipeInCalm!RReceiveHeader, Pipe!Read, PipeInCalm!Read,
     Pipe!EndOfFile, PipeInCalm!EndOfFile, Pipe!Writing, PipeInCalm!Writing,
     Pipe!SenderOpen, PipeInCalm!SenderOpen, Pipe!HasKey, PipeInCalm!HasKey,
     Pipe!AnnouncedBy, PipeInCalm!AnnouncedBy
<1>19. PipeInCalm!RReceive => Pipe!RReceive
  BY DEF Pipe!RReceive, PipeInCalm!RReceive, Pipe!Read, PipeInCalm!Read, Pipe!EndOfFile,
     PipeInCalm!EndOfFile, Pipe!Writing, PipeInCalm!Writing, Pipe!SenderOpen,
     PipeInCalm!SenderOpen
<1>20. PipeInCalm!RStore => Pipe!RStore
  BY <1>0 DEF Pipe!RStore, PipeInCalm!RStore
<1>21. PipeInCalm!RClose => Pipe!RClose
  BY DEF Pipe!RClose, PipeInCalm!RClose
<1>22. PipeInCalm!RUnlink => Pipe!RUnlink
  BY DEF Pipe!RUnlink, PipeInCalm!RUnlink
<1>23. PipeInCalm!RRemove => Pipe!RRemove
  BY DEF Pipe!RRemove, PipeInCalm!RRemove
<1>24. PipeInCalm!RCallFails => Pipe!RCallFails
  BY DEF Pipe!RCallFails, PipeInCalm!RCallFails
<1>25. PipeInCalm!RKill => Pipe!RKill
  BY DEF Pipe!RKill, PipeInCalm!RKill
<1>26. PipeInCalm!Meet => Pipe!Meet
  BY DEF Pipe!Meet, PipeInCalm!Meet
<1>27. PipeInCalm!Stopped => Pipe!Stopped
  BY DEF Pipe!Stopped, PipeInCalm!Stopped
<1>28. PipeInCalm!STimer => Pipe!STimer
  BY DEF Pipe!STimer, PipeInCalm!STimer
<1>29. PipeInCalm!SCrash => Pipe!SCrash
  BY DEF Pipe!SCrash, PipeInCalm!SCrash
<1> QED
  BY <1>1, <1>2, <1>3, <1>4, <1>5, <1>6, <1>7, <1>8, <1>9, <1>10, <1>11, <1>12, <1>13,
     <1>14, <1>15, <1>16, <1>17, <1>18, <1>19, <1>20, <1>21, <1>22, <1>23, <1>24, <1>25,
     <1>26, <1>27, <1>28, <1>29
  DEF Pipe!Next, PipeInCalm!Next, Pipe!SenderStep, PipeInCalm!SenderStep, Pipe!ReceiverStep,
      PipeInCalm!ReceiverStep

-----------------------------------------------------------------------------
(* The programs *)

(* When the programs start, so does the session of their method.           *)
LEMMA Starts ==
  ASSUME Init
  PROVE  /\ method \in {"shm", "queue", "pipe"} /\ calm \in BOOLEAN
         /\ method = "shm" => ShmFresh
         /\ method = "queue" => QueueFresh
         /\ method = "pipe" => PipeFresh
<1>1. method \in {"shm", "queue", "pipe"} /\ calm \in BOOLEAN
  BY Zenon DEF Init
<1>2. CASE method = "shm"
  <2>1. ShmInCalm!Init \/ Shm!Init
    BY <1>2, Zenon DEF Init
  <2>2. Shm!Init => ShmFresh
    BY Zenon DEF Shm!Init, ShmFresh, ShmFound, Shm!Unset, Unset
  <2>3. ShmInCalm!Init => ShmFresh
    BY Zenon DEF ShmInCalm!Init, ShmFresh, ShmFound, ShmInCalm!Unset, Unset
  <2> QED
    BY <1>1, <1>2, <2>1, <2>2, <2>3
<1>3. CASE method = "queue"
  <2>1. QueueInCalm!Init \/ Queue!Init
    BY <1>3, Zenon DEF Init
  <2>2. QueueLeftovers \cup CalmQueues \subseteq (0..QueueCapacity) \cup {-1}
    BY RcProgramsAssumption DEF Unset
  <2>3. Queue!Init => QueueFresh
    BY <2>2 DEF Queue!Init, QueueFresh, Queue!Unset
  <2>4. QueueInCalm!Init => QueueFresh
    BY <2>2 DEF QueueInCalm!Init, QueueFresh, QueueInCalm!Unset, Queue!Unset
  <2> QED
    BY <1>1, <1>3, <2>1, <2>3, <2>4
<1>4. CASE method = "pipe"
  <2>1. PipeInCalm!Init \/ Pipe!Init
    BY <1>4, Zenon DEF Init
  <2>2. PipeLeftovers \cup CalmPipes \subseteq {"none", "fifo"}
    BY RcProgramsAssumption
  <2>3. Pipe!Init => PipeFresh
    BY <2>2 DEF Pipe!Init, PipeFresh, Pipe!Unset
  <2>4. PipeInCalm!Init => PipeFresh
    BY <2>2 DEF PipeInCalm!Init, PipeFresh, PipeInCalm!Unset, Pipe!Unset
  <2> QED
    BY <1>1, <1>4, <2>1, <2>3, <2>4
<1> QED
  BY <1>1, <1>2, <1>3, <1>4

(* A step of the programs is one of the session of their method: in calm   *)
(* weather nothing happens that could not happen at any time.              *)
LEMMA StepsAre ==
  ASSUME [Next]_vars, size \in Sizes, method = "shm" => held \in Seq(Int),
         method \in {"queue", "pipe"} => inbox \in Seq(Int)
  PROVE  /\ method' = method /\ calm' = calm
         /\ method = "shm" => [Shm!Next]_(Shm!vars)
         /\ method = "queue" => [Queue!Next]_(Queue!vars)
         /\ method = "pipe" => [Pipe!Next]_(Pipe!vars)
<1>1. CASE ByShm /\ (IF calm THEN ShmInCalm!Next ELSE Shm!Next)
  <2>1. Shm!Next
    BY <1>1, ShmCalm, Zenon DEF ByShm
  <2> QED
    BY <1>1, <2>1 DEF ByShm
<1>2. CASE ByQueue /\ (IF calm THEN QueueInCalm!Next ELSE Queue!Next)
  <2>1. Queue!Next
    BY <1>2, QueueCalm, Zenon DEF ByQueue
  <2> QED
    BY <1>2, <2>1 DEF ByQueue
<1>3. CASE ByPipe /\ (IF calm THEN PipeInCalm!Next ELSE Pipe!Next)
  <2>1. Pipe!Next
    BY <1>3, PipeCalm, Zenon DEF ByPipe
  <2> QED
    BY <1>3, <2>1 DEF ByPipe
<1>4. CASE UNCHANGED vars
  <2>1. method' = method /\ calm' = calm
    BY <1>4 DEF vars
  <2>2. UNCHANGED Shm!vars
    BY <1>4 DEF vars, shmOnly, Shm!vars, Shm!outcomes, Shm!sems, Shm!shm, Shm!channel,
                Shm!senderData, Shm!receiverData
  <2>3. UNCHANGED Queue!vars
    BY <1>4 DEF vars, queueOnly, queueOrPipe, Queue!vars, Queue!outcomes, Queue!queues,
                Queue!opened, Queue!senderData, Queue!receiverData
  <2>4. UNCHANGED Pipe!vars
    BY <1>4 DEF vars, pipeOnly, queueOrPipe, Pipe!vars, Pipe!outcomes, Pipe!channel,
                Pipe!senderData, Pipe!receiverData
  <2> QED
    BY <2>1, <2>2, <2>3, <2>4, Zenon
<1> QED
  BY <1>1, <1>2, <1>3, <1>4, Zenon DEF Next

(* What of each session is inductive, whatever the channel of the shared   *)
(* memory holds.                                                           *)
RcTypes ==
  /\ method \in {"shm", "queue", "pipe"} /\ calm \in BOOLEAN
  /\ method = "shm" => Shm!TypeOK /\ ShmWithin
  /\ method = "queue" => Queue!IInv
  /\ method = "pipe" => Pipe!IInv

(* And when it holds no turn.                                              *)
RcInvariant ==
  /\ method \in {"shm", "queue", "pipe"} /\ calm \in BOOLEAN
  /\ SessionInvariant

(* Every step keeps the types and the method.                              *)
LEMMA RcTypesStep == RcTypes /\ [Next]_vars => RcTypes'
<1> SUFFICES ASSUME RcTypes, [Next]_vars PROVE RcTypes'
  OBVIOUS
<1>1. /\ size \in Sizes /\ (method = "shm" => held \in Seq(Int))
      /\ method \in {"queue", "pipe"} => inbox \in Seq(Int)
  BY DEF RcTypes, Shm!TypeOK, Queue!IInv, Queue!TypeOK, Pipe!IInv, Pipe!TypeOK
<1>2. /\ method' = method /\ calm' = calm
      /\ method = "shm" => [Shm!Next]_(Shm!vars)
      /\ method = "queue" => [Queue!Next]_(Queue!vars)
      /\ method = "pipe" => [Pipe!Next]_(Pipe!vars)
  BY <1>1, StepsAre
<1>3. method = "shm" => Shm!TypeOK' /\ ShmWithin'
  BY <1>2, ShmTypeStep, Zenon DEF RcTypes
<1>4. method = "queue" => Queue!IInv'
  BY <1>2, QueueInvStep, Zenon DEF RcTypes
<1>5. method = "pipe" => Pipe!IInv'
  BY <1>2, PipeInvStep, Zenon DEF RcTypes
<1> QED
  BY <1>2, <1>3, <1>4, <1>5, Zenon DEF RcTypes

(* Every step keeps the invariant of the session that was started, and the *)
(* method.                                                                 *)
LEMMA RcInvariantStep == RcInvariant /\ [Next]_vars => RcInvariant'
<1> SUFFICES ASSUME RcInvariant, [Next]_vars PROVE RcInvariant'
  OBVIOUS
<1>1. /\ size \in Sizes /\ (method = "shm" => held \in Seq(Int))
      /\ method \in {"queue", "pipe"} => inbox \in Seq(Int)
  BY DEF RcInvariant, SessionInvariant, Shm!IInv, Shm!TypeOK, Queue!IInv, Queue!TypeOK,
         Pipe!IInv, Pipe!TypeOK
<1>2. /\ method' = method /\ calm' = calm
      /\ method = "shm" => [Shm!Next]_(Shm!vars)
      /\ method = "queue" => [Queue!Next]_(Queue!vars)
      /\ method = "pipe" => [Pipe!Next]_(Pipe!vars)
  BY <1>1, StepsAre
<1>3. method = "shm" => Shm!IInv'
  BY <1>2, ShmInvStep, Zenon DEF RcInvariant, SessionInvariant
<1>4. method = "queue" => Queue!IInv'
  BY <1>2, QueueInvStep, Zenon DEF RcInvariant, SessionInvariant
<1>5. method = "pipe" => Pipe!IInv'
  BY <1>2, PipeInvStep, Zenon DEF RcInvariant, SessionInvariant
<1> QED
  BY <1>2, <1>3, <1>4, <1>5, Zenon DEF RcInvariant, SessionInvariant

-----------------------------------------------------------------------------
(* The theorems *)

(* The queues, the pipe, the counters, the buffers and the results always  *)
(* have their type, whatever turns or contents were left on the channel of *)
(* the shared memory.                                                      *)
THEOREM TypeCorrect == ChannelsKnown => (Spec => []TypeOK)
<1> SUFFICES ASSUME ChannelsKnown PROVE Spec => []TypeOK
  OBVIOUS
<1>1. Init => RcTypes
  <2> SUFFICES ASSUME Init PROVE RcTypes
    OBVIOUS
  <2>1. method = "shm" => Shm!TypeOK /\ ShmWithin
    BY Starts, ShmTypeInit, Zenon
  <2>2. method = "queue" => Queue!IInv
    BY Starts, QueueInvInit, Zenon
  <2>3. method = "pipe" => Pipe!IInv
    BY Starts, PipeInvInit, Zenon
  <2> QED
    BY <2>1, <2>2, <2>3, Starts, Zenon DEF RcTypes
<1>2. RcTypes => TypeOK
  BY QueueImplied, PipeImplied, Zenon DEF RcTypes, TypeOK
<1> QED
  BY <1>1, <1>2, RcTypesStep, PTL DEF Spec

(* The invariant of the session that is started holds at the start.        *)
LEMMA RcInvariantInit == NoTurnLeft /\ Init => RcInvariant
<1> SUFFICES ASSUME NoTurnLeft, Init PROVE RcInvariant
  OBVIOUS
<1>1. method = "shm" => Shm!IInv
  BY Starts, ShmInvInit, Zenon
<1>2. method = "queue" => Queue!IInv
  BY Starts, QueueInvInit, Zenon
<1>3. method = "pipe" => Pipe!IInv
  BY Starts, PipeInvInit, Zenon
<1> QED
  BY <1>1, <1>2, <1>3, Starts, Zenon DEF RcInvariant, SessionInvariant

(* The invariant holds in every reachable state, whatever the method.      *)
LEMMA RcInvariantHolds == NoTurnLeft => (Spec => []RcInvariant)
<1> SUFFICES ASSUME NoTurnLeft PROVE Spec => []RcInvariant
  OBVIOUS
<1>1. Init => RcInvariant
  BY RcInvariantInit
<1> QED
  BY <1>1, RcInvariantStep, PTL DEF Spec

(* The invariants of the three sessions hold however the two programs      *)
(* interleave, are killed or fail, although posts of the receiver and the  *)
(* last bytes of a sender may be lost.                                     *)
THEOREM InvariantHolds == NoTurnLeft => (Spec => []SessionInvariant)
<1>1. RcInvariant => SessionInvariant
  BY DEF RcInvariant
<1> QED
  BY <1>1, RcInvariantHolds, PTL

(* Through shared memory at most one program uses the buffer at any time.  *)
THEOREM TurnsAreTaken == NoTurnLeft => (Spec => []TurnTaking)
<1>1. RcInvariant => TurnTaking
  BY ShmImplied, Zenon DEF RcInvariant, SessionInvariant, TurnTaking
<1> QED
  BY <1>1, RcInvariantHolds, PTL

(* The sender never opens a regular file it made under the name of the     *)
(* FIFO, because no one unlinks that name before it has opened it.         *)
THEOREM FifoIsOpened == Spec => []FifoOpened
<1> DEFINE Inv == method = "pipe" => Pipe!IInv
<1>1. Init => Inv
  BY Starts, PipeInvInit, Zenon
<1>2. ASSUME Inv, [Next]_vars PROVE Inv'
  <2>1. CASE method = "pipe"
    <3>1. size \in Sizes /\ inbox \in Seq(Int)
      BY <1>2, <2>1 DEF Pipe!IInv, Pipe!TypeOK
    <3>2. [Pipe!Next]_(Pipe!vars)
      BY <1>2, <2>1, <3>1, StepsAre
    <3> QED
      BY <1>2, <2>1, <3>2, PipeInvStep
  <2>2. CASE method # "pipe"
    <3>1. method' = method
      BY <1>2, Zenon DEF Next, ByShm, ByQueue, ByPipe, vars
    <3> QED
      BY <2>2, <3>1
  <2> QED
    BY <2>1, <2>2
<1>3. Inv => FifoOpened
  BY PipeImplied DEF FifoOpened
<1> HIDE DEF Inv
<1> QED
  BY <1>1, <1>2, <1>3, PTL DEF Spec

(* By every method a copy that is reported as a success is exact.          *)
THEOREM CopyIsExact == NoTurnLeft => (Spec => []ExactCopy)
<1>1. RcInvariant => ExactCopy
  BY ShmImplied, QueueImplied, PipeImplied, Zenon
  DEF RcInvariant, SessionInvariant, ExactCopy
<1> QED
  BY <1>1, RcInvariantHolds, PTL

(* By every method the names go away with the programs.                    *)
THEOREM NamesAreUnlinked == NoTurnLeft => (Spec => []NamesUnlinked)
<1>1. RcInvariant => NamesUnlinked
  BY ShmImplied, QueueImplied, PipeImplied, Zenon
  DEF RcInvariant, SessionInvariant, NamesUnlinked
<1> QED
  BY <1>1, RcInvariantHolds, PTL

(* The two programs keep the promise of FileCopy: with nothing in flight   *)
(* through shared memory, with the queue and one message through a queue,  *)
(* with the pipe and two buffers through a FIFO.                           *)
THEOREM PromiseIsKept == NoTurnLeft => (Spec => KeepsPromise)
<1> SUFFICES ASSUME NoTurnLeft PROVE Spec => KeepsPromise
  OBVIOUS
<1>1. Init => /\ method = "shm" => Shm!Promise!Init
              /\ method = "queue" => Queue!Promise!Init
              /\ method = "pipe" => Pipe!Promise!Init
  BY Starts, ShmPromiseInit, QueuePromiseInit, PipePromiseInit, Zenon
<1>2. Spec => []RcInvariant
  BY RcInvariantHolds
<1>3. ASSUME RcInvariant, [Next]_vars
      PROVE  /\ method = "shm" => [Shm!Next]_(Shm!vars)
             /\ method = "queue" => [Queue!Next]_(Queue!vars)
             /\ method = "pipe" => [Pipe!Next]_(Pipe!vars)
             /\ SessionInvariant
  <2>1. /\ size \in Sizes
        /\ method = "shm" => held \in Seq(Int)
        /\ method \in {"queue", "pipe"} => inbox \in Seq(Int)
    BY <1>3 DEF RcInvariant, SessionInvariant, Shm!IInv, Shm!TypeOK, Queue!IInv,
                Queue!TypeOK, Pipe!IInv, Pipe!TypeOK
  <2> QED
    BY <1>3, <2>1, StepsAre DEF RcInvariant
<1>4. RcInvariant /\ [Next]_vars =>
        [method = "shm" => [Shm!Promise!Next]_(Shm!Promise!vars)]_vars
  BY <1>3, ShmPromiseStep, Zenon DEF SessionInvariant
<1>5. RcInvariant /\ [Next]_vars =>
        [method = "queue" => [Queue!Promise!Next]_(Queue!Promise!vars)]_vars
  BY <1>3, QueuePromiseStep, Zenon DEF SessionInvariant
<1>6. RcInvariant /\ [Next]_vars =>
        [method = "pipe" => [Pipe!Promise!Next]_(Pipe!Promise!vars)]_vars
  BY <1>3, PipePromiseStep, Zenon DEF SessionInvariant
<1> QED
  BY <1>1, <1>2, <1>4, <1>5, <1>6, PTL DEF Spec, KeepsPromise
=============================================================================

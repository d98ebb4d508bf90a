---------------------- MODULE CopyFileThroughIPC_proofs ----------------------
(***************************************************************************)
(* Facts about the source and its stretches, for the proofs about the      *)
(* sessions: what readFile returns, and how a copy grows.                  *)
(***************************************************************************)
EXTENDS CopyFileThroughIPC, SequenceTheorems, TLAPS

(* A read returns at most a buffer, and never goes past the end; one that  *)
(* returns less than a buffer has reached it.                              *)
LEMMA ReadFileBounds ==
  ASSUME NEW from \in Nat, NEW length \in Nat
  PROVE  /\ ReadFile(from, length) \in 0..BufferSize
         /\ from <= length => from + ReadFile(from, length) <= length
         /\ from <= length /\ ReadFile(from, length) < BufferSize
              => from + ReadFile(from, length) = length
  BY BufferSizeAssumption, SMT DEF ReadFile

(* A stretch of n bytes after m is a sequence of n numbers, the i-th of    *)
(* them m + i.                                                             *)
LEMMA StretchSeq ==
  ASSUME NEW m \in Nat, NEW n \in Nat
  PROVE  /\ Stretch(m, n) \in Seq(Int)
         /\ Len(Stretch(m, n)) = n
         /\ \A i \in 1..n : Stretch(m, n)[i] = m + i
  BY DEF Stretch

(* The first m bytes, followed by the n bytes after them, are the first    *)
(* m + n bytes.                                                            *)
LEMMA StretchGrows ==
  ASSUME NEW m \in Nat, NEW n \in Nat
  PROVE  /\ Stretch(0, m) \o Stretch(m, n) = Stretch(0, m + n)
         /\ Len(Stretch(0, m) \o Stretch(m, n)) = m + n
<1> DEFINE s == Stretch(0, m)
           t == Stretch(m, n)
           u == Stretch(0, m + n)
<1>1. s \in Seq(Int) /\ Len(s) = m /\ \A i \in 1..m : s[i] = i
  BY DEF Stretch
<1>2. t \in Seq(Int) /\ Len(t) = n /\ \A i \in 1..n : t[i] = m + i
  BY StretchSeq
<1>3. u \in Seq(Int) /\ Len(u) = m + n /\ \A i \in 1..(m + n) : u[i] = i
  BY DEF Stretch
<1> HIDE DEF s, t, u
<1>4. /\ s \o t \in Seq(Int)
      /\ Len(s \o t) = m + n
      /\ \A i \in 1..(m + n) : (s \o t)[i] = i
  <2>1. /\ s \o t \in Seq(Int)
        /\ Len(s \o t) = Len(s) + Len(t)
        /\ \A i \in 1..(Len(s) + Len(t)) :
             (s \o t)[i] = IF i <= Len(s) THEN s[i] ELSE t[i - Len(s)]
    BY <1>1, <1>2, ConcatProperties
  <2>2. ASSUME NEW i \in 1..(m + n), i > m
        PROVE  t[i - m] = i
    <3>1. i - m \in 1..n
      BY <2>2
    <3> QED
      BY <1>2, <3>1, <2>2
  <2> QED
    BY <1>1, <1>2, <2>1, <2>2
<1>5. s \o t = u
  BY <1>3, <1>4, SeqEqual
<1> QED
  BY <1>4, <1>5 DEF s, t, u

(* The most that closing loses is a part of what the stream holds.         *)
LEMMA MostLostBounds ==
  ASSUME NEW n \in Nat
  PROVE  MostLost(n) \in 0..n
  BY DEF MostLost

(* A sequence without its last bytes is a sequence.                        *)
LEMMA CutType ==
  ASSUME NEW s \in Seq(Int), NEW n \in Nat
  PROVE  WithoutLast(s, n) \in Seq(Int)
<1>1. Len(s) - n \in Int /\ \A i \in 1..(Len(s) - n) : s[i] \in Int
  OBVIOUS
<1> QED
  BY <1>1, SubSeqProperties DEF WithoutLast

(* Whatever is lost of the copy, what remains of it is a sequence.         *)
LEMMA CopyType ==
  ASSUME NEW s \in Seq(Int), NEW n \in Nat,
         NEW c \in ClosedCopies(s, n) \cup CopiesOfKilled(s, n)
  PROVE  c \in Seq(Int)
<1>1. CASE c \in ClosedCopies(s, n)
  <2>1. PICK k \in 0..MostLost(n) : c = WithoutLast(s, k)
    BY <1>1, Zenon DEF ClosedCopies
  <2>2. k \in Nat
    BY <2>1, SMT
  <2> QED
    BY <2>1, <2>2, CutType, Zenon
<1>2. CASE c \in CopiesOfKilled(s, n)
  BY <1>2, CutType, Zenon DEF CopiesOfKilled
<1> QED
  BY <1>1, <1>2, Zenon

(* Without its last bytes a prefix of the source is a shorter prefix.      *)
LEMMA CutPrefix ==
  ASSUME NEW s \in Seq(Int), NEW n \in 0..Len(s), s = Stretch(0, Len(s))
  PROVE  /\ Len(WithoutLast(s, n)) = Len(s) - n
         /\ WithoutLast(s, n) = Stretch(0, Len(s) - n)
<1> DEFINE c == WithoutLast(s, n)
           m == Len(s) - n
<1>1. m \in Nat /\ \A i \in 1..m : s[i] \in Int /\ s[i] = i
  BY DEF Stretch
<1>2. /\ c \in Seq(Int)
      /\ Len(c) = IF 1 <= m THEN m - 1 + 1 ELSE 0
      /\ \A i \in 1..(m - 1 + 1) : c[i] = s[1 + i - 1]
  BY <1>1, 1 \in Int, m \in Int, SubSeqProperties DEF WithoutLast
<1>3. Len(c) = m /\ \A i \in 1..m : c[i] = i
  BY <1>1, <1>2
<1>4. /\ Stretch(0, m) \in Seq(Int) /\ Len(Stretch(0, m)) = m
      /\ \A i \in 1..m : Stretch(0, m)[i] = i
  BY <1>1 DEF Stretch
<1> HIDE DEF c
<1>5. c = Stretch(0, m)
  BY <1>2, <1>3, <1>4, SeqEqual
<1> QED
  BY <1>3, <1>5 DEF c

(* Closing a copy takes a few of the last bytes, if the disk fails.        *)
LEMMA ClosedCopy ==
  ASSUME NEW s \in Seq(Int), NEW n \in 0..Len(s), s = Stretch(0, Len(s)),
         NEW c \in ClosedCopies(s, n)
  PROVE  \E k \in 0..MostLost(n) :
           /\ c = SubSeq(s, 1, Len(s) - k)
           /\ Len(c) = Len(s) - k /\ c = Stretch(0, Len(s) - k)
<1>1. PICK k \in 0..MostLost(n) : c = WithoutLast(s, k)
  BY Zenon DEF ClosedCopies
<1>2. k \in 0..Len(s)
  BY MostLostBounds
<1> QED
  BY <1>1, <1>2, CutPrefix DEF WithoutLast

(* A kill takes what the stream holds, or nothing.                         *)
LEMMA CopyOfKilled ==
  ASSUME NEW s \in Seq(Int), NEW n \in 0..Len(s), s = Stretch(0, Len(s)),
         NEW c \in CopiesOfKilled(s, n)
  PROVE  \E k \in {0, n} :
           /\ c = SubSeq(s, 1, Len(s) - k)
           /\ Len(c) = Len(s) - k /\ c = Stretch(0, Len(s) - k)
<1>1. /\ Len(WithoutLast(s, 0)) = Len(s) - 0
      /\ WithoutLast(s, 0) = Stretch(0, Len(s) - 0)
  BY CutPrefix
<1>2. WithoutLast(s, 0) = s
  BY <1>1
<1>3. PICK k \in {0, n} : c = WithoutLast(s, k)
  BY <1>2, Zenon DEF CopiesOfKilled
<1>4. /\ Len(WithoutLast(s, k)) = Len(s) - k
      /\ WithoutLast(s, k) = Stretch(0, Len(s) - k)
  <2>1. k \in 0..Len(s)
    OBVIOUS
  <2> QED
    BY <2>1, CutPrefix, Zenon
<1> QED
  BY <1>3, <1>4, Zenon DEF WithoutLast
=============================================================================

--------------------------- MODULE RustQueue_proofs ---------------------------
(***************************************************************************)
(* Proofs about RustQueue for any handlers, priorities, capacity and any   *)
(* number of queues and messages: who has the queue that has the name, and *)
(* what becomes of the messages.                                           *)
(***************************************************************************)
EXTENDS RustQueue, SequenceTheorems, TLAPS

USE DEF Error, Call, Return, Has, Idle, In, history

(* Before any drop the handlers only have the queue that has the name; the *)
(* two parts of the invariant do not depend on the messages.               *)
Holders ==
  /\ created \in Nat /\ name \in Nat /\ dropped \in BOOLEAN
  /\ queue_ \in [Handlers -> Nat]
  /\ ~dropped => \A h \in Handlers : queue_[h] \in {0, name}

HolderInv == Holders /\ NamedQueueIsHeld

(* The invariant about holders holds at the start.                         *)
LEMMA HolderInit == Init => HolderInv
<1> SUFFICES ASSUME Init PROVE HolderInv
  OBVIOUS
<1>1. dropped \in BOOLEAN
  BY Zenon DEF Init
<1>2. queue_ \in [Handlers -> Nat] /\ \A h \in Handlers : queue_[h] \in {0, name}
  BY DEF Init
<1>3. created \in Nat /\ name \in Nat /\ NamedQueueIsHeld
  BY DEF Init, NamedQueueIsHeld
<1> QED
  BY <1>1, <1>2, <1>3 DEF HolderInv, Holders

(* A handler that creates or opens a queue has the one with the name.      *)
LEMMA GetsNamed ==
  ASSUME HolderInv, NEW h \in Handlers, UNCHANGED dropped, created' \in Nat,
         name' \in Nat \ {0}, queue_' = [queue_ EXCEPT ![h] = name'],
         name = 0 \/ name' = name
  PROVE  HolderInv'
<1>1. queue_' \in [Handlers -> Nat] /\ queue_'[h] = name'
  BY DEF HolderInv, Holders
<1>2. \A g \in Handlers \ {h} : queue_'[g] = queue_[g]
  BY DEF HolderInv, Holders
<1>3. NamedQueueIsHeld'
  BY <1>1 DEF NamedQueueIsHeld
<1>4. ~dropped => \A g \in Handlers : queue_'[g] \in {0, name'}
  BY <1>1, <1>2 DEF HolderInv, Holders
<1> QED
  BY <1>1, <1>3, <1>4 DEF HolderInv, Holders

(* Messages that are sent or taken change no holder.                       *)
LEMMA HoldersStay ==
  ASSUME HolderInv, UNCHANGED <<name, created, queue_, dropped>>
  PROVE  HolderInv'
  BY DEF HolderInv, Holders, NamedQueueIsHeld

(* Every step keeps the invariant about holders.                           *)
LEMMA HolderStep == HolderInv /\ [Next]_vars => HolderInv'
<1> SUFFICES ASSUME HolderInv, [Next]_vars PROVE HolderInv'
  OBVIOUS
<1>1. CASE UNCHANGED vars
  BY <1>1, HoldersStay DEF vars
<1>2. ASSUME NEW h \in Handlers, create(h) PROVE HolderInv'
  <2>1. CASE name # 0 /\ UNCHANGED <<name, created>>
    BY <1>2, <2>1, GetsNamed DEF create, HolderInv, Holders
  <2>2. CASE name = 0 /\ created' = created + 1 /\ name' = created'
    <3>1. created' \in Nat /\ name' \in Nat \ {0}
      BY <2>2 DEF HolderInv, Holders
    <3> QED
      BY <1>2, <2>2, <3>1, GetsNamed DEF create
  <2> QED
    BY <1>2, <2>1, <2>2 DEF create
<1>3. ASSUME NEW h \in Handlers, open(h) PROVE HolderInv'
  BY <1>3, HoldersStay DEF open
<1>4. ASSUME NEW h \in Handlers, openReturns(h) PROVE HolderInv'
  <2>1. CASE name # 0 /\ queue_' = [queue_ EXCEPT ![h] = name]
    BY <1>4, <2>1, GetsNamed DEF openReturns, HolderInv, Holders
  <2>2. CASE UNCHANGED queue_
    BY <1>4, <2>2, HoldersStay DEF openReturns
  <2> QED
    BY <1>4, <2>1, <2>2 DEF openReturns
<1>5. ASSUME NEW h \in Handlers, drop(h) PROVE HolderInv'
  <2>1. name' = 0 /\ dropped' = TRUE /\ created' = created
        /\ queue_' = [queue_ EXCEPT ![h] = 0]
    BY <1>5 DEF drop
  <2> QED
    BY <2>1 DEF HolderInv, Holders, NamedQueueIsHeld
<1>6. ASSUME NEW h \in Handlers, NEW p \in Priorities, send_data(h, p) PROVE HolderInv'
  BY <1>6, HoldersStay DEF send_data
<1>7. ASSUME NEW h \in Handlers, NEW p \in Priorities, receive_data(h, p)
      PROVE  HolderInv'
  BY <1>7, HoldersStay DEF receive_data
<1>8. ASSUME NEW h \in Handlers, send_dataReturns(h) PROVE HolderInv'
  <2>1. UNCHANGED <<name, created, queue_, dropped>>
    BY <1>8, Zenon DEF send_dataReturns
  <2> QED
    BY <2>1, HoldersStay
<1>9. ASSUME NEW h \in Handlers, receive_dataReturns(h) PROVE HolderInv'
  <2>1. UNCHANGED <<name, created, queue_, dropped>>
    BY <1>9, Zenon DEF receive_dataReturns
  <2> QED
    BY <2>1, HoldersStay
<1> QED
  BY <1>1, <1>2, <1>3, <1>4, <1>5, <1>6, <1>7, <1>8, <1>9 DEF Next

(* The invariant about holders holds in every reachable state.             *)
LEMMA AlwaysHolderInv == Spec => []HolderInv
  BY HolderInit, HolderStep, PTL DEF Spec

(* However many handlers create, open and drop queues of the name, in any  *)
(* order: the queue that has it is one that a handler has, since every     *)
(* drop unlinks the name.                                                  *)
THEOREM NameHasHolder == Spec => []NamedQueueIsHeld
<1>1. HolderInv => NamedQueueIsHeld
  BY DEF HolderInv
<1> QED
  BY <1>1, AlwaysHolderInv, PTL

(* As long as none of them is dropped they all have the same queue.        *)
THEOREM HandlersAreTogether == Spec => []Together
<1>1. HolderInv => Together
  BY DEF HolderInv, Holders, Together
<1> QED
  BY <1>1, AlwaysHolderInv, PTL
-----------------------------------------------------------------------------
(* The messages *)

SomeMessage == [number : Nat, priority : Nat]
SomeCall == [what : {"none", "open", "send", "receive"}, priority : Nat]

(* What was sent to a queue, what was taken from it and what is in it:     *)
(* messages are numbered as they are sent; the queue has those of a higher *)
(* priority first, and among equals the earlier ones, which are later than *)
(* the ones that were taken.                                               *)
Earlier(a, b) == a.priority = b.priority => a.number < b.number
Numbered(s) == \A i \in DOMAIN s : s[i].number = i
Sorted(m) ==
  \A i, j \in DOMAIN m : i < j => m[i].priority >= m[j].priority /\ Earlier(m[i], m[j])
InOrder(t, m) ==
  /\ \A i, j \in DOMAIN t : i < j => Earlier(t[i], t[j])
  /\ \A i \in DOMAIN t, j \in DOMAIN m : Earlier(t[i], m[j])
Accounted(s, t, m) ==
  MessagesIn(s) = MessagesIn(t) \cup MessagesIn(m) /\ Len(s) = Len(t) + Len(m)
Ordered(s, t, m) == Numbered(s) /\ Sorted(m) /\ InOrder(t, m) /\ Accounted(s, t, m)

MessageInv ==
  /\ queues \in [Queues -> Seq(SomeMessage)]
  /\ sent \in [Queues -> Seq(SomeMessage)] /\ taken \in [Queues -> Seq(SomeMessage)]
  /\ call \in [Handlers -> SomeCall]
  /\ \A q \in Queues : Ordered(sent[q], taken[q], queues[q])

(* The numbers in the queue and among the taken messages are those of      *)
(* messages that were sent.                                                *)
LEMMA NumbersOfSent ==
  ASSUME NEW s \in Seq(SomeMessage), NEW t \in Seq(SomeMessage),
         NEW m \in Seq(SomeMessage), Ordered(s, t, m)
  PROVE  /\ \A i \in 1..Len(t) : t[i].number \in 1..Len(s)
         /\ \A i \in 1..Len(m) : m[i].number \in 1..Len(s)
<1>1. DOMAIN s = 1..Len(s) /\ DOMAIN t = 1..Len(t) /\ DOMAIN m = 1..Len(m)
  BY LenProperties
<1>2. ASSUME NEW x \in MessagesIn(t) \cup MessagesIn(m) PROVE x.number \in 1..Len(s)
  <2>1. x \in MessagesIn(s)
    BY <1>2 DEF Ordered, Accounted
  <2>2. PICK i \in 1..Len(s) : x = s[i]
    BY <1>1, <2>1 DEF MessagesIn
  <2> QED
    BY <1>1, <2>2 DEF Ordered, Numbered
<1> QED
  BY <1>1, <1>2 DEF MessagesIn

(* What the sequence looks like into which a message was put.              *)
PutAt(r, m, n, x, k) ==
  /\ \A i \in 1..k : r[i] = m[i] /\ m[i].priority >= x.priority
  /\ r[k + 1] = x
  /\ \A i \in (k + 1)..n : r[i + 1] = m[i] /\ m[i].priority < x.priority
(* Inserting a message puts it at one place and moves those behind it.     *)
LEMMA Inserted ==
  ASSUME NEW m \in Seq(SomeMessage), NEW x \in SomeMessage, NEW r \in Insert(m, x),
         NEW n \in Nat, n = Len(m)
  PROVE  /\ r \in Seq(SomeMessage) /\ Len(r) = n + 1
         /\ \E k \in 0..n : PutAt(r, m, n, x, k)
<1>1. n \in Nat /\ n = Len(m)
  OBVIOUS
<1>2. PICK k \in 0..n :
        /\ r = SubSeq(m, 1, k) \o <<x>> \o SubSeq(m, k + 1, n)
        /\ \A i \in DOMAIN m : i <= k <=> m[i].priority >= x.priority
  BY <1>1 DEF Insert
<1> DEFINE a == SubSeq(m, 1, k)
           c == SubSeq(m, k + 1, n)
<1>3. DOMAIN m = 1..n /\ \A i \in 1..n : m[i] \in SomeMessage
  BY <1>1, LenProperties, ElementOfSeq
<1>4. a \in Seq(SomeMessage) /\ Len(a) = k /\ \A i \in 1..k : a[i] = m[i]
  BY <1>1
<1>5. /\ c \in Seq(SomeMessage) /\ Len(c) = n - k
      /\ \A i \in 1..(n - k) : c[i] = m[k + i]
  <2>1. /\ c \in Seq(SomeMessage)
        /\ Len(c) = IF k + 1 <= n THEN n - (k + 1) + 1 ELSE 0
        /\ \A i \in 1..(n - (k + 1) + 1) : c[i] = m[(k + 1) + i - 1]
    <3>1. k + 1 \in Int /\ n \in Int /\ \A i \in (k + 1)..n : m[i] \in SomeMessage
      BY <1>3
    <3> QED
      BY <3>1, SubSeqProperties
  <2> HIDE DEF c
  <2>2. n - (k + 1) + 1 = n - k
    OBVIOUS
  <2>3. k + 1 <= n \/ n - k = 0
    OBVIOUS
  <2>4. Len(c) = n - k
    BY <2>1, <2>2, <2>3
  <2>5. ASSUME NEW i \in 1..(n - k) PROVE c[i] = m[k + i]
    <3>1. c[i] = m[(k + 1) + i - 1]
      BY <2>1, <2>2
    <3>2. (k + 1) + i - 1 = k + i
      OBVIOUS
    <3> QED
      BY <3>1, <3>2
  <2> QED
    BY <2>1, <2>4, <2>5
<1>6. /\ a \o <<x>> \in Seq(SomeMessage)
      /\ Len(a \o <<x>>) = Len(a) + 1
      /\ \A i \in 1..(Len(a) + 1) : (a \o <<x>>)[i] = IF i <= Len(a) THEN a[i] ELSE x
  BY <1>4
<1> HIDE DEF a, c
<1>7. PICK b \in Seq(SomeMessage) : b = a \o <<x>>
  BY <1>6
<1>8. r = b \o c
  BY <1>2, <1>7 DEF a, c
<1>9. /\ Len(b) = k + 1 /\ b[k + 1] = x
      /\ \A i \in 1..k : b[i] = m[i]
  BY <1>4, <1>6, <1>7
<1>10. /\ r \in Seq(SomeMessage) /\ Len(r) = (k + 1) + (n - k)
       /\ \A i \in 1..((k + 1) + (n - k)) :
            r[i] = IF i <= k + 1 THEN b[i] ELSE c[i - (k + 1)]
  <2>1. /\ b \o c \in Seq(SomeMessage) /\ Len(b \o c) = Len(b) + Len(c)
        /\ \A i \in 1..(Len(b) + Len(c)) :
             (b \o c)[i] = IF i <= Len(b) THEN b[i] ELSE c[i - Len(b)]
    BY <1>5, ConcatProperties
  <2> QED
    BY <1>5, <1>8, <1>9, <2>1
<1>11. (k + 1) + (n - k) = n + 1 /\ k + 1 \in 1..(n + 1)
  OBVIOUS
<1>12. Len(r) = n + 1 /\ r[k + 1] = x
  BY <1>9, <1>10, <1>11
<1>13. ASSUME NEW i \in 1..k PROVE r[i] = m[i] /\ m[i].priority >= x.priority
  <2>1. i \in 1..(n + 1) /\ i <= k + 1 /\ i \in 1..n /\ i <= k
    OBVIOUS
  <2> QED
    BY <1>2, <1>3, <1>9, <1>10, <1>11, <2>1
<1>14. ASSUME NEW i \in (k + 1)..n
       PROVE  r[i + 1] = m[i] /\ m[i].priority < x.priority
  <2>1. /\ i + 1 \in 1..(n + 1) /\ ~(i + 1 <= k + 1) /\ (i + 1) - (k + 1) = i - k
        /\ i - k \in 1..(n - k) /\ k + (i - k) = i /\ i \in 1..n /\ ~(i <= k)
    OBVIOUS
  <2>2. r[i + 1] = c[i - k] /\ c[i - k] = m[k + (i - k)]
    BY <1>5, <1>10, <1>11, <2>1
  <2>3. m[i].priority \in Nat /\ x.priority \in Nat
    BY <1>3, <2>1 DEF SomeMessage
  <2>4. ~(m[i].priority >= x.priority)
    BY <1>2, <1>3, <2>1
  <2>5. r[i + 1] = m[i]
    BY <2>1, <2>2
  <2>6. m[i].priority < x.priority
    BY <2>3, <2>4
  <2> QED
    BY <2>5, <2>6
<1>15. PutAt(r, m, n, x, k)
  BY <1>12, <1>13, <1>14 DEF PutAt
<1> QED
  BY <1>10, <1>11, <1>12, <1>15
(* A sequence that got one more message has the messages it had and that   *)
(* one.                                                                    *)
LEMMA MessagesAppend ==
  ASSUME NEW s \in Seq(SomeMessage), NEW x \in SomeMessage
  PROVE  /\ Append(s, x) \in Seq(SomeMessage) /\ Len(Append(s, x)) = Len(s) + 1
         /\ \A i \in 1..Len(s) : Append(s, x)[i] = s[i]
         /\ Append(s, x)[Len(s) + 1] = x
         /\ MessagesIn(Append(s, x)) = MessagesIn(s) \cup {x}
<1>1. PICK n \in Nat : n = Len(s)
  BY LenProperties
<1>2. PICK r \in Seq(SomeMessage) :
        r = Append(s, x) /\ Len(r) = n + 1 /\ r[n + 1] = x /\ \A i \in 1..n : r[i] = s[i]
  <2>1. /\ Append(s, x) \in Seq(SomeMessage) /\ Len(Append(s, x)) = n + 1
        /\ Append(s, x)[n + 1] = x /\ \A i \in 1..n : Append(s, x)[i] = s[i]
    BY <1>1, AppendProperties
  <2> QED
    BY <2>1
<1>3. DOMAIN s = 1..n /\ DOMAIN r = 1..(n + 1) /\ 1..(n + 1) = 1..n \cup {n + 1}
  BY <1>1, <1>2, LenProperties
<1>4. MessagesIn(r) = MessagesIn(s) \cup {x}
  BY <1>2, <1>3 DEF MessagesIn
<1> QED
  BY <1>1, <1>2, <1>4

(* A message that is sent takes its place behind those it may not overtake.*)
LEMMA SentInOrder ==
  ASSUME NEW s \in Seq(SomeMessage), NEW t \in Seq(SomeMessage),
         NEW m \in Seq(SomeMessage), Ordered(s, t, m),
         NEW p \in Nat, NEW r \in Insert(m, Message(Len(s) + 1, p))
  PROVE  /\ r \in Seq(SomeMessage)
         /\ Append(s, Message(Len(s) + 1, p)) \in Seq(SomeMessage)
         /\ Ordered(Append(s, Message(Len(s) + 1, p)), t, r)
<1>1. PICK n \in Nat, e \in Nat : n = Len(m) /\ e = Len(s)
  BY LenProperties
<1>2. PICK x \in SomeMessage : x = Message(e + 1, p) /\ x.number = e + 1
  <2>1. e + 1 \in Nat /\ p \in Nat
    OBVIOUS
  <2>2. Message(e + 1, p) \in SomeMessage /\ Message(e + 1, p).number = e + 1
    BY <2>1 DEF Message, SomeMessage
  <2> QED
    BY <2>2
<1>3. /\ r \in Seq(SomeMessage) /\ Len(r) = n + 1
      /\ \E k \in 0..n : PutAt(r, m, n, x, k)
  <2>1. r \in Insert(m, x)
    BY <1>1, <1>2
  <2> QED
    BY <1>1, <2>1, Inserted
<1>4. PICK k \in 0..n :
        /\ \A i \in 1..k : r[i] = m[i] /\ m[i].priority >= x.priority
        /\ r[k + 1] = x
        /\ \A i \in (k + 1)..n : r[i + 1] = m[i] /\ m[i].priority < x.priority
  BY <1>3 DEF PutAt
<1>5. DOMAIN m = 1..n /\ DOMAIN r = 1..(n + 1) /\ DOMAIN t = 1..Len(t) /\ DOMAIN s = 1..e
  BY <1>1, <1>3, LenProperties
<1>6. /\ \A i \in 1..n : m[i] \in SomeMessage /\ m[i].number < x.number
      /\ \A i \in DOMAIN t : t[i] \in SomeMessage /\ t[i].number < x.number
  <2>1. /\ \A i \in 1..Len(t) : t[i].number \in 1..e
        /\ \A i \in 1..n : m[i].number \in 1..e
    BY <1>1, NumbersOfSent
  <2> QED
    BY <1>1, <1>2, <1>5, <2>1, ElementOfSeq
<1>7. ASSUME NEW i \in 1..(n + 1)
      PROVE  \/ i \in 1..k /\ i \in 1..n /\ r[i] = m[i] /\ m[i].priority >= x.priority
             \/ i = k + 1 /\ r[i] = x
             \/ \E u \in (k + 1)..n :
                  i = u + 1 /\ u \in 1..n /\ r[i] = m[u] /\ m[u].priority < x.priority
  <2>1. CASE i <= k
    BY <1>4, <2>1
  <2>2. CASE i = k + 1
    BY <1>4, <2>2
  <2>3. CASE i > k + 1
    <3>1. i - 1 \in (k + 1)..n /\ i = (i - 1) + 1 /\ i - 1 \in 1..n
      BY <2>3
    <3> QED
      BY <1>4, <3>1
  <2> QED
    BY <2>1, <2>2, <2>3
<1>8. Sorted(r)
  <2> SUFFICES ASSUME NEW i \in 1..(n + 1), NEW j \in 1..(n + 1), i < j
               PROVE  r[i].priority >= r[j].priority /\ Earlier(r[i], r[j])
    BY <1>5 DEF Sorted
  <2>1. \A u, v \in 1..n : u < v => m[u].priority >= m[v].priority /\ Earlier(m[u], m[v])
    BY <1>5 DEF Ordered, Sorted
  <2>2. CASE i = k + 1 /\ r[i] = x
    <3>1. PICK v \in (k + 1)..n : v \in 1..n /\ r[j] = m[v] /\ m[v].priority < x.priority
      BY <1>7, <2>2
    <3>2. m[v].priority \in Nat /\ x.priority \in Nat
      BY <1>6, <3>1 DEF SomeMessage
    <3> QED
      BY <2>2, <3>1, <3>2 DEF Earlier
  <2>3. CASE i \in 1..k /\ i \in 1..n /\ r[i] = m[i] /\ m[i].priority >= x.priority
    <3>1. CASE j = k + 1 /\ r[j] = x
      BY <1>6, <2>3, <3>1 DEF Earlier
    <3>2. CASE j \in 1..n /\ r[j] = m[j]
      BY <2>1, <2>3, <3>2
    <3>3. CASE \E v \in (k + 1)..n : j = v + 1 /\ v \in 1..n /\ r[j] = m[v]
      <4>1. PICK v \in (k + 1)..n : v \in 1..n /\ r[j] = m[v]
        BY <3>3
      <4>2. i < v
        BY <2>3
      <4> QED
        BY <2>1, <2>3, <4>1, <4>2
    <3> QED
      BY <1>7, <3>1, <3>2, <3>3
  <2>4. CASE \E u \in (k + 1)..n : i = u + 1 /\ u \in 1..n /\ r[i] = m[u]
    <3>1. PICK u \in (k + 1)..n : i = u + 1 /\ u \in 1..n /\ r[i] = m[u]
      BY <2>4
    <3>2. ~(j \in 1..k) /\ j # k + 1
      BY <3>1
    <3>3. PICK v \in (k + 1)..n : j = v + 1 /\ v \in 1..n /\ r[j] = m[v]
      BY <1>7, <3>2
    <3>4. u < v
      BY <3>1, <3>3
    <3> QED
      BY <2>1, <3>1, <3>3, <3>4
  <2> QED
    BY <1>7, <2>2, <2>3, <2>4
<1>9. InOrder(t, r)
  <2>1. ASSUME NEW i \in DOMAIN t, NEW j \in 1..(n + 1) PROVE Earlier(t[i], r[j])
    <3>1. r[j] = x \/ \E u \in 1..n : r[j] = m[u]
      BY <1>7
    <3>2. \A u \in 1..n : Earlier(t[i], m[u])
      BY <1>5 DEF Ordered, InOrder
    <3> QED
      BY <1>6, <3>1, <3>2 DEF Earlier
  <2> QED
    BY <1>5, <2>1 DEF Ordered, InOrder
<1>10. MessagesIn(r) = MessagesIn(m) \cup {x}
  <2>1. ASSUME NEW i \in 1..n PROVE \E j \in 1..(n + 1) : r[j] = m[i]
    <3>1. CASE i <= k
      BY <1>4, <3>1
    <3>2. CASE i > k
      <4>1. i \in (k + 1)..n /\ i + 1 \in 1..(n + 1)
        BY <3>2
      <4> QED
        BY <1>4, <4>1
    <3> QED
      BY <3>1, <3>2
  <2>2. k + 1 \in 1..(n + 1) /\ r[k + 1] = x
    BY <1>4
  <2>3. \A j \in 1..(n + 1) : r[j] = x \/ \E u \in 1..n : r[j] = m[u]
    BY <1>7
  <2>4. /\ MessagesIn(r) = {r[j] : j \in 1..(n + 1)}
        /\ MessagesIn(m) = {m[u] : u \in 1..n}
    BY <1>5 DEF MessagesIn
  <2>5. \A y : y \in MessagesIn(r) <=> y = x \/ y \in MessagesIn(m)
    BY <2>1, <2>2, <2>3, <2>4
  <2> QED
    BY <2>5
<1>11. Numbered(Append(s, x))
  <2>1. /\ DOMAIN Append(s, x) = 1..(e + 1)
        /\ \A i \in 1..e : Append(s, x)[i] = s[i] /\ s[i].number = i
        /\ Append(s, x)[e + 1] = x
    <3>1. PICK g \in Seq(SomeMessage) :
            /\ g = Append(s, x) /\ Len(g) = e + 1 /\ g[e + 1] = x
            /\ \A i \in 1..e : g[i] = s[i]
      BY <1>1, MessagesAppend
    <3>2. DOMAIN g = 1..(e + 1)
      BY <3>1, LenProperties
    <3> QED
      BY <1>5, <3>1, <3>2 DEF Ordered, Numbered
  <2> QED
    BY <1>2, <2>1 DEF Numbered
<1>12. Accounted(Append(s, x), t, r)
  <2>1. MessagesIn(Append(s, x)) = MessagesIn(s) \cup {x} /\ Len(Append(s, x)) = e + 1
    BY <1>1, MessagesAppend
  <2>2. /\ e = Len(t) + n /\ Len(t) \in Nat
        /\ MessagesIn(s) = MessagesIn(t) \cup MessagesIn(m)
    BY <1>1, LenProperties DEF Ordered, Accounted
  <2>3. e + 1 = Len(t) + (n + 1)
    BY <2>2
  <2> QED
    BY <1>3, <1>10, <2>1, <2>2, <2>3 DEF Accounted
<1>13. Append(s, x) \in Seq(SomeMessage)
  BY MessagesAppend
<1> QED
  BY <1>1, <1>2, <1>3, <1>8, <1>9, <1>11, <1>12, <1>13 DEF Ordered

(* The message that is taken is the next one in this order.                *)
LEMMA TakenInOrder ==
  ASSUME NEW s \in Seq(SomeMessage), NEW t \in Seq(SomeMessage),
         NEW m \in Seq(SomeMessage), Ordered(s, t, m), m # << >>
  PROVE  /\ Tail(m) \in Seq(SomeMessage) /\ Append(t, Head(m)) \in Seq(SomeMessage)
         /\ Ordered(s, Append(t, Head(m)), Tail(m))
<1>1. PICK n \in Nat, e \in Nat : n = Len(m) /\ e = Len(t)
  BY LenProperties
<1>2. PICK x \in SomeMessage, r \in Seq(SomeMessage) :
        /\ x = Head(m) /\ r = Tail(m) /\ n > 0 /\ x = m[1] /\ Len(r) = n - 1
        /\ \A i \in 1..(n - 1) : r[i] = m[i + 1]
  <2>1. /\ Head(m) \in SomeMessage /\ Tail(m) \in Seq(SomeMessage) /\ n > 0
        /\ Head(m) = m[1] /\ Len(Tail(m)) = n - 1
        /\ \A i \in 1..(n - 1) : Tail(m)[i] = m[i + 1]
    BY <1>1, HeadTailProperties, EmptySeq
  <2> QED
    BY <2>1
<1>3. DOMAIN m = 1..n /\ DOMAIN r = 1..(n - 1) /\ DOMAIN t = 1..e
  BY <1>1, <1>2, LenProperties
<1>4. PICK g \in Seq(SomeMessage) :
        /\ g = Append(t, x) /\ Len(g) = e + 1
        /\ \A i \in 1..e : g[i] = t[i]
        /\ g[e + 1] = x /\ MessagesIn(g) = MessagesIn(t) \cup {x}
  BY <1>1, MessagesAppend
<1>4a. DOMAIN g = 1..(e + 1)
  BY <1>4, LenProperties
<1>5. /\ \A u, v \in 1..n : u < v => m[u].priority >= m[v].priority /\ Earlier(m[u], m[v])
      /\ \A i, j \in 1..e : i < j => Earlier(t[i], t[j])
      /\ \A i \in 1..e, j \in 1..n : Earlier(t[i], m[j])
  BY <1>3 DEF Ordered, Sorted, InOrder
<1>6. \A i \in 1..(n - 1) : i + 1 \in 1..n /\ 1 \in 1..n /\ 1 < i + 1
  OBVIOUS
<1>7. Sorted(r)
  BY <1>2, <1>3, <1>5, <1>6 DEF Sorted
<1>8. InOrder(g, r)
  <2>1. ASSUME NEW i \in 1..(e + 1), NEW j \in 1..(e + 1), i < j PROVE Earlier(g[i], g[j])
    <3>1. i \in 1..e /\ 1 \in 1..n
      BY <1>2, <2>1
    <3>2. CASE j = e + 1
      BY <1>2, <1>4, <1>5, <3>1, <3>2
    <3>3. CASE j \in 1..e
      BY <1>4, <1>5, <2>1, <3>1, <3>3
    <3> QED
      BY <3>2, <3>3
  <2>2. ASSUME NEW i \in 1..(e + 1), NEW j \in 1..(n - 1) PROVE Earlier(g[i], r[j])
    <3>1. CASE i = e + 1
      BY <1>2, <1>4, <1>5, <1>6, <3>1
    <3>2. CASE i \in 1..e
      BY <1>2, <1>4, <1>5, <1>6, <3>2
    <3> QED
      BY <3>1, <3>2
  <2> QED
    BY <1>3, <1>4, <1>4a, <2>1, <2>2 DEF InOrder
<1>9. MessagesIn(m) = {x} \cup MessagesIn(r)
  <2>1. \A i \in 1..n : i = 1 \/ \E j \in 1..(n - 1) : i = j + 1
    <3>1. \A i \in 1..n : i = 1 \/ (i - 1 \in 1..(n - 1) /\ i = (i - 1) + 1)
      OBVIOUS
    <3> QED
      BY <3>1
  <2>2. 1 \in 1..n
    BY <1>2
  <2>3. /\ MessagesIn(m) = {m[i] : i \in 1..n}
        /\ MessagesIn(r) = {r[j] : j \in 1..(n - 1)}
    BY <1>3 DEF MessagesIn
  <2>4. ASSUME NEW y \in MessagesIn(m) PROVE y = x \/ y \in MessagesIn(r)
    <3>1. PICK i \in 1..n : y = m[i]
      BY <2>3, <2>4
    <3>2. CASE i = 1
      BY <1>2, <3>1, <3>2
    <3>3. ASSUME NEW j \in 1..(n - 1), i = j + 1 PROVE y \in MessagesIn(r)
      BY <1>2, <2>3, <3>1, <3>3
    <3> QED
      BY <2>1, <3>2, <3>3
  <2>5. x \in MessagesIn(m)
    BY <1>2, <2>2, <2>3
  <2>6. ASSUME NEW y \in MessagesIn(r) PROVE y \in MessagesIn(m)
    BY <1>2, <1>6, <2>3
  <2> QED
    BY <2>4, <2>5, <2>6
<1>10. Accounted(s, g, r)
  <2>1. Len(s) = e + n /\ MessagesIn(s) = MessagesIn(t) \cup MessagesIn(m)
    BY <1>1 DEF Ordered, Accounted
  <2>2. e + n = (e + 1) + (n - 1)
    OBVIOUS
  <2> QED
    BY <1>2, <1>4, <1>9, <2>1, <2>2 DEF Accounted
<1> QED
  BY <1>2, <1>4, <1>7, <1>8, <1>10 DEF Ordered
(* The invariant about messages holds at the start.                        *)
LEMMA MessageInit == Init => MessageInv
<1> SUFFICES ASSUME Init PROVE MessageInv
  OBVIOUS
<1>1. << >> \in Seq(SomeMessage) /\ NoCall \in SomeCall
  BY DEF NoCall, SomeCall
<1>2. /\ queues = [q \in Queues |-> << >>] /\ sent = [q \in Queues |-> << >>]
      /\ taken = [q \in Queues |-> << >>] /\ call = [h \in Handlers |-> NoCall]
  BY DEF Init
<1>3. DOMAIN << >> = {} /\ Len(<< >>) = 0
  OBVIOUS
<1>4. Ordered(<< >>, << >>, << >>)
  BY <1>3 DEF Ordered, Numbered, Sorted, InOrder, Accounted, MessagesIn
<1> QED
  BY <1>1, <1>2, <1>4 DEF MessageInv

(* Calls that change no queue.                                             *)
LEMMA MessagesStay ==
  ASSUME MessageInv, UNCHANGED <<queues, sent, taken>>,
         call' \in [Handlers -> SomeCall]
  PROVE  MessageInv'
BY DEF MessageInv

(* Calls and their returns keep the type of the calls.                     *)
LEMMA CallKeepsType ==
  ASSUME MessageInv, NEW h \in Handlers
  PROVE  /\ Return(h) => call' \in [Handlers -> SomeCall]
         /\ \A what \in {"open", "send", "receive"}, p \in Nat :
              Call(h, what, p) => call' \in [Handlers -> SomeCall]
<1>1. NoCall \in SomeCall /\ call \in [Handlers -> SomeCall]
  BY DEF MessageInv, SomeCall, NoCall
<1>2. \A what \in {"open", "send", "receive"}, p \in Nat :
        [what |-> what, priority |-> p] \in SomeCall
  BY DEF SomeCall
<1> QED
  BY <1>1, <1>2
(* Every step keeps the invariant about messages.                          *)
LEMMA MessageStep == MessageInv /\ [Next]_vars => MessageInv'
<1> SUFFICES ASSUME MessageInv, [Next]_vars PROVE MessageInv'
  OBVIOUS
<1>1. CASE UNCHANGED vars
  BY <1>1 DEF vars, MessageInv
<1>2. ASSUME NEW h \in Handlers, create(h) \/ drop(h) PROVE MessageInv'
  <2>1. UNCHANGED <<queues, sent, taken, call>>
    BY <1>2, Zenon DEF create, drop
  <2> QED
    BY <2>1, MessagesStay DEF MessageInv
<1>3. ASSUME NEW h \in Handlers, open(h) \/ openReturns(h) PROVE MessageInv'
  BY <1>3, CallKeepsType, MessagesStay DEF open, openReturns
<1>4. ASSUME NEW h \in Handlers, NEW p \in Priorities,
             send_data(h, p) \/ receive_data(h, p)
      PROVE  MessageInv'
  <2>1. p \in Nat
    BY RustQueueAssumption
  <2> QED
    BY <1>4, <2>1, CallKeepsType, MessagesStay DEF send_data, receive_data
<1>5. ASSUME NEW h \in Handlers, send_dataReturns(h) PROVE MessageInv'
  <2>1. call' \in [Handlers -> SomeCall]
    <3>1. Return(h)
      BY <1>5, Zenon DEF send_dataReturns
    <3> QED
      BY <3>1, CallKeepsType
  <2>2. CASE UNCHANGED <<queues, sent, taken>>
    BY <2>1, <2>2, MessagesStay
  <2>3. ASSUME NEW q, q = queue_[h],
               NEW r \in Insert(queues[q], Message(Len(sent[q]) + 1, call[h].priority)),
               queues' = [queues EXCEPT ![q] = r],
               sent' = [sent EXCEPT
                 ![q] = Append(@, Message(Len(sent[q]) + 1, call[h].priority))],
               taken' = taken
        PROVE  MessageInv'
    <3>1. PICK p \in Nat : p = call[h].priority
      BY DEF MessageInv, SomeCall
    <3>2. ASSUME q \in Queues
          PROVE  /\ r \in Seq(SomeMessage)
                 /\ Append(sent[q], Message(Len(sent[q]) + 1, p)) \in Seq(SomeMessage)
                 /\ Ordered(Append(sent[q], Message(Len(sent[q]) + 1, p)), taken[q], r)
      BY <2>3, <3>1, <3>2, SentInOrder DEF MessageInv
    <3> QED
      BY <2>1, <2>3, <3>1, <3>2 DEF MessageInv
  <2> QED
    BY <1>5, <2>2, <2>3 DEF send_dataReturns
<1>6. ASSUME NEW h \in Handlers, receive_dataReturns(h) PROVE MessageInv'
  <2>1. call' \in [Handlers -> SomeCall]
    <3>1. Return(h)
      BY <1>6, Zenon DEF receive_dataReturns
    <3> QED
      BY <3>1, CallKeepsType
  <2>2. CASE UNCHANGED <<queues, sent, taken>>
    BY <2>1, <2>2, MessagesStay
  <2>3. ASSUME NEW q, q = queue_[h], queues[q] # << >>,
               queues' = [queues EXCEPT ![q] = Tail(@)],
               taken' = [taken EXCEPT ![q] = Append(@, Head(queues[q]))],
               sent' = sent
        PROVE  MessageInv'
    <3>1. ASSUME q \in Queues
          PROVE  /\ Tail(queues[q]) \in Seq(SomeMessage)
                 /\ Append(taken[q], Head(queues[q])) \in Seq(SomeMessage)
                 /\ Ordered(sent[q], Append(taken[q], Head(queues[q])), Tail(queues[q]))
      BY <2>3, <3>1, TakenInOrder DEF MessageInv
    <3> QED
      BY <2>1, <2>3, <3>1 DEF MessageInv
  <2> QED
    BY <1>6, <2>2, <2>3 DEF receive_dataReturns
<1> QED
  BY <1>1, <1>2, <1>3, <1>4, <1>5, <1>6 DEF Next

(* The invariant about messages holds in every reachable state.            *)
LEMMA AlwaysMessageInv == Spec => []MessageInv
  BY MessageInit, MessageStep, PTL DEF Spec

(* However many handlers send to and receive from however many queues, at  *)
(* any priorities: no message is lost in a queue or comes twice, and those *)
(* of one priority are taken in the order they were sent.                  *)
THEOREM MessagesTakenOnceInOrder == Spec => []TakenOnceInOrder
<1>1. ASSUME MessageInv PROVE TakenOnceInOrder
  BY <1>1 DEF MessageInv, Ordered, Accounted, InOrder, Earlier, TakenOnceInOrder
<1> QED
  BY <1>1, AlwaysMessageInv, PTL
=============================================================================

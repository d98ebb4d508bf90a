----------------------------- MODULE RustQueue -----------------------------
(***************************************************************************)
(* QueueHandler of Rust_hands_on_programming: handlers that create, open,  *)
(* use and drop a POSIX message queue of one name.  Dropping any handler   *)
(* that has a queue unlinks the name, whoever uses it by then; a queue     *)
(* without a name lives on with the handlers that have it.  A handler is   *)
(* borrowed by the call it is in, so that it cannot be dropped meanwhile.  *)
(***************************************************************************)
EXTENDS Integers, Sequences, FiniteSets

CONSTANTS
  Handlers,       (* values of the type QueueHandler, in any programs       *)
  Priorities,
  Capacity,       (* max_pending_                                           *)
  MaxQueues,      (* bound: the queues that are ever created                *)
  MaxSent         (* bound: the messages that are ever sent to one of them  *)

ASSUME RustQueueAssumption ==
  Priorities \subseteq Nat /\ {Capacity, MaxQueues, MaxSent} \subseteq Nat \ {0}

VARIABLES
  name,           (* the queue that has the name, 0 if none has             *)
  created,        (* how many queues have been created                      *)
  queues,         (* the messages of each, the next one to be received first *)
  queue_,         (* the queue of each handler, 0 for None                  *)
  mode,           (* what the handler has opened it for                     *)
  call,           (* the call a handler is in                               *)
  sent, taken,    (* all the messages sent to, and taken from, each queue   *)
  dropped         (* has a handler with a queue been dropped?               *)

history == <<sent, taken, dropped>>
vars == <<name, created, queues, queue_, mode, call, history>>

Queues == 1..MaxQueues
NoCall == [what |-> "none", priority |-> 0]
Message(n, p) == [number |-> n, priority |-> p]

Init ==
  /\ name = 0 /\ created = 0
  /\ queues = [q \in Queues |-> << >>]
  /\ queue_ = [h \in Handlers |-> 0]
  /\ mode = [h \in Handlers |-> "none"]
  /\ call = [h \in Handlers |-> NoCall]
  /\ sent = [q \in Queues |-> << >>] /\ taken = [q \in Queues |-> << >>]
  /\ dropped = FALSE

Idle(h) == call[h] = NoCall
Call(h, what, p) ==
  /\ call' = [call EXCEPT ![h] = [what |-> what, priority |-> p]]
  /\ UNCHANGED <<name, created, queues, queue_, mode, history>>
In(h, what) == call[h].what = what
Return(h) == call' = [call EXCEPT ![h] = NoCall]
Error(h) == Return(h) /\ UNCHANGED <<name, created, queues, queue_, mode, history>>
Has(h, q, m) ==
  queue_' = [queue_ EXCEPT ![h] = q] /\ mode' = [mode EXCEPT ![h] = m]

(* O_WRONLY | O_CREAT: a queue that is there is opened with its messages.  *)
createAnew(h) ==
  /\ Idle(h) /\ created < MaxQueues
  /\ created' = created + 1 /\ name' = created'
  /\ Has(h, name', "write")
  /\ UNCHANGED <<queues, call, history>>
create(h) ==
  /\ Idle(h)
  /\ \/ name # 0 /\ UNCHANGED <<name, created>>
     \/ name = 0 /\ created < MaxQueues /\ created' = created + 1 /\ name' = created'
  /\ Has(h, name', "write")
  /\ UNCHANGED <<queues, call, history>>

(* open() looks for the name until its time is over, and leaves the        *)
(* handler as it was when it does not find it.                             *)
open(h) == Idle(h) /\ Call(h, "open", 0)
openReturns(h) ==
  /\ In(h, "open")
  /\ \/ /\ name # 0
        /\ Has(h, name, "read") /\ Return(h)
        /\ UNCHANGED <<name, created, queues, history>>
     \/ name = 0 /\ Error(h)

(* A message comes before those of a lower priority, after all others: the *)
(* one way to put it into the queue.                                       *)
Insert(msgs, msg) ==
  LET Place(k) == \A i \in DOMAIN msgs : i <= k <=> msgs[i].priority >= msg.priority
  IN  {SubSeq(msgs, 1, k) \o <<msg>> \o SubSeq(msgs, k + 1, Len(msgs)) :
         k \in {n \in 0..Len(msgs) : Place(n)}}

Sending(q) == {h \in Handlers : In(h, "send") /\ queue_[h] = q}
send_data(h, p) ==
  /\ Idle(h) /\ queue_[h] # 0
  /\ Len(sent[queue_[h]]) + Cardinality(Sending(queue_[h])) < MaxSent   (* bound *)
  /\ Call(h, "send", p)
send_dataReturns(h) ==
  /\ In(h, "send")
  /\ LET q == queue_[h]
         msg == Message(Len(sent[q]) + 1, call[h].priority)
     IN  \/ /\ mode[h] = "write" /\ Len(queues[q]) < Capacity
            /\ \E msgs \in Insert(queues[q], msg) : queues' = [queues EXCEPT ![q] = msgs]
            /\ sent' = [sent EXCEPT ![q] = Append(@, msg)]
            /\ Return(h)
            /\ UNCHANGED <<name, created, queue_, mode, taken, dropped>>
         \/ (mode[h] = "read" \/ Len(queues[q]) = Capacity) /\ Error(h)

(* A message of another priority is taken all the same, and lost.          *)
receive_data(h, p) == Idle(h) /\ queue_[h] # 0 /\ Call(h, "receive", p)
receive_dataPutsBack(h) ==
  /\ In(h, "receive")
  /\ LET q == queue_[h]
     IN  \/ /\ mode[h] = "read" /\ queues[q] # << >>
            /\ \E msgs \in IF Head(queues[q]).priority = call[h].priority
                           THEN {Tail(queues[q])}
                           ELSE Insert(Tail(queues[q]), Head(queues[q])) :
                 queues' = [queues EXCEPT ![q] = msgs]
            /\ taken' = [taken EXCEPT ![q] = Append(@, Head(queues[q]))]
            /\ Return(h)
            /\ UNCHANGED <<name, created, queue_, mode, sent, dropped>>
         \/ (mode[h] = "write" \/ queues[q] = << >>) /\ Error(h)
receive_dataReturns(h) ==
  /\ In(h, "receive")
  /\ LET q == queue_[h]
     IN  \/ /\ mode[h] = "read" /\ queues[q] # << >>
            /\ queues' = [queues EXCEPT ![q] = Tail(@)]
            /\ taken' = [taken EXCEPT ![q] = Append(@, Head(queues[q]))]
            /\ Return(h)
            /\ UNCHANGED <<name, created, queue_, mode, sent, dropped>>
         \/ (mode[h] = "write" \/ queues[q] = << >>) /\ Error(h)

dropKeepsName(h) ==
  /\ Idle(h) /\ queue_[h] # 0
  /\ Has(h, 0, "none")
  /\ dropped' = TRUE
  /\ UNCHANGED <<name, created, queues, call, sent, taken>>
drop(h) ==
  /\ Idle(h) /\ queue_[h] # 0
  /\ name' = 0
  /\ Has(h, 0, "none")
  /\ dropped' = TRUE
  /\ UNCHANGED <<created, queues, call, sent, taken>>

Next ==
  \E h \in Handlers :
    \/ create(h) \/ open(h) \/ openReturns(h) \/ drop(h)
    \/ \E p \in Priorities : send_data(h, p) \/ receive_data(h, p)
    \/ send_dataReturns(h) \/ receive_dataReturns(h)

Spec == Init /\ [][Next]_vars

-----------------------------------------------------------------------------
(* Properties *)

Messages == [number : 1..MaxSent, priority : Priorities]
TypeOK ==
  /\ created \in 0..MaxQueues /\ name \in 0..created
  /\ queues \in [Queues -> Seq(Messages)]
  /\ \A q \in Queues : Len(queues[q]) <= Capacity
  /\ queue_ \in [Handlers -> 0..created]
  /\ mode \in [Handlers -> {"none", "write", "read"}]
  /\ call \in [Handlers -> [what : {"none", "open", "send", "receive"},
                            priority : Priorities \cup {0}]]
  /\ sent \in [Queues -> Seq(Messages)] /\ taken \in [Queues -> Seq(Messages)]
  /\ dropped \in BOOLEAN

(* The name never outlives its users: the queue that has it is one that a  *)
(* handler has, although handlers drop, and unlink, in any order.          *)
NamedQueueIsHeld == name # 0 => \E h \in Handlers : queue_[h] = name

(* Until a handler with a queue is dropped all handlers that have a queue  *)
(* have the same one.                                                      *)
Together ==
  ~dropped => \A g, h \in Handlers : queue_[g] # 0 /\ queue_[h] # 0 => queue_[g] = queue_[h]

(* Every message that was sent is in its queue or was taken from it, once, *)
(* and those of one priority are taken in the order they were sent.        *)
MessagesIn(s) == {s[i] : i \in DOMAIN s}
TakenOnceInOrder ==
  \A q \in Queues :
    /\ MessagesIn(sent[q]) = MessagesIn(taken[q]) \cup MessagesIn(queues[q])
    /\ Len(sent[q]) = Len(taken[q]) + Len(queues[q])
    /\ \A i, j \in DOMAIN taken[q] :
         i < j /\ taken[q][i].priority = taken[q][j].priority
           => taken[q][i].number < taken[q][j].number
=============================================================================

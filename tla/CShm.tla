-------------------------------- MODULE CShm --------------------------------
(***************************************************************************)
(* Shared memory (--shm): ipc_sendfile creates the object, and the two     *)
(* programs take turns with one semaphore that either of them may take     *)
(* again.  Only the sender unlinks.                                        *)
(***************************************************************************)
EXTENDS CProgram

CONSTANTS
  MaxStored,      (* a bound on the bytes a receiver stores                 *)
  LeftTurns       (* the values a semaphore may be left with                *)
ASSUME ShmAssumption == MaxStored \in Nat /\ LeftTurns \subseteq Nat

VARIABLES
  object,         (* what has the name: no object, the old one that a       *)
                  (* killed sender left, or the new one of this sender      *)
  mapped,         (* the object the receiver has mapped                     *)
  ready,          (* init_flag of each object                               *)
  text,           (* its text, data_size bytes                              *)
  lock,           (* the program that holds its mutex                       *)
  semName,        (* has the semaphore a name?                              *)
  sem,            (* its value                                              *)
  left            (* the value an earlier session left it with              *)

shmVars == <<object, mapped, ready, text, lock, semName, sem, left>>

(* What a failing read() returns ends the loop, but is not 0 bytes for the *)
(* receiver, which takes as many as it can from its memory.                *)
Garbage == <<0>>

Objects == {"old", "new"}

(* A sender that is killed leaves its object as it is and, like one that   *)
(* fails, the semaphore with the turn that nobody has taken: the next      *)
(* sessions on that name may leave it with more.                           *)
ShmInit ==
  /\ object \in {"none", "old"} /\ mapped = "none"
  /\ ready \in [Objects -> BOOLEAN] /\ text \in [Objects -> {<< >>, Garbage}]
  /\ lock \in [Objects -> {"none", "dead"}]
  /\ \A o \in Objects : ~ready[o] => text[o] = << >> /\ lock[o] = "none"
  /\ ~ready["new"] /\ (object = "none" => ~ready["old"])
  /\ semName \in BOOLEAN /\ left \in IF semName THEN LeftTurns ELSE {0}
  /\ sem = left
  /\ calm => object = "none" /\ ~semName
memory == <<object, mapped, ready>>
semaphore == <<semName, sem, left>>

ShmLaunch == spc = "idle" /\ SGoto("create") /\ UNCHANGED <<shmVars, senderData>>

(* O_EXCL: an old object is unlinked first.                                *)
ShmCreate ==
  /\ spc = "create"
  /\ UNCHANGED <<mapped, ready, text, lock, semaphore, senderData>>
  /\ IF object = "none" THEN object' = "new" /\ SGoto("init")
     ELSE object' = "none" /\ UNCHANGED <<programVars>>

ShmInitialize ==
  /\ spc = "init"
  /\ ready' = [ready EXCEPT !["new"] = TRUE]
  /\ SGoto("sem") /\ UNCHANGED <<object, mapped, text, lock, semaphore, senderData>>

(* sem_open(O_CREAT) without O_EXCL: the value 0 is for a new semaphore,   *)
(* one that has the name keeps its own.                                    *)
ShmSemCreatedOpen ==
  /\ spc = "sem"
  /\ semName' = TRUE /\ sem' = IF semName THEN sem ELSE 1
  /\ SGoto("wait") /\ UNCHANGED <<memory, text, lock, left, senderData>>
ShmSemCreate ==
  /\ spc = "sem"
  /\ semName' = TRUE /\ UNCHANGED <<sem, left>>
  /\ SGoto("wait") /\ UNCHANGED <<memory, text, lock, senderData>>

ShmWait ==
  /\ spc = "wait" /\ sem > 0
  /\ sem' = sem - 1
  /\ SGoto("lock") /\ UNCHANGED <<memory, text, lock, semName, left, senderData>>

ShmLock ==
  /\ spc = "lock" /\ lock["new"] = "none"
  /\ lock' = [lock EXCEPT !["new"] = "sender"]
  /\ SGoto("fill") /\ UNCHANGED <<memory, text, semaphore, senderData>>

ShmFill ==
  /\ spc = "fill"
  /\ \/ /\ last' = Least(BufferSize, size - sent)
        /\ text' = [text EXCEPT !["new"] = Stretch(sent, last')]
     \/ Fails /\ last' = 0 /\ text' = [text EXCEPT !["new"] = Garbage]
  /\ sent' = sent + last'
  /\ lock' = [lock EXCEPT !["new"] = "none"]
  /\ SGoto("post") /\ UNCHANGED <<memory, semaphore, measured>>

ShmPost ==
  /\ spc = "post"
  /\ sem' = sem + 1
  /\ SGoto(IF last > 0 THEN "wait" ELSE "unlinkSem")
  /\ UNCHANGED <<memory, text, lock, semName, left, senderData>>

ShmUnlinkSem ==
  /\ spc = "unlinkSem"
  /\ semName' = FALSE
  /\ SGoto("unlinkShm") /\ UNCHANGED <<memory, text, lock, sem, left, senderData>>

ShmUnlink ==
  /\ spc = "unlinkShm"
  /\ object' = "none"
  /\ SExit("success") /\ UNCHANGED <<mapped, ready, text, lock, semaphore, senderData>>

(* unlink_and_exit() leaves the semaphore.                                 *)
ShmUnlinkAndExit ==
  /\ Fails /\ spc \in {"create", "init", "sem", "wait", "lock", "post", "unlinkSem"}
  /\ object' = "none"
  /\ SExit("failure") /\ UNCHANGED <<mapped, ready, text, lock, semaphore, senderData>>

ShmSender ==
  \/ ShmLaunch \/ ShmCreate \/ ShmInitialize \/ ShmSemCreate \/ ShmWait \/ ShmLock
  \/ ShmFill \/ ShmPost \/ ShmUnlinkSem \/ ShmUnlink \/ ShmUnlinkAndExit

ShmConnect ==
  /\ rpc = "idle"
  /\ UNCHANGED <<object, ready, text, lock, semaphore, receiverData>>
  /\ \/ object # "none" /\ mapped' = object /\ RGoto("flag")
     \/ RTimeout /\ RExit("failure") /\ UNCHANGED mapped

ShmFlag ==
  /\ rpc = "flag"
  /\ UNCHANGED <<shmVars, receiverData>>
  /\ \/ ready[mapped] /\ RGoto("openSem")
     \/ RTimeout /\ RExit("failure")

(* A semaphore that is not there yet is an error other than EACCES.        *)
ShmOpenSem ==
  /\ rpc = "openSem"
  /\ UNCHANGED <<shmVars, receiverData>>
  /\ IF semName THEN RGoto("hello") ELSE RExit("failure")

ShmHello ==
  /\ rpc = "hello"
  /\ sem' = sem + 1
  /\ RGoto("wait") /\ UNCHANGED <<memory, text, lock, semName, left, receiverData>>

ShmReceiverWait ==
  /\ rpc = "wait" /\ sem > 0
  /\ sem' = sem - 1
  /\ RGoto("lock") /\ UNCHANGED <<memory, text, lock, semName, left, receiverData>>

ShmReceiverLock ==
  /\ rpc = "lock" /\ lock[mapped] = "none"
  /\ lock' = [lock EXCEPT ![mapped] = "receiver"]
  /\ RGoto("store") /\ UNCHANGED <<memory, text, semaphore, receiverData>>

ShmStore ==
  /\ rpc = "store"
  /\ LET piece == text[mapped]
     IN  /\ Len(out) + Len(piece) <= MaxStored
         /\ Write(piece)
         /\ RGoto(IF piece = << >> THEN "postLast" ELSE "post")
  /\ lock' = [lock EXCEPT ![mapped] = "none"]
  /\ UNCHANGED <<memory, text, semaphore>>

ShmReceiverPost ==
  /\ rpc \in {"post", "postLast"}
  /\ sem' = sem + 1
  /\ IF rpc = "post" THEN RGoto("wait") ELSE RExit("success")
  /\ UNCHANGED <<memory, text, lock, semName, left, receiverData>>

ShmReceiverFails ==
  /\ Fails /\ rpc \in {"openSem", "hello", "wait", "lock", "post", "postLast"}
  /\ RExit("failure") /\ UNCHANGED <<shmVars, receiverData>>

(* Too many bytes, or a file that fopen64() did not open.                  *)
ShmStoreCrashes ==
  /\ Fails /\ rpc = "store"
  /\ RExit("killed") /\ UNCHANGED <<shmVars, receiverData>>

ShmReceiver ==
  \/ ShmConnect \/ ShmFlag \/ ShmOpenSem \/ ShmHello \/ ShmReceiverWait
  \/ ShmReceiverLock \/ ShmStore \/ ShmReceiverPost \/ ShmReceiverFails
  \/ ShmStoreCrashes
=============================================================================

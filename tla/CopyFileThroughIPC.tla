------------------------- MODULE CopyFileThroughIPC -------------------------
(***************************************************************************)
(* What every transfer of C++_hands_on_programming_NEW has in common: the  *)
(* file read in buffers of the default size, the loop of                   *)
(* CopyFileThroughIPC::launch and the verdict it ends with.  A file is     *)
(* abstracted to its length: byte number i of the source is the number i,  *)
(* so a copy is intact exactly when it is the sequence 1, 2, ..., size.    *)
(* A negative number is a byte of a header, and 0 a byte of neither.       *)
(***************************************************************************)
EXTENDS Integers, Sequences

CONSTANTS
  BufferSize,     (* getDefaultBufferSize(): 4096 bytes in the program      *)
  Sizes,          (* the lengths a source file may have                     *)
  Disturbances    (* what the surroundings may do to the two programs       *)

(* kill   a program is killed and runs no destructor;                      *)
(* error  a system call fails and the program throws;                      *)
(* late   a deadline passes although the other program is alive;           *)
(* resize the length stat() reported is not the length that is read;       *)
(* clock  the real-time clock cannot be read.                              *)
DisturbanceKinds == {"kill", "error", "late", "resize", "clock"}

ASSUME BufferSizeAssumption == BufferSize \in Nat \ {0}
ASSUME SizesAssumption == Sizes \subseteq Nat
ASSUME DisturbancesAssumption == Disturbances \subseteq DisturbanceKinds

Outcomes == {"none", "success", "failure", "killed"}

Unset == -1       \* no header has been built, or received, yet

(* The n bytes of the source that follow the first `from' ones. *)
Stretch(from, n) == [i \in 1..n |-> from + i]

(* FileHandler::readFile: a full buffer, or what is left before the end.   *)
ReadFileUnbounded(from, size) == size - from
ReadFile(from, size) ==
  IF size - from >= BufferSize THEN BufferSize
  ELSE IF from < size THEN size - from ELSE 0

(* Each byte of a header that announces n bytes: it begins with the key,   *)
(* and the length can be read back from it.                                *)
HeaderByte(n) == -(n + 1)
HasKey(byte) == byte < 0
AnnouncedBy(byte) == -byte - 1

(* The condition of the do-while loop of launch().                         *)
MoreStopsAtTotal(last, total, fileSize) == last = BufferSize /\ total < fileSize
More(last, total, fileSize) == last = BufferSize /\ total <= fileSize

(* The comparisons after the loop: too much, not enough, or success.       *)
VerdictEnough(total, fileSize) == IF total >= fileSize THEN "success" ELSE "failure"
Verdict(total, fileSize) == IF total = fileSize THEN "success" ELSE "failure"

(* The stream of the copy.  A whole buffer goes to the file at once; of a  *)
(* shorter piece the stream may hold every byte until it is closed.        *)
HeldOf(n) == IF n < BufferSize THEN {0, n} ELSE {0}
WithoutLast(bytes, n) == SubSeq(bytes, 1, Len(bytes) - n)

(* The destructor ~Writer closes the file and does not look at the result: *)
(* bytes that cannot be written then (the disk is full) are missing.       *)
MostLost(held) == IF "error" \in Disturbances THEN held ELSE 0
ClosedCopies(bytes, held) == {WithoutLast(bytes, n) : n \in 0..MostLost(held)}

(* A killed program takes along what the stream holds; while it is closed  *)
(* the bytes may be in the file already.                                   *)
CopiesOfKilled(bytes, held) == {bytes, WithoutLast(bytes, held)}

(* The length the header announces is what stat() says when it is built.   *)
AnnouncedSizes(size) == IF "resize" \in Disturbances THEN Sizes ELSE {size}
=============================================================================

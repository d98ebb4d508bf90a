----------------------------- MODULE RcCopyFile -----------------------------
(***************************************************************************)
(* What the transfers of C++_hands_on_programming_RC have in common: how   *)
(* Reader and Writer read, write and stop.  An empty file is a file like   *)
(* any other here, and no buffer follows one that ends the file exactly.   *)
(***************************************************************************)
EXTENDS CopyFileThroughIPC

(* Reader::syncFileWithBuffer asks for as much as the last read returned.  *)
SyncFullBuffer(asked, from, size) == asked
SyncFileWithBuffer(asked, from, size) ==
  IF size - from >= asked THEN asked ELSE size - from

(* The condition of the loop of Reader::syncFileWithIPC.                   *)
SendsMore(sent, fileSize) == sent < fileSize

(* The condition of the loop of Writer::syncFileWithIPC: a message that is *)
(* not full is the last.                                                   *)
ReceivesMore(received, last, fileSize) ==
  received < fileSize /\ last = BufferSize

(* The file that was written is as long as the header said.                *)
AnyLength(length, fileSize) == "success"
CheckedLength(length, fileSize) ==
  IF length = fileSize THEN "success" ELSE "failure"

(* Writer::syncFileWithIPC closes the copy before it looks at its length.  *)
(* Of a last piece that is not full the stream may still hold every byte,  *)
(* and closing a file that cannot take them fails without notice.          *)
ClosedAfter(bytes, last) ==
  ClosedCopies(bytes, IF last < BufferSize THEN last ELSE 0)
=============================================================================

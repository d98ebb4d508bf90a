--------------------------- MODULE MCQueueSession ---------------------------
(***************************************************************************)
(* Queues for the runs of QueueSession: what earlier pairs, both killed,   *)
(* may have left under the name.                                           *)
(***************************************************************************)
EXTENDS QueueSessionInvariant

(* No queue at all, or an empty one.                                       *)
QuietOnly == {[linked |-> FALSE, queue |-> << >>], [linked |-> TRUE, queue |-> << >>]}
=============================================================================

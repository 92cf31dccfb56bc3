-------------------------- MODULE MCQueueMessages --------------------------
(* Message values for QueueMessages: -1 is the infinite time to live, 9     *)
(* reaches beyond the end of the calendar, the timeouts include the         *)
(* smallest ones and one that is out of range.                              *)
EXTENDS QueueMessages

MCTimeouts == {-1, 0, 2, 4}
MCTTLs == {-1, 0, 2, 9}
=============================================================================

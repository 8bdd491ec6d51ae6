---------------------------- MODULE MCQueueList ----------------------------
(***************************************************************************)
(* Three data for QueueList.tla, two of them due at the same time.         *)
(***************************************************************************)
EXTENDS QueueList

Due == [d \in Data |-> IF d = 30 THEN 1 ELSE 2]
=============================================================================

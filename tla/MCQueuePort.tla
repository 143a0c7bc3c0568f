----------------------------- MODULE MCQueuePort -----------------------------
(* QueuePort needs bounds only; backend and timeout are chosen at the start. *)
EXTENDS QueuePort
=============================================================================

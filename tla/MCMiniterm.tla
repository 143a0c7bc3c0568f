------------------------------ MODULE MCMiniterm ------------------------------
(* Miniterm needs names of ports and platforms only.                         *)
EXTENDS Miniterm
=============================================================================

------------------------------ MODULE MCFilePort ------------------------------
(* FilePort needs bounds only; class, direction and timeout are chosen at    *)
(* the start.                                                               *)
EXTENDS FilePort
=============================================================================

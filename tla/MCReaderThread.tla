---------------------------- MODULE MCReaderThread ----------------------------
(* ReaderThread needs bounds only; its options are chosen at the start.     *)
EXTENDS ReaderThread
=============================================================================

----------------------------- MODULE TelnetChannel -----------------------------
(***************************************************************************)
(* What the Telnet layer of serial/rfc2217.py promises in one direction:    *)
(* data bytes, option commands and subnegotiations reach the other end      *)
(* whole, in the order in which they were handed over, and nothing else     *)
(* does.                                                                    *)
(***************************************************************************)
EXTENDS Naturals, Sequences

CONSTANT Batches   \* the sequences of items that one call may hand over

VARIABLES sent, got

Init == sent = <<>> /\ got = <<>>

Send == \E b \in Batches : sent' = sent \o b /\ UNCHANGED got

Deliver ==
  /\ Len(got) < Len(sent)
  /\ got' = Append(got, sent[Len(got) + 1])
  /\ UNCHANGED sent

(* Whole, in order and nothing else; and in the end everything.             *)
Ordered == Init /\ [][Send \/ Deliver]_<<sent, got>>
Spec == Ordered /\ WF_<<sent, got>>(Deliver)
=============================================================================

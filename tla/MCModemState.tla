----------------------------- MODULE MCModemState -----------------------------
(* ModemState with one control line and the mask PortManager starts with.   *)
EXTENDS ModemState

CONSTANT cts
MCLines == {cts}
MCMask == [level |-> MCLines, delta |-> MCLines]
=============================================================================

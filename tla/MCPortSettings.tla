---------------------------- MODULE MCPortSettings ----------------------------
(* PortSettings with two of the four settings, which a call requests one    *)
(* after the other, a value the port cannot do, and a baud rate of which     *)
(* nothing can be requested.                                                *)
EXTENDS PortSettings

MCOrder == <<"baudrate", "datasize">>
MCValues == {"a", "b", "impossible", "unsendable"}
MCSupported == {"a", "b"}
MCUnsendable == {"unsendable"}
=============================================================================

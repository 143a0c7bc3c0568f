---------------------------- MODULE MCTelnetStream ----------------------------
(* TelnetStream with every control byte of the protocol as data and value.  *)
EXTENDS TelnetStream

MCBytes == {"IAC", "SB", "SE", "DO", "x"}
MCWrites == {<<a>> : a \in MCBytes} \cup {<<"IAC", a>> : a \in MCBytes} \cup {<<"x", "IAC">>}
MCCodes == {"x", "IAC"}
MCValues == {<<>>} \cup {<<a>> : a \in MCBytes} \cup {<<"IAC", a>> : a \in {"IAC", "SE"}}
=============================================================================

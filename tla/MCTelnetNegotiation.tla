------------------------- MODULE MCTelnetNegotiation -------------------------
(* TelnetNegotiation with the tables of rfc2217.py, this repository's server *)
(* and two foreign ones.                                                     *)
EXTENDS TelnetNegotiation, Rfc2217Options

(* A server without RFC 2217 that will not perform SGA either, and asks the *)
(* client to echo, a direction the client has no object for.                *)
PlainServer ==
  [l \in OptionLinks |->
     CASE l.code = "COM_PORT" -> "ABSENT"
       [] l = Link("server", "SGA") -> "REALLY_INACTIVE"
       [] l = Link("client", "ECHO") -> "REQUESTED"
       [] OTHER -> "INACTIVE"]

(* A server that has everything and asks for nothing. *)
PassiveServer == [l \in OptionLinks |-> "INACTIVE"]

MCOrder ==
  [p \in Peers |-> IF p = "client" THEN ClientList
                   ELSE ServerList \o <<Link("client", "ECHO")>>]
MCProfiles == {ServerTable, PlainServer, PassiveServer}
MCWeBinary == Link("client", "BINARY")
MCWeRfc2217 == Link("client", "COM_PORT")
MCTogglable == {Link("server", "ECHO")}
=============================================================================

---------------------------- MODULE Rfc2217Options ----------------------------
(***************************************************************************)
(* The option tables of serial/rfc2217.py: the seven TelnetOption objects   *)
(* of the client and of the server, as links (option, performer).  The      *)
(* client's 'they-' objects and the server's 'we-' objects are the two ends *)
(* of the options the server performs.                                     *)
(***************************************************************************)
EXTENDS Sequences

Codes == {"ECHO", "SGA", "BINARY", "COM_PORT"}
Performers == {"client", "server"}
OptionLinks == [by : Performers, code : Codes]

Link(by, code) == [by |-> by, code |-> code]
CodeOfLink == [l \in OptionLinks |-> l.code]

(* The initial state a table gives each link, ABSENT where it has no object. *)
Table(requested, inactive) ==
  [l \in OptionLinks |->
     CASE l \in requested -> "REQUESTED"
       [] l \in inactive -> "INACTIVE"
       [] OTHER -> "ABSENT"]

ClientTable ==
  Table({Link("server", "ECHO"), Link("client", "SGA"), Link("server", "SGA"),
         Link("server", "COM_PORT"), Link("client", "COM_PORT")},
        {Link("server", "BINARY"), Link("client", "BINARY")})

ServerTable ==
  Table({Link("server", "ECHO"), Link("server", "SGA"), Link("client", "BINARY"),
         Link("server", "COM_PORT")},
        {Link("client", "SGA"), Link("server", "BINARY"), Link("client", "COM_PORT")})

ClientList ==
  <<Link("server", "ECHO"), Link("client", "SGA"), Link("server", "SGA"),
    Link("server", "BINARY"), Link("server", "COM_PORT"),
    Link("client", "BINARY"), Link("client", "COM_PORT")>>

ServerList ==
  <<Link("server", "ECHO"), Link("server", "SGA"), Link("client", "SGA"),
    Link("server", "BINARY"), Link("client", "BINARY"),
    Link("server", "COM_PORT"), Link("client", "COM_PORT")>>

ServerCallbacks == {Link("server", "COM_PORT"), Link("client", "COM_PORT")}
=============================================================================

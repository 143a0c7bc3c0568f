------------------------------ MODULE MCFraming ------------------------------
(* Small alphabets for every kind of stream.                                *)
EXTENDS Framing
Setup(mode, bytes) == [mode |-> mode, bytes |-> bytes, terminator |-> <<"cr", "lf">>, errors |-> "replace",
                       chain |-> <<>>, size |-> 0]
MCSetups ==
  {[Setup("packets", {"a", "b", "nul"}) EXCEPT !.terminator = <<"nul">>],
   Setup("packets", {"a", "cr", "lf"}),
   Setup("framed", {"a", "b", "(", ")"}),
   Setup("hexlify", {"0", "F", " ", "x"}),
   [Setup("hexlify", {"0", "F", " ", "x"}) EXCEPT !.errors = "strict"]}
  \union {[Setup("read_until", {"a", "cr", "lf"}) EXCEPT !.size = s] : s \in {0, 3}}
  \union {[Setup("terminal", {"a", "cr", "ctl", "lead", "cont"}) EXCEPT !.chain = c] :
            c \in {<<"crlf", "default">>, <<"cr", "nocontrol", "printable">>}}
=============================================================================

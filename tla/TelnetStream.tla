----------------------------- MODULE TelnetStream -----------------------------
(***************************************************************************)
(* The byte stream of a Telnet connection in serial/rfc2217.py, in one      *)
(* direction: threads that send data, option commands and subnegotiations   *)
(* through one socket, and the state machine at the other end, which is     *)
(* the same in the client's _telnet_read_loop and the server's filter.      *)
(* Data and the values of subnegotiations may contain every byte.           *)
(***************************************************************************)
EXTENDS Naturals, SequencesExt

CONSTANTS
  Threads,      \* of the sending end
  Bytes,        \* contains "IAC", "SB", "SE", "DO", "x" (the Header) and others
  Writes,       \* the byte strings that are written as data
  Codes,        \* option codes
  Values,       \* the values of subnegotiations
  MaxMessages,  \* bound on the messages sent
  MaxWire       \* bound on the bytes under way

Commands == {"DO", "DONT", "WILL", "WONT"}

ASSUME StreamAssumption ==
  /\ {"IAC", "SB", "SE", "DO", "x"} \subseteq Bytes
  /\ Writes \subseteq Seq(Bytes) \ {<<>>}
  /\ Codes \subseteq Bytes
  /\ Values \subseteq Seq(Bytes)
  /\ MaxMessages \in Nat /\ MaxWire \in Nat \ {0}

VARIABLES
  lock,     \* _write_lock
  out,      \* what each thread has yet to push into the socket
  wire,     \* bytes in the connection
  mode, suboption, command,    \* of the receiver
  broken,   \* the receiver met the end of a subnegotiation that never began
  sent, got,   \* history: what was handed over and what was delivered
  messages

sender == <<lock, out, sent, messages>>
receiver == <<mode, suboption, command, broken, got>>
vars == <<sender, wire, receiver>>

(* Python's None, or a value: a set of at most one element. *)
None == {}
Some(v) == {v}

Init ==
  /\ lock = None
  /\ out = [t \in Threads |-> <<>>]
  /\ wire = <<>>
  /\ mode = "NORMAL" /\ suboption = None /\ command = "DO"
  /\ broken = FALSE
  /\ sent = <<>> /\ got = <<>>
  /\ messages = 0
-----------------------------------------------------------------------------
(* Messages and their bytes.                                                *)
Data(b) == [kind |-> "data", byte |-> b]
Option(c, code) == [kind |-> "option", command |-> c, code |-> code]
Sub(content) == [kind |-> "sub", content |-> content]

Doubled(s) == FlattenSeq([i \in DOMAIN s |->
                IF s[i] = "IAC" THEN <<"IAC", "IAC">> ELSE <<s[i]>>])

(* COM_PORT_OPTION and the suboption's number; neither is IAC. *)
Header == <<"x">>

DataBytes(s) == Doubled(s)
OptionBytes(c, code) == <<"IAC", c, code>>
SubBytes(value) == <<"IAC", "SB">> \o Header \o Doubled(value) \o <<"IAC", "SE">>

(* What a call hands over, and the bytes it pushes into the socket.  Other  *)
(* Telnet commands, which a foreign peer may send, hand over nothing.       *)
Messages ==
  {[items |-> [i \in DOMAIN s |-> Data(s[i])], bytes |-> DataBytes(s)] : s \in Writes}
  \cup {[items |-> <<Option("DO", code)>>, bytes |-> OptionBytes("DO", code)] : code \in Codes}
  \cup {[items |-> <<>>, bytes |-> <<"IAC", "x">>]}
  \cup {[items |-> <<Sub(Header \o v)>>, bytes |-> SubBytes(v)] : v \in Values}

(* write() and _internal_raw_write(): sendall under the lock, ... *)
Begin(t) ==
  /\ lock = None
  /\ messages < MaxMessages
  /\ lock' = Some(t)
  /\ \E m \in Messages : out' = [out EXCEPT ![t] = m.bytes] /\ sent' = sent \o m.items
  /\ messages' = messages + 1
  /\ UNCHANGED <<wire, receiver>>

(* ... which hands the bytes on as fast as the connection takes them.       *)
Push(t) ==
  /\ out[t] # <<>> /\ Len(wire) < MaxWire
  /\ wire' = Append(wire, Head(out[t]))
  /\ out' = [out EXCEPT ![t] = Tail(@)]
  /\ lock' = IF Tail(out[t]) = <<>> THEN None ELSE lock
  /\ UNCHANGED <<sent, messages, receiver>>
-----------------------------------------------------------------------------
(* The receiver's state machine, for the byte b.                            *)
Deliver(item) == got' = Append(got, item)

(* Into the suboption under way, or to the reader.                          *)
Store(b) ==
  IF suboption = None
  THEN Deliver(Data(b)) /\ UNCHANGED suboption
  ELSE suboption' = {Append(s, b) : s \in suboption} /\ UNCHANGED got

InNormal(b) ==
  /\ mode = "NORMAL"
  /\ \/ /\ b = "IAC"
        /\ mode' = "IAC_SEEN" /\ UNCHANGED <<suboption, got>>
     \/ /\ b # "IAC"
        /\ Store(b) /\ UNCHANGED mode
  /\ UNCHANGED <<command, broken>>

(* A mutation of AfterIac: a doubled IAC in a suboption is taken for data.  *)
AfterIacToReader(b) ==
  /\ b \in {"IAC", "SB"}
  /\ mode' = "NORMAL"
  /\ IF b = "IAC" THEN Deliver(Data(b)) /\ UNCHANGED suboption
     ELSE suboption' = Some(<<>>) /\ UNCHANGED got
  /\ UNCHANGED <<command, broken>>

AfterIac(b) ==
  /\ b \in {"IAC", "SB"}
  /\ mode' = "NORMAL"
  /\ IF b = "IAC" THEN Store(b) ELSE suboption' = Some(<<>>) /\ UNCHANGED got
  /\ UNCHANGED <<command, broken>>

(* SE: bytes(None) raises, which ends the reading thread.                   *)
AfterIacEnd(b) ==
  /\ b = "SE"
  /\ mode' = "NORMAL"
  /\ suboption' = None
  /\ IF suboption = None THEN broken' = TRUE /\ UNCHANGED got
     ELSE (\E s \in suboption : Deliver(Sub(s))) /\ UNCHANGED broken
  /\ UNCHANGED command

(* DO, DONT, WILL, WONT; any other Telnet command is ignored.               *)
AfterIacCommand(b) ==
  /\ b \notin {"IAC", "SB", "SE"}
  /\ IF b \in Commands THEN mode' = "NEGOTIATE" /\ command' = b
     ELSE mode' = "NORMAL" /\ UNCHANGED command
  /\ UNCHANGED <<suboption, broken, got>>

(* A mutation of InNegotiate: the code is left for the next state.          *)
InNegotiateTwice(b) ==
  /\ mode = "NEGOTIATE"
  /\ mode' = IF b = "IAC" THEN "IAC_SEEN" ELSE "NORMAL"
  /\ Deliver(Option(command, b))
  /\ UNCHANGED <<suboption, command, broken>>

InNegotiate(b) ==
  /\ mode = "NEGOTIATE"
  /\ mode' = "NORMAL"
  /\ Deliver(Option(command, b))
  /\ UNCHANGED <<suboption, command, broken>>

Receive ==
  /\ wire # <<>> /\ ~broken
  /\ LET b == Head(wire) IN
       \/ InNormal(b)
       \/ mode = "IAC_SEEN" /\ (AfterIac(b) \/ AfterIacEnd(b) \/ AfterIacCommand(b))
       \/ InNegotiate(b)
  /\ wire' = Tail(wire)
  /\ UNCHANGED sender

Next == Receive \/ \E t \in Threads : Begin(t) \/ Push(t)

(* A thread that has begun to send goes on, and the receiver reads.         *)
Fairness == WF_vars(Receive) /\ \A t \in Threads : WF_vars(Push(t))

Spec == Init /\ [][Next]_vars
FairSpec == Spec /\ Fairness
-----------------------------------------------------------------------------
Items ==
  {Data(b) : b \in Bytes} \cup {Option(c, b) : c \in Commands, b \in Bytes}
  \cup [kind : {"sub"}, content : Seq(Bytes)]

(* Types; the lock is held by a thread that is still sending.               *)
TypeOK ==
  /\ lock \in {None} \cup {Some(t) : t \in Threads}
  /\ \A t \in Threads : out[t] \in Seq(Bytes) /\ (out[t] # <<>> <=> lock = Some(t))
  /\ wire \in Seq(Bytes) /\ Len(wire) <= MaxWire
  /\ mode \in {"NORMAL", "IAC_SEEN", "NEGOTIATE"}
  /\ \A s \in suboption : s \in Seq(Bytes)
  /\ command \in Commands
  /\ broken \in BOOLEAN
  /\ sent \in Seq(Items) /\ got \in Seq(Items)
  /\ messages \in 0 .. MaxMessages

(* What is delivered is whole, in order and complete: the stream implements *)
(* the channel, whatever bytes are sent, by several threads at once, and    *)
(* wherever the connection cuts the stream.                                 *)
Channel == INSTANCE TelnetChannel WITH Batches <- {m.items : m \in Messages}
ImplementsChannel == Channel!Spec

(* Between messages the receiver is back in its first state: no message     *)
(* leaves it inside a command or a subnegotiation that would swallow what   *)
(* comes next.  The end of a subnegotiation never comes without its         *)
(* beginning, which would end the thread that reads.  With the types.       *)
BackToNormal ==
  /\ TypeOK
  /\ ~broken
  /\ wire = <<>> /\ lock = None => mode = "NORMAL" /\ suboption = None /\ got = sent
=============================================================================

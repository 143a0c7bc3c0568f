------------------------------- MODULE Framing -------------------------------
(***************************************************************************)
(* What is made of a stream of bytes that arrives in chunks, and chunks are  *)
(* cut anywhere: the packets of the protocols (Packetizer, LineReader,        *)
(* FramedPacket), the bytes of the incremental hexlify encoder, the text that *)
(* miniterm shows, the lines of read_until.                                   *)
(*                                                                         *)
(* A setup says which of them it is and what bytes there are.  A decoder maps *)
(* what it holds and a chunk to what it puts out and holds then.  Colorize,   *)
(* which colours each chunk, and DebugIO are left out.                        *)
(***************************************************************************)
EXTENDS Naturals, SequencesExt, FiniteSetsExt

CONSTANTS Setups, MaxInput, MaxChunk
ASSUME FramingAssumption == MaxInput \in Nat /\ MaxChunk \in Nat \ {0}
ASSUME SetupsAssumption ==
  \A s \in Setups :
    /\ s.mode \in {"packets", "read_until"} => s.terminator \in Seq(s.bytes) \ {<<>>} /\ s.size \in Nat
    /\ s.mode = "terminal" => s.chain \in Seq(STRING)

VARIABLES
  setup,
  stream,           \* history: the bytes since the connection was made
  output,
  held, in_packet, \* the decoder's buffer (packet, line, state), and FramedPacket's flag
  late             \* history: how much there was when a timeout ended a line

framingVars == <<setup, stream, output, held, in_packet, late>>

FramingInit ==
  /\ setup \in Setups
  /\ stream = <<>> /\ output = <<>> /\ held = <<>> /\ in_packet = FALSE /\ late = {}

Result(out, rest, inside) == [output |-> out, held |-> rest, in_packet |-> inside]
-----------------------------------------------------------------------------
(* Packetizer.data_received: a turn of its loop splits off a packet, if there *)
(* is a terminator.                                                         *)
TerminatedAt(s, i) == /\ i + Len(setup.terminator) - 1 <= Len(s)
                      /\ SubSeq(s, i, i + Len(setup.terminator) - 1) = setup.terminator
Split(r) ==
  LET ends == {i \in DOMAIN r.held : TerminatedAt(r.held, i)} IN
  IF ends = {} THEN r
  ELSE Result(Append(r.output, SubSeq(r.held, 1, Min(ends) - 1)),
              SubSeq(r.held, Min(ends) + Len(setup.terminator), Len(r.held)), FALSE)

(* FramedPacket.data_received: START and STOP decide byte by byte; a STOP     *)
(* outside of a packet delivers an empty one.                                *)
Framed(r, b) ==
  IF b = "(" THEN [r EXCEPT !.in_packet = TRUE]
  ELSE IF b = ")" THEN Result(Append(r.output, r.held), <<>>, FALSE)
  ELSE IF r.in_packet THEN [r EXCEPT !.held = Append(@, b)]
  ELSE r

(* The hexlify encoder: pairs of digits; a space between them forgets the     *)
(* first, or raises in strict mode.  state is 0x100 + 16 * digit, or 0.       *)
HexDigits == <<"0", "F">>
Index(c) == IF c = "0" THEN 0 ELSE 15
State(z) == <<16 * z>>
Hexlify(r, c) ==
  IF c \in Range(HexDigits)
  THEN IF r.held # <<>> THEN Result(Append(r.output, Index(c) + Head(r.held)), <<>>, FALSE)
       ELSE [r EXCEPT !.held = State(Index(c))]
  ELSE IF c = " " THEN [r EXCEPT !.held = <<>>] ELSE r

(* miniterm: an incremental decoder (one two-byte character stands for all),  *)
(* and the transformations, the last one first.                              *)
DecodedByte(r, b) ==
  LET lead == r.held # <<>>
      bad == IF lead THEN <<"?">> ELSE <<>>
  IN IF b = "lead" THEN Result(r.output \o bad, <<b>>, FALSE)
     ELSE IF b = "cont" THEN Result(Append(r.output, IF lead THEN "wide" ELSE "?"), <<>>, FALSE)
     ELSE Result(r.output \o bad \o <<b>>, <<>>, FALSE)

NoTerminal(c) == IF c \in {"ctl", "del"} THEN <<"picture">> ELSE <<c>>
NoControls(c) == IF c \in {"ctl", "del", "cr", "lf", "sp"} THEN <<"picture">> ELSE <<c>>
Printable(c) == IF c = "ctl" THEN <<"picture">>
                ELSE IF c \in {"del", "wide", "?", "picture"} THEN <<"number", "sp">> ELSE <<c>>
CRrx(c) == IF c = "cr" THEN <<"lf">> ELSE <<c>>
Unchanged(c) == <<c>>
Transformation(name, c) ==
  CASE name = "default" -> NoTerminal(c) [] name = "nocontrol" -> NoControls(c)
    [] name = "printable" -> Printable(c) [] name = "cr" -> CRrx(c) [] OTHER -> Unchanged(c)
Transformed(name, text) == FlattenSeq([i \in DOMAIN text |-> Transformation(name, text[i])])
rx_transformations == Reverse(setup.chain)
Shown(text) ==
  LET shown[n \in 0..Len(setup.chain)] ==
        IF n = 0 THEN text ELSE Transformed(rx_transformations[n], shown[n - 1])
  IN shown[Len(setup.chain)]

(* read_until, one byte at a time.                                           *)
EndsLineAnywhere(line) ==  \* a mutation of EndsLine: only the last byte of the terminator is compared
  (line # <<>> /\ Last(line) = Last(setup.terminator)) \/ (setup.size # 0 /\ Len(line) >= setup.size)
EndsLine(line) ==
  \/ IsSuffix(setup.terminator, line)
  \/ setup.size # 0 /\ Len(line) >= setup.size
ReadByte(r, c) ==
  LET line == Append(r.held, c) IN
  IF EndsLine(line) THEN Result(Append(r.output, line), <<>>, FALSE) ELSE [r EXCEPT !.held = line]
-----------------------------------------------------------------------------
(* A chunk, byte by byte; the Packetizer has it in its buffer and its loop,   *)
(* that ends with the terminators, takes no more turns than there are bytes.  *)
Decoded(r, b) ==
  CASE setup.mode = "packets" -> Split(r)
    [] setup.mode = "framed" -> Framed(r, b)
    [] setup.mode = "hexlify" -> Hexlify(r, b)
    [] setup.mode = "terminal" -> DecodedByte(r, b)
    [] setup.mode = "read_until" -> ReadByte(r, b)
Run(r, data) ==
  LET run[n \in 0..Len(data)] == IF n = 0 THEN r ELSE Decoded(run[n - 1], data[n])
  IN run[Len(data)]

SplitOnce(data) ==  \* a mutation of Packetizer: the terminator is looked for in the new data
  LET r == Run(Result(<<>>, data, FALSE), data) IN
  IF r.output = <<>> THEN Result(<<>>, held \o data, FALSE)
  ELSE Result(<<held \o Head(r.output)>> \o Tail(r.output), r.held, FALSE)
Packetizer(data) == Run(Result(<<>>, held \o data, FALSE), held \o data)
ByteByByte(data) == Run(Result(<<>>, held, in_packet), data)
Received(data) ==
  CASE setup.mode = "packets" -> Packetizer(data)
    [] setup.mode = "terminal" -> [ByteByByte(data) EXCEPT !.output = Shown(@)]
    [] OTHER -> ByteByByte(data)

EncodeRaises(data) ==
  /\ setup.errors = "strict"
  /\ \E i \in DOMAIN data :
       \/ data[i] = " " /\ ByteByByte(SubSeq(data, 1, i - 1)).held # <<>>
       \/ data[i] \notin Range(HexDigits) \union {" "}

Pieces == UNION {[1..n -> setup.bytes] : n \in 1..MaxChunk}

(* A chunk; one that the strict encoder refuses changes nothing.             *)
ReceiveChunk(data) ==
  /\ Len(stream) + Len(data) <= MaxInput
  /\ setup.mode = "hexlify" => ~EncodeRaises(data)
  /\ stream' = stream \o data
  /\ LET r == Received(data) IN
       output' = output \o r.output /\ held' = r.held /\ in_packet' = r.in_packet
  /\ UNCHANGED <<setup, late>>

(* connection_lost, and the next connection of the same protocol object:      *)
(* FramedPacket starts afresh, Packetizer keeps what is in its buffer.        *)
ConnectionLost ==
  /\ setup.mode \in {"packets", "framed"}
  /\ output' = <<>> /\ in_packet' = FALSE
  /\ held' = IF setup.mode = "framed" THEN <<>> ELSE held
  /\ stream' = held'
  /\ UNCHANGED <<setup, late>>

(* No byte in time, or the time is over after a byte that ends nothing (one   *)
(* empty line stands for all).                                              *)
TimedOut(line) ==
  /\ output' = Append(output, line) /\ held' = <<>>
  /\ stream' = stream \o SubSeq(line, Len(held) + 1, Len(line)) /\ late' = late \union {Len(stream')}
  /\ UNCHANGED <<setup, in_packet>>
NoByte == setup.mode = "read_until" /\ (held # <<>> \/ output = <<>>) /\ TimedOut(held)
LateByte ==
  /\ setup.mode = "read_until" /\ Len(stream) < MaxInput
  /\ \E c \in setup.bytes : ~EndsLine(Append(held, c)) /\ TimedOut(Append(held, c))

FramingNext == (\E data \in Pieces : ReceiveChunk(data)) \/ ConnectionLost \/ NoByte \/ LateByte

FramingSpec == FramingInit /\ [][FramingNext]_framingVars
-----------------------------------------------------------------------------
(* References, over the whole stream at once.  p is made of the bytes of s    *)
(* at the positions S.                                                      *)
PlaceIn(S, i) == Cardinality({j \in S : j <= i})
Picked(p, s, S) == Len(p) = Cardinality(S) /\ \A i \in S : p[PlaceIn(S, i)] = s[i]

(* Packets with their terminators, and what is left, are the stream; there is *)
(* no other terminator.                                                     *)
Terminated(packet) == packet \o setup.terminator
Packets(s) ==
  /\ FlattenSeq([k \in DOMAIN output |-> Terminated(output[k])]) \o held = s
  /\ \A i \in DOMAIN held : ~TerminatedAt(held, i)
  /\ \A k \in DOMAIN output : \A i \in 1..Len(output[k]) : ~TerminatedAt(Terminated(output[k]), i)

(* Before i, what comes after a start with no stop between.                  *)
Stops(s) == {i \in DOMAIN s : s[i] = ")"}
Inside(s, i) == {j \in 1..(i - 1) : /\ s[j] # "("
                                   /\ \E start \in 1..j : /\ s[start] = "("
                                                          /\ \A k \in start..(i - 1) : s[k] # ")"}
FramedPackets(s) ==
  /\ Len(output) = Cardinality(Stops(s))
  /\ \A i \in Stops(s) : Picked(output[PlaceIn(Stops(s), i)], s, Inside(s, i))

(* Every second digit since the last space ends a byte.                      *)
Digits(s) == {i \in DOMAIN s : s[i] \in Range(HexDigits)}
Word(s, i) == {j \in Digits(s) : j <= i /\ \A k \in j..i : s[k] # " "}
ByteEnds(s) == {i \in Digits(s) : Cardinality(Word(s, i)) % 2 = 0}
HexBytes(s) ==
  /\ Len(output) = Cardinality(ByteEnds(s))
  /\ \A i \in ByteEnds(s) :
       output[PlaceIn(ByteEnds(s), i)] = 16 * Index(s[Max(Word(s, i) \ {i})]) + Index(s[i])

(* Each byte by its neighbours; then all of the text through the chain.       *)
CharAt(s, i) ==
  CASE s[i] = "lead" -> IF i = Len(s) THEN <<>> ELSE IF s[i + 1] = "cont" THEN <<"wide">> ELSE <<"?">>
    [] s[i] = "cont" -> IF i > 1 /\ s[i - 1] = "lead" THEN <<>> ELSE <<"?">>
    [] OTHER -> <<s[i]>>
Text(s) == FlattenSeq([i \in DOMAIN s |-> CharAt(s, i)])

(* However the stream is cut into chunks, the packets, bytes and text are     *)
(* those of the stream; after a lost connection, those of what came since     *)
(* (and of what Packetizer has kept).                                       *)
ChunksDoNotMatter ==
  /\ setup.mode = "packets" => Packets(stream)
  /\ setup.mode = "framed" => FramedPackets(stream)
  /\ setup.mode = "hexlify" => HexBytes(stream)
  /\ setup.mode = "terminal" => output = Shown(Text(stream))

(* The lines of read_until are the stream, nothing left out; each ends where  *)
(* the terminator first appears in it, or where it has size bytes, or with a  *)
(* timeout, and nowhere else.                                               *)
LinesAreTheStream ==
  setup.mode = "read_until" =>
    /\ FlattenSeq(output) \o held = stream
    /\ ~EndsLine(held)
    /\ \A k \in DOMAIN output :
         /\ \A n \in 1..(Len(output[k]) - 1) : ~IsSuffix(setup.terminator, SubSeq(output[k], 1, n))
         /\ setup.size # 0 => Len(output[k]) <= setup.size
         /\ \/ Len(FlattenSeq(SubSeq(output, 1, k))) \in late
            \/ IsSuffix(setup.terminator, output[k])
            \/ Len(output[k]) = setup.size
=============================================================================

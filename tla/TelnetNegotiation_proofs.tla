----------------------- MODULE TelnetNegotiation_proofs -----------------------
(***************************************************************************)
(* Proofs about TelnetNegotiation for every table of options, every set of  *)
(* servers and every number of switches.                                   *)
(***************************************************************************)
EXTENDS TelnetNegotiation, TLAPS

LEMMA OtherPeer ==
  \A p \in Peers : Other(p) \in Peers /\ Other(p) # p /\ Other(Other(p)) = p
  BY DEF Peers, Other

LEMMA CurrentIsLink ==
  ASSUME NEW p \in Peers, next \in [Peers -> Nat], next[p] < Len(Order[p])
  PROVE  Current(p) \in Links
<1>1. Order[p] \in Seq(Links)
  BY TablesAssumption
<1>2. next[p] + 1 \in 1 .. Len(Order[p])
  BY <1>1
<1> QED
  BY <1>1, <1>2 DEF Current

LEMMA TypedInit == Init => TypeOK
<1> SUFFICES ASSUME Init PROVE TypeOK
  OBVIOUS
<1>1. Types
  <2>1. state \in [Peers -> [Links -> OptionStates]]
    BY TablesAssumption DEF Init, Peers, OptionStates
  <2>2. chan \in [Peers -> Seq(Messages)]
    BY DEF Init
  <2>3. /\ active \in [Peers -> [Links -> BOOLEAN]]
        /\ next \in [Peers -> Nat]
        /\ asking \in [Peers -> BOOLEAN]
        /\ settling \in [Peers -> Links \cup {NoLink}]
    BY DEF Init
  <2>4. /\ openPc \in OpenSteps
        /\ seen \in [activeB : BOOLEAN, activeR : BOOLEAN, stateB : BOOLEAN]
        /\ clientOk \in BOOLEAN
        /\ toggles \in Nat
    BY DEF Init, OpenSteps
  <2> QED
    BY <2>1, <2>2, <2>3, <2>4 DEF Types
<1>2. LoopOK
  <2>1. \A p \in Peers : Len(Order[p]) \in Nat
    BY TablesAssumption
  <2> QED
    BY <2>1 DEF Init, LoopOK
<1> QED
  BY <1>1, <1>2 DEF TypeOK

(* The channels keep their type whatever valid message is appended. *)
LEMMA ChannelTypes ==
  ASSUME Types, NEW p \in Peers, NEW l \in Links, NEW yes \in BOOLEAN
  PROVE  /\ [chan EXCEPT ![p] = Append(@, Message(l, yes))] \in [Peers -> Seq(Messages)]
         /\ chan[p] # <<>> =>
              /\ Head(chan[p]) \in Messages
              /\ Tail(chan[p]) \in Seq(Messages)
              /\ [chan EXCEPT ![p] = Tail(@)] \in [Peers -> Seq(Messages)]
              /\ [chan EXCEPT ![p] = Tail(@), ![Other(p)] = Append(@, Message(l, yes))]
                   \in [Peers -> Seq(Messages)]
<1>1. Message(l, yes) \in Messages
  BY DEF Message, Messages
<1>2. chan[p] \in Seq(Messages) /\ chan[Other(p)] \in Seq(Messages)
  BY OtherPeer DEF Types
<1>3. chan[p] # <<>> => Head(chan[p]) \in Messages /\ Tail(chan[p]) \in Seq(Messages)
  BY <1>2
<1>4. /\ Append(chan[p], Message(l, yes)) \in Seq(Messages)
      /\ Append(chan[Other(p)], Message(l, yes)) \in Seq(Messages)
  BY <1>1, <1>2
<1> QED
  BY <1>3, <1>4, OtherPeer DEF Types

LEMMA TypedNext == TypeOK /\ [Next]_vars => TypeOK'
<1> SUFFICES ASSUME TypeOK, [Next]_vars PROVE TypeOK'
  OBVIOUS
<1> USE DEF TypeOK
<1>0. \A p \in Peers : Len(Order[p]) \in Nat
  BY TablesAssumption
<1>1. ASSUME NEW p \in Peers, ConsiderOption(p) PROVE TypeOK'
  <2>1. \/ next' = [next EXCEPT ![p] = @ + 1] /\ asking' = asking
        \/ asking' = [asking EXCEPT ![p] = TRUE] /\ next' = next
    BY <1>1 DEF ConsiderOption
  <2>2. next[p] < Len(Order[p]) /\ Len(Order[p]) \in Nat /\ next[p] \in Nat
    BY <1>0, <1>1 DEF ConsiderOption, StartupDone, Types, LoopOK
  <2>3. next \in [Peers -> Nat] /\ asking \in [Peers -> BOOLEAN] /\ ~asking[p]
    BY <1>1 DEF ConsiderOption, Types
  <2>4. next' \in [Peers -> Nat] /\ asking' \in [Peers -> BOOLEAN]
    <3>1. [next EXCEPT ![p] = @ + 1] \in [Peers -> Nat]
      BY <2>2, <2>3
    <3>2. [asking EXCEPT ![p] = TRUE] \in [Peers -> BOOLEAN]
      BY <2>3
    <3> QED
      BY <2>1, <2>3, <3>1, <3>2
  <2>5. LoopOK'
    BY <1>0, <2>1, <2>2, <2>3 DEF LoopOK
  <2> QED
    BY <1>1, <2>4, <2>5 DEF ConsiderOption, Types
<1>2. ASSUME NEW p \in Peers, SendRequest(p) PROVE TypeOK'
  <2>1. Current(p) \in Links
    BY <1>2, CurrentIsLink DEF SendRequest, LoopOK, Types
  <2>2. chan' \in [Peers -> Seq(Messages)]
    BY <1>2, <2>1, OtherPeer, ChannelTypes DEF SendRequest
  <2>3. next[p] < Len(Order[p]) /\ Len(Order[p]) \in Nat /\ next[p] \in Nat
    BY <1>0, <1>2 DEF SendRequest, Types, LoopOK
  <2>4. LoopOK'
    BY <1>0, <1>2, <2>3 DEF SendRequest, Types, LoopOK
  <2>5. /\ next' \in [Peers -> Nat]
        /\ asking' \in [Peers -> BOOLEAN]
    BY <1>2 DEF SendRequest, Types
  <2> QED
    BY <1>2, <2>2, <2>4, <2>5 DEF SendRequest, Types
<1>3. ASSUME NEW p \in Peers, Receive(p) PROVE TypeOK'
  <2> DEFINE l == Head(chan[p]).link
             yes == Head(chan[p]).yes
  <2>1. l \in Links /\ yes \in BOOLEAN /\ chan[p] # <<>>
    <3>1. chan[p] # <<>>
      BY <1>3 DEF Receive, Listening
    <3>2. chan[p] \in Seq(Messages)
      BY DEF Types
    <3>3. Head(chan[p]) \in Messages
      BY <3>1, <3>2
    <3> QED
      BY <3>1, <3>3 DEF Messages
  <2> HIDE DEF l, yes
  <2>2. Consume(p) => chan' \in [Peers -> Seq(Messages)]
    BY <2>1, ChannelTypes DEF Consume
  <2>3. ASSUME NEW b \in BOOLEAN, ConsumeAndReply(p, l, b)
        PROVE  chan' \in [Peers -> Seq(Messages)]
    BY <2>1, <2>3, ChannelTypes DEF ConsumeAndReply
  <2>4. ASSUME NEW s \in OptionStates, Move(p, l, s)
        PROVE  /\ state' \in [Peers -> [Links -> OptionStates]]
               /\ settling' \in [Peers -> Links \cup {NoLink}]
    BY <2>1, <2>4 DEF Move, Types
  <2>5. CASE Accept(p, l, yes)
    BY <2>1, <2>2, <2>3, <2>4, <2>5 DEF Accept, OptionStates, Types, LoopOK
  <2>6. CASE Drop(p, l, yes)
    BY <2>1, <2>2, <2>3, <2>4, <2>6 DEF Drop, OptionStates, InitialStates, Types, LoopOK
  <2>7. CASE Refuse(p, l, yes)
    BY <2>1, <2>3, <2>7 DEF Refuse, Types, LoopOK
  <2>8. CASE Ignore(p, l, yes)
    BY <2>1, <2>2, <2>8 DEF Ignore, Types, LoopOK
  <2> QED
    BY <1>3, <2>5, <2>6, <2>7, <2>8 DEF Receive, l, yes
<1>4. ASSUME NEW p \in Peers, Settle(p) PROVE TypeOK'
  BY <1>4 DEF Settle, Types, LoopOK
<1>5. CASE PollMandatory
  <2>1. CASE ReadActive("activeB", WeBinary, "activeR")
    BY <2>1, LinksAssumption DEF ReadActive, Types, LoopOK, OpenSteps, Peers
  <2>2. CASE ReadActive("activeR", WeRfc2217, "stateB")
    BY <2>2, LinksAssumption DEF ReadActive, Types, LoopOK, OpenSteps, Peers
  <2>3. CASE StartPolling \/ ReadBinaryState \/ CompareSums
    BY <2>3 DEF StartPolling, ReadBinaryState, CompareSums, Types, LoopOK, OpenSteps
  <2> QED
    BY <1>5, <2>1, <2>2, <2>3 DEF PollMandatory
<1>6. CASE GiveUp
  BY <1>6 DEF GiveUp, Types, LoopOK, OpenSteps
<1>7. ASSUME NEW l \in Togglable, Switch(l) PROVE TypeOK'
  <2>1. l \in Links /\ "client" \in Peers /\ "server" \in Peers
    BY LinksAssumption DEF Peers
  <2>2. CASE SwitchOn(l)
    <3>1. chan' \in [Peers -> Seq(Messages)]
      BY <2>1, <2>2, ChannelTypes DEF SwitchOn
    <3>2. state' \in [Peers -> [Links -> OptionStates]]
      BY <2>1, <2>2 DEF SwitchOn, Types, OptionStates, InitialStates
    <3>3. active' = active
      BY <2>2 DEF SwitchOn
    <3>4. toggles' \in Nat
      BY <1>7 DEF Switch, Types
    <3> QED
      BY <1>7, <3>1, <3>2, <3>3, <3>4 DEF Switch, Types, LoopOK
  <2>3. CASE SwitchOff(l)
    <3>1. chan' \in [Peers -> Seq(Messages)]
      BY <2>1, <2>3, ChannelTypes DEF SwitchOff
    <3>2. state' \in [Peers -> [Links -> OptionStates]]
      BY <2>1, <2>3 DEF SwitchOff, Types, OptionStates, InitialStates
    <3>3. active' \in [Peers -> [Links -> BOOLEAN]]
      BY <2>1, <2>3 DEF SwitchOff, Types
    <3> QED
      BY <1>7, <3>1, <3>2, <3>3 DEF Switch, Types, LoopOK
  <2> QED
    BY <1>7, <2>2, <2>3 DEF Switch
<1>8. CASE UNCHANGED vars
  BY <1>8 DEF vars, Types, LoopOK
<1> QED
  BY <1>1, <1>2, <1>3, <1>4, <1>5, <1>6, <1>7, <1>8 DEF Next, Startup, ReaderStep

(* Every variable keeps its type in every execution, and the startup loops  *)
(* of both ends stay within their option lists.                             *)
THEOREM TypeCorrect == Spec => []TypeOK
  BY TypedInit, TypedNext, PTL DEF Spec
-----------------------------------------------------------------------------
(* A peer that will never have the option: process_incoming leaves an       *)
(* object in REALLY_INACTIVE there, and no message creates an object.       *)
Refuses(p, l) == state[p][l] \in {"ABSENT", "REALLY_INACTIVE"}

(* What a positive command of p on its way says of p: it has the option,    *)
(* and still agrees unless the partner is one that refuses.                 *)
Speaks(p, l) == ~Refuses(p, l) /\ (Refuses(Other(p), l) \/ Agrees(p, l))

(* What a message sent by p says of p. *)
Claim(p, m) ==
  m.link \notin Togglable =>
    IF m.yes THEN Speaks(p, m.link) ELSE Refuses(p, m.link)

ClaimsHold ==
  \A p \in Peers : \A i \in 1 .. Len(chan[p]) : Claim(Other(p), chan[p][i])

AskingHolds ==
  \A p \in Peers :
    asking[p] /\ Current(p) \notin Togglable => Speaks(p, Current(p))

(* NeverOneSided is inductive together with what the messages still on      *)
(* their way, and the request about to be sent, promise of their sender.    *)
NegotiationInv == TypeOK /\ ClaimsHold /\ AskingHolds /\ NeverOneSided

(* How a step may change the options no user switches: who refuses goes on  *)
(* refusing, who agrees goes on agreeing unless its partner refuses.        *)
Monotone ==
  \A p \in Peers, l \in Links \ Togglable :
    /\ Refuses(p, l)' <=> Refuses(p, l)
    /\ Agrees(p, l) /\ ~Refuses(Other(p), l) => Agrees(p, l)'

LEMMA AppendElements ==
  ASSUME NEW S, NEW s \in Seq(S), NEW m \in S
  PROVE  \A i \in 1 .. Len(Append(s, m)) :
           \/ Append(s, m)[i] = m
           \/ \E j \in 1 .. Len(s) : Append(s, m)[i] = s[j]
<1> TAKE i \in 1 .. Len(Append(s, m))
<1>1. CASE i = Len(s) + 1
  BY <1>1
<1>2. CASE i # Len(s) + 1
  <2>1. i \in 1 .. Len(s)
    BY <1>2
  <2> QED
    BY <2>1
<1> QED
  BY <1>1, <1>2

LEMMA TailElements ==
  ASSUME NEW S, NEW s \in Seq(S), s # <<>>
  PROVE  /\ \A i \in 1 .. Len(Tail(s)) : \E j \in 1 .. Len(s) : Tail(s)[i] = s[j]
         /\ 1 \in 1 .. Len(s)
         /\ Head(s) = s[1]
<1>1. \A i \in 1 .. Len(Tail(s)) : i + 1 \in 1 .. Len(s) /\ Tail(s)[i] = s[i + 1]
  OBVIOUS
<1> QED
  BY <1>1

(* Claims survive a monotone step, and so does the whole of ClaimsHold when *)
(* every message on its way was there before or is true of its sender now.  *)
LEMMA ClaimsKept ==
  ASSUME Types, Types', Monotone, ClaimsHold,
         \A p \in Peers : \A i \in 1 .. Len(chan'[p]) :
           \/ \E j \in 1 .. Len(chan[p]) : chan'[p][i] = chan[p][j]
           \/ \E m \in Messages : chan'[p][i] = m /\ Claim(Other(p), m)'
  PROVE  ClaimsHold'
<1>1. ASSUME NEW p \in Peers, NEW m \in Messages, Claim(p, m)
      PROVE  Claim(p, m)'
  <2>1. Other(p) \in Peers /\ m.link \in Links
    BY OtherPeer DEF Messages
  <2> QED
    BY <1>1, <2>1 DEF Claim, Speaks, Monotone
<1>2. ASSUME NEW p \in Peers, NEW i \in 1 .. Len(chan'[p])
      PROVE  \E m \in Messages : chan'[p][i] = m /\ Claim(Other(p), m)'
  <2>1. CASE \E j \in 1 .. Len(chan[p]) : chan'[p][i] = chan[p][j]
    <3>1. PICK j \in 1 .. Len(chan[p]) : chan'[p][i] = chan[p][j]
      BY <2>1
    <3>2. chan[p] \in Seq(Messages)
      BY DEF Types
    <3>3. PICK m \in Messages : m = chan[p][j]
      BY <3>2
    <3>4. Claim(Other(p), m)
      BY <3>3 DEF ClaimsHold
    <3> QED
      BY <1>1, <3>1, <3>3, <3>4, OtherPeer
  <2> QED
    BY <2>1
<1>3. ASSUME NEW p \in Peers, NEW i \in 1 .. Len(chan'[p])
      PROVE  Claim(Other(p), chan[p][i])'
  <2>1. PICK m \in Messages : chan'[p][i] = m /\ Claim(Other(p), m)'
    BY <1>2
  <2> QED
    BY <2>1 DEF Claim, Speaks, Refuses, Agrees
<1> QED
  BY <1>3 DEF ClaimsHold

LEMMA SpeaksKept ==
  ASSUME Monotone, NEW p \in Peers, NEW l \in Links \ Togglable, Speaks(p, l)
  PROVE  Speaks(p, l)'
  BY OtherPeer DEF Monotone, Speaks

(* A step of the parser: what remains of the channels, and the answer. *)
LEMMA ConsumedMessages ==
  ASSUME Types, NEW p \in Peers, NEW l \in Links, NEW yes \in BOOLEAN,
         chan[p] # <<>>,
         \/ Consume(p)
         \/ ConsumeAndReply(p, l, yes) /\ Claim(p, Message(l, yes))'
  PROVE  \A q \in Peers : \A i \in 1 .. Len(chan'[q]) :
           \/ \E j \in 1 .. Len(chan[q]) : chan'[q][i] = chan[q][j]
           \/ \E m \in Messages : chan'[q][i] = m /\ Claim(Other(q), m)'
<1> TAKE q \in Peers
<1> TAKE i \in 1 .. Len(chan'[q])
<1>1. chan[p] \in Seq(Messages) /\ chan[q] \in Seq(Messages) /\ Message(l, yes) \in Messages
  BY DEF Types, Message, Messages
<1>2. CASE q = p
  <2>1. chan'[q] = Tail(chan[q])
    BY <1>2, OtherPeer DEF Types, Consume, ConsumeAndReply
  <2> QED
    BY <1>1, <1>2, <2>1, TailElements
<1>3. CASE q # p
  <2>1. q = Other(p) /\ Other(q) = p
    BY <1>3 DEF Peers, Other
  <2>2. CASE Consume(p)
    <3>1. chan'[q] = chan[q]
      BY <1>3, <2>2 DEF Types, Consume
    <3> QED
      BY <3>1
  <2>3. CASE ConsumeAndReply(p, l, yes) /\ Claim(p, Message(l, yes))'
    <3>1. chan'[q] = Append(chan[q], Message(l, yes))
      BY <1>3, <2>1, <2>3 DEF Types, ConsumeAndReply
    <3>2. \/ chan'[q][i] = Message(l, yes)
          \/ \E j \in 1 .. Len(chan[q]) : chan'[q][i] = chan[q][j]
      BY <1>1, <3>1, AppendElements
    <3>3. PICK m \in Messages : m = Message(l, yes)
      BY <1>1
    <3>4. Claim(Other(q), m)'
      BY <2>1, <2>3, <3>3 DEF Claim, Message
    <3> QED
      BY <3>2, <3>3, <3>4
  <2> QED
    BY <2>2, <2>3
<1> QED
  BY <1>2, <1>3

LEMMA InvInit == Init => NegotiationInv
<1> SUFFICES ASSUME Init PROVE NegotiationInv
  OBVIOUS
<1>1. TypeOK
  BY TypedInit
<1>2. ClaimsHold /\ AskingHolds
  BY DEF Init, ClaimsHold, AskingHolds
<1>3. NeverOneSided
  <2>1. \A p \in Peers, l \in Links : state[p][l] # "ACTIVE"
    BY TablesAssumption DEF Init, InitialStates, Peers
  <2> QED
    BY <2>1 DEF NeverOneSided
<1> QED
  BY <1>1, <1>2, <1>3 DEF NegotiationInv

(* A step that leaves the options and the channels alone. *)
LEMMA InvFrame ==
  ASSUME NegotiationInv, TypeOK', UNCHANGED <<state, chan, asking, next>>
  PROVE  NegotiationInv'
<1>1. \A p \in Peers : Current(p)' = Current(p)
  BY DEF Current
<1>2. \A p, l : Speaks(p, l)' <=> Speaks(p, l)
  BY DEF Speaks, Refuses, Agrees
<1>3. ClaimsHold'
  BY DEF NegotiationInv, ClaimsHold, Claim, Speaks, Refuses, Agrees
<1>4. AskingHolds'
  BY <1>1, <1>2 DEF NegotiationInv, AskingHolds
<1>5. NeverOneSided'
  BY DEF NegotiationInv, NeverOneSided, Agrees
<1> QED
  BY <1>3, <1>4, <1>5 DEF NegotiationInv

(* A step of the parser is monotone where no user switches: an option is    *)
(* only dropped because its partner refuses it.                             *)
LEMMA ReceiveMonotone ==
  ASSUME NegotiationInv, NEW p \in Peers, Receive(p)
  PROVE  /\ Monotone
         /\ NeverOneSided'
         /\ \A q \in Peers : \A i \in 1 .. Len(chan'[q]) :
              \/ \E j \in 1 .. Len(chan[q]) : chan'[q][i] = chan[q][j]
              \/ \E m \in Messages : chan'[q][i] = m /\ Claim(Other(q), m)'
<1>0. Types /\ chan[p] # <<>> /\ chan[p] \in Seq(Messages)
  BY DEF NegotiationInv, TypeOK, Types, Receive, Listening
<1>1. PICK l \in Links, yes \in BOOLEAN : Head(chan[p]).link = l /\ Head(chan[p]).yes = yes
  <2>1. Head(chan[p]) \in Messages
    BY <1>0
  <2> QED
    BY <2>1 DEF Messages
<1>2. l \notin Togglable => IF yes THEN Speaks(Other(p), l) ELSE Refuses(Other(p), l)
  <2>1. Claim(Other(p), Head(chan[p]))
    BY <1>0, TailElements DEF NegotiationInv, ClaimsHold
  <2> QED
    BY <1>1, <2>1 DEF Claim
<1>3. state \in [Peers -> [Links -> OptionStates]]
  BY <1>0 DEF Types
<1>4. ASSUME state' = state
      PROVE  Monotone /\ NeverOneSided'
  BY <1>4 DEF NegotiationInv, Monotone, NeverOneSided, Refuses, Agrees
<1>5. CASE Accept(p, l, yes)
  <2>1. /\ yes
        /\ state[p][l] \in {"REQUESTED", "INACTIVE"}
        /\ state' = [state EXCEPT ![p][l] = "ACTIVE"]
        /\ Consume(p) \/ ConsumeAndReply(p, l, TRUE)
    BY <1>5 DEF Accept, Move
  <2>2. state'[p][l] = "ACTIVE"
    BY <1>1, <1>3, <2>1
  <2>3. \A q \in Peers, k \in Links : q # p \/ k # l => state'[q][k] = state[q][k]
    BY <1>1, <1>3, <2>1
  <2>4. Monotone
    BY <2>1, <2>2, <2>3, OtherPeer DEF Monotone, Refuses, Agrees
  <2>5. NeverOneSided'
    <3>1. l \notin Togglable => Agrees(Other(p), l)
      BY <1>2, <2>1, OtherPeer DEF Speaks, Refuses
    <3>2. \A q \in Peers, k \in Links : Agrees(q, k) => Agrees(q, k)'
      BY <2>2, <2>3 DEF Agrees
    <3> QED
      BY <2>3, <3>1, <3>2, OtherPeer DEF NegotiationInv, NeverOneSided
  <2>6. Claim(p, Message(l, TRUE))'
    BY <2>2 DEF Claim, Message, Speaks, Refuses, Agrees
  <2> QED
    BY <1>0, <1>1, <2>1, <2>4, <2>5, <2>6, ConsumedMessages
<1>6. CASE Drop(p, l, yes)
  <2>1. /\ ~yes
        /\ state[p][l] \in {"REQUESTED", "ACTIVE"}
        /\ state' = [state EXCEPT ![p][l] = "INACTIVE"]
        /\ IF AnswersNo(state[p][l]) THEN ConsumeAndReply(p, l, FALSE) ELSE Consume(p)
    BY <1>6 DEF Drop, Move
  <2>2. state'[p][l] = "INACTIVE"
    BY <1>1, <1>3, <2>1
  <2>3. \A q \in Peers, k \in Links : q # p \/ k # l => state'[q][k] = state[q][k]
    BY <1>1, <1>3, <2>1
  <2>4. l \notin Togglable => Refuses(Other(p), l) /\ state[p][l] = "REQUESTED"
    BY <1>1, <1>2, <2>1, OtherPeer DEF NegotiationInv, NeverOneSided, Refuses, Agrees
  <2>5. Monotone
    BY <2>1, <2>2, <2>3, <2>4, OtherPeer DEF Monotone, Refuses, Agrees
  <2>6. NeverOneSided'
    <3>1. \A q \in Peers, k \in Links \ Togglable : state'[q][k] = "ACTIVE" => state[q][k] = "ACTIVE"
      BY <2>2, <2>3
    <3>2. l \notin Togglable => state[Other(p)][l] # "ACTIVE"
      BY <2>4 DEF Refuses
    <3>3. \A q \in Peers, k \in Links : q # p \/ k # l => (Agrees(q, k)' <=> Agrees(q, k))
      BY <2>3 DEF Agrees
    <3> QED
      BY <2>2, <3>1, <3>2, <3>3, OtherPeer DEF NegotiationInv, NeverOneSided
  <2>7. CASE l \in Togglable
    <3>1. Claim(p, Message(l, FALSE))'
      BY <2>7 DEF Claim, Message
    <3> QED
      BY <1>0, <1>1, <2>1, <2>5, <2>6, <3>1, ConsumedMessages
  <2>8. CASE l \notin Togglable
    <3>1. Consume(p)
      BY <2>1, <2>4, <2>8 DEF AnswersNo
    <3> QED
      BY <1>0, <1>1, <2>5, <2>6, <3>1, ConsumedMessages
  <2> QED
    BY <2>7, <2>8
<1>7. CASE Refuse(p, l, yes)
  <2>1. /\ state' = state
        /\ ConsumeAndReply(p, l, FALSE)
        /\ state[p][l] = "REALLY_INACTIVE" \/ ~KnowsCode(p, l)
    BY <1>7 DEF Refuse
  <2>2. Refuses(p, l)
    BY <1>1, <2>1 DEF Refuses, KnowsCode
  <2>3. Claim(p, Message(l, FALSE))'
    BY <2>1, <2>2 DEF Claim, Message, Refuses
  <2> QED
    BY <1>0, <1>1, <1>4, <2>1, <2>3, ConsumedMessages
<1>8. CASE Ignore(p, l, yes)
  <2>1. state' = state /\ Consume(p)
    BY <1>8 DEF Ignore
  <2> QED
    BY <1>0, <1>1, <1>4, <2>1, ConsumedMessages
<1> QED
  BY <1>1, <1>5, <1>6, <1>7, <1>8 DEF Receive

LEMMA InvNext == NegotiationInv /\ [Next]_vars => NegotiationInv'
<1> SUFFICES ASSUME NegotiationInv, [Next]_vars PROVE NegotiationInv'
  OBVIOUS
<1>0. TypeOK /\ TypeOK' /\ Types /\ Types'
  BY TypedNext DEF NegotiationInv, TypeOK
<1>1. ASSUME NEW p \in Peers, ConsiderOption(p) PROVE NegotiationInv'
  <2>1. UNCHANGED <<state, chan>>
    BY <1>1 DEF ConsiderOption
  <2>2. ClaimsHold'
    BY <2>1 DEF NegotiationInv, ClaimsHold, Claim, Speaks, Refuses, Agrees
  <2>3. NeverOneSided'
    BY <2>1 DEF NegotiationInv, NeverOneSided, Agrees
  <2>4. ASSUME NEW q \in Peers, asking'[q]
        PROVE  /\ next'[q] = next[q]
               /\ asking[q] \/ state[q][Current(q)] = "REQUESTED"
    BY <1>0, <1>1, <2>4 DEF ConsiderOption, Types
  <2>5. AskingHolds'
    <3> SUFFICES ASSUME NEW q \in Peers, asking'[q], Current(q)' \notin Togglable
                 PROVE  Speaks(q, Current(q))'
      BY DEF AskingHolds
    <3>1. Current(q)' = Current(q)
      BY <2>4 DEF Current
    <3>2. Speaks(q, Current(q))
      BY <2>4, <3>1 DEF NegotiationInv, AskingHolds, Speaks, Refuses, Agrees
    <3> QED
      BY <2>1, <3>1, <3>2 DEF Speaks, Refuses, Agrees
  <2> QED
    BY <1>0, <2>2, <2>3, <2>5 DEF NegotiationInv
<1>2. ASSUME NEW p \in Peers, SendRequest(p) PROVE NegotiationInv'
  <2>1. /\ state' = state
        /\ asking[p]
        /\ asking' = [asking EXCEPT ![p] = FALSE]
        /\ next' = [next EXCEPT ![p] = @ + 1]
        /\ chan' = [chan EXCEPT ![Other(p)] = Append(@, Message(Current(p), TRUE))]
    BY <1>2 DEF SendRequest
  <2>2. Current(p) \in Links
    BY <1>0, <2>1, CurrentIsLink DEF TypeOK, LoopOK, Types
  <2>3. PICK m \in Messages : m = Message(Current(p), TRUE)
    BY <2>2 DEF Message, Messages
  <2>4. Claim(p, m)'
    <3>1. Claim(p, m)
      BY <2>1, <2>3 DEF NegotiationInv, AskingHolds, Claim, Message
    <3> QED
      BY <2>1, <3>1 DEF Claim, Speaks, Refuses, Agrees
  <2>5. Monotone /\ NeverOneSided'
    BY <2>1 DEF NegotiationInv, Monotone, NeverOneSided, Refuses, Agrees
  <2>6. ASSUME NEW q \in Peers, NEW i \in 1 .. Len(chan'[q])
        PROVE  \/ \E j \in 1 .. Len(chan[q]) : chan'[q][i] = chan[q][j]
               \/ \E n \in Messages : chan'[q][i] = n /\ Claim(Other(q), n)'
    <3>1. CASE q = Other(p)
      <4>1. chan[q] \in Seq(Messages) /\ chan'[q] = Append(chan[q], m) /\ Other(q) = p
        BY <1>0, <2>1, <2>3, <3>1, OtherPeer DEF Types
      <4>2. chan'[q][i] = m \/ \E j \in 1 .. Len(chan[q]) : chan'[q][i] = chan[q][j]
        BY <4>1, AppendElements
      <4> QED
        BY <2>4, <4>1, <4>2
    <3>2. CASE q # Other(p)
      <4>1. chan'[q] = chan[q]
        BY <1>0, <2>1, <3>2 DEF Types
      <4> QED
        BY <4>1
    <3> QED
      BY <3>1, <3>2
  <2>7. ClaimsHold'
    BY <1>0, <2>5, <2>6, ClaimsKept DEF NegotiationInv
  <2>8. AskingHolds'
    <3> SUFFICES ASSUME NEW q \in Peers, asking'[q], Current(q)' \notin Togglable
                 PROVE  Speaks(q, Current(q))'
      BY DEF AskingHolds
    <3>1. q # p /\ asking[q] /\ next'[q] = next[q]
      BY <1>0, <2>1 DEF Types
    <3>2. Current(q)' = Current(q)
      BY <3>1 DEF Current
    <3>3. Speaks(q, Current(q))
      BY <3>1, <3>2 DEF NegotiationInv, AskingHolds
    <3> QED
      BY <2>1, <3>2, <3>3 DEF Speaks, Refuses, Agrees
  <2> QED
    BY <1>0, <2>5, <2>7, <2>8 DEF NegotiationInv
<1>3. ASSUME NEW p \in Peers, Receive(p) PROVE NegotiationInv'
  <2>1. Monotone /\ NeverOneSided'
    BY <1>3, ReceiveMonotone
  <2>2. ClaimsHold'
    BY <1>0, <1>3, <2>1, ReceiveMonotone, ClaimsKept DEF NegotiationInv
  <2>3. UNCHANGED <<next, asking>>
    BY <1>3 DEF Receive, Accept, Drop, Refuse, Ignore
  <2>4. AskingHolds'
    <3> SUFFICES ASSUME NEW q \in Peers, asking'[q], Current(q)' \notin Togglable
                 PROVE  Speaks(q, Current(q))'
      BY DEF AskingHolds
    <3>1. asking[q] /\ Current(q)' = Current(q)
      BY <2>3 DEF Current
    <3>2. PICK k \in Links : k = Current(q)
      BY <1>0, <3>1, CurrentIsLink DEF TypeOK, LoopOK, Types
    <3>3. Speaks(q, k) /\ k \notin Togglable
      BY <3>1, <3>2 DEF NegotiationInv, AskingHolds
    <3>4. Speaks(q, k)'
      BY <2>1, <3>3, SpeaksKept
    <3> QED
      BY <3>1, <3>2, <3>4
  <2> QED
    BY <1>0, <2>1, <2>2, <2>4 DEF NegotiationInv
<1>4. ASSUME NEW p \in Peers, Settle(p) PROVE NegotiationInv'
  BY <1>0, <1>4, InvFrame DEF Settle
<1>5. CASE PollMandatory
  BY <1>0, <1>5, InvFrame
     DEF PollMandatory, StartPolling, ReadActive, ReadBinaryState, CompareSums
<1>6. CASE GiveUp
  BY <1>0, <1>6, InvFrame DEF GiveUp
<1>7. ASSUME NEW l \in Togglable, Switch(l) PROVE NegotiationInv'
  <2>1. l \in Links /\ "client" \in Peers /\ "server" \in Peers
    BY LinksAssumption DEF Peers
  <2>2. \A q \in Peers, k \in Links \ Togglable : state'[q][k] = state[q][k]
    <3>1. CASE SwitchOn(l)
      BY <1>0, <2>1, <3>1 DEF SwitchOn, Types
    <3>2. CASE SwitchOff(l)
      BY <1>0, <2>1, <3>2 DEF SwitchOff, Types
    <3> QED
      BY <1>7, <3>1, <3>2 DEF Switch
  <2>3. Monotone /\ NeverOneSided'
    BY <2>2, OtherPeer DEF NegotiationInv, Monotone, NeverOneSided, Refuses, Agrees
  <2>4. PICK m \in Messages : chan' = [chan EXCEPT !["client"] = Append(@, m)] /\ m.link = l
    <3>1. /\ Message(l, TRUE) \in Messages /\ Message(l, TRUE).link = l
          /\ Message(l, FALSE) \in Messages /\ Message(l, FALSE).link = l
      BY <2>1 DEF Message, Messages
    <3>2. \/ chan' = [chan EXCEPT !["client"] = Append(@, Message(l, TRUE))]
          \/ chan' = [chan EXCEPT !["client"] = Append(@, Message(l, FALSE))]
      BY <1>7 DEF Switch, SwitchOn, SwitchOff
    <3> QED
      BY <3>1, <3>2
  <2>5. \A q \in Peers : Claim(q, m)'
    BY <2>4 DEF Claim
  <2>6. ASSUME NEW q \in Peers, NEW i \in 1 .. Len(chan'[q])
        PROVE  \/ \E j \in 1 .. Len(chan[q]) : chan'[q][i] = chan[q][j]
               \/ \E n \in Messages : chan'[q][i] = n /\ Claim(Other(q), n)'
    <3>1. CASE q = "client"
      <4>1. chan[q] \in Seq(Messages) /\ chan'[q] = Append(chan[q], m)
        BY <1>0, <2>4, <3>1 DEF Types
      <4>2. chan'[q][i] = m \/ \E j \in 1 .. Len(chan[q]) : chan'[q][i] = chan[q][j]
        BY <4>1, AppendElements
      <4> QED
        BY <2>5, <4>2, OtherPeer
    <3>2. CASE q # "client"
      <4>1. chan'[q] = chan[q]
        BY <1>0, <2>4, <3>2 DEF Types
      <4> QED
        BY <4>1
    <3> QED
      BY <3>1, <3>2
  <2>7. ClaimsHold'
    BY <1>0, <2>3, <2>6, ClaimsKept DEF NegotiationInv
  <2>8. AskingHolds'
    <3> SUFFICES ASSUME NEW q \in Peers, asking'[q], Current(q)' \notin Togglable
                 PROVE  Speaks(q, Current(q))'
      BY DEF AskingHolds
    <3>1. asking[q] /\ Current(q)' = Current(q)
      BY <1>7 DEF Current, Switch
    <3>2. PICK k \in Links : k = Current(q)
      BY <1>0, <3>1, CurrentIsLink DEF TypeOK, LoopOK, Types
    <3>3. Speaks(q, k) /\ k \notin Togglable
      BY <3>1, <3>2 DEF NegotiationInv, AskingHolds
    <3>4. Speaks(q, k)'
      BY <2>3, <3>3, SpeaksKept
    <3> QED
      BY <3>1, <3>2, <3>4
  <2> QED
    BY <1>0, <2>3, <2>7, <2>8 DEF NegotiationInv
<1>8. CASE UNCHANGED vars
  BY <1>0, <1>8, InvFrame DEF vars
<1> QED
  BY <1>1, <1>2, <1>3, <1>4, <1>5, <1>6, <1>7, <1>8 DEF Next, Startup, ReaderStep

(* No option is used by one side alone, whatever options the two ends know, *)
(* ask for or refuse, and in whatever order their messages arrive.          *)
THEOREM NegotiationIsMutual == Spec => []NeverOneSided
<1>1. NegotiationInv => NeverOneSided
  BY DEF NegotiationInv
<1> QED
  BY <1>1, InvInit, InvNext, PTL DEF Spec
-----------------------------------------------------------------------------
(* The setting of the second result: the mandatory options are not switched *)
(* while connected, the server reacts to we-RFC2217 with its callback and,  *)
(* as PortManager's table has it, does not ask for it by itself.            *)
Rfc2217Server ==
  /\ WeBinary \notin Togglable /\ WeRfc2217 \notin Togglable
  /\ WeRfc2217 \in CallbackLinks
  /\ \A profile \in ServerProfiles : profile[WeRfc2217] # "REQUESTED"

Mandatory == {WeBinary, WeRfc2217}

(* What open() has read so far can only have become more true since. *)
ReadingsHold ==
  /\ openPc \in {"activeR", "stateB", "stateR"} /\ seen.activeB => active["client"][WeBinary]
  /\ openPc \in {"stateB", "stateR"} /\ seen.activeR => active["client"][WeRfc2217]
  /\ openPc = "stateR" /\ seen.activeB => seen.stateB
  /\ openPc = "opened" /\ ~Refuses("server", WeRfc2217) => active["client"][WeRfc2217]

OpenInv ==
  /\ NegotiationInv
  /\ Refuses("server", WeRfc2217) \/ Agrees("client", WeRfc2217)
  /\ state["server"][WeRfc2217] # "REQUESTED"
  /\ state["server"][WeRfc2217] = "ACTIVE" => clientOk \/ settling["server"] = WeRfc2217
  /\ \A l \in Mandatory : active["client"][l] => state["client"][l] = "ACTIVE"
  /\ ReadingsHold

LEMMA OpenInit == ASSUME Rfc2217Server PROVE Init => OpenInv
<1> SUFFICES ASSUME Init PROVE OpenInv
  OBVIOUS
<1>1. PICK profile \in ServerProfiles :
        state = [p \in Peers |-> IF p = "client" THEN ClientInit ELSE profile]
  BY DEF Init
<1>2. state["client"] = ClientInit /\ state["server"] = profile
  BY <1>1 DEF Peers
<1>3. state["server"][WeRfc2217] \notin {"REQUESTED", "ACTIVE"}
  BY <1>2, LinksAssumption, TablesAssumption DEF Rfc2217Server, InitialStates
<1>4. Agrees("client", WeRfc2217)
  BY <1>2, TablesAssumption DEF Agrees
<1>5. \A l \in Mandatory : ~active["client"][l]
  BY LinksAssumption DEF Init, Mandatory, Peers
<1> QED
  BY <1>3, <1>4, <1>5, InvInit DEF OpenInv, Init, ReadingsHold

(* A parser step only ever moves an option to ACTIVE or INACTIVE, and where *)
(* no user switches it never leaves ACTIVE.                                 *)
LEMMA ActiveStays ==
  ASSUME NegotiationInv, NEW p \in Peers, Receive(p),
         NEW q \in Peers, NEW l \in Links \ Togglable
  PROVE  /\ state'[q][l] = "REQUESTED" => state[q][l] = "REQUESTED"
         /\ state[q][l] = "ACTIVE" => state'[q][l] = "ACTIVE"
         /\ state'[q][l] # state[q][l] => p = q /\ settling'[q] = l
<1>1. Types
  BY DEF NegotiationInv, TypeOK
<1>2. PICK k, s : /\ s \in {"ACTIVE", "INACTIVE"}
                  /\ state' = state \/ Move(p, k, s)
  BY DEF Receive, Accept, Drop, Refuse, Ignore
<1>3. /\ state'[q][l] = state[q][l] \/ state'[q][l] \in {"ACTIVE", "INACTIVE"}
      /\ state'[q][l] # state[q][l] => p = q /\ settling'[q] = l
  <2>1. CASE Move(p, k, s)
    <3>1. /\ state' = [state EXCEPT ![p][k] = s]
          /\ settling' = [settling EXCEPT ![p] = k]
      BY <2>1 DEF Move
    <3>2. settling'[p] = k
      BY <1>1, <3>1 DEF Types
    <3>3. CASE q = p /\ l = k
      BY <1>1, <1>2, <3>1, <3>2, <3>3 DEF Types
    <3>4. CASE ~(q = p /\ l = k)
      BY <1>1, <3>1, <3>4 DEF Types
    <3> QED
      BY <3>3, <3>4
  <2> QED
    BY <1>2, <2>1
<1>4. Monotone
  BY ReceiveMonotone
<1>5. state[q][l] = "ACTIVE" => Agrees(q, l)'
  BY <1>4, OtherPeer DEF NegotiationInv, NeverOneSided, Monotone, Agrees, Refuses
<1> QED
  BY <1>3, <1>5 DEF Agrees

LEMMA OpenNext == ASSUME Rfc2217Server PROVE OpenInv /\ [Next]_vars => OpenInv'
<1> SUFFICES ASSUME OpenInv, [Next]_vars PROVE OpenInv'
  OBVIOUS
<1>0. /\ NegotiationInv /\ NegotiationInv' /\ Types /\ Types'
      /\ "client" \in Peers /\ "server" \in Peers
      /\ Mandatory \subseteq Links \ Togglable
      /\ WeBinary \in Mandatory /\ WeRfc2217 \in Mandatory
  BY InvNext, LinksAssumption
     DEF OpenInv, NegotiationInv, TypeOK, Rfc2217Server, Mandatory, Peers
<1>1. ASSUME NEW p \in Peers, Startup(p) PROVE OpenInv'
  <2>1. UNCHANGED <<state, active, settling, openPc, seen, clientOk>>
    BY <1>1 DEF Startup, ConsiderOption, SendRequest
  <2> QED
    BY <1>0, <2>1 DEF OpenInv, ReadingsHold, Refuses, Agrees
<1>2. ASSUME NEW p \in Peers, Receive(p) PROVE OpenInv'
  <2>1. UNCHANGED <<active, openPc, seen, clientOk>> /\ settling[p] = NoLink
    BY <1>2 DEF Receive, Accept, Drop, Refuse, Ignore, Listening
  <2>2. Monotone
    BY <1>0, <1>2, ReceiveMonotone
  <2>3. Refuses("server", WeRfc2217)' \/ Agrees("client", WeRfc2217)'
    BY <1>0, <2>2 DEF OpenInv, Monotone, Other
  <2>4. Refuses("server", WeRfc2217)' <=> Refuses("server", WeRfc2217)
    BY <1>0, <2>2 DEF Monotone
  <2>5. state'["server"][WeRfc2217] # "REQUESTED"
    BY <1>0, <1>2, ActiveStays DEF OpenInv
  <2>6. state'["server"][WeRfc2217] = "ACTIVE" => clientOk' \/ settling'["server"] = WeRfc2217
    <3>1. CASE state'["server"][WeRfc2217] # state["server"][WeRfc2217]
      BY <1>0, <1>2, <3>1, ActiveStays
    <3>2. CASE state'["server"][WeRfc2217] = state["server"][WeRfc2217] /\ clientOk
      BY <2>1, <3>2
    <3>3. CASE /\ state'["server"][WeRfc2217] = state["server"][WeRfc2217]
               /\ settling["server"] = WeRfc2217
      <4>1. p # "server"
        BY <2>1, <3>3, LinksAssumption
      <4>2. settling'["server"] = settling["server"]
        BY <1>0, <1>2, <4>1 DEF Receive, Accept, Drop, Refuse, Ignore, Move, Types
      <4> QED
        BY <3>3, <4>2
    <3> QED
      BY <3>1, <3>2, <3>3 DEF OpenInv
  <2>7. \A l \in Mandatory : active'["client"][l] => state'["client"][l] = "ACTIVE"
    BY <1>0, <1>2, <2>1, ActiveStays DEF OpenInv
  <2>8. ReadingsHold'
    BY <2>1, <2>4 DEF OpenInv, ReadingsHold
  <2> QED
    BY <1>0, <2>3, <2>5, <2>6, <2>7, <2>8 DEF OpenInv
<1>3. ASSUME NEW p \in Peers, Settle(p) PROVE OpenInv'
  <2> DEFINE k == settling[p]
  <2>1. /\ UNCHANGED <<state, openPc, seen>>
        /\ active' = [active EXCEPT ![p][k] = (state[p][k] = "ACTIVE")]
        /\ settling' = [settling EXCEPT ![p] = NoLink]
        /\ clientOk' = (clientOk \/ /\ p = "server"
                                    /\ k \in CallbackLinks
                                    /\ state[p][k] = "ACTIVE")
        /\ k \in Links
    BY <1>0, <1>3 DEF Settle, Types
  <2> HIDE DEF k
  <2>2. \A l \in Mandatory :
          /\ active["client"][l] => active'["client"][l]
          /\ active'["client"][l] => state'["client"][l] = "ACTIVE"
    <3> TAKE l \in Mandatory
    <3>1. CASE p = "client" /\ k = l
      <4>1. active'["client"][l] <=> state["client"][l] = "ACTIVE"
        BY <1>0, <2>1, <3>1 DEF Types
      <4> QED
        BY <2>1, <4>1 DEF OpenInv
    <3>2. CASE ~(p = "client" /\ k = l)
      <4>1. active'["client"][l] = active["client"][l]
        BY <1>0, <2>1, <3>2 DEF Types
      <4> QED
        BY <2>1, <4>1 DEF OpenInv
    <3> QED
      BY <3>1, <3>2
  <2>3. state'["server"][WeRfc2217] = "ACTIVE" => clientOk' \/ settling'["server"] = WeRfc2217
    <3>1. CASE clientOk
      BY <2>1, <3>1
    <3>2. CASE settling["server"] = WeRfc2217 /\ p = "server"
      BY <2>1, <3>2 DEF Rfc2217Server, k
    <3>3. CASE settling["server"] = WeRfc2217 /\ p # "server"
      BY <1>0, <2>1, <3>3 DEF Types
    <3> QED
      BY <2>1, <3>1, <3>2, <3>3 DEF OpenInv
  <2>4. ReadingsHold'
    BY <1>0, <2>1, <2>2 DEF OpenInv, ReadingsHold, Refuses
  <2> QED
    BY <1>0, <2>1, <2>2, <2>3, <2>4 DEF OpenInv, Refuses, Agrees
<1>4. CASE PollMandatory
  <2>1. UNCHANGED <<state, active, settling, clientOk>>
    BY <1>4 DEF PollMandatory, StartPolling, ReadActive, ReadBinaryState, CompareSums
  <2>2. seen \in [activeB : BOOLEAN, activeR : BOOLEAN, stateB : BOOLEAN]
    BY <1>0 DEF Types
  <2>3. ReadingsHold'
    <3>1. CASE StartPolling
      BY <2>1, <3>1 DEF StartPolling, ReadingsHold, OpenInv
    <3>2. CASE ReadActive("activeB", WeBinary, "activeR")
      BY <2>1, <2>2, <3>2 DEF ReadActive, ReadingsHold, OpenInv
    <3>3. CASE ReadActive("activeR", WeRfc2217, "stateB")
      BY <2>1, <2>2, <3>3 DEF ReadActive, ReadingsHold, OpenInv
    <3>4. CASE ReadBinaryState
      BY <1>0, <2>1, <2>2, <3>4 DEF ReadBinaryState, ReadingsHold, OpenInv
    <3>5. CASE CompareSums
      <4>1. CASE openPc' = "activeB"
        BY <2>1, <4>1 DEF ReadingsHold
      <4>2. CASE openPc' = "opened"
        <5>1. /\ openPc = "stateR"
              /\ Satisfied(state["client"][WeRfc2217] # "INACTIVE")
          BY <3>5, <4>2 DEF CompareSums
        <5>2. ASSUME ~Refuses("server", WeRfc2217) PROVE seen.activeR
          <6>1. (state["client"][WeRfc2217] # "INACTIVE") = TRUE
            BY <5>2 DEF OpenInv, Agrees
          <6>2. One(seen.activeB) + One(seen.activeR) = One(seen.stateB) + 1
            BY <5>1, <6>1 DEF Satisfied, One
          <6>3. seen.activeB => seen.stateB
            BY <5>1 DEF OpenInv, ReadingsHold
          <6> QED
            BY <2>2, <6>2, <6>3 DEF One
        <5>3. ~Refuses("server", WeRfc2217) => active["client"][WeRfc2217]
          BY <5>1, <5>2 DEF OpenInv, ReadingsHold
        <5> QED
          BY <2>1, <4>2, <5>3 DEF ReadingsHold, Refuses
      <4> QED
        BY <3>5, <4>1, <4>2 DEF CompareSums
    <3> QED
      BY <1>4, <3>1, <3>2, <3>3, <3>4, <3>5 DEF PollMandatory
  <2> QED
    BY <1>0, <2>1, <2>3 DEF OpenInv, Refuses, Agrees
<1>5. CASE GiveUp
  BY <1>0, <1>5 DEF GiveUp, OpenInv, ReadingsHold, Refuses, Agrees
<1>6. ASSUME NEW l \in Togglable, Switch(l) PROVE OpenInv'
  <2>1. UNCHANGED <<settling, openPc, seen, clientOk>>
    BY <1>6 DEF Switch
  <2>2. /\ l \in Links
        /\ l \notin Mandatory
    BY <1>0, LinksAssumption
  <2>3. \A q \in Peers : \A k \in Mandatory :
          state'[q][k] = state[q][k] /\ active'[q][k] = active[q][k]
    <3>1. CASE SwitchOn(l)
      BY <1>0, <2>2, <3>1 DEF SwitchOn, Types
    <3>2. CASE SwitchOff(l)
      BY <1>0, <2>2, <3>2 DEF SwitchOff, Types
    <3> QED
      BY <1>6, <3>1, <3>2 DEF Switch
  <2> QED
    BY <1>0, <2>1, <2>3 DEF OpenInv, ReadingsHold, Refuses, Agrees
<1>7. CASE UNCHANGED vars
  BY <1>0, <1>7 DEF vars, OpenInv, ReadingsHold, Refuses, Agrees
<1> QED
  BY <1>1, <1>2, <1>3, <1>4, <1>5, <1>6, <1>7 DEF Next, ReaderStep

(* However open()'s unlocked readings interleave with the reader thread, it *)
(* returns only after we-RFC2217 became active, when the server has that    *)
(* option and, as PortManager, waits for the client to ask for it; the      *)
(* server then regards the client as an RFC 2217 one.                       *)
THEOREM OpenIsSound ==
  ASSUME Rfc2217Server PROVE Spec => []OpenedMeansAgreed
<1>1. OpenInv => OpenedMeansAgreed
  <2> SUFFICES ASSUME OpenInv, openPc = "opened", Supports("server", WeRfc2217)
               PROVE  /\ active["client"][WeRfc2217]
                      /\ state["server"][WeRfc2217] = "ACTIVE"
                      /\ clientOk \/ settling["server"] = WeRfc2217
    BY DEF OpenedMeansAgreed
  <2>1. active["client"][WeRfc2217] /\ state["client"][WeRfc2217] = "ACTIVE"
    BY DEF OpenInv, ReadingsHold, Supports, Refuses, Mandatory
  <2>2. Agrees("server", WeRfc2217)
    BY <2>1, LinksAssumption
       DEF OpenInv, NegotiationInv, NeverOneSided, Rfc2217Server, Other, Peers
  <2> QED
    BY <2>1, <2>2 DEF OpenInv, Agrees
<1>2. Init => OpenInv
  BY OpenInit
<1>3. OpenInv /\ [Next]_vars => OpenInv'
  BY OpenNext
<1> QED
  BY <1>1, <1>2, <1>3, PTL DEF Spec
-----------------------------------------------------------------------------
(* The last message on option l of a sequence s, if it has one.             *)
Ends(s, l, yes) ==
  \E i \in 1 .. Len(s) : /\ s[i].link = l /\ s[i].yes = yes
                         /\ \A j \in 1 .. Len(s) : i < j => s[j].link # l
Silent(s, l) == \A i \in 1 .. Len(s) : s[i].link # l

(* A message that comes after it, and one that is taken before it.          *)
LEMMA EndsWithLast ==
  ASSUME NEW s \in Seq(Messages), NEW l \in Links, NEW yes \in BOOLEAN
  PROVE  Ends(Append(s, Message(l, yes)), l, yes)
<1> DEFINE m == Message(l, yes)
           a == Append(s, m)
<1>1. m \in Messages /\ m.link = l /\ m.yes = yes
  BY DEF Message, Messages
<1> HIDE DEF m
<1>2. Len(s) \in Nat /\ Len(a) = Len(s) + 1 /\ a[Len(s) + 1] = m
  BY <1>1
<1> HIDE DEF a
<1> DEFINE n == Len(s) + 1
<1>3. n \in 1 .. Len(a) /\ a[n] = m /\ \A j \in 1 .. Len(a) : ~(n < j)
  BY <1>2
<1> HIDE DEF n
<1>4. Ends(a, l, yes)
  BY <1>1, <1>3 DEF Ends
<1> QED
  BY <1>4 DEF a, m

LEMMA AppendedOther ==
  ASSUME NEW s \in Seq(Messages), NEW m \in Messages, NEW l \in Links, m.link # l, NEW yes \in BOOLEAN
  PROVE  /\ Ends(s, l, yes) => Ends(Append(s, m), l, yes)
         /\ Silent(s, l) => Silent(Append(s, m), l)
<1> DEFINE a == Append(s, m)
<1>1. /\ Len(s) \in Nat /\ Len(a) = Len(s) + 1 /\ a[Len(s) + 1] = m
      /\ \A i \in 1 .. Len(s) : a[i] = s[i]
  OBVIOUS
<1> HIDE DEF a
<1>2. \A j \in 1 .. Len(a) : j \in 1 .. Len(s) \/ j = Len(s) + 1
  BY <1>1
<1>3. \A i \in 1 .. Len(s) : i \in 1 .. Len(a)
  BY <1>1
<1>4. Silent(s, l) => Silent(a, l)
  BY <1>1, <1>2 DEF Silent
<1>5. Ends(s, l, yes) => Ends(a, l, yes)
  <2> SUFFICES ASSUME Ends(s, l, yes) PROVE Ends(a, l, yes)
    OBVIOUS
  <2>1. PICK i \in 1 .. Len(s) : /\ s[i].link = l /\ s[i].yes = yes
                                 /\ \A j \in 1 .. Len(s) : i < j => s[j].link # l
    BY DEF Ends
  <2>2. i \in 1 .. Len(a) /\ a[i].link = l /\ a[i].yes = yes
    BY <1>1, <1>3, <2>1
  <2>3. \A j \in 1 .. Len(a) : i < j => a[j].link # l
    BY <1>1, <1>2, <2>1
  <2> QED
    BY <2>2, <2>3 DEF Ends
<1> QED
  BY <1>4, <1>5 DEF a

LEMMA TakenFirst ==
  ASSUME NEW s \in Seq(Messages), s # <<>>, NEW l \in Links, NEW yes \in BOOLEAN
  PROVE  /\ Silent(s, l) => Silent(Tail(s), l) /\ Head(s).link # l
         /\ Ends(s, l, yes) => \/ Ends(Tail(s), l, yes)
                               \/ Silent(Tail(s), l) /\ Head(s).link = l /\ Head(s).yes = yes
<1> DEFINE t == Tail(s)
<1>1. /\ Len(s) \in Nat /\ Len(s) >= 1 /\ Len(t) = Len(s) - 1 /\ Head(s) = s[1]
      /\ \A i \in 1 .. Len(t) : t[i] = s[i + 1]
  OBVIOUS
<1> HIDE DEF t
<1>2. \A i \in 1 .. Len(t) : i + 1 \in 1 .. Len(s) /\ i + 1 > 1
  BY <1>1
<1>3. Silent(s, l) => Silent(t, l) /\ Head(s).link # l
  <2>1. 1 \in 1 .. Len(s)
    BY <1>1
  <2> QED
    BY <1>1, <1>2, <2>1 DEF Silent
<1>4. Ends(s, l, yes) => \/ Ends(t, l, yes)
                         \/ Silent(t, l) /\ Head(s).link = l /\ Head(s).yes = yes
  <2> SUFFICES ASSUME Ends(s, l, yes)
               PROVE  \/ Ends(t, l, yes)
                      \/ Silent(t, l) /\ Head(s).link = l /\ Head(s).yes = yes
    OBVIOUS
  <2>1. PICK i \in 1 .. Len(s) : /\ s[i].link = l /\ s[i].yes = yes
                                 /\ \A j \in 1 .. Len(s) : i < j => s[j].link # l
    BY DEF Ends
  <2>2. CASE i = 1
    <3>1. \A j \in 1 .. Len(t) : t[j].link # l
      BY <1>1, <1>2, <2>1, <2>2
    <3> QED
      BY <1>1, <2>1, <2>2, <3>1 DEF Silent
  <2>3. CASE i > 1
    <3>1. PICK k \in 1 .. Len(t) : i = k + 1
      <4>1. i - 1 \in 1 .. Len(t) /\ i = (i - 1) + 1
        BY <1>1, <2>3
      <4> QED
        BY <4>1
    <3>2. t[k].link = l /\ t[k].yes = yes
      BY <1>1, <2>1, <3>1
    <3>3. \A j \in 1 .. Len(t) : k < j => t[j].link # l
      <4> SUFFICES ASSUME NEW j \in 1 .. Len(t), k < j PROVE t[j].link # l
        OBVIOUS
      <4>1. i < j + 1
        BY <3>1
      <4> QED
        BY <1>1, <1>2, <2>1, <4>1
    <3> QED
      BY <3>2, <3>3 DEF Ends
  <2> QED
    BY <1>1, <2>2, <2>3
<1> QED
  BY <1>3, <1>4 DEF t

(* A peer's startup loop has asked for the option, or skipped it.           *)
Past(p, l) == \E i \in 1 .. Len(Order[p]) : i <= next[p] /\ Order[p][i] = l

(* No peer that refuses an option says yes to it, or is about to.           *)
RefusalsHold ==
  \A p \in Peers :
    /\ \A i \in 1 .. Len(chan[p]) : chan[p][i].yes => ~Refuses(Other(p), chan[p][i].link)
    /\ asking[p] => ~Refuses(p, Current(p))
    /\ \A l \in Links : state[p][l] = "ACTIVE" => ~Refuses(Other(p), l)

(* The server has asked for all that it wants before it listens.            *)
ServerAsks ==
  /\ asking["server"] => state["server"][Current("server")] = "REQUESTED"
  /\ \A l \in Links :
       /\ ~StartupDone("server") => state["server"][l] # "ACTIVE"
       /\ state["server"][l] = "REQUESTED" => StartupDone("server") \/ Listed("server", l)

ServerHas(l) ==
  \/ state["server"][l] = "ACTIVE"
  \/ state["server"][l] = "REQUESTED" /\ (StartupDone("server") \/ Past("server", l))
ClientHas(l) ==
  \/ state["client"][l] = "ACTIVE"
  \/ state["client"][l] = "REQUESTED" /\ Past("client", l)

(* The server's last word on an option that it has or asked for is yes:     *)
(* the client will hear it, or has heard it and agrees.                     *)
Told(l) ==
  ~Refuses("client", l) /\ ServerHas(l) =>
    \/ Ends(chan["client"], l, TRUE)
    \/ Silent(chan["client"], l) /\ Agrees("client", l)

(* So is the client's; only that the server's user may switch the option    *)
(* off after hearing it, and then the client hears of that.                 *)
Heard(l) ==
  ~Refuses("server", l) /\ ClientHas(l) =>
    \/ Ends(chan["server"], l, TRUE)
    \/ /\ Silent(chan["server"], l)
       /\ Agrees("server", l) \/ Ends(chan["client"], l, FALSE)

(* An option that the client has yet to ask for: it has said nothing of it, *)
(* and the server's yes, if it said so, is followed by a no or still holds. *)
Unasked(l) ==
  state["client"][l] = "REQUESTED" /\ ~Past("client", l) =>
    /\ Silent(chan["server"], l)
    /\ \/ Agrees("server", l) \/ Ends(chan["client"], l, FALSE)
       \/ Silent(chan["client"], l)

LinkHolds(l) == Told(l) /\ Heard(l) /\ Unasked(l)

(* active follows state, but for the option a handler is busy with.         *)
ActiveFollows ==
  \A p \in Peers, l \in Links : settling[p] # l => (active[p][l] <=> state[p][l] = "ACTIVE")

(* QuietAgreement looks at empty channels only: these say what was the last *)
(* word in each of them, for options that are switched as well.             *)
AgreementInv ==
  TypeOK /\ RefusalsHold /\ ServerAsks /\ ActiveFollows /\ \A l \in Links : LinkHolds(l)

LEMMA BothPeers ==
  /\ "client" \in Peers /\ "server" \in Peers /\ Other("client") = "server" /\ Other("server") = "client"
  /\ \A p \in Peers : p = "client" \/ p = "server"
BY DEF Peers, Other

LEMMA AgreementInit == Init => AgreementInv
<1> SUFFICES ASSUME Init PROVE AgreementInv
  OBVIOUS
<1>1. TypeOK
  BY TypedInit
<1>2. \A p \in Peers : chan[p] = <<>> /\ asking[p] = FALSE /\ next[p] = 0
  BY DEF Init
<1>3. PICK profile \in ServerProfiles :
        state = [p \in Peers |-> IF p = "client" THEN ClientInit ELSE profile]
  BY DEF Init
<1>4. state["client"] = ClientInit /\ state["server"] = profile
  BY <1>3, BothPeers
<1>5. \A l \in Links : profile[l] \in InitialStates /\ ClientInit[l] \in InitialStates
  BY TablesAssumption
<1>6. \A p \in Peers, l \in Links : state[p][l] # "ACTIVE"
  BY <1>4, <1>5, BothPeers DEF InitialStates
<1>7. \A p \in Peers, l \in Links : Silent(chan[p], l)
  BY <1>2 DEF Silent
<1>8. \A p \in Peers, l \in Links : ~Past(p, l)
  BY <1>2 DEF Past
<1>9. RefusalsHold
  BY <1>2, <1>6 DEF RefusalsHold
<1>10. ServerAsks
  BY <1>2, <1>4, <1>6, BothPeers, ListsAssumption DEF ServerAsks
<1>11. ActiveFollows
  BY <1>6 DEF ActiveFollows, Init
<1>12. ASSUME NEW l \in Links PROVE LinkHolds(l)
  <2>1. Unasked(l)
    BY <1>7, BothPeers DEF Unasked
  <2>2. Heard(l)
    BY <1>6, <1>8, BothPeers DEF Heard, ClientHas
  <2>3. Told(l)
    <3>1. CASE StartupDone("server") /\ state["server"][l] = "REQUESTED"
      <4>1. Listed("server", l) /\ Len(Order["server"]) = 0
        BY <1>2, <1>4, <3>1, BothPeers, ListsAssumption DEF StartupDone
      <4> QED
        BY <4>1 DEF Listed
    <3>2. CASE ~(StartupDone("server") /\ state["server"][l] = "REQUESTED")
      BY <1>6, <1>8, <3>2, BothPeers DEF Told, ServerHas
    <3> QED
      BY <3>1, <3>2
  <2> QED
    BY <2>1, <2>2, <2>3 DEF LinkHolds
<1> QED
  BY <1>1, <1>9, <1>10, <1>11, <1>12 DEF AgreementInv

(* A step that is not about the option.                                     *)
LEMMA LinkStays ==
  ASSUME NEW l \in Links, LinkHolds(l),
         \A p \in Peers : state'[p][l] = state[p][l],
         Past("client", l)' <=> Past("client", l),
         ServerHas(l)' => ServerHas(l),
         \A p \in Peers : /\ Silent(chan[p], l) => Silent(chan'[p], l)
                          /\ \A yes \in BOOLEAN : Ends(chan[p], l, yes) => Ends(chan'[p], l, yes)
  PROVE  LinkHolds(l)'
<1>1. \A p \in Peers : (Refuses(p, l)' <=> Refuses(p, l)) /\ (Agrees(p, l)' <=> Agrees(p, l))
  BY DEF Refuses, Agrees
<1>2. ClientHas(l)' <=> ClientHas(l)
  BY BothPeers DEF ClientHas
<1>3. Told(l)'
  BY <1>1, BothPeers DEF LinkHolds, Told
<1>4. Heard(l)'
  BY <1>1, <1>2, BothPeers DEF LinkHolds, Heard
<1>5. Unasked(l)'
  BY <1>1, BothPeers DEF LinkHolds, Unasked
<1> QED
  BY <1>3, <1>4, <1>5 DEF LinkHolds

(* A step that leaves the options and the channels alone.                   *)
LEMMA AgreementFrame ==
  ASSUME AgreementInv, TypeOK', UNCHANGED <<state, chan, asking, next>>, ActiveFollows'
  PROVE  AgreementInv'
<1>1. \A p \in Peers : Current(p)' = Current(p) /\ (StartupDone(p)' <=> StartupDone(p))
  BY DEF Current, StartupDone
<1>2. \A p, l : /\ (Refuses(p, l)' <=> Refuses(p, l)) /\ (Agrees(p, l)' <=> Agrees(p, l))
                /\ (Past(p, l)' <=> Past(p, l)) /\ (Listed(p, l)' <=> Listed(p, l))
  BY DEF Refuses, Agrees, Past, Listed
<1>3. RefusalsHold'
  BY <1>1, <1>2 DEF AgreementInv, RefusalsHold
<1>4. ServerAsks'
  BY <1>1, <1>2, BothPeers DEF AgreementInv, ServerAsks
<1>5. ASSUME NEW l \in Links PROVE LinkHolds(l)'
  <2>1. ServerHas(l)' => ServerHas(l)
    BY <1>1, <1>2, BothPeers DEF ServerHas
  <2> QED
    BY <1>2, <2>1, BothPeers, LinkStays DEF AgreementInv
<1> QED
  BY <1>3, <1>4, <1>5 DEF AgreementInv

LEMMA GrowsWithAppend ==
  ASSUME NEW s \in Seq(Messages), NEW m \in Messages
  PROVE  Append(s, m) # s
<1>1. Len(Append(s, m)) = Len(s) + 1 /\ Len(s) \in Nat
  OBVIOUS
<1> QED
  BY <1>1

(* What process_incoming makes of a message on option l, in one form.       *)
Hears(p, l, yes) ==
  /\ chan[p] # <<>> /\ Head(chan[p]) = Message(l, yes)
  /\ chan'[p] = Tail(chan[p])
  /\ \/ chan'[Other(p)] = chan[Other(p)]
     \/ ~Refuses(p, l) /\ chan'[Other(p)] = Append(chan[Other(p)], Message(l, yes))
     \/ Refuses(p, l) /\ chan'[Other(p)] = Append(chan[Other(p)], Message(l, FALSE))
  /\ \A q \in Peers, k \in Links : q # p \/ k # l => state'[q][k] = state[q][k]
  /\ Refuses(p, l) => state'[p][l] = state[p][l]
  /\ ~Refuses(p, l) => state'[p][l] = IF yes THEN "ACTIVE" ELSE "INACTIVE"
  /\ ~Refuses(p, l) /\ chan'[Other(p)] = chan[Other(p)] =>
       state[p][l] = "REQUESTED" \/ state'[p][l] = state[p][l]
  /\ settling[p] = NoLink /\ \A q \in Peers : q # p => settling'[q] = settling[q]
  /\ state'[p][l] # state[p][l] => settling'[p] = l
  /\ UNCHANGED <<active, next, asking>>
  /\ p = "server" => StartupDone(p)

LEMMA ReceiveHears ==
  ASSUME TypeOK, NEW p \in Peers, Receive(p)
  PROVE  \E l \in Links, yes \in BOOLEAN : Hears(p, l, yes)
<1>1. /\ chan \in [Peers -> Seq(Messages)] /\ state \in [Peers -> [Links -> OptionStates]]
      /\ settling \in [Peers -> Links \cup {NoLink}]
      /\ Other(p) \in Peers /\ Other(p) # p /\ \A q \in Peers : q # p => q = Other(p)
  BY DEF TypeOK, Types, Peers, Other
<1>2. /\ chan[p] # <<>> /\ settling[p] = NoLink /\ (p = "server" => StartupDone(p))
      /\ chan[p] \in Seq(Messages)
  BY <1>1 DEF Receive, Listening
<1>3. PICK l \in Links, yes \in BOOLEAN : Head(chan[p]) = Message(l, yes)
  <2>1. Head(chan[p]) \in Messages
    BY <1>2
  <2>2. Head(chan[p]) = Message(Head(chan[p]).link, Head(chan[p]).yes)
    BY <2>1 DEF Messages, Message
  <2> QED
    BY <2>1, <2>2 DEF Messages
<1>4. Accept(p, l, yes) \/ Drop(p, l, yes) \/ Refuse(p, l, yes) \/ Ignore(p, l, yes)
  <2>1. Head(chan[p]).link = l /\ Head(chan[p]).yes = yes
    BY <1>3 DEF Message
  <2> QED
    BY <2>1 DEF Receive
<1>5. state[p][l] \in OptionStates /\ state[p] \in [Links -> OptionStates]
  BY <1>1
<1>6. /\ Consume(p) => chan'[p] = Tail(chan[p]) /\ chan'[Other(p)] = chan[Other(p)]
      /\ \A y : ConsumeAndReply(p, l, y) =>
           /\ chan'[p] = Tail(chan[p])
           /\ chan'[Other(p)] = Append(chan[Other(p)], Message(l, y))
  BY <1>1 DEF Consume, ConsumeAndReply
<1>7. \A s : Move(p, l, s) =>
        /\ state'[p][l] = s
        /\ \A q \in Peers, k \in Links : q # p \/ k # l => state'[q][k] = state[q][k]
        /\ settling'[p] = l /\ \A q \in Peers : q # p => settling'[q] = settling[q]
  BY <1>1, <1>5 DEF Move
<1>8. CASE Accept(p, l, yes)
  <2>1. /\ yes = TRUE /\ ~Refuses(p, l) /\ Move(p, l, "ACTIVE") /\ UNCHANGED <<active, next, asking>>
        /\ \/ ConsumeAndReply(p, l, TRUE)
           \/ Consume(p) /\ state[p][l] = "REQUESTED"
    BY <1>8 DEF Accept, AnswersYes, Refuses
  <2>2. /\ state'[p][l] = "ACTIVE"
        /\ \A q \in Peers, k \in Links : q # p \/ k # l => state'[q][k] = state[q][k]
        /\ settling'[p] = l /\ \A q \in Peers : q # p => settling'[q] = settling[q]
    BY <1>7, <2>1
  <2>3. /\ chan'[p] = Tail(chan[p])
        /\ \/ chan'[Other(p)] = Append(chan[Other(p)], Message(l, TRUE))
           \/ chan'[Other(p)] = chan[Other(p)] /\ state[p][l] = "REQUESTED"
    BY <1>6, <2>1
  <2>4. chan'[Other(p)] = chan[Other(p)] => state[p][l] = "REQUESTED"
    <3>1. chan[Other(p)] \in Seq(Messages) /\ Message(l, TRUE) \in Messages
      BY <1>1 DEF Message, Messages
    <3>2. Append(chan[Other(p)], Message(l, TRUE)) # chan[Other(p)]
      BY <3>1, GrowsWithAppend
    <3> QED
      BY <2>3, <3>2
  <2>5. (yes = TRUE) /\ ~Refuses(p, l) /\ UNCHANGED <<active, next, asking>>
    BY <2>1
  <2>6. Hears(p, l, yes)
    BY <1>2, <1>3, <2>2, <2>3, <2>4, <2>5 DEF Hears
  <2> QED
    BY <2>6
<1>9. CASE Drop(p, l, yes)
  <2>1. /\ yes = FALSE /\ ~Refuses(p, l) /\ Move(p, l, "INACTIVE") /\ UNCHANGED <<active, next, asking>>
        /\ \/ ConsumeAndReply(p, l, FALSE)
           \/ Consume(p) /\ state[p][l] = "REQUESTED"
    BY <1>9 DEF Drop, AnswersNo, Refuses
  <2>2. /\ state'[p][l] = "INACTIVE"
        /\ \A q \in Peers, k \in Links : q # p \/ k # l => state'[q][k] = state[q][k]
        /\ settling'[p] = l /\ \A q \in Peers : q # p => settling'[q] = settling[q]
    BY <1>7, <2>1
  <2>3. /\ chan'[p] = Tail(chan[p])
        /\ \/ chan'[Other(p)] = Append(chan[Other(p)], Message(l, FALSE))
           \/ chan'[Other(p)] = chan[Other(p)] /\ state[p][l] = "REQUESTED"
    BY <1>6, <2>1
  <2>4. chan'[Other(p)] = chan[Other(p)] => state[p][l] = "REQUESTED"
    <3>1. chan[Other(p)] \in Seq(Messages) /\ Message(l, FALSE) \in Messages
      BY <1>1 DEF Message, Messages
    <3>2. Append(chan[Other(p)], Message(l, FALSE)) # chan[Other(p)]
      BY <3>1, GrowsWithAppend
    <3> QED
      BY <2>3, <3>2
  <2>5. (yes = FALSE) /\ ~Refuses(p, l) /\ UNCHANGED <<active, next, asking>>
    BY <2>1
  <2>6. Hears(p, l, yes)
    BY <1>2, <1>3, <2>2, <2>3, <2>4, <2>5 DEF Hears
  <2> QED
    BY <2>6
<1>10. CASE Refuse(p, l, yes)
  <2>1. /\ Refuses(p, l) /\ ConsumeAndReply(p, l, FALSE)
        /\ UNCHANGED <<state, settling, active, next, asking>>
    BY <1>10 DEF Refuse, KnowsCode, Refuses
  <2>2. Hears(p, l, yes)
    BY <1>2, <1>3, <1>6, <2>1 DEF Hears
  <2> QED
    BY <2>2
<1>11. CASE Ignore(p, l, yes)
  <2>1. /\ Consume(p) /\ UNCHANGED <<state, settling, active, next, asking>>
        /\ \/ Refuses(p, l)
           \/ state[p][l] = "ACTIVE" /\ yes
           \/ state[p][l] = "INACTIVE" /\ ~yes
    BY <1>11 DEF Ignore, Refuses
  <2>2. Hears(p, l, yes)
    BY <1>2, <1>3, <1>6, <2>1 DEF Hears
  <2> QED
    BY <2>2
<1> QED
  BY <1>4, <1>8, <1>9, <1>10, <1>11

(* Who refuses an option goes on refusing it, and nobody else begins to.    *)
LEMMA HearsRefusals ==
  ASSUME TypeOK, RefusalsHold, NEW p \in Peers, NEW l \in Links, NEW yes \in BOOLEAN, Hears(p, l, yes)
  PROVE  /\ \A q \in Peers, k \in Links : Refuses(q, k)' <=> Refuses(q, k)
         /\ yes => ~Refuses(Other(p), l)
         /\ RefusalsHold'
<1>1. /\ chan \in [Peers -> Seq(Messages)] /\ next \in [Peers -> Nat]
      /\ Other(p) \in Peers /\ Other(p) # p /\ Other(Other(p)) = p
      /\ \A q \in Peers : q # p => q = Other(p)
  BY DEF TypeOK, Types, Peers, Other
<1>2. \A q \in Peers, k \in Links : Refuses(q, k)' <=> Refuses(q, k)
  <2> SUFFICES ASSUME NEW q \in Peers, NEW k \in Links PROVE Refuses(q, k)' <=> Refuses(q, k)
    OBVIOUS
  <2>1. CASE q = p /\ k = l
    BY <2>1 DEF Hears, Refuses
  <2>2. CASE ~(q = p /\ k = l)
    <3>1. state'[q][k] = state[q][k]
      BY <2>2 DEF Hears
    <3> QED
      BY <3>1 DEF Refuses
  <2> QED
    BY <2>1, <2>2
<1>3. chan[p] \in Seq(Messages) /\ chan[p] # <<>> /\ chan[p][1] = Message(l, yes) /\ 1 \in 1 .. Len(chan[p])
  BY <1>1, TailElements DEF Hears
<1>4. yes => ~Refuses(Other(p), l)
  BY <1>3 DEF RefusalsHold, Message
<1>5. ASSUME NEW q \in Peers, NEW i \in 1 .. Len(chan'[q]), chan'[q][i].yes
      PROVE  ~Refuses(Other(q), chan'[q][i].link)
  <2>1. CASE \E j \in 1 .. Len(chan[q]) : chan'[q][i] = chan[q][j]
    BY <1>5, <2>1 DEF RefusalsHold
  <2>2. CASE q = p
    <3>1. chan'[q] = Tail(chan[q])
      BY <2>2 DEF Hears
    <3> QED
      BY <1>3, <2>1, <2>2, <3>1, TailElements
  <2>3. CASE q = Other(p)
    <3>1. CASE chan'[q] = chan[q]
      BY <2>1, <3>1
    <3>2. ASSUME NEW y \in BOOLEAN, chan'[q] = Append(chan[q], Message(l, y)), y => ~Refuses(p, l)
          PROVE  ~Refuses(Other(q), chan'[q][i].link)
      <4>1. Message(l, y) \in Messages /\ chan[q] \in Seq(Messages)
        BY <1>1 DEF Message, Messages
      <4>2. chan'[q][i] = Message(l, y) \/ \E j \in 1 .. Len(chan[q]) : chan'[q][i] = chan[q][j]
        BY <3>2, <4>1, AppendElements
      <4>3. CASE chan'[q][i] = Message(l, y)
        BY <1>1, <1>5, <2>3, <3>2, <4>3 DEF Message
      <4> QED
        BY <2>1, <4>2, <4>3
    <3>3. \E y \in BOOLEAN : chan'[q] = chan[q]
                             \/ (chan'[q] = Append(chan[q], Message(l, y)) /\ (y => ~Refuses(p, l)))
      BY <2>3 DEF Hears
    <3> QED
      BY <3>1, <3>2, <3>3
  <2> QED
    BY <1>1, <2>2, <2>3
<1>6. ASSUME NEW q \in Peers, asking'[q] PROVE ~Refuses(q, Current(q))'
  <2>1. asking[q] /\ next[q] < Len(Order[q]) /\ Current(q)' = Current(q)
    BY <1>6 DEF Hears, TypeOK, LoopOK, Current
  <2>2. Current(q) \in Links
    BY <1>1, <2>1, CurrentIsLink
  <2>3. ~Refuses(q, Current(q))
    BY <2>1 DEF RefusalsHold
  <2>4. PICK k \in Links : k = Current(q)
    BY <2>2
  <2>5. ~Refuses(q, k)'
    BY <1>2, <2>3, <2>4
  <2> QED
    BY <2>1, <2>4, <2>5 DEF Refuses
<1>7. ASSUME NEW q \in Peers, NEW k \in Links, state'[q][k] = "ACTIVE" PROVE ~Refuses(Other(q), k)
  <2>1. CASE state[q][k] = "ACTIVE"
    BY <2>1 DEF RefusalsHold
  <2>2. CASE state[q][k] # "ACTIVE"
    <3>1. q = p /\ k = l /\ yes
      BY <1>7, <2>2 DEF Hears
    <3> QED
      BY <1>4, <3>1
  <2> QED
    BY <2>1, <2>2
<1>8. RefusalsHold'
  <2>1. \A q \in Peers : \A i \in 1 .. Len(chan'[q]) : chan'[q][i] \in Messages
    <3>1. \A q \in Peers : chan'[q] \in Seq(Messages)
      <4>1. \A y \in BOOLEAN : Message(l, y) \in Messages
        BY DEF Message, Messages
      <4>2. chan'[p] \in Seq(Messages)
        BY <1>3 DEF Hears
      <4>3. chan'[Other(p)] \in Seq(Messages)
        <5>1. chan[Other(p)] \in Seq(Messages)
          BY <1>1
        <5>2. \A y \in BOOLEAN : Append(chan[Other(p)], Message(l, y)) \in Seq(Messages)
          BY <4>1, <5>1
        <5>3. \/ chan'[Other(p)] = chan[Other(p)]
              \/ chan'[Other(p)] = Append(chan[Other(p)], Message(l, yes))
              \/ chan'[Other(p)] = Append(chan[Other(p)], Message(l, FALSE))
          BY DEF Hears
        <5> QED
          BY <5>1, <5>2, <5>3
      <4> QED
        BY <1>1, <4>2, <4>3
    <3> QED
      BY <3>1
  <2>2. ASSUME NEW q \in Peers, NEW i \in 1 .. Len(chan'[q])
        PROVE  (chan[q][i].yes => ~Refuses(Other(q), chan[q][i].link))'
    <3>1. PICK k \in Links : k = chan'[q][i].link
      BY <2>1 DEF Messages
    <3>2. CASE chan'[q][i].yes
      <4>1. ~Refuses(Other(q), k)
        BY <1>5, <3>1, <3>2
      <4>2. ~Refuses(Other(q), k)'
        BY <1>2, <4>1, OtherPeer
      <4> QED
        BY <3>1, <4>2 DEF Refuses
    <3> QED
      BY <3>2
  <2>3. \A q \in Peers, k \in Links : state'[q][k] = "ACTIVE" => ~Refuses(Other(q), k)'
    BY <1>2, <1>7, OtherPeer
  <2> QED
    BY <1>6, <2>2, <2>3 DEF RefusalsHold
<1> QED
  BY <1>2, <1>4, <1>8

(* The option the message is about, heard by the client.                    *)
LEMMA ClientHears ==
  ASSUME AgreementInv, NEW l \in Links, NEW yes \in BOOLEAN, Hears("client", l, yes)
  PROVE  LinkHolds(l)'
<1>1. /\ TypeOK /\ RefusalsHold /\ Told(l) /\ Heard(l) /\ Unasked(l)
      /\ chan["client"] \in Seq(Messages) /\ chan["server"] \in Seq(Messages)
      /\ state["client"][l] \in OptionStates
  BY BothPeers DEF AgreementInv, LinkHolds, TypeOK, Types
<1>2. /\ \A q \in Peers : Refuses(q, l)' <=> Refuses(q, l)
      /\ yes => ~Refuses("server", l)
  BY <1>1, BothPeers, HearsRefusals
<1>3. /\ chan["client"] # <<>> /\ chan'["client"] = Tail(chan["client"])
      /\ Head(chan["client"]).link = l /\ Head(chan["client"]).yes = yes
      /\ state'["server"][l] = state["server"][l] /\ next' = next
  BY BothPeers DEF Hears, Message
<1>4. /\ ~Silent(chan["client"], l)
      /\ \A y \in BOOLEAN : Ends(chan["client"], l, y) =>
           Ends(chan'["client"], l, y) \/ (Silent(chan'["client"], l) /\ (yes = y))
  BY <1>1, <1>3, TakenFirst
<1>5. /\ Refuses("client", l) => state'["client"][l] = state["client"][l]
      /\ ~Refuses("client", l) => state'["client"][l] = IF yes THEN "ACTIVE" ELSE "INACTIVE"
      /\ ~Refuses("client", l) =>
           \/ chan'["server"] = Append(chan["server"], Message(l, yes))
           \/ /\ chan'["server"] = chan["server"]
              /\ state["client"][l] = "REQUESTED" \/ state'["client"][l] = state["client"][l]
  BY BothPeers DEF Hears
<1>6. /\ Past("client", l)' <=> Past("client", l)
      /\ ServerHas(l)' <=> ServerHas(l)
      /\ Agrees("server", l)' <=> Agrees("server", l)
  BY <1>3, BothPeers DEF Past, ServerHas, StartupDone, Agrees
<1>7. Told(l)'
  <2> SUFFICES ASSUME ~Refuses("client", l)', ServerHas(l)'
               PROVE  \/ Ends(chan'["client"], l, TRUE)
                      \/ Silent(chan'["client"], l) /\ Agrees("client", l)'
    BY DEF Told
  <2>1. ~Refuses("client", l) /\ Ends(chan["client"], l, TRUE)
    BY <1>1, <1>2, <1>4, <1>6, BothPeers DEF Told
  <2>2. Ends(chan'["client"], l, TRUE) \/ (Silent(chan'["client"], l) /\ (yes = TRUE))
    BY <1>4, <2>1
  <2>3. yes = TRUE => Agrees("client", l)'
    BY <1>5, <2>1 DEF Agrees
  <2> QED
    BY <2>2, <2>3
<1>8. state'["client"][l] # "REQUESTED"
  BY <1>5 DEF Refuses
<1>9. Heard(l)'
  <2> SUFFICES ASSUME ~Refuses("server", l)', ClientHas(l)'
               PROVE  \/ Ends(chan'["server"], l, TRUE)
                      \/ /\ Silent(chan'["server"], l)
                         /\ Agrees("server", l)' \/ Ends(chan'["client"], l, FALSE)
    BY DEF Heard
  <2>1. ~Refuses("server", l) /\ state'["client"][l] = "ACTIVE"
    BY <1>2, <1>8, BothPeers DEF ClientHas
  <2>2. ~Refuses("client", l) /\ yes
    <3>1. ~Refuses("client", l)
      BY <1>2, <2>1, BothPeers DEF Refuses
    <3> QED
      BY <1>5, <2>1, <3>1
  <2>3. CASE chan'["server"] = Append(chan["server"], Message(l, yes))
    <3>1. Ends(chan'["server"], l, TRUE)
      BY <1>1, <2>2, <2>3, EndsWithLast
    <3> QED
      BY <3>1
  <2>4. CASE /\ chan'["server"] = chan["server"]
             /\ state["client"][l] = "REQUESTED" \/ state'["client"][l] = state["client"][l]
    <3>1. Ends(chan["client"], l, FALSE) => Ends(chan'["client"], l, FALSE)
      BY <1>4, <2>2
    <3>2. CASE ClientHas(l)
      BY <1>1, <1>6, <2>1, <2>4, <3>1, <3>2 DEF Heard
    <3>3. CASE ~ClientHas(l)
      <4>1. state["client"][l] = "REQUESTED" /\ ~Past("client", l)
        BY <2>1, <2>4, <3>3 DEF ClientHas
      <4> QED
        BY <1>1, <1>4, <1>6, <2>4, <3>1, <4>1 DEF Unasked
    <3> QED
      BY <3>2, <3>3
  <2> QED
    BY <1>5, <2>2, <2>3, <2>4
<1>10. Unasked(l)'
  BY <1>8 DEF Unasked
<1> QED
  BY <1>7, <1>9, <1>10 DEF LinkHolds

(* The same by the server.                                                  *)
LEMMA ServerHears ==
  ASSUME AgreementInv, NEW l \in Links, NEW yes \in BOOLEAN, Hears("server", l, yes)
  PROVE  LinkHolds(l)'
<1>1. /\ TypeOK /\ RefusalsHold /\ Told(l) /\ Heard(l) /\ Unasked(l)
      /\ chan["client"] \in Seq(Messages) /\ chan["server"] \in Seq(Messages)
      /\ state["server"][l] \in OptionStates
  BY BothPeers DEF AgreementInv, LinkHolds, TypeOK, Types
<1>2. /\ \A q \in Peers : Refuses(q, l)' <=> Refuses(q, l)
      /\ yes => ~Refuses("client", l)
  BY <1>1, BothPeers, HearsRefusals
<1>3. /\ chan["server"] # <<>> /\ chan'["server"] = Tail(chan["server"])
      /\ Head(chan["server"]).link = l /\ Head(chan["server"]).yes = yes
      /\ state'["client"][l] = state["client"][l] /\ next' = next /\ StartupDone("server")
  BY BothPeers DEF Hears, Message
<1>4. /\ ~Silent(chan["server"], l)
      /\ \A y \in BOOLEAN : Ends(chan["server"], l, y) =>
           Ends(chan'["server"], l, y) \/ (Silent(chan'["server"], l) /\ (yes = y))
  BY <1>1, <1>3, TakenFirst
<1>5. /\ Refuses("server", l) => state'["server"][l] = state["server"][l]
      /\ ~Refuses("server", l) => state'["server"][l] = IF yes THEN "ACTIVE" ELSE "INACTIVE"
      /\ ~Refuses("server", l) =>
           \/ chan'["client"] = Append(chan["client"], Message(l, yes))
           \/ /\ chan'["client"] = chan["client"]
              /\ state["server"][l] = "REQUESTED" \/ state'["server"][l] = state["server"][l]
  BY BothPeers DEF Hears
<1>6. /\ Past("client", l)' <=> Past("client", l)
      /\ ClientHas(l)' <=> ClientHas(l)
      /\ Agrees("client", l)' <=> Agrees("client", l)
  BY <1>3, BothPeers DEF Past, ClientHas, Agrees
<1>7. Told(l)'
  <2> SUFFICES ASSUME ~Refuses("client", l)', ServerHas(l)'
               PROVE  \/ Ends(chan'["client"], l, TRUE)
                      \/ Silent(chan'["client"], l) /\ Agrees("client", l)'
    BY DEF Told
  <2>1. ~Refuses("client", l) /\ ~Refuses("server", l) /\ yes /\ state'["server"][l] = "ACTIVE"
    <3>1. state'["server"][l] \in {"ACTIVE", "REQUESTED"}
      BY DEF ServerHas
    <3>2. ~Refuses("server", l)
      BY <1>2, <3>1, BothPeers DEF Refuses
    <3> QED
      BY <1>2, <1>5, <3>1, <3>2, BothPeers
  <2>2. CASE chan'["client"] = Append(chan["client"], Message(l, yes))
    <3>1. Ends(chan'["client"], l, TRUE)
      BY <1>1, <2>1, <2>2, EndsWithLast
    <3> QED
      BY <3>1
  <2>3. CASE /\ chan'["client"] = chan["client"]
             /\ state["server"][l] = "REQUESTED" \/ state'["server"][l] = state["server"][l]
    <3>1. ServerHas(l)
      BY <1>3, <2>1, <2>3 DEF ServerHas
    <3> QED
      BY <1>1, <1>6, <2>1, <2>3, <3>1 DEF Told
  <2> QED
    BY <1>5, <2>1, <2>2, <2>3
<1>8. Heard(l)'
  <2> SUFFICES ASSUME ~Refuses("server", l)', ClientHas(l)'
               PROVE  \/ Ends(chan'["server"], l, TRUE)
                      \/ Silent(chan'["server"], l) /\ Agrees("server", l)'
    BY DEF Heard
  <2>1. ~Refuses("server", l) /\ Ends(chan["server"], l, TRUE)
    BY <1>1, <1>2, <1>4, <1>6, BothPeers DEF Heard
  <2>2. Ends(chan'["server"], l, TRUE) \/ (Silent(chan'["server"], l) /\ (yes = TRUE))
    BY <1>4, <2>1
  <2>3. yes = TRUE => Agrees("server", l)'
    BY <1>5, <2>1 DEF Agrees
  <2> QED
    BY <2>2, <2>3
<1>9. Unasked(l)'
  <2>1. ~(state["client"][l] = "REQUESTED" /\ ~Past("client", l))
    BY <1>1, <1>4 DEF Unasked
  <2> QED
    BY <1>3, <1>6, <2>1 DEF Unasked
<1> QED
  BY <1>7, <1>8, <1>9 DEF LinkHolds

LEMMA AgreementReceive ==
  ASSUME AgreementInv, TypeOK', NEW p \in Peers, Receive(p)
  PROVE  AgreementInv'
<1>1. /\ TypeOK /\ RefusalsHold /\ ServerAsks /\ ActiveFollows /\ \A l \in Links : LinkHolds(l)
      /\ chan \in [Peers -> Seq(Messages)] /\ next \in [Peers -> Nat]
  BY DEF AgreementInv, TypeOK, Types
<1>2. PICK l \in Links, yes \in BOOLEAN : Hears(p, l, yes)
  BY <1>1, ReceiveHears
<1>3. RefusalsHold'
  BY <1>1, <1>2, HearsRefusals
<1>4. /\ UNCHANGED <<active, next, asking>>
      /\ \A q \in Peers, k \in Links : q # p \/ k # l => state'[q][k] = state[q][k]
      /\ settling[p] = NoLink /\ \A q \in Peers : q # p => settling'[q] = settling[q]
      /\ state'[p][l] # state[p][l] => settling'[p] = l
      /\ p = "server" => StartupDone(p)
  BY <1>2 DEF Hears
<1>5. StartupDone("server")' <=> StartupDone("server")
  BY <1>4 DEF StartupDone
<1>6. ServerAsks'
  <2>1. CASE StartupDone("server")
    <3>1. ~asking["server"]
      BY <1>1, <2>1, BothPeers DEF TypeOK, LoopOK, StartupDone
    <3> QED
      BY <1>4, <1>5, <2>1, <3>1 DEF ServerAsks
  <2>2. CASE ~StartupDone("server")
    <3>1. \A k \in Links : state'["server"][k] = state["server"][k]
      BY <1>4, <2>2, BothPeers
    <3>2. asking["server"] => Current("server") \in Links
      BY <1>1, BothPeers, CurrentIsLink DEF TypeOK, LoopOK
    <3>3. Current("server")' = Current("server")
      BY <1>4 DEF Current
    <3>4. \A k : Listed("server", k)' <=> Listed("server", k)
      BY DEF Listed
    <3> QED
      BY <1>1, <1>4, <1>5, <3>1, <3>2, <3>3, <3>4 DEF ServerAsks
  <2> QED
    BY <2>1, <2>2
<1>7. ActiveFollows'
  <2> SUFFICES ASSUME NEW q \in Peers, NEW k \in Links, settling'[q] # k
               PROVE  active'[q][k] <=> state'[q][k] = "ACTIVE"
    BY DEF ActiveFollows
  <2>1. settling[q] # k
    BY <1>4, LinksAssumption
  <2>2. state'[q][k] = state[q][k]
    BY <1>4
  <2> QED
    BY <1>1, <1>4, <2>1, <2>2 DEF ActiveFollows
<1>8. ASSUME NEW k \in Links, k # l PROVE LinkHolds(k)'
  <2>1. \A q \in Peers : state'[q][k] = state[q][k]
    BY <1>4, <1>8
  <2>2. (Past("client", k)' <=> Past("client", k)) /\ (ServerHas(k)' => ServerHas(k))
    BY <1>4, <1>5, <2>1, BothPeers DEF Past, ServerHas
  <2>3. ASSUME NEW q \in Peers
        PROVE  /\ Silent(chan[q], k) => Silent(chan'[q], k)
               /\ \A y \in BOOLEAN : Ends(chan[q], k, y) => Ends(chan'[q], k, y)
    <3>1. CASE q = p
      <4>1. /\ chan[q] \in Seq(Messages) /\ chan[q] # <<>> /\ chan'[q] = Tail(chan[q])
            /\ Head(chan[q]).link = l
        BY <1>1, <1>2, <3>1 DEF Hears, Message
      <4> QED
        BY <1>8, <4>1, TakenFirst
    <3>2. CASE q = Other(p)
      <4>1. chan[q] \in Seq(Messages)
        BY <1>1
      <4>2. CASE chan'[q] = chan[q]
        BY <4>2
      <4>3. ASSUME NEW m \in Messages, m.link = l, chan'[q] = Append(chan[q], m)
            PROVE  /\ Silent(chan[q], k) => Silent(chan'[q], k)
                   /\ \A y \in BOOLEAN : Ends(chan[q], k, y) => Ends(chan'[q], k, y)
        BY <1>8, <4>1, <4>3, AppendedOther
      <4>4. \A y \in BOOLEAN : Message(l, y) \in Messages /\ Message(l, y).link = l
        BY DEF Message, Messages
      <4>5. chan'[q] = chan[q] \/ \E y \in BOOLEAN : chan'[q] = Append(chan[q], Message(l, y))
        BY <1>2, <3>2 DEF Hears
      <4> QED
        BY <4>2, <4>3, <4>4, <4>5
    <3>3. q = p \/ q = Other(p)
      BY DEF Peers, Other
    <3> QED
      BY <3>1, <3>2, <3>3
  <2> QED
    BY <1>1, <2>1, <2>2, <2>3, LinkStays
<1>9. LinkHolds(l)'
  BY <1>2, BothPeers, ClientHears, ServerHears
<1>10. \A k \in Links : LinkHolds(k)'
  BY <1>8, <1>9
<1> QED
  BY <1>3, <1>6, <1>7, <1>10 DEF AgreementInv

(* A peer says something of its own accord.                                 *)
Says(p, l, yes) == chan' = [chan EXCEPT ![Other(p)] = Append(@, Message(l, yes))]

LEMMA SaysRefusals ==
  ASSUME TypeOK, RefusalsHold, NEW p \in Peers, NEW l \in Links, NEW yes \in BOOLEAN,
         Says(p, l, yes), yes => ~Refuses(p, l),
         \A q \in Peers, k \in Links : Refuses(q, k)' <=> Refuses(q, k),
         \A q \in Peers, k \in Links : state'[q][k] = "ACTIVE" => state[q][k] = "ACTIVE",
         \A q \in Peers : asking'[q] => asking[q] /\ Current(q)' = Current(q)
  PROVE  RefusalsHold'
<1>1. /\ chan \in [Peers -> Seq(Messages)] /\ next \in [Peers -> Nat]
      /\ Other(p) \in Peers /\ Other(Other(p)) = p /\ Message(l, yes) \in Messages
  BY OtherPeer DEF TypeOK, Types, Message, Messages
<1>2. ASSUME NEW q \in Peers, NEW i \in 1 .. Len(chan'[q])
      PROVE  (chan[q][i].yes => ~Refuses(Other(q), chan[q][i].link))'
  <2>1. \/ \E j \in 1 .. Len(chan[q]) : chan'[q][i] = chan[q][j]
        \/ q = Other(p) /\ chan'[q][i] = Message(l, yes)
    <3>1. CASE q = Other(p)
      <4>1. chan'[q] = Append(chan[q], Message(l, yes)) /\ chan[q] \in Seq(Messages)
        BY <1>1, <3>1 DEF Says
      <4> QED
        BY <1>1, <3>1, <4>1, AppendElements
    <3>2. CASE q # Other(p)
      <4>1. chan'[q] = chan[q]
        BY <1>1, <3>2 DEF Says
      <4> QED
        BY <4>1
    <3> QED
      BY <3>1, <3>2
  <2>2. ASSUME NEW m \in Messages, chan'[q][i] = m, m.yes => ~Refuses(Other(q), m.link)
        PROVE  (chan[q][i].yes => ~Refuses(Other(q), chan[q][i].link))'
    <3>1. m.link \in Links /\ Other(q) \in Peers
      BY OtherPeer DEF Messages
    <3>2. m.yes => ~Refuses(Other(q), m.link)'
      BY <2>2, <3>1
    <3> QED
      BY <2>2, <3>2 DEF Refuses
  <2>3. \A j \in 1 .. Len(chan[q]) : chan[q][j] \in Messages
    BY <1>1
  <2>4. CASE \E j \in 1 .. Len(chan[q]) : chan'[q][i] = chan[q][j]
    <3>1. PICK j \in 1 .. Len(chan[q]) : chan'[q][i] = chan[q][j]
      BY <2>4
    <3>2. chan[q][j].yes => ~Refuses(Other(q), chan[q][j].link)
      BY DEF RefusalsHold
    <3> QED
      BY <2>2, <2>3, <3>1, <3>2
  <2>5. CASE q = Other(p) /\ chan'[q][i] = Message(l, yes)
    <3>1. /\ Message(l, yes).yes = yes /\ Message(l, yes).link = l
      BY DEF Message
    <3> QED
      BY <1>1, <2>2, <2>5, <3>1
  <2> QED
    BY <2>1, <2>4, <2>5
<1>3. ASSUME NEW q \in Peers, asking'[q] PROVE ~Refuses(q, Current(q))'
  <2>1. asking[q] /\ next[q] < Len(Order[q]) /\ Current(q)' = Current(q)
    BY <1>3 DEF TypeOK, LoopOK
  <2>2. PICK k \in Links : k = Current(q)
    BY <1>1, <2>1, CurrentIsLink
  <2>3. ~Refuses(q, k)
    BY <2>1, <2>2 DEF RefusalsHold
  <2>4. ~Refuses(q, k)'
    BY <2>3
  <2> QED
    BY <2>1, <2>2, <2>4 DEF Refuses
<1>4. \A q \in Peers, k \in Links : state'[q][k] = "ACTIVE" => ~Refuses(Other(q), k)'
  BY OtherPeer DEF RefusalsHold
<1> QED
  BY <1>2, <1>3, <1>4 DEF RefusalsHold

LEMMA SaysOther ==
  ASSUME TypeOK, NEW p \in Peers, NEW l \in Links, NEW yes \in BOOLEAN, Says(p, l, yes),
         NEW k \in Links, k # l
  PROVE  \A q \in Peers : /\ Silent(chan[q], k) => Silent(chan'[q], k)
                          /\ \A y \in BOOLEAN : Ends(chan[q], k, y) => Ends(chan'[q], k, y)
<1> SUFFICES ASSUME NEW q \in Peers
             PROVE  /\ Silent(chan[q], k) => Silent(chan'[q], k)
                    /\ \A y \in BOOLEAN : Ends(chan[q], k, y) => Ends(chan'[q], k, y)
  OBVIOUS
<1>1. /\ chan \in [Peers -> Seq(Messages)] /\ chan[q] \in Seq(Messages)
      /\ Message(l, yes) \in Messages /\ Message(l, yes).link = l
  BY DEF TypeOK, Types, Message, Messages
<1>2. CASE q = Other(p)
  <2>1. chan'[q] = Append(chan[q], Message(l, yes))
    BY <1>1, <1>2 DEF Says
  <2> QED
    BY <1>1, <2>1, AppendedOther
<1>3. CASE q # Other(p)
  <2>1. chan'[q] = chan[q]
    BY <1>1, <1>3 DEF Says
  <2> QED
    BY <2>1
<1> QED
  BY <1>2, <1>3

(* The startup loop goes on to the next option of its list.                 *)
LEMMA PastMoves ==
  ASSUME TypeOK, NEW p \in Peers, next[p] < Len(Order[p]), next' = [next EXCEPT ![p] = @ + 1],
         NEW k \in Links
  PROVE  /\ Past(p, k)' <=> Past(p, k) \/ k = Current(p)
         /\ StartupDone(p)' /\ Listed(p, k) => Past(p, k) \/ k = Current(p)
         /\ ~StartupDone(p)
         /\ \A q \in Peers : q # p => /\ Past(q, k)' <=> Past(q, k)
                                      /\ StartupDone(q)' <=> StartupDone(q)
                                      /\ Current(q)' = Current(q)
<1>1. /\ next \in [Peers -> Nat] /\ next[p] \in Nat /\ Len(Order[p]) \in Nat
      /\ next'[p] = next[p] + 1 /\ \A q \in Peers : q # p => next'[q] = next[q]
  BY TablesAssumption DEF TypeOK, Types
<1>2. Past(p, k)' <=> Past(p, k) \/ k = Current(p)
  <2>1. \A i \in 1 .. Len(Order[p]) : i <= next'[p] <=> (i <= next[p] \/ i = next[p] + 1)
    BY <1>1
  <2>2. next[p] + 1 \in 1 .. Len(Order[p])
    BY <1>1
  <2> QED
    BY <2>1, <2>2 DEF Past, Current
<1>3. StartupDone(p)' /\ Listed(p, k) => Past(p, k) \/ k = Current(p)
  <2> SUFFICES ASSUME StartupDone(p)', Listed(p, k) PROVE Past(p, k) \/ k = Current(p)
    OBVIOUS
  <2>1. PICK i \in 1 .. Len(Order[p]) : Order[p][i] = k
    BY DEF Listed
  <2>2. i <= next[p] \/ i = next[p] + 1
    BY <1>1 DEF StartupDone
  <2> QED
    BY <2>1, <2>2 DEF Past, Current
<1>4. ~StartupDone(p)
  BY <1>1 DEF StartupDone
<1>5. \A q \in Peers : q # p => /\ Past(q, k)' <=> Past(q, k)
                                /\ StartupDone(q)' <=> StartupDone(q)
                                /\ Current(q)' = Current(q)
  BY <1>1 DEF Past, StartupDone, Current
<1> QED
  BY <1>2, <1>3, <1>4, <1>5

LEMMA AgreementConsider ==
  ASSUME AgreementInv, TypeOK', NEW p \in Peers, ConsiderOption(p)
  PROVE  AgreementInv'
<1>1. /\ TypeOK /\ RefusalsHold /\ ServerAsks /\ ActiveFollows /\ \A l \in Links : LinkHolds(l)
      /\ next \in [Peers -> Nat] /\ asking \in [Peers -> BOOLEAN]
      /\ \A q \in Peers : next[q] <= Len(Order[q]) /\ next[q] \in Nat /\ Len(Order[q]) \in Nat
  BY TablesAssumption DEF AgreementInv, TypeOK, Types, LoopOK
<1>2. /\ UNCHANGED <<state, chan, active, settling>> /\ ~StartupDone(p) /\ ~asking[p]
      /\ next[p] < Len(Order[p])
  BY <1>1 DEF ConsiderOption, StartupDone
<1>3. ActiveFollows'
  BY <1>1, <1>2 DEF ActiveFollows
<1>4. \A q \in Peers, k \in Links : /\ Refuses(q, k)' <=> Refuses(q, k)
                                    /\ Agrees(q, k)' <=> Agrees(q, k)
                                    /\ Listed(q, k)' <=> Listed(q, k)
  BY <1>2 DEF Refuses, Agrees, Listed
<1>5. PICK l \in Links : l = Current(p)
  BY <1>1, <1>2, CurrentIsLink
<1>6. CASE state[p][Current(p)] = "REQUESTED"
  <2>1. asking' = [asking EXCEPT ![p] = TRUE] /\ next' = next
    BY <1>6 DEF ConsiderOption
  <2>2. \A q \in Peers : Current(q)' = Current(q) /\ (StartupDone(q)' <=> StartupDone(q))
    BY <2>1 DEF Current, StartupDone
  <2>3. RefusalsHold'
    <3>1. ASSUME NEW q \in Peers, asking'[q] PROVE ~Refuses(q, Current(q))'
      <4>1. CASE q = p
        BY <1>2, <1>6, <2>2, <4>1 DEF Refuses
      <4>2. CASE q # p
        <5>1. asking[q]
          BY <1>1, <2>1, <3>1, <4>2
        <5> QED
          BY <1>1, <1>2, <2>2, <5>1 DEF RefusalsHold, Refuses
      <4> QED
        BY <4>1, <4>2
    <3>2. \A q \in Peers : \A i \in 1 .. Len(chan'[q]) :
            (chan[q][i].yes => ~Refuses(Other(q), chan[q][i].link))'
      BY <1>1, <1>2 DEF RefusalsHold, Refuses
    <3>3. \A q \in Peers, k \in Links : state'[q][k] = "ACTIVE" => ~Refuses(Other(q), k)'
      BY <1>1, <1>2 DEF RefusalsHold, Refuses
    <3> QED
      BY <3>1, <3>2, <3>3 DEF RefusalsHold
  <2>4. ServerAsks'
    <3>1. asking'["server"] => state'["server"][Current("server")'] = "REQUESTED"
      <4>1. CASE p = "server"
        BY <1>2, <1>6, <2>2, <4>1
      <4>2. CASE p # "server"
        <5>1. asking'["server"] = asking["server"]
          BY <1>1, <2>1, <4>2, BothPeers
        <5> QED
          BY <1>1, <1>2, <2>2, <5>1, BothPeers DEF ServerAsks
      <4> QED
        BY <4>1, <4>2
    <3> QED
      BY <1>1, <1>2, <1>4, <2>2, <3>1, BothPeers DEF ServerAsks
  <2>5. ASSUME NEW k \in Links PROVE LinkHolds(k)'
    <3>1. \A q \in Peers : Past(q, k)' <=> Past(q, k)
      BY <2>1 DEF Past
    <3>2. ServerHas(k)' => ServerHas(k)
      BY <1>2, <2>2, <3>1, BothPeers DEF ServerHas
    <3> QED
      BY <1>1, <1>2, <3>1, <3>2, BothPeers, LinkStays
  <2> QED
    BY <1>3, <2>3, <2>4, <2>5 DEF AgreementInv
<1>7. CASE state[p][Current(p)] # "REQUESTED"
  <2>1. next' = [next EXCEPT ![p] = @ + 1] /\ asking' = asking
    BY <1>7 DEF ConsiderOption
  <2>2. ASSUME NEW k \in Links
        PROVE  /\ Past(p, k)' <=> Past(p, k) \/ k = l
               /\ StartupDone(p)' /\ Listed(p, k) => Past(p, k) \/ k = l
               /\ \A q \in Peers : q # p => /\ Past(q, k)' <=> Past(q, k)
                                            /\ StartupDone(q)' <=> StartupDone(q)
                                            /\ Current(q)' = Current(q)
    BY <1>1, <1>2, <1>5, <2>1, PastMoves
  <2>3. RefusalsHold'
    <3>1. ASSUME NEW q \in Peers, asking'[q] PROVE ~Refuses(q, Current(q))'
      <4>1. asking[q] /\ q # p
        BY <1>2, <2>1, <3>1
      <4>2. Current(q)' = Current(q)
        BY <1>5, <2>2, <4>1
      <4> QED
        BY <1>1, <1>2, <4>1, <4>2 DEF RefusalsHold, Refuses
    <3>2. \A q \in Peers : \A i \in 1 .. Len(chan'[q]) :
            (chan[q][i].yes => ~Refuses(Other(q), chan[q][i].link))'
      BY <1>1, <1>2 DEF RefusalsHold, Refuses
    <3>3. \A q \in Peers, k \in Links : state'[q][k] = "ACTIVE" => ~Refuses(Other(q), k)'
      BY <1>1, <1>2 DEF RefusalsHold, Refuses
    <3> QED
      BY <3>1, <3>2, <3>3 DEF RefusalsHold
  <2>4. ServerAsks'
    <3>1. CASE p = "server"
      <4>1. ~asking'["server"]
        BY <1>2, <2>1, <3>1
      <4>2. ASSUME NEW k \in Links
            PROVE  /\ ~StartupDone("server")' => state'["server"][k] # "ACTIVE"
                   /\ state'["server"][k] = "REQUESTED" => StartupDone("server")' \/ Listed("server", k)'
        BY <1>1, <1>2, <1>4, <3>1 DEF ServerAsks
      <4> QED
        BY <4>1, <4>2 DEF ServerAsks
    <3>2. CASE p # "server"
      <4>1. Current("server")' = Current("server") /\ (StartupDone("server")' <=> StartupDone("server"))
        BY <1>5, <2>2, <3>2, BothPeers
      <4> QED
        BY <1>1, <1>2, <1>4, <2>1, <4>1, BothPeers DEF ServerAsks
    <3> QED
      BY <3>1, <3>2
  <2>5. ASSUME NEW k \in Links PROVE LinkHolds(k)'
    <3>1. ServerHas(k)' => ServerHas(k)
      <4>1. CASE p # "server"
        BY <1>2, <2>2, <4>1, BothPeers DEF ServerHas
      <4>2. CASE p = "server" /\ state["server"][k] = "REQUESTED"
        <5>1. k # l /\ Listed("server", k)
          BY <1>1, <1>2, <1>5, <1>7, <4>2 DEF ServerAsks
        <5> QED
          BY <1>2, <2>2, <4>2, <5>1 DEF ServerHas
      <4>3. CASE state["server"][k] # "REQUESTED"
        BY <1>2, <4>3 DEF ServerHas
      <4> QED
        BY <4>1, <4>2, <4>3
    <3>2. CASE p = "client" /\ k = l
      <4>1. state["client"][k] # "REQUESTED" /\ state' = state /\ chan' = chan
        BY <1>2, <1>5, <1>7, <3>2
      <4>2. Unasked(k)'
        BY <4>1 DEF Unasked
      <4>3. ClientHas(k)' => ClientHas(k)
        BY <4>1 DEF ClientHas
      <4>4. Heard(k)'
        BY <1>1, <1>4, <4>1, <4>3, BothPeers DEF LinkHolds, Heard
      <4>5. Told(k)'
        BY <1>1, <1>4, <3>1, <4>1, BothPeers DEF LinkHolds, Told
      <4> QED
        BY <4>2, <4>4, <4>5 DEF LinkHolds
    <3>3. CASE ~(p = "client" /\ k = l)
      <4>1. Past("client", k)' <=> Past("client", k)
        BY <2>2, <3>3, BothPeers
      <4> QED
        BY <1>1, <1>2, <3>1, <4>1, LinkStays
    <3> QED
      BY <3>2, <3>3
  <2> QED
    BY <1>3, <2>3, <2>4, <2>5 DEF AgreementInv
<1> QED
  BY <1>6, <1>7

LEMMA AgreementSend ==
  ASSUME AgreementInv, TypeOK', NEW p \in Peers, SendRequest(p)
  PROVE  AgreementInv'
<1>1. /\ TypeOK /\ RefusalsHold /\ ServerAsks /\ ActiveFollows /\ \A l \in Links : LinkHolds(l)
      /\ chan \in [Peers -> Seq(Messages)]
      /\ next \in [Peers -> Nat] /\ asking \in [Peers -> BOOLEAN]
  BY DEF AgreementInv, TypeOK, Types
<1>2. /\ UNCHANGED <<state, active, settling>> /\ asking[p] /\ next[p] < Len(Order[p])
      /\ next' = [next EXCEPT ![p] = @ + 1] /\ asking' = [asking EXCEPT ![p] = FALSE]
  BY <1>1 DEF SendRequest, TypeOK, LoopOK
<1>3. PICK l \in Links : l = Current(p)
  BY <1>1, <1>2, CurrentIsLink
<1>4. Says(p, l, TRUE) /\ ~Refuses(p, l)
  BY <1>1, <1>2, <1>3 DEF SendRequest, Says, RefusalsHold
<1>5. \A q \in Peers, k \in Links : /\ Refuses(q, k)' <=> Refuses(q, k)
                                    /\ Agrees(q, k)' <=> Agrees(q, k)
                                    /\ Listed(q, k)' <=> Listed(q, k)
  BY <1>2 DEF Refuses, Agrees, Listed
<1>6. ASSUME NEW k \in Links
      PROVE  /\ Past(p, k)' <=> Past(p, k) \/ k = l
             /\ StartupDone(p)' /\ Listed(p, k) => Past(p, k) \/ k = l
             /\ ~StartupDone(p)
             /\ \A q \in Peers : q # p => /\ Past(q, k)' <=> Past(q, k)
                                          /\ StartupDone(q)' <=> StartupDone(q)
                                          /\ Current(q)' = Current(q)
  BY <1>1, <1>2, <1>3, PastMoves
<1>7. \A q \in Peers : asking'[q] => asking[q] /\ q # p /\ Current(q)' = Current(q)
  BY <1>1, <1>2, <1>3, <1>6
<1>8. RefusalsHold'
  BY <1>1, <1>2, <1>4, <1>5, <1>7, SaysRefusals
<1>9. ServerAsks'
  <2>1. CASE p = "server"
    <3>1. ~asking'["server"]
      BY <1>7, <2>1
    <3>2. \A k \in Links : /\ ~StartupDone("server")' => state'["server"][k] # "ACTIVE"
                           /\ state'["server"][k] = "REQUESTED" =>
                                StartupDone("server")' \/ Listed("server", k)'
      BY <1>1, <1>2, <1>5, <1>6, <2>1 DEF ServerAsks
    <3> QED
      BY <3>1, <3>2 DEF ServerAsks
  <2>2. CASE p # "server"
    <3>1. /\ Current("server")' = Current("server") /\ (StartupDone("server")' <=> StartupDone("server"))
          /\ asking'["server"] = asking["server"]
      BY <1>1, <1>2, <1>3, <1>6, <2>2, BothPeers
    <3> QED
      BY <1>1, <1>2, <1>5, <3>1, BothPeers DEF ServerAsks
  <2> QED
    BY <2>1, <2>2
<1>10. ActiveFollows'
  BY <1>1, <1>2 DEF ActiveFollows
<1>11. ASSUME NEW k \in Links, k # l PROVE LinkHolds(k)'
  <2>1. \A q \in Peers : Past(q, k)' <=> Past(q, k)
    BY <1>6, <1>11
  <2>2. ServerHas(k)' => ServerHas(k)
    <3>1. CASE p # "server"
      BY <1>2, <1>6, <3>1, BothPeers DEF ServerHas
    <3>2. CASE p = "server" /\ state["server"][k] = "REQUESTED"
      <4>1. Listed("server", k)
        BY <1>1, <1>6, <3>2 DEF ServerAsks
      <4> QED
        BY <1>2, <1>6, <1>11, <3>2, <4>1 DEF ServerHas
    <3>3. CASE state["server"][k] # "REQUESTED"
      BY <1>2, <3>3 DEF ServerHas
    <3> QED
      BY <3>1, <3>2, <3>3
  <2>3. \A q \in Peers : /\ Silent(chan[q], k) => Silent(chan'[q], k)
                         /\ \A y \in BOOLEAN : Ends(chan[q], k, y) => Ends(chan'[q], k, y)
    BY <1>1, <1>4, <1>11, SaysOther
  <2> QED
    BY <1>1, <1>2, <2>1, <2>2, <2>3, BothPeers, LinkStays
<1>12. LinkHolds(l)'
  <2>1. Told(l) /\ Heard(l) /\ Unasked(l)
    BY <1>1 DEF LinkHolds
  <2>2. CASE p = "client"
    <3>1. chan'["server"] = Append(chan["server"], Message(l, TRUE)) /\ chan'["client"] = chan["client"]
      BY <1>1, <1>4, <2>2, BothPeers DEF Says
    <3>2. Ends(chan'["server"], l, TRUE)
      <4>1. chan["server"] \in Seq(Messages) /\ TRUE \in BOOLEAN
        BY <1>1, BothPeers
      <4>2. Ends(Append(chan["server"], Message(l, TRUE)), l, TRUE)
        BY <4>1, EndsWithLast
      <4> QED
        BY <3>1, <4>2
    <3>3. Heard(l)'
      BY <3>2 DEF Heard
    <3>4. Unasked(l)'
      BY <1>6, <2>2 DEF Unasked
    <3>5. ServerHas(l)' => ServerHas(l)
      BY <1>2, <1>6, <2>2, BothPeers DEF ServerHas
    <3>6. Told(l)'
      BY <1>5, <2>1, <3>1, <3>5, BothPeers DEF Told
    <3> QED
      BY <3>3, <3>4, <3>6 DEF LinkHolds
  <2>3. CASE p = "server"
    <3>1. chan'["client"] = Append(chan["client"], Message(l, TRUE)) /\ chan'["server"] = chan["server"]
      BY <1>1, <1>4, <2>3, BothPeers DEF Says
    <3>2. Ends(chan'["client"], l, TRUE)
      <4>1. chan["client"] \in Seq(Messages) /\ TRUE \in BOOLEAN
        BY <1>1, BothPeers
      <4>2. Ends(Append(chan["client"], Message(l, TRUE)), l, TRUE)
        BY <4>1, EndsWithLast
      <4> QED
        BY <3>1, <4>2
    <3>3. Told(l)'
      BY <3>2 DEF Told
    <3>4. Agrees("server", l)'
      BY <1>1, <1>2, <1>3, <2>3 DEF ServerAsks, Agrees
    <3>5. Past("client", l)' <=> Past("client", l)
      BY <1>6, <2>3, BothPeers
    <3>6. ClientHas(l)' <=> ClientHas(l)
      BY <1>2, <3>5 DEF ClientHas
    <3>7. Heard(l)'
      BY <1>5, <2>1, <3>1, <3>4, <3>6, BothPeers DEF Heard
    <3>8. Unasked(l)'
      BY <1>2, <2>1, <3>1, <3>4, <3>5 DEF Unasked
    <3> QED
      BY <3>3, <3>7, <3>8 DEF LinkHolds
  <2> QED
    BY <2>2, <2>3, BothPeers
<1>13. \A k \in Links : LinkHolds(k)'
  BY <1>11, <1>12
<1> QED
  BY <1>8, <1>9, <1>10, <1>13 DEF AgreementInv

LEMMA AgreementSwitch ==
  ASSUME AgreementInv, TypeOK', NEW l \in Links, Switch(l)
  PROVE  AgreementInv'
<1>1. /\ TypeOK /\ RefusalsHold /\ ServerAsks /\ ActiveFollows /\ \A k \in Links : LinkHolds(k)
      /\ chan \in [Peers -> Seq(Messages)] /\ state \in [Peers -> [Links -> OptionStates]]
      /\ active \in [Peers -> [Links -> BOOLEAN]]
      /\ state["server"] \in [Links -> OptionStates] /\ active["server"] \in [Links -> BOOLEAN]
  BY BothPeers DEF AgreementInv, TypeOK, Types
<1>2. /\ UNCHANGED <<next, asking, settling>> /\ StartupDone("server") /\ settling["server"] = NoLink
      /\ SwitchOn(l) \/ SwitchOff(l)
  BY DEF Switch
<1>3. \A q \in Peers, k \in Links : q # "server" \/ k # l =>
        state'[q][k] = state[q][k] /\ active'[q][k] = active[q][k]
  <2>1. PICK s : state' = [state EXCEPT !["server"][l] = s]
    BY <1>2 DEF SwitchOn, SwitchOff
  <2>2. active' = active \/ active' = [active EXCEPT !["server"][l] = FALSE]
    BY <1>2 DEF SwitchOn, SwitchOff
  <2>3. \A q \in Peers, k \in Links : q # "server" \/ k # l => state'[q][k] = state[q][k]
    BY <1>1, <2>1, BothPeers
  <2>4. \A q \in Peers, k \in Links : q # "server" \/ k # l => active'[q][k] = active[q][k]
    BY <1>1, <2>2, BothPeers
  <2> QED
    BY <2>3, <2>4
<1>4. \E yes \in BOOLEAN :
        /\ Says("server", l, yes)
        /\ state["server"][l] = IF yes THEN "INACTIVE" ELSE "ACTIVE"
        /\ state'["server"][l] = IF yes THEN "REQUESTED" ELSE "INACTIVE"
        /\ active'["server"][l] = IF yes THEN active["server"][l] ELSE FALSE
  <2>1. CASE SwitchOn(l)
    <3>1. /\ Says("server", l, TRUE) /\ state["server"][l] = "INACTIVE"
          /\ state'["server"][l] = "REQUESTED" /\ active'["server"][l] = active["server"][l]
      BY <1>1, <2>1, BothPeers DEF SwitchOn, Says
    <3> QED
      BY <3>1
  <2>2. CASE SwitchOff(l)
    <3>1. /\ Says("server", l, FALSE) /\ state["server"][l] = "ACTIVE"
          /\ state'["server"][l] = "INACTIVE" /\ active'["server"][l] = FALSE
      BY <1>1, <2>2, BothPeers DEF SwitchOff, Says
    <3> QED
      BY <3>1
  <2> QED
    BY <1>2, <2>1, <2>2
<1>5. PICK yes \in BOOLEAN :
        /\ Says("server", l, yes)
        /\ state["server"][l] = IF yes THEN "INACTIVE" ELSE "ACTIVE"
        /\ state'["server"][l] = IF yes THEN "REQUESTED" ELSE "INACTIVE"
        /\ active'["server"][l] = IF yes THEN active["server"][l] ELSE FALSE
  BY <1>4
<1>6. /\ ~Refuses("server", l) /\ ~Refuses("server", l)'
      /\ \A q \in Peers, k \in Links : Refuses(q, k)' <=> Refuses(q, k)
  <2>1. ~Refuses("server", l) /\ ~Refuses("server", l)'
    BY <1>5 DEF Refuses
  <2>2. \A q \in Peers, k \in Links : q # "server" \/ k # l => (Refuses(q, k)' <=> Refuses(q, k))
    BY <1>3 DEF Refuses
  <2> QED
    BY <2>1, <2>2
<1>7. \A q \in Peers, k \in Links : /\ Past(q, k)' <=> Past(q, k)
                                    /\ StartupDone(q)' <=> StartupDone(q)
                                    /\ Current(q)' = Current(q)
  BY <1>2 DEF Past, StartupDone, Current
<1>8. RefusalsHold'
  <2>1. \A q \in Peers, k \in Links : state'[q][k] = "ACTIVE" => state[q][k] = "ACTIVE"
    BY <1>3, <1>5
  <2> QED
    BY <1>1, <1>2, <1>5, <1>6, <1>7, <2>1, BothPeers, SaysRefusals
<1>9. ServerAsks'
  <2>1. ~asking["server"]
    BY <1>1, <1>2, BothPeers DEF TypeOK, LoopOK, StartupDone, Types
  <2>2. StartupDone("server")'
    BY <1>2 DEF StartupDone
  <2> QED
    BY <1>2, <2>1, <2>2 DEF ServerAsks
<1>10. ActiveFollows'
  <2> SUFFICES ASSUME NEW q \in Peers, NEW k \in Links, settling'[q] # k
               PROVE  active'[q][k] <=> state'[q][k] = "ACTIVE"
    BY DEF ActiveFollows
  <2>1. active[q][k] <=> state[q][k] = "ACTIVE"
    BY <1>1, <1>2 DEF ActiveFollows
  <2>2. CASE q = "server" /\ k = l
    <3>1. CASE yes
      BY <1>5, <2>1, <2>2, <3>1
    <3>2. CASE ~yes
      BY <1>5, <2>2, <3>2
    <3> QED
      BY <3>1, <3>2
  <2>3. CASE ~(q = "server" /\ k = l)
    BY <1>3, <2>1, <2>3
  <2> QED
    BY <2>2, <2>3
<1>11. ASSUME NEW k \in Links, k # l PROVE LinkHolds(k)'
  <2>1. \A q \in Peers : state'[q][k] = state[q][k]
    BY <1>3, <1>11
  <2>2. ServerHas(k)' => ServerHas(k)
    BY <1>7, <2>1, BothPeers DEF ServerHas
  <2>3. \A q \in Peers : /\ Silent(chan[q], k) => Silent(chan'[q], k)
                         /\ \A y \in BOOLEAN : Ends(chan[q], k, y) => Ends(chan'[q], k, y)
    BY <1>1, <1>5, <1>11, BothPeers, SaysOther
  <2> QED
    BY <1>1, <1>7, <2>1, <2>2, <2>3, BothPeers, LinkStays
<1>12. LinkHolds(l)'
  <2>1. Told(l) /\ Heard(l) /\ Unasked(l)
    BY <1>1 DEF LinkHolds
  <2>2. chan'["client"] = Append(chan["client"], Message(l, yes)) /\ chan'["server"] = chan["server"]
    BY <1>1, <1>5, BothPeers DEF Says
  <2>3. Ends(chan'["client"], l, yes)
    <3>1. chan["client"] \in Seq(Messages)
      BY <1>1, BothPeers
    <3>2. Ends(Append(chan["client"], Message(l, yes)), l, yes)
      BY <3>1, EndsWithLast
    <3> QED
      BY <2>2, <3>2
  <2>4. /\ state'["client"][l] = state["client"][l]
        /\ Past("client", l)' <=> Past("client", l)
    BY <1>3, <1>7, BothPeers
  <2>5. Agrees("server", l)' \/ Ends(chan'["client"], l, FALSE)
    <3>1. CASE yes
      BY <1>5, <3>1 DEF Agrees
    <3>2. CASE yes = FALSE
      BY <2>3, <3>2
    <3> QED
      BY <3>1, <3>2
  <2>6. Told(l)'
    <3>1. CASE yes = TRUE
      BY <2>3, <3>1 DEF Told
    <3>2. CASE ~yes
      BY <1>5, <3>2 DEF Told, ServerHas
    <3> QED
      BY <3>1, <3>2
  <2>7. Heard(l)'
    <3>1. ClientHas(l)' => ClientHas(l)
      BY <2>4 DEF ClientHas
    <3> QED
      BY <1>6, <2>1, <2>2, <2>5, <3>1 DEF Heard
  <2>8. Unasked(l)'
    BY <2>1, <2>2, <2>4, <2>5 DEF Unasked
  <2> QED
    BY <2>6, <2>7, <2>8 DEF LinkHolds
<1>13. \A k \in Links : LinkHolds(k)'
  BY <1>11, <1>12
<1> QED
  BY <1>8, <1>9, <1>10, <1>13 DEF AgreementInv

LEMMA AgreementNext == AgreementInv /\ [Next]_vars => AgreementInv'
<1> SUFFICES ASSUME AgreementInv, [Next]_vars PROVE AgreementInv'
  OBVIOUS
<1>1. TypeOK /\ TypeOK' /\ ActiveFollows
  BY TypedNext DEF AgreementInv
<1>2. ASSUME NEW p \in Peers, Startup(p) PROVE AgreementInv'
  BY <1>1, <1>2, AgreementConsider, AgreementSend DEF Startup
<1>3. ASSUME NEW p \in Peers, Receive(p) PROVE AgreementInv'
  BY <1>1, <1>3, AgreementReceive
<1>4. ASSUME NEW p \in Peers, Settle(p) PROVE AgreementInv'
  <2>1. /\ UNCHANGED <<state, chan, asking, next>>
        /\ active' = [active EXCEPT ![p][settling[p]] = (state[p][settling[p]] = "ACTIVE")]
        /\ settling' = [settling EXCEPT ![p] = NoLink] /\ settling[p] # NoLink
    BY <1>4 DEF Settle
  <2>2. /\ active \in [Peers -> [Links -> BOOLEAN]] /\ settling \in [Peers -> Links \cup {NoLink}]
        /\ settling[p] \in Links /\ active[p] \in [Links -> BOOLEAN]
    BY <1>1, <2>1 DEF TypeOK, Types
  <2>3. ActiveFollows'
    <3> SUFFICES ASSUME NEW q \in Peers, NEW k \in Links, settling'[q] # k
                 PROVE  active'[q][k] <=> state'[q][k] = "ACTIVE"
      BY DEF ActiveFollows
    <3>1. CASE q = p /\ k = settling[p]
      <4>1. active'[q][k] = (state[q][k] = "ACTIVE")
        BY <2>1, <2>2, <3>1
      <4> QED
        BY <2>1, <4>1
    <3>2. CASE ~(q = p /\ k = settling[p])
      <4>1. active'[q][k] = active[q][k]
        BY <2>1, <2>2, <3>2
      <4>2. settling[q] # k
        BY <2>1, <2>2, <3>2
      <4> QED
        BY <1>1, <2>1, <4>1, <4>2 DEF ActiveFollows
    <3> QED
      BY <3>1, <3>2
  <2> QED
    BY <1>1, <2>1, <2>3, AgreementFrame
<1>5. CASE PollMandatory \/ GiveUp \/ UNCHANGED vars
  <2>1. UNCHANGED <<state, chan, asking, next, active, settling>>
    BY <1>5 DEF PollMandatory, StartPolling, ReadActive, ReadBinaryState, CompareSums, GiveUp, vars
  <2>2. ActiveFollows'
    BY <1>1, <2>1 DEF ActiveFollows
  <2> QED
    BY <1>1, <2>1, <2>2, AgreementFrame
<1>6. ASSUME NEW l \in Togglable, Switch(l) PROVE AgreementInv'
  <2>1. l \in Links
    BY LinksAssumption
  <2> QED
    BY <1>1, <1>6, <2>1, AgreementSwitch
<1> QED
  BY <1>2, <1>3, <1>4, <1>5, <1>6 DEF Next, ReaderStep

(* QuietAgreement: when nothing is on its way, the two ends agree on every  *)
(* option, and active follows state; also on the options that a foreign     *)
(* server switches, however often and whatever crosses on the wire.         *)
THEOREM AgreementAtRest == Spec => []QuietAgreement
<1>1. AgreementInv => QuietAgreement
  <2> SUFFICES ASSUME AgreementInv, Quiet, NEW l \in Links
               PROVE  \A p \in Peers :
                        /\ state[p][l] = "ACTIVE" => Agrees(Other(p), l)
                        /\ active[p][l] <=> state[p][l] = "ACTIVE"
    BY DEF QuietAgreement
  <2>1. /\ RefusalsHold /\ ActiveFollows /\ Told(l) /\ Heard(l)
    BY DEF AgreementInv, LinkHolds
  <2>2. \A p \in Peers : chan[p] = <<>> /\ settling[p] # l
    BY LinksAssumption DEF Quiet
  <2>3. \A yes \in BOOLEAN : ~Ends(<<>>, l, yes)
    BY DEF Ends
  <2>4. state["server"][l] = "ACTIVE" => Agrees("client", l)
    BY <2>1, <2>2, <2>3, BothPeers DEF Told, ServerHas, RefusalsHold
  <2>5. state["client"][l] = "ACTIVE" => Agrees("server", l)
    BY <2>1, <2>2, <2>3, BothPeers DEF Heard, ClientHas, RefusalsHold
  <2>6. \A p \in Peers : active[p][l] <=> state[p][l] = "ACTIVE"
    BY <2>1, <2>2 DEF ActiveFollows
  <2> QED
    BY <2>4, <2>5, <2>6, BothPeers
<1> QED
  BY <1>1, AgreementInit, AgreementNext, PTL DEF Spec
=============================================================================

-------------------------- MODULE TelnetNegotiation --------------------------
(***************************************************************************)
(* Telnet option negotiation between the RFC 2217 client (class Serial)    *)
(* and an RFC 2217 server (class PortManager, or another implementation),  *)
(* serial/rfc2217.py.                                                      *)
(*                                                                         *)
(* A link is one option in one direction: an option code together with     *)
(* the peer that performs it.  The performer's TelnetOption is the 'we-'   *)
(* object (it sends WILL/WONT and hears DO/DONT), its partner's the        *)
(* 'they-' object.  A message therefore needs only the link and whether    *)
(* the command is positive: who sent it says which of the four commands it *)
(* is.  Each peer has one FIFO channel, a direction of the TCP connection. *)
(*                                                                         *)
(* The client's open() runs beside its reader thread: open() sends the     *)
(* requests and polls the two mandatory options while the reader thread    *)
(* changes them, so both are cut into the steps another thread can see.    *)
(***************************************************************************)
EXTENDS Naturals, Sequences

CONSTANTS
  Links,           \* the options of this connection, each with its performer
  CodeOf,          \* [Links -> option codes]
  Order,           \* for each peer, its options in the order of its list
  ClientInit,      \* [Links -> InitialStates]: the options of Serial.open
  ServerProfiles,  \* the servers considered, each a [Links -> InitialStates]
  WeBinary,        \* the client's two mandatory options
  WeRfc2217,
  CallbackLinks,   \* server options with an activation callback
  Togglable,       \* options a foreign server may switch while connected
  MaxToggles,      \* bound on those switches
  NoLink           \* a value that is no link

Peers == {"client", "server"}
Other(p) == IF p = "client" THEN "server" ELSE "client"

InitialStates == {"REQUESTED", "INACTIVE", "REALLY_INACTIVE", "ABSENT"}
OptionStates == InitialStates \cup {"ACTIVE"}
OpenSteps == {"request", "activeB", "activeR", "stateB", "stateR",
              "opened", "failed"}

ASSUME LinksAssumption ==
  /\ NoLink \notin Links
  /\ WeBinary \in Links
  /\ WeRfc2217 \in Links
  /\ WeBinary # WeRfc2217
  /\ Togglable \subseteq Links
  /\ CallbackLinks \subseteq Links

ASSUME TablesAssumption ==
  /\ Order \in [Peers -> Seq(Links)]
  /\ ClientInit \in [Links -> InitialStates]
  /\ ServerProfiles \subseteq [Links -> InitialStates]
  /\ ClientInit[WeBinary] = "INACTIVE"
  /\ ClientInit[WeRfc2217] = "REQUESTED"

(* A peer's list has every option that it asks for.                         *)
Listed(p, l) == \E i \in 1 .. Len(Order[p]) : Order[p][i] = l

ASSUME ListsAssumption ==
  \A l \in Links :
    /\ ClientInit[l] = "REQUESTED" => Listed("client", l)
    /\ \A profile \in ServerProfiles : profile[l] = "REQUESTED" => Listed("server", l)

ASSUME BoundAssumption == MaxToggles \in Nat

VARIABLES
  state,      \* TelnetOption.state at each peer; ABSENT: no such object
  active,     \* TelnetOption.active at each peer
  chan,       \* the messages on their way to each peer
  next,       \* how many options of its list a peer has asked for or skipped
  asking,     \* the peer found its option REQUESTED and is about to send
  settling,   \* the option whose handler has yet to assign active
  openPc,     \* where the client's open() is
  seen,       \* what open() has read of the mandatory options so far
  clientOk,   \* PortManager._client_is_rfc2217
  toggles     \* switches made by a foreign server's user

vars == <<state, active, chan, next, asking, settling, openPc, seen,
          clientOk, toggles>>
-----------------------------------------------------------------------------
Init ==
  /\ \E profile \in ServerProfiles :
       state = [p \in Peers |-> IF p = "client" THEN ClientInit ELSE profile]
  /\ active = [p \in Peers |-> [l \in Links |-> FALSE]]
  /\ chan = [p \in Peers |-> <<>>]
  /\ next = [p \in Peers |-> 0]
  /\ asking = [p \in Peers |-> FALSE]
  /\ settling = [p \in Peers |-> NoLink]
  /\ openPc = "request"
  /\ seen = [activeB |-> FALSE, activeR |-> FALSE, stateB |-> FALSE]
  /\ clientOk = FALSE
  /\ toggles = 0

Message(l, yes) == [link |-> l, yes |-> yes]

StartupDone(p) == next[p] = Len(Order[p])

(* The option of its list a peer's startup loop has come to. *)
Current(p) == Order[p][next[p] + 1]

(* "if option.state is REQUESTED": the test and the send that follows it   *)
(* are two steps, between them the reader thread may act.                  *)
ConsiderOption(p) ==
  /\ ~StartupDone(p)
  /\ ~asking[p]
  /\ IF state[p][Current(p)] = "REQUESTED"
     THEN asking' = [asking EXCEPT ![p] = TRUE] /\ UNCHANGED next
     ELSE next' = [next EXCEPT ![p] = @ + 1] /\ UNCHANGED asking
  /\ UNCHANGED <<state, active, chan, settling, openPc, seen, clientOk, toggles>>

(* A mutation of SendRequest: the loop sends the request it sent before. *)
SendRequestStale(p) ==
  /\ asking[p]
  /\ chan' = [chan EXCEPT ![Other(p)] = Append(@, Message(Current(p), TRUE))]
  /\ next' = [next EXCEPT ![p] = @ + 1]
  /\ UNCHANGED <<state, active, asking, settling, openPc, seen, clientOk, toggles>>

SendRequest(p) ==
  /\ asking[p]
  /\ chan' = [chan EXCEPT ![Other(p)] = Append(@, Message(Current(p), TRUE))]
  /\ next' = [next EXCEPT ![p] = @ + 1]
  /\ asking' = [asking EXCEPT ![p] = FALSE]
  /\ UNCHANGED <<state, active, settling, openPc, seen, clientOk, toggles>>
-----------------------------------------------------------------------------
(* The thread that parses incoming data is free to take the next message.  *)
(* The client's reader thread runs from before the requests are sent; the  *)
(* server's filter is first called after PortManager.__init__ returned.    *)
Listening(p) ==
  /\ chan[p] # <<>>
  /\ settling[p] = NoLink
  /\ p = "server" => StartupDone(p)
  /\ p = "client" => openPc # "failed"

Consume(p) == chan' = [chan EXCEPT ![p] = Tail(@)]
ConsumeAndReply(p, l, yes) ==
  chan' = [chan EXCEPT ![p] = Tail(@),
                       ![Other(p)] = Append(@, Message(l, yes))]

(* process_incoming assigns state, answers, and only then assigns active.  *)
Move(p, l, s) ==
  /\ state' = [state EXCEPT ![p][l] = s]
  /\ settling' = [settling EXCEPT ![p] = l]

(* Accepting a positive command is answered only if it was not an answer.   *)
AnswersYes(s) == s = "INACTIVE"

(* A mutation of Accept: the answer is sent, the new state is forgotten. *)
AcceptStateless(p, l, yes) ==
  /\ yes
  /\ state[p][l] \in {"REQUESTED", "INACTIVE"}
  /\ IF AnswersYes(state[p][l])
     THEN ConsumeAndReply(p, l, TRUE) /\ UNCHANGED <<state, settling>>
     ELSE Consume(p) /\ Move(p, l, "ACTIVE")
  /\ UNCHANGED <<active, next, asking, openPc, seen, clientOk, toggles>>

(* process_incoming(ack_yes) when the option is REQUESTED or INACTIVE. *)
Accept(p, l, yes) ==
  /\ yes
  /\ state[p][l] \in {"REQUESTED", "INACTIVE"}
  /\ IF AnswersYes(state[p][l]) THEN ConsumeAndReply(p, l, TRUE) ELSE Consume(p)
  /\ Move(p, l, "ACTIVE")
  /\ UNCHANGED <<active, next, asking, openPc, seen, clientOk, toggles>>

(* Dropping an active option is acknowledged, a refused request is not. *)
AnswersNo(s) == s = "ACTIVE"

(* process_incoming(ack_no) when the option is REQUESTED or ACTIVE. *)
Drop(p, l, yes) ==
  /\ ~yes
  /\ state[p][l] \in {"REQUESTED", "ACTIVE"}
  /\ IF AnswersNo(state[p][l]) THEN ConsumeAndReply(p, l, FALSE) ELSE Consume(p)
  /\ Move(p, l, "INACTIVE")
  /\ UNCHANGED <<active, next, asking, openPc, seen, clientOk, toggles>>

(* The peer has an object for this option code, of either direction. *)
KnowsCode(p, l) ==
  \E k \in Links : CodeOf[k] = CodeOf[l] /\ state[p][k] # "ABSENT"

(* A positive command for an option that is REALLY_INACTIVE, or whose code  *)
(* no object has, is refused.                                              *)
Refuse(p, l, yes) ==
  /\ yes
  /\ state[p][l] = "REALLY_INACTIVE" \/ ~KnowsCode(p, l)
  /\ ConsumeAndReply(p, l, FALSE)
  /\ UNCHANGED <<state, active, next, asking, settling, openPc, seen,
                 clientOk, toggles>>

(* A mutation of Ignore: a positive command is always confirmed. *)
IgnoreButConfirm(p, l, yes) ==
  /\ \/ state[p][l] = "ACTIVE" /\ yes
     \/ state[p][l] \in {"INACTIVE", "REALLY_INACTIVE"} /\ ~yes
     \/ state[p][l] = "ABSENT" /\ (KnowsCode(p, l) \/ ~yes)
  /\ IF yes THEN ConsumeAndReply(p, l, TRUE) ELSE Consume(p)
  /\ UNCHANGED <<state, active, next, asking, settling, openPc, seen,
                 clientOk, toggles>>

(* What neither branch reacts to: a repeated answer, a refusal of what is  *)
(* not active, and a command for the direction of a known code that this   *)
(* peer has no object for, which no object takes for its own.              *)
Ignore(p, l, yes) ==
  /\ \/ state[p][l] = "ACTIVE" /\ yes
     \/ state[p][l] \in {"INACTIVE", "REALLY_INACTIVE"} /\ ~yes
     \/ state[p][l] = "ABSENT" /\ (KnowsCode(p, l) \/ ~yes)
  /\ Consume(p)
  /\ UNCHANGED <<state, active, next, asking, settling, openPc, seen,
                 clientOk, toggles>>

Receive(p) ==
  /\ Listening(p)
  /\ LET l == Head(chan[p]).link
         yes == Head(chan[p]).yes
     IN Accept(p, l, yes) \/ Drop(p, l, yes) \/ Refuse(p, l, yes) \/ Ignore(p, l, yes)

(* A mutation of Settle: a dropped option keeps its active flag. *)
SettleWithoutReset(p) ==
  /\ settling[p] # NoLink
  /\ LET l == settling[p] IN
       active' = [active EXCEPT ![p][l] = @ \/ state[p][l] = "ACTIVE"]
  /\ settling' = [settling EXCEPT ![p] = NoLink]
  /\ UNCHANGED <<state, chan, next, asking, openPc, seen, clientOk, toggles>>

(* The end of process_incoming: active is assigned and, on the server, the  *)
(* activation callback _client_ok raises its flag.                          *)
Settle(p) ==
  /\ settling[p] # NoLink
  /\ LET l == settling[p] IN
       /\ active' = [active EXCEPT ![p][l] = (state[p][l] = "ACTIVE")]
       /\ clientOk' = (clientOk \/ /\ p = "server"
                                   /\ l \in CallbackLinks
                                   /\ state[p][l] = "ACTIVE")
  /\ settling' = [settling EXCEPT ![p] = NoLink]
  /\ UNCHANGED <<state, chan, next, asking, openPc, seen, toggles>>
-----------------------------------------------------------------------------
(* open() after the requests: two generator sums over the mandatory         *)
(* options, each item read on its own, then compared.                       *)
StartPolling ==
  /\ openPc = "request"
  /\ StartupDone("client")
  /\ openPc' = "activeB"
  /\ UNCHANGED <<state, active, chan, next, asking, settling, seen, clientOk, toggles>>

ReadActive(at, link, then) ==
  /\ openPc = at
  /\ seen' = [seen EXCEPT ![at] = active["client"][link]]
  /\ openPc' = then
  /\ UNCHANGED <<state, active, chan, next, asking, settling, clientOk, toggles>>

ReadBinaryState ==
  /\ openPc = "stateB"
  /\ seen' = [seen EXCEPT !.stateB = (state["client"][WeBinary] # "INACTIVE")]
  /\ openPc' = "stateR"
  /\ UNCHANGED <<state, active, chan, next, asking, settling, clientOk, toggles>>

One(b) == IF b THEN 1 ELSE 0

(* A mutation of Satisfied: the number of active options alone is looked at. *)
SatisfiedByEither(stateR) == seen.activeB \/ seen.activeR
(* sum(o.active ...) == sum(o.state != INACTIVE ...) *)
Satisfied(stateR) ==
  One(seen.activeB) + One(seen.activeR) = One(seen.stateB) + One(stateR)

CompareSums ==
  /\ openPc = "stateR"
  /\ openPc' = IF Satisfied(state["client"][WeRfc2217] # "INACTIVE")
               THEN "opened" ELSE "activeB"
  /\ UNCHANGED <<state, active, chan, next, asking, settling, seen, clientOk, toggles>>

PollMandatory ==
  \/ StartPolling
  \/ ReadActive("activeB", WeBinary, "activeR")
  \/ ReadActive("activeR", WeRfc2217, "stateB")
  \/ ReadBinaryState
  \/ CompareSums

(* timeout.expired() at the loop head: open() closes the port and raises. *)
GiveUp ==
  /\ openPc = "activeB"
  /\ openPc' = "failed"
  /\ UNCHANGED <<state, active, chan, next, asking, settling, seen, clientOk, toggles>>
-----------------------------------------------------------------------------
(* The user of a foreign server switches one of its options on or off.  No  *)
(* class of this repository does so, but process_incoming handles it.       *)
SwitchOn(l) ==
  /\ state["server"][l] = "INACTIVE"
  /\ state' = [state EXCEPT !["server"][l] = "REQUESTED"]
  /\ chan' = [chan EXCEPT !["client"] = Append(@, Message(l, TRUE))]
  /\ UNCHANGED active

SwitchOff(l) ==
  /\ state["server"][l] = "ACTIVE"
  /\ state' = [state EXCEPT !["server"][l] = "INACTIVE"]
  /\ active' = [active EXCEPT !["server"][l] = FALSE]
  /\ chan' = [chan EXCEPT !["client"] = Append(@, Message(l, FALSE))]

Switch(l) ==
  /\ toggles < MaxToggles
  /\ StartupDone("server")
  /\ settling["server"] = NoLink
  /\ SwitchOn(l) \/ SwitchOff(l)
  /\ toggles' = toggles + 1
  /\ UNCHANGED <<next, asking, settling, openPc, seen, clientOk>>

Startup(p) == ConsiderOption(p) \/ SendRequest(p)
ReaderStep(p) == Receive(p) \/ Settle(p)

Next ==
  \/ \E p \in Peers : Startup(p) \/ ReaderStep(p)
  \/ PollMandatory
  \/ GiveUp
  \/ \E l \in Togglable : Switch(l)

(* Threads that can run do run, and TCP delivers what was sent.  Nothing    *)
(* makes the timeout or the foreign user act.                               *)
Fairness ==
  /\ \A p \in Peers : WF_vars(Startup(p)) /\ WF_vars(ReaderStep(p))
  /\ WF_vars(PollMandatory)

Spec == Init /\ [][Next]_vars
FairSpec == Spec /\ Fairness
-----------------------------------------------------------------------------
Messages == [link : Links, yes : BOOLEAN]

Types ==
  /\ state \in [Peers -> [Links -> OptionStates]]
  /\ active \in [Peers -> [Links -> BOOLEAN]]
  /\ chan \in [Peers -> Seq(Messages)]
  /\ next \in [Peers -> Nat]
  /\ asking \in [Peers -> BOOLEAN]
  /\ settling \in [Peers -> Links \cup {NoLink}]
  /\ openPc \in OpenSteps
  /\ seen \in [activeB : BOOLEAN, activeR : BOOLEAN, stateB : BOOLEAN]
  /\ clientOk \in BOOLEAN
  /\ toggles \in Nat

(* A peer's startup loop stays within its list, and is within it while the  *)
(* request it found due has yet to be sent.                                *)
LoopOK ==
  \A p \in Peers : /\ next[p] <= Len(Order[p])
                   /\ asking[p] => next[p] < Len(Order[p])

(* Every variable has its type, and no startup loop runs past its list of   *)
(* options.                                                                *)
TypeOK == Types /\ LoopOK

(* The peer answers positively when this link is asked for. *)
Agrees(p, l) == state[p][l] \in {"REQUESTED", "ACTIVE"}

(* No option is ever used by one side alone: while process_incoming has an  *)
(* option ACTIVE, the other peer's object has it ACTIVE or has asked for    *)
(* it, through every order of requests, answers and refusals of the         *)
(* startup.  A foreign server's switches are excepted, see QuietAgreement.  *)
NeverOneSided ==
  \A l \in Links \ Togglable, p \in Peers :
    state[p][l] = "ACTIVE" => Agrees(Other(p), l)

Quiet ==
  /\ \A p \in Peers : chan[p] = <<>> /\ StartupDone(p) /\ settling[p] = NoLink
  /\ openPc # "failed"

(* When nothing is on its way, the two ends agree on every option, also on  *)
(* those a foreign server has switched meanwhile: process_incoming never    *)
(* leaves one end active and the other not, and active follows state.       *)
QuietAgreement ==
  Quiet => \A l \in Links, p \in Peers :
             /\ state[p][l] = "ACTIVE" => Agrees(Other(p), l)
             /\ active[p][l] <=> state[p][l] = "ACTIVE"

Supports(p, l) == state[p][l] \in {"REQUESTED", "ACTIVE", "INACTIVE"}

(* open() reads the mandatory options one by one while the reader thread    *)
(* changes them.  If the server has the option at all, no torn reading lets *)
(* open() return before we-RFC2217 is active, and the server then takes     *)
(* the client for an RFC 2217 one or is about to.                           *)
OpenedMeansAgreed ==
  (openPc = "opened" /\ Supports("server", WeRfc2217)) =>
    /\ active["client"][WeRfc2217]
    /\ state["server"][WeRfc2217] = "ACTIVE"
    /\ clientOk \/ settling["server"] = WeRfc2217

(* The negotiation comes to an end: the two ends never answer each other    *)
(* for ever (the loop RFC 854 warns of), whatever a foreign server switches.*)
(* With a server that has the RFC 2217 option, open() does not depend on    *)
(* its timeout to come back: some poll finds the mandatory options settled. *)
NegotiationEnds ==
  /\ <>[](Quiet \/ openPc = "failed")
  /\ Supports("server", WeRfc2217) => <>(openPc \in {"opened", "failed"})
=============================================================================

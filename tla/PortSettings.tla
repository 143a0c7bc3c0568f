----------------------------- MODULE PortSettings -----------------------------
(***************************************************************************)
(* The COM port settings of an RFC 2217 connection (serial/rfc2217.py): a   *)
(* setter of the client's Serial runs _reconfigure_port, which requests     *)
(* every setting and then the flow control; dtr, rts and break_condition    *)
(* are further SET_CONTROL requests, from whatever thread the user has.     *)
(* The reader thread compares each answer with the value last requested.    *)
(* The server, PortManager, applies what its port supports and answers with *)
(* what is then in force.                                                   *)
(*                                                                         *)
(* TelnetSubnegotiation objects have no lock and no request numbers: one    *)
(* object may be waiting for a late answer, or be in use by two threads.    *)
(***************************************************************************)
EXTENDS Naturals, Sequences

CONSTANTS
  Order,      \* the settings in the order _reconfigure_port requests them
  Values,     \* values of a setting
  Supported,  \* those the server's port can do
  Unsendable, \* baud rates that do not fit into a request
  Initial,    \* the value in force when the port was opened
  MaxCalls, MaxLines    \* bounds on the calls, on those of the second thread

Settings == {Order[i] : i \in 1 .. Len(Order)}

ASSUME SettingsAssumption ==
  /\ Order \in Seq(Settings) /\ Order # <<>>
  /\ "control" \notin Settings
  /\ Supported \subseteq Values
  /\ Initial \in Supported \ Unsendable
  /\ "baudrate" \in Settings
  /\ MaxCalls \in Nat /\ MaxLines \in Nat

Items == Settings \cup {"control"}
Threads == {"main", "aux"}
FlowModes == {"none", "sw", "hw"}
LineModes == {"dtr_on", "dtr_off"}

VARIABLES
  cached,     \* the client's _baudrate, _bytesize, ...
  xonxoff, rtscts,
  write_timeout,  \* whether there is one
  ignore,     \* the URL option ign_set_control
  value, state,   \* of each TelnetSubnegotiation object
  thread,     \* where each user thread is
  outcome,    \* history: how the main thread's last reconfiguration ended
  late,       \* history: an object was set with an earlier answer to it under way
  overlap,    \* history: both threads used the control object at once
  failed,     \* history: some reconfiguration raised
  calls,      \* of each thread
  toServer, toClient,
  actual, serverFlow, serverDtr    \* the server's port

history == <<outcome, late, overlap, failed>>
port == <<actual, serverFlow, serverDtr>>
objects == <<value, state>>
config == <<cached, xonxoff, rtscts, write_timeout, ignore>>
vars == <<config, objects, thread, history, calls, toServer, toClient, port>>

Idle == [pc |-> "idle", item |-> "control", value |-> Initial, left |-> <<>>,
         active |-> 0]

Init ==
  /\ cached = [s \in Settings |-> Initial]
  /\ xonxoff = FALSE /\ rtscts = FALSE /\ write_timeout = FALSE
  /\ ignore \in BOOLEAN
  /\ value = [i \in Items |-> IF i = "control" THEN "none" ELSE Initial]
  /\ state = [i \in Items |-> "ACTIVE"]
  /\ thread = [t \in Threads |-> Idle]
  /\ outcome = "ok"
  /\ late = FALSE /\ overlap = FALSE /\ failed = FALSE
  /\ calls = [t \in Threads |-> 0]
  /\ toServer = <<>> /\ toClient = <<>>
  /\ actual = [s \in Settings |-> Initial]
  /\ serverFlow = {}
  /\ serverDtr = TRUE
-----------------------------------------------------------------------------
(* TelnetSubnegotiation.set: value, state and the request itself are three  *)
(* steps; the reader thread, or another user of the object, may come        *)
(* between them.                                                            *)
Requesting(item, v, left) ==
  [pc |-> "value", item |-> item, value |-> v, left |-> left, active |-> 0]

(* What _reconfigure_port raises for before it requests anything: a write   *)
(* timeout, and a baud rate outside of 32 bits.                             *)
Sendable == ~write_timeout /\ cached["baudrate"] \notin Unsendable

(* A setter stores the new value and reconfigures the port.                 *)
Reconfigure ==
  IF Sendable'
  THEN /\ thread' = [thread EXCEPT !["main"] =
                       Requesting(Head(Order), cached'[Head(Order)], Tail(Order))]
       /\ outcome' = "running" /\ UNCHANGED failed
  ELSE outcome' = "invalid" /\ failed' = TRUE /\ UNCHANGED thread

Call(t) ==
  /\ thread[t].pc = "idle"
  /\ calls["main"] + calls["aux"] < MaxCalls
  /\ t = "aux" => calls["aux"] < MaxLines
  /\ calls' = [calls EXCEPT ![t] = @ + 1]

Change ==
  /\ Call("main")
  /\ \E s \in Settings, v \in Values :
       (v \in Unsendable => s = "baudrate") /\ cached' = [cached EXCEPT ![s] = v]
  /\ UNCHANGED <<xonxoff, rtscts, write_timeout, ignore>>
  /\ Reconfigure
  /\ UNCHANGED <<objects, late, overlap, toServer, toClient, port>>

ChangeWriteTimeout ==
  /\ Call("main")
  /\ write_timeout' \in BOOLEAN
  /\ UNCHANGED <<cached, xonxoff, rtscts, ignore>>
  /\ Reconfigure
  /\ UNCHANGED <<objects, late, overlap, toServer, toClient, port>>

ChangeFlow ==
  /\ Call("main")
  /\ \/ xonxoff' = ~xonxoff /\ UNCHANGED rtscts
     \/ rtscts' = ~rtscts /\ UNCHANGED xonxoff
  /\ UNCHANGED <<cached, write_timeout, ignore>>
  /\ Reconfigure
  /\ UNCHANGED <<objects, late, overlap, toServer, toClient, port>>

InControl(t) ==
  thread[t].item = "control" /\ thread[t].pc \in {"value", "state", "send", "wait"}

(* dtr = ..., rts = ..., break_condition = ... from another thread. *)
SetLine ==
  /\ Call("aux")
  /\ \E m \in LineModes :
       thread' = [thread EXCEPT !["aux"] = Requesting("control", m, <<>>)]
  /\ overlap' = (overlap \/ InControl("main"))
  /\ UNCHANGED <<config, objects, outcome, late, failed, toServer, toClient, port>>

UnderWay(item) ==
  \/ \E i \in DOMAIN toServer : toServer[i].item = item
  \/ \E i \in DOMAIN toClient : toClient[i].item = item

AssignValue(t) ==
  /\ thread[t].pc = "value"
  /\ value' = [value EXCEPT ![thread[t].item] = thread[t].value]
  /\ thread' = [thread EXCEPT ![t].pc = "state"]
  /\ late' = (late \/ UnderWay(thread[t].item))
  /\ UNCHANGED <<config, state, outcome, overlap, failed, calls, toServer, toClient, port>>

(* A mutation of AssignState: the object stays as the last answer left it.  *)
AssignStateNever(t) ==
  /\ thread[t].pc = "state"
  /\ thread' = [thread EXCEPT ![t].pc = "send"]
  /\ UNCHANGED <<config, objects, history, calls, toServer, toClient, port>>

AssignState(t) ==
  /\ thread[t].pc = "state"
  /\ state' = [state EXCEPT ![thread[t].item] = "REQUESTED"]
  /\ thread' = [thread EXCEPT ![t].pc = "send"]
  /\ UNCHANGED <<config, value, history, calls, toServer, toClient, port>>

(* A mutation of AfterSend: the last setting is not requested. *)
AfterSendSkipping(t) ==
  LET w == thread[t] IN
    IF w.item = "control" THEN (IF ignore THEN Idle ELSE [w EXCEPT !.pc = "wait"])
    ELSE IF Len(w.left) <= 1 THEN [w EXCEPT !.pc = "poll", !.left = Order]
    ELSE Requesting(Head(w.left), cached[Head(w.left)], Tail(w.left))

(* After the last setting the thread polls all of them; a control request   *)
(* is waited for on its own, or not at all with ign_set_control.            *)
AfterSend(t) ==
  LET w == thread[t] IN
    IF w.item = "control" THEN (IF ignore THEN Idle ELSE [w EXCEPT !.pc = "wait"])
    ELSE IF w.left = <<>> THEN [w EXCEPT !.pc = "poll", !.left = Order]
    ELSE Requesting(Head(w.left), cached[Head(w.left)], Tail(w.left))

SendRequest(t) ==
  LET w == thread[t] IN
    /\ w.pc = "send"
    /\ toServer' = Append(toServer, [item |-> w.item, value |-> value[w.item]])
    /\ thread' = [thread EXCEPT ![t] = AfterSend(t)]
    /\ outcome' = IF t = "main" /\ w.item = "control" /\ ignore THEN "ok" ELSE outcome
    /\ UNCHANGED <<config, objects, late, overlap, failed, calls, toClient, port>>

(* sum(o.active for o in items), one item after the other. *)
PollItem ==
  LET w == thread["main"] IN
    /\ w.pc = "poll" /\ w.left # <<>>
    /\ state[Head(w.left)] \in {"REQUESTED", "ACTIVE"}
    /\ thread' = [thread EXCEPT
                    !["main"].left = Tail(@),
                    !["main"].active = IF state[Head(w.left)] = "ACTIVE" THEN @ + 1 ELSE @]
    /\ UNCHANGED <<config, objects, history, calls, toServer, toClient, port>>

Summed == thread["main"].pc = "poll" /\ thread["main"].left = <<>>
AllActive == thread["main"].active = Len(Order)

PollAgain ==
  /\ Summed /\ ~AllActive
  /\ thread' = [thread EXCEPT !["main"].left = Order, !["main"].active = 0]
  /\ UNCHANGED <<config, objects, history, calls, toServer, toClient, port>>

Ended(t, how) ==
  IF t = "main" THEN outcome' = how /\ failed' = (failed \/ how # "ok")
  ELSE UNCHANGED <<outcome, failed>>

(* is_ready raises: "remote rejected value for option". *)
Rejected(t) ==
  LET w == thread[t] IN
    /\ \/ w.pc = "poll" /\ w.left # <<>> /\ state[Head(w.left)] = "REALLY_INACTIVE"
       \/ w.pc = "wait" /\ state[w.item] = "REALLY_INACTIVE"
    /\ thread' = [thread EXCEPT ![t] = Idle]
    /\ Ended(t, "rejected")
    /\ UNCHANGED <<config, objects, late, overlap, calls, toServer, toClient, port>>

FlowOf(x, r) == IF r THEN "hw" ELSE IF x THEN "sw" ELSE "none"

(* All settings are active: now the flow control. *)
StartFlow ==
  /\ Summed /\ AllActive
  /\ IF xonxoff /\ rtscts
     THEN /\ thread' = [thread EXCEPT !["main"] = Idle]
          /\ Ended("main", "conflict")
          /\ UNCHANGED overlap
     ELSE /\ thread' = [thread EXCEPT !["main"] =
                          Requesting("control", FlowOf(xonxoff, rtscts), <<>>)]
          /\ overlap' = (overlap \/ InControl("aux"))
          /\ UNCHANGED <<outcome, failed>>
  /\ UNCHANGED <<config, objects, late, calls, toServer, toClient, port>>

Confirmed(t) ==
  /\ thread[t].pc = "wait"
  /\ state[thread[t].item] = "ACTIVE"
  /\ thread' = [thread EXCEPT ![t] = Idle]
  /\ Ended(t, "ok")
  /\ UNCHANGED <<config, objects, late, overlap, calls, toServer, toClient, port>>

(* The network timeout: SerialException, and the object stays REQUESTED. *)
GiveUp(t) ==
  /\ thread[t].pc = "wait" \/ (t = "main" /\ Summed /\ ~AllActive)
  /\ thread' = [thread EXCEPT ![t] = Idle]
  /\ Ended(t, "timeout")
  /\ UNCHANGED <<config, objects, late, overlap, calls, toServer, toClient, port>>

UserStep(t) ==
  \/ AssignValue(t) \/ AssignState(t) \/ SendRequest(t)
  \/ Rejected(t) \/ Confirmed(t)
  \/ t = "main" /\ (PollItem \/ PollAgain \/ StartFlow)
-----------------------------------------------------------------------------
(* check_answer in the reader thread. *)
Answer ==
  /\ toClient # <<>>
  /\ LET a == Head(toClient) IN
       state' = [state EXCEPT ![a.item] =
                   IF value[a.item] = a.value THEN "ACTIVE" ELSE "REALLY_INACTIVE"]
  /\ toClient' = Tail(toClient)
  /\ UNCHANGED <<config, value, thread, history, calls, toServer, port>>

Reply(item, v) == toClient' = Append(toClient, [item |-> item, value |-> v])

(* A mutation of ServeSetting: an impossible value gets no answer. *)
ServeSettingSilently ==
  /\ toServer # <<>> /\ Head(toServer).item \in Settings
  /\ LET r == Head(toServer) IN
       IF r.value \in Supported
       THEN actual' = [actual EXCEPT ![r.item] = r.value] /\ Reply(r.item, r.value)
       ELSE UNCHANGED <<actual, toClient>>
  /\ toServer' = Tail(toServer)
  /\ UNCHANGED <<config, objects, thread, history, calls, serverFlow, serverDtr>>

(* SET_BAUDRATE and its like: a ValueError of the port's setter is caught   *)
(* and the backup put back; the answer is the value in force.               *)
ServeSetting ==
  /\ toServer # <<>> /\ Head(toServer).item \in Settings
  /\ LET r == Head(toServer)
         now == IF r.value \in Supported THEN r.value ELSE actual[r.item]
     IN actual' = [actual EXCEPT ![r.item] = now] /\ Reply(r.item, now)
  /\ toServer' = Tail(toServer)
  /\ UNCHANGED <<config, objects, thread, history, calls, serverFlow, serverDtr>>

(* A mutation of FlowAfter: switching off forgets XON/XOFF. *)
FlowAfterHardwareOnly(mode) ==
  CASE mode = "none" -> serverFlow \ {"hw"}
    [] mode \in {"sw", "hw"} -> serverFlow \cup {mode}
    [] OTHER -> serverFlow

(* The server's xonxoff and rtscts: only "none" ever clears one. *)
FlowAfter(mode) ==
  CASE mode = "none" -> {}
    [] mode \in {"sw", "hw"} -> serverFlow \cup {mode}
    [] OTHER -> serverFlow

ServeControl ==
  /\ toServer # <<>> /\ Head(toServer).item = "control"
  /\ LET mode == Head(toServer).value IN
       /\ serverFlow' = FlowAfter(mode)
       /\ serverDtr' = IF mode \in LineModes THEN mode = "dtr_on" ELSE serverDtr
       /\ Reply("control", mode)
  /\ toServer' = Tail(toServer)
  /\ UNCHANGED <<config, objects, thread, history, calls, actual>>

Serve == ServeSetting \/ ServeControl

Next ==
  \/ Change \/ ChangeFlow \/ ChangeWriteTimeout \/ SetLine
  \/ \E t \in Threads : UserStep(t) \/ GiveUp(t)
  \/ Answer \/ Serve

Spec == Init /\ [][Next]_vars
-----------------------------------------------------------------------------
SubStates == {"REQUESTED", "ACTIVE", "REALLY_INACTIVE"}
Requests == [item : Items, value : Values \cup FlowModes \cup LineModes]

(* Types; only the main thread reconfigures. *)
TypeOK ==
  /\ cached \in [Settings -> Values] /\ actual \in [Settings -> Supported]
  /\ {xonxoff, rtscts, write_timeout, ignore, late, overlap, failed, serverDtr} \subseteq BOOLEAN
  /\ state \in [Items -> SubStates]
  /\ \A s \in Settings : value[s] \in Values
  /\ value["control"] \in FlowModes \cup LineModes
  /\ \A t \in Threads : /\ thread[t].pc \in {"idle", "value", "state", "send", "poll", "wait"}
                        /\ thread[t].item \in Items
                        /\ thread[t].active \in 0 .. Len(Order)
  /\ thread["aux"].item = "control"
  /\ outcome \in {"running", "ok", "rejected", "timeout", "conflict", "invalid"}
  /\ calls["main"] <= MaxCalls /\ calls["aux"] <= MaxLines
  /\ toServer \in Seq(Requests) /\ toClient \in Seq(Requests)
  /\ serverFlow \subseteq {"sw", "hw"}

AtRest ==
  /\ \A t \in Threads : thread[t] = Idle
  /\ toServer = <<>> /\ toClient = <<>>

(* Whatever was given up, rejected, refused before it was requested or      *)
(* overtaken by a late answer: once all traffic has ended, the server's     *)
(* port has every setting the client's properties show, except those the    *)
(* port cannot do.  As long as a stored baud rate or write timeout makes    *)
(* every setter raise, the properties show what was never requested; the    *)
(* setter that takes it back requests everything.                           *)
SettingsArrive ==
  AtRest /\ Sendable => \A s \in Settings : cached[s] \in Supported => actual[s] = cached[s]

FlowAgrees ==
  LET asked == {FlowOf(xonxoff, rtscts)} \ {"none"} IN
    ~overlap => asked \subseteq serverFlow /\ (failed \/ serverFlow \subseteq asked)

(* A reconfiguration that returned normally took effect on every setting:   *)
(* no stale or shared answer ever covers up a refusal.                      *)
(* And the server has the flow control the client asked for, unless two     *)
(* threads used the control object at once, when the value of one replaces  *)
(* the other's before it is sent.  It has no other besides, unless an       *)
(* earlier reconfiguration raised: its request for "none", the only one     *)
(* that clears a flow control, was then never sent.                         *)
SuccessIsReal ==
  AtRest /\ outcome = "ok" => FlowAgrees /\ \A s \in Settings : actual[s] = cached[s]

(* The docstring of is_ready: "when server rejects the change, raise a      *)
(* ValueError".  It is raised for a value the server rejects only.          *)
RejectionIsReal ==
  outcome = "rejected" => \E s \in Settings : cached[s] \notin Supported

(* So it is as long as no object is set again before the answer to its last *)
(* request is in (a call that timed out, or raised for another setting,     *)
(* leaves one under way); two threads in the control object at once do no   *)
(* harm then.                                                               *)
OrderlyRejectionIsReal == ~late => RejectionIsReal

(* No wait depends on the network timeout, not even one whose object        *)
(* another thread took over in between: an object that is REQUESTED has its *)
(* request, or the answer, under way, or a thread is about to send it.      *)
(* With the types.                                                          *)
AnswerOnItsWay ==
  /\ TypeOK
  /\ \A i \in Items : state[i] = "REQUESTED" =>
       \/ UnderWay(i)
       \/ \E t \in Threads : thread[t].item = i /\ thread[t].pc = "send"
=============================================================================

-------------------------- MODULE PortSettings_proofs --------------------------
(***************************************************************************)
(* Proofs about PortSettings, for any list of settings, any values and any  *)
(* number of calls: no wait depends on the network timeout, what the        *)
(* client's properties show arrives, a reconfiguration that returns         *)
(* normally took effect, and an orderly rejection is a real one.            *)
(***************************************************************************)
EXTENDS PortSettings, TLAPS

Main == thread["main"]
Aux == thread["aux"]

(* The thread is in TelnetSubnegotiation.set.                               *)
Setting(t) == thread[t].pc \in {"value", "state", "send"}

AllValues == Values \cup FlowModes \cup LineModes
Thread == [pc : {"idle", "value", "state", "send", "poll", "wait"}, item : Items,
           value : AllValues, left : Seq(Settings), active : 0 .. Len(Order)]

Config ==
  /\ cached \in [Settings -> Values]
  /\ xonxoff \in BOOLEAN /\ rtscts \in BOOLEAN
  /\ write_timeout \in BOOLEAN /\ ignore \in BOOLEAN
Objects ==
  /\ state \in [Items -> SubStates]
  /\ value \in [Items -> AllValues]
  /\ \A s \in Settings : value[s] \in Values
  /\ value["control"] \in FlowModes \cup LineModes
Histories ==
  /\ outcome \in {"running", "ok", "rejected", "timeout", "conflict", "invalid"}
  /\ late \in BOOLEAN /\ overlap \in BOOLEAN /\ failed \in BOOLEAN
Counts ==
  /\ calls \in [Threads -> Nat]
  /\ calls["main"] <= MaxCalls /\ calls["aux"] <= MaxLines
Wires == toServer \in Seq(Requests) /\ toClient \in Seq(Requests)
Port ==
  /\ actual \in [Settings -> Supported]
  /\ serverFlow \subseteq {"sw", "hw"} /\ serverDtr \in BOOLEAN

(* What the main thread is about to request is what the properties show;    *)
(* only a control request is waited for on its own.                         *)
MainThread ==
  /\ Main \in Thread
  /\ Main.pc = "idle" => Main = Idle
  /\ Setting("main") =>
       IF Main.item = "control" THEN Main.value = FlowOf(xonxoff, rtscts)
       ELSE Main.value = cached[Main.item]
  /\ Setting("main") => Main.active = 0
  /\ Main.pc = "wait" => Main.item = "control"
  /\ InControl("main") => ~(xonxoff /\ rtscts)
  /\ Main.pc = "poll" => Len(Main.left) + Main.active <= Len(Order)
AuxThread ==
  /\ Aux \in Thread
  /\ Aux.pc # "poll" /\ Aux.item = "control"
  /\ Aux.pc = "idle" => Aux = Idle
  /\ Setting("aux") => Aux.value \in LineModes
ThreadTypes == thread \in [Threads -> Thread] /\ MainThread /\ AuxThread

TypeInv ==
  /\ Config /\ Objects /\ Histories /\ Counts /\ Wires /\ Port /\ ThreadTypes

LEMMA TypeInvType == TypeInv => TypeOK
<1> SUFFICES ASSUME TypeInv PROVE TypeOK
  OBVIOUS
<1>1. {xonxoff, rtscts, write_timeout, ignore, late, overlap, failed, serverDtr} \subseteq BOOLEAN
  BY DEF TypeInv, Config, Histories, Port
<1>2. \A t \in Threads : thread[t] \in Thread
  BY DEF TypeInv, ThreadTypes
<1>3. \A t \in Threads : /\ thread[t].pc \in {"idle", "value", "state", "send", "poll", "wait"}
                        /\ thread[t].item \in Items
                        /\ thread[t].active \in 0 .. Len(Order)
  BY <1>2 DEF Thread
<1>4. thread["aux"].item = "control"
  BY DEF TypeInv, ThreadTypes, AuxThread, Aux
<1> QED
  BY <1>1, <1>3, <1>4 DEF TypeInv, TypeOK, Config, Objects, Histories, Counts, Wires, Port

LEMMA ItemFacts ==
  /\ "control" \in Items /\ "control" \notin Settings
  /\ \A i \in Items : i # "control" => i \in Settings
  /\ \A s \in Settings : s \in Items /\ s # "control"
  /\ Head(Order) \in Settings /\ Tail(Order) \in Seq(Settings)
  /\ Order \in Seq(Settings) /\ Len(Order) \in Nat \ {0}
BY SettingsAssumption DEF SettingsAssumption, Items

LEMMA TypeInit == Init => TypeInv
<1> SUFFICES ASSUME Init PROVE TypeInv
  OBVIOUS
<1> USE ItemFacts
<1>1. Config /\ Histories /\ Port
  BY SettingsAssumption DEF Init, Config, Histories, Port, SettingsAssumption
<1>2. Objects
  BY SettingsAssumption DEF Init, Objects, SubStates, AllValues, FlowModes, Items, SettingsAssumption
<1>3. Counts /\ Wires
  BY SettingsAssumption DEF Init, Counts, Wires, SettingsAssumption, Threads
<1>4. Idle \in Thread
  BY SettingsAssumption DEF Idle, Thread, AllValues, SettingsAssumption
<1>5. ThreadTypes
  BY <1>4 DEF Init, ThreadTypes, MainThread, AuxThread, Main, Aux, Setting, InControl, Idle, Threads
<1> QED
  BY <1>1, <1>2, <1>3, <1>5 DEF TypeInv

(* Steps of a user thread.                                                  *)
LEMMA ThreadTypesUse ==
  ASSUME TypeInv
  PROVE  /\ \A t \in Threads : thread[t] \in Thread
         /\ Main \in Thread /\ Aux \in Thread
         /\ \A t \in Threads : t # "main" => t = "aux"
         /\ DOMAIN thread = Threads /\ "main" \in Threads /\ "aux" \in Threads
BY DEF TypeInv, ThreadTypes, MainThread, AuxThread, Threads

LEMMA IdleThread == Idle \in Thread /\ Idle.pc = "idle" /\ Idle.item = "control"
BY ItemFacts, SettingsAssumption DEF Idle, Thread, AllValues, SettingsAssumption

(* A step that replaces the main thread's state by a good one.              *)
LEMMA MainPut ==
  ASSUME TypeInv, NEW w \in Thread, thread' = [thread EXCEPT !["main"] = w], MainThread'
  PROVE  ThreadTypes' /\ Main' = w /\ Aux' = Aux
<1>1. Main' = w /\ Aux' = Aux /\ thread' \in [Threads -> Thread]
  BY ThreadTypesUse DEF TypeInv, ThreadTypes, Main, Aux, Threads
<1>2. AuxThread'
  BY <1>1 DEF TypeInv, ThreadTypes, AuxThread, Setting, Aux
<1> QED
  BY <1>1, <1>2 DEF ThreadTypes

LEMMA AuxPut ==
  ASSUME TypeInv, NEW w \in Thread, thread' = [thread EXCEPT !["aux"] = w], AuxThread',
         UNCHANGED config
  PROVE  ThreadTypes' /\ Aux' = w /\ Main' = Main
<1>1. Aux' = w /\ Main' = Main /\ thread' \in [Threads -> Thread]
  BY ThreadTypesUse DEF TypeInv, ThreadTypes, Main, Aux, Threads
<1>2. MainThread'
  BY <1>1 DEF TypeInv, ThreadTypes, MainThread, Setting, InControl, Main, config
<1> QED
  BY <1>1, <1>2 DEF ThreadTypes

(* A setter that raises before it has requested anything.                   *)
LEMMA RefusedTypes ==
  ASSUME TypeInv, Main.pc = "idle", UNCHANGED thread
  PROVE  ThreadTypes'
<1>1. MainThread'
  BY DEF TypeInv, ThreadTypes, MainThread, Setting, InControl, Main, Idle
<1>2. AuxThread'
  BY DEF TypeInv, ThreadTypes, AuxThread, Setting, Aux
<1> QED
  BY <1>1, <1>2 DEF TypeInv, ThreadTypes

LEMMA StartedTypes ==
  ASSUME TypeInv, Reconfigure, Sendable', Config', Main.pc = "idle"
  PROVE  ThreadTypes'
<1> DEFINE w == Requesting(Head(Order), cached'[Head(Order)], Tail(Order))
<1>1. Head(Order) \in Items /\ Head(Order) # "control" /\ Tail(Order) \in Seq(Settings)
  BY ItemFacts DEF Items
<1>2. cached'[Head(Order)] \in AllValues
  BY ItemFacts DEF Config, AllValues
<1>3. /\ w \in Thread /\ w.pc = "value" /\ w.item = Head(Order)
      /\ w.value = cached'[Head(Order)] /\ w.active = 0
  BY <1>1, <1>2, ItemFacts DEF Requesting, Thread
<1>4. thread' = [thread EXCEPT !["main"] = w]
  BY DEF Reconfigure
<1> HIDE DEF w
<1>5. Main' = w
  BY <1>4, ThreadTypesUse DEF Main
<1>6. MainThread'
  BY <1>1, <1>3, <1>5 DEF MainThread, Setting, InControl, Main
<1> QED
  BY <1>3, <1>4, <1>6, MainPut

LEMMA ReconfigureTypes ==
  ASSUME TypeInv, Reconfigure, Config', Main.pc = "idle"
  PROVE  ThreadTypes'
BY StartedTypes, RefusedTypes DEF Reconfigure

LEMMA CallTypes ==
  ASSUME TypeInv, NEW t \in Threads, Call(t)
  PROVE  Counts' /\ thread[t].pc = "idle"
BY SettingsAssumption DEF TypeInv, Counts, Call, Threads, SettingsAssumption

LEMMA ChangeTypes == TypeInv /\ Change => TypeInv'
<1> SUFFICES ASSUME TypeInv, Change PROVE TypeInv'
  OBVIOUS
<1>1. Config'
  BY DEF TypeInv, Config, Change
<1>2. Counts' /\ Main.pc = "idle"
  BY CallTypes, ThreadTypesUse DEF Change, Main
<1>3. ThreadTypes'
  BY <1>1, <1>2, ReconfigureTypes DEF Change
<1>4. Histories'
  BY DEF TypeInv, Histories, Change, Reconfigure
<1> QED
  BY <1>1, <1>2, <1>3, <1>4 DEF TypeInv, Change, Objects, Wires, Port, objects, port

LEMMA ChangeFlowTypes == TypeInv /\ ChangeFlow => TypeInv'
<1> SUFFICES ASSUME TypeInv, ChangeFlow PROVE TypeInv'
  OBVIOUS
<1>1. Config'
  BY DEF TypeInv, Config, ChangeFlow
<1>2. Counts' /\ Main.pc = "idle"
  BY CallTypes, ThreadTypesUse DEF ChangeFlow, Main
<1>3. ThreadTypes'
  BY <1>1, <1>2, ReconfigureTypes DEF ChangeFlow
<1>4. Histories'
  BY DEF TypeInv, Histories, ChangeFlow, Reconfigure
<1> QED
  BY <1>1, <1>2, <1>3, <1>4 DEF TypeInv, ChangeFlow, Objects, Wires, Port, objects, port

LEMMA ChangeWriteTimeoutTypes == TypeInv /\ ChangeWriteTimeout => TypeInv'
<1> SUFFICES ASSUME TypeInv, ChangeWriteTimeout PROVE TypeInv'
  OBVIOUS
<1>1. Config'
  BY DEF TypeInv, Config, ChangeWriteTimeout
<1>2. Counts' /\ Main.pc = "idle"
  BY CallTypes, ThreadTypesUse DEF ChangeWriteTimeout, Main
<1>3. ThreadTypes'
  BY <1>1, <1>2, ReconfigureTypes DEF ChangeWriteTimeout
<1>4. Histories'
  BY DEF TypeInv, Histories, ChangeWriteTimeout, Reconfigure
<1> QED
  BY <1>1, <1>2, <1>3, <1>4 DEF TypeInv, ChangeWriteTimeout, Objects, Wires, Port, objects, port

LEMMA SetLineTypes == TypeInv /\ SetLine => TypeInv'
<1> SUFFICES ASSUME TypeInv, SetLine PROVE TypeInv'
  OBVIOUS
<1>1. PICK m \in LineModes : thread' = [thread EXCEPT !["aux"] = Requesting("control", m, <<>>)]
  BY DEF SetLine
<1> DEFINE w == Requesting("control", m, <<>>)
<1>2. w \in Thread /\ w.pc = "value" /\ w.item = "control" /\ w.value = m
  BY ItemFacts DEF AllValues, Requesting, Thread
<1> HIDE DEF w
<1>3. Aux' = w
  BY <1>1, ThreadTypesUse DEF Aux, w
<1>4. AuxThread'
  BY <1>2, <1>3 DEF AuxThread, Setting, Aux
<1>5. ThreadTypes'
  BY <1>1, <1>2, <1>4, AuxPut DEF SetLine, w
<1>6. Counts'
  BY CallTypes, ThreadTypesUse DEF SetLine
<1>7. Histories'
  BY DEF TypeInv, Histories, SetLine
<1> QED
  BY <1>5, <1>6, <1>7 DEF TypeInv, SetLine, Config, Objects, Wires, Port, config, objects, port

(* A thread that goes on in set(), for the same item and value.             *)
LEMMA ProceedTypes ==
  ASSUME TypeInv, NEW t \in Threads, NEW pc \in {"state", "send"}, Setting(t),
         thread' = [thread EXCEPT ![t].pc = pc], UNCHANGED config
  PROVE  /\ ThreadTypes'
         /\ thread[t].item = "control" => thread[t].value \in FlowModes \cup LineModes
         /\ thread[t].item # "control" => t = "main" /\ thread[t].value \in Values
<1> DEFINE w == [thread[t] EXCEPT !.pc = pc]
<1>1. thread[t] \in Thread
  BY ThreadTypesUse
<1>2. /\ w \in Thread /\ w.pc = pc /\ w.item = thread[t].item
      /\ w.value = thread[t].value /\ w.left = thread[t].left
  BY <1>1 DEF Thread
<1>3. thread' = [thread EXCEPT ![t] = w]
  BY ThreadTypesUse
<1> HIDE DEF w
<1>4. CASE t = "main"
  <2>1. Main' = w
    BY <1>3, <1>4, ThreadTypesUse DEF Main
  <2>2. MainThread'
    BY <1>2, <1>4, <2>1, ThreadTypesUse
    DEF MainThread, TypeInv, ThreadTypes, Setting, InControl, Main, config
  <2>3. /\ Main.item = "control" => Main.value \in FlowModes
        /\ Main.item # "control" => Main.value \in Values
    BY <1>4, ItemFacts, ThreadTypesUse
    DEF TypeInv, ThreadTypes, MainThread, Setting, Main, FlowOf, FlowModes, Config, Thread
  <2> QED
    BY <1>2, <1>3, <1>4, <2>2, <2>3, MainPut DEF Main
<1>5. CASE t = "aux"
  <2>1. Aux' = w
    BY <1>3, <1>5, ThreadTypesUse DEF Aux
  <2>2. AuxThread'
    BY <1>2, <1>5, <2>1 DEF AuxThread, TypeInv, ThreadTypes, Setting, Aux
  <2> QED
    BY <1>2, <1>3, <1>5, <2>2, AuxPut DEF TypeInv, ThreadTypes, AuxThread, Setting, Aux
<1> QED
  BY <1>4, <1>5, ThreadTypesUse

LEMMA AssignTypes ==
  ASSUME TypeInv, NEW t \in Threads, AssignValue(t) \/ AssignState(t)
  PROVE  TypeInv'
<1> DEFINE w == thread[t]
<1>1. w.item \in Items /\ w.value \in AllValues
  BY ThreadTypesUse DEF Thread
<1>2. CASE AssignValue(t)
  <2>1. /\ ThreadTypes'
        /\ w.item = "control" => w.value \in FlowModes \cup LineModes
        /\ w.item # "control" => w.value \in Values
    BY <1>2, ProceedTypes DEF AssignValue, Setting
  <2>2. value' \in [Items -> AllValues] /\ \A i \in Items : value'[i] = IF i = w.item THEN w.value ELSE value[i]
    BY <1>1, <1>2 DEF AssignValue, TypeInv, Objects
  <2>3. Objects'
    BY <1>2, <2>1, <2>2, ItemFacts DEF AssignValue, TypeInv, Objects, Items
  <2>4. Histories'
    BY <1>2 DEF AssignValue, TypeInv, Histories, UnderWay
  <2> QED
    BY <1>2, <2>1, <2>3, <2>4 DEF TypeInv, AssignValue, Config, Counts, Wires, Port, config, port
<1>3. CASE AssignState(t)
  <2>1. ThreadTypes'
    BY <1>3, ProceedTypes DEF AssignState, Setting
  <2>2. Objects'
    BY <1>1, <1>3 DEF AssignState, TypeInv, Objects, SubStates
  <2> QED
    BY <1>3, <2>1, <2>2 DEF TypeInv, AssignState, Config, Histories, Counts, Wires, Port, config, history, port
<1> QED
  BY <1>2, <1>3

(* A thread that comes back to its caller.                                  *)
LEMMA IdleTypes ==
  ASSUME TypeInv, NEW t \in Threads, thread' = [thread EXCEPT ![t] = Idle], UNCHANGED config
  PROVE  ThreadTypes'
<1>1. CASE t = "main"
  <2>1. Main' = Idle
    BY <1>1, ThreadTypesUse DEF Main
  <2>2. MainThread'
    BY <1>1, <2>1, IdleThread DEF MainThread, Setting, InControl, Main
  <2> QED
    BY <1>1, <2>2, IdleThread, MainPut
<1>2. CASE t = "aux"
  <2>1. Aux' = Idle
    BY <1>2, ThreadTypesUse DEF Aux
  <2>2. AuxThread'
    BY <1>2, <2>1, IdleThread DEF AuxThread, Setting, Aux
  <2> QED
    BY <1>2, <2>2, IdleThread, AuxPut
<1> QED
  BY <1>1, <1>2, ThreadTypesUse

LEMMA EndedTypes ==
  ASSUME TypeInv, NEW t \in Threads, NEW how \in {"ok", "rejected", "timeout", "conflict"},
         Ended(t, how), UNCHANGED <<late, overlap>>
  PROVE  Histories'
<1>1. CASE t = "main"
  BY <1>1 DEF Ended, TypeInv, Histories
<1>2. CASE t = "aux"
  BY <1>2 DEF Ended, TypeInv, Histories
<1> QED
  BY <1>1, <1>2, ThreadTypesUse

LEMMA EndTypes ==
  ASSUME TypeInv, NEW t \in Threads, Rejected(t) \/ Confirmed(t) \/ GiveUp(t)
  PROVE  TypeInv'
<1>1. ThreadTypes'
  BY IdleTypes DEF Rejected, Confirmed, GiveUp
<1>2. Histories'
  BY EndedTypes DEF Rejected, Confirmed, GiveUp
<1> QED
  BY <1>1, <1>2 DEF TypeInv, Rejected, Confirmed, GiveUp, Config, Objects, Counts, Wires, Port,
     config, objects, port

LEMMA SendRequestTypes ==
  ASSUME TypeInv, NEW t \in Threads, SendRequest(t)
  PROVE  TypeInv'
<1> DEFINE w == thread[t]
<1>1. w \in Thread /\ w.pc = "send" /\ w.item \in Items /\ w.left \in Seq(Settings)
  BY ThreadTypesUse DEF SendRequest, Thread
<1>2. [item |-> w.item, value |-> value[w.item]] \in Requests
  BY <1>1, ItemFacts DEF TypeInv, Objects, Requests, Items
<1>3. Wires'
  BY <1>2 DEF SendRequest, TypeInv, Wires
<1>4. Histories'
  BY DEF SendRequest, TypeInv, Histories
<1>5. UNCHANGED config
  BY DEF SendRequest
<1>6. CASE w.item = "control" /\ ignore
  <2>1. thread' = [thread EXCEPT ![t] = Idle]
    BY <1>6 DEF SendRequest, AfterSend
  <2> QED
    BY <1>3, <1>4, <1>5, <2>1, IdleTypes
    DEF TypeInv, SendRequest, Config, Objects, Counts, Port, config, objects, port
<1>7. CASE w.item = "control" /\ ~ignore
  <2> DEFINE v == [w EXCEPT !.pc = "wait"]
  <2>1. v \in Thread /\ v.pc = "wait" /\ v.item = "control"
    BY <1>1, <1>7 DEF Thread
  <2>2. thread' = [thread EXCEPT ![t] = v]
    BY <1>7 DEF SendRequest, AfterSend
  <2> HIDE DEF v
  <2>3. ASSUME t = "main" PROVE ThreadTypes'
    <3>1. Main' = v
      BY <2>2, <2>3, ThreadTypesUse DEF Main
    <3>2. InControl("main")
      BY <1>1, <1>7, <2>3 DEF InControl
    <3>3. MainThread'
      BY <2>1, <3>1, <3>2, <1>5 DEF MainThread, TypeInv, ThreadTypes, Setting, InControl, Main, config
    <3> QED
      <4>1. thread' = [thread EXCEPT !["main"] = v]
        BY <2>2, <2>3
      <4> QED
        BY <2>1, <3>3, <4>1, MainPut
  <2>4. ASSUME t = "aux" PROVE ThreadTypes'
    <3>1. Aux' = v
      BY <2>2, <2>4, ThreadTypesUse DEF Aux
    <3>2. AuxThread'
      BY <2>1, <3>1 DEF AuxThread, Setting, Aux
    <3> QED
      <4>1. thread' = [thread EXCEPT !["aux"] = v]
        BY <2>2, <2>4
      <4> QED
        BY <1>5, <2>1, <3>2, <4>1, AuxPut
  <2>5. ThreadTypes'
    BY <2>3, <2>4, ThreadTypesUse DEF Threads
  <2> QED
    BY <1>3, <1>4, <2>5
    DEF TypeInv, SendRequest, Config, Objects, Counts, Port, config, objects, port
<1>8. CASE w.item # "control"
  <2>1. t = "main"
    BY <1>8, ThreadTypesUse DEF TypeInv, ThreadTypes, AuxThread, Aux
  <2>2. CASE w.left = <<>>
    <3> DEFINE v == [w EXCEPT !.pc = "poll", !.left = Order]
    <3>1. v \in Thread /\ v.pc = "poll" /\ v.item = w.item /\ v.left = Order /\ v.active = w.active
      BY <1>1, ItemFacts DEF Thread
    <3>2. thread' = [thread EXCEPT !["main"] = v]
      BY <1>8, <2>1, <2>2 DEF SendRequest, AfterSend
    <3> HIDE DEF v
    <3>3. Main' = v
      BY <3>2, ThreadTypesUse DEF Main
    <3>4. w.active = 0
      BY <1>1, <2>1 DEF TypeInv, ThreadTypes, MainThread, Setting, Main
    <3>5. MainThread'
      BY <3>1, <3>3, <3>4, ItemFacts DEF MainThread, Setting, InControl, Main
    <3> QED
      BY <1>3, <1>4, <3>1, <3>2, <3>5, MainPut
      DEF TypeInv, SendRequest, Config, Objects, Counts, Port, config, objects, port
  <2>3. CASE w.left # <<>>
    <3> DEFINE v == Requesting(Head(w.left), cached[Head(w.left)], Tail(w.left))
    <3>1. Head(w.left) \in Settings /\ Tail(w.left) \in Seq(Settings)
      BY <1>1, <2>3
    <3>2. /\ v \in Thread /\ v.pc = "value" /\ v.item # "control"
          /\ v.item = Head(w.left) /\ v.value = cached[Head(w.left)] /\ v.active = 0
      BY <3>1, ItemFacts DEF Requesting, Thread, TypeInv, Config, AllValues, Items
    <3>3. thread' = [thread EXCEPT !["main"] = v]
      BY <1>8, <2>1, <2>3 DEF SendRequest, AfterSend
    <3> HIDE DEF v
    <3>4. Main' = v
      BY <3>3, ThreadTypesUse DEF Main
    <3>5. MainThread'
      BY <3>2, <3>4, <1>5 DEF MainThread, Setting, InControl, Main, config
    <3> QED
      BY <1>3, <1>4, <3>2, <3>3, <3>5, MainPut
      DEF TypeInv, SendRequest, Config, Objects, Counts, Port, config, objects, port
  <2> QED
    BY <2>2, <2>3
<1> QED
  BY <1>6, <1>7, <1>8 DEF TypeInv, Config

LEMMA PollTypes ==
  ASSUME TypeInv, PollItem \/ PollAgain
  PROVE  TypeInv'
<1> DEFINE w == Main
<1>1. /\ w \in Thread /\ w.pc = "poll" /\ w.left \in Seq(Settings) /\ w.active \in Nat
      /\ Len(w.left) + w.active <= Len(Order) /\ Len(Order) \in Nat
  BY ItemFacts DEF TypeInv, ThreadTypes, MainThread, PollItem, PollAgain, Summed, Main, Thread
<1>2. ASSUME NEW left \in Seq(Settings), NEW active \in Nat, Len(left) + active <= Len(Order),
             thread' = [thread EXCEPT !["main"] = [w EXCEPT !.left = left, !.active = active]],
             UNCHANGED config
      PROVE  ThreadTypes'
  <2> DEFINE v == [w EXCEPT !.left = left, !.active = active]
  <2>1. active \in 0 .. Len(Order)
    BY <1>1, <1>2
  <2>2. v \in Thread /\ v.pc = "poll" /\ v.left = left /\ v.active = active
    BY <1>1, <2>1 DEF Thread
  <2>3. Main' = v
    BY <1>2, ThreadTypesUse DEF Main
  <2> HIDE DEF v
  <2>4. MainThread'
    BY <1>2, <2>2, <2>3 DEF MainThread, Setting, InControl, Main
  <2> QED
    BY <1>2, <2>2, <2>4, MainPut DEF v
<1>3. CASE PollItem
  <2> DEFINE a == IF state[Head(w.left)] = "ACTIVE" THEN w.active + 1 ELSE w.active
  <2>1. Tail(w.left) \in Seq(Settings) /\ a \in Nat /\ Len(Tail(w.left)) + a <= Len(Order)
    <3>1. w.left # <<>> /\ a \in Nat /\ a <= w.active + 1
      BY <1>1, <1>3 DEF PollItem, Main
    <3>2. Tail(w.left) \in Seq(Settings) /\ Len(Tail(w.left)) = Len(w.left) - 1 /\ Len(w.left) \in Nat
      BY <1>1, <3>1
    <3> QED
      BY <1>1, <3>1, <3>2
  <2>2. thread' = [thread EXCEPT !["main"] = [w EXCEPT !.left = Tail(w.left), !.active = a]]
    BY <1>3, ThreadTypesUse DEF PollItem, Main
  <2> HIDE DEF a
  <2>3. ThreadTypes'
    BY <1>2, <1>3, <2>1, <2>2 DEF PollItem
  <2> QED
    BY <1>3, <2>3
    DEF TypeInv, PollItem, Config, Objects, Histories, Counts, Wires, Port, config, objects, history, port
<1>4. CASE PollAgain
  <2>1. thread' = [thread EXCEPT !["main"] = [w EXCEPT !.left = Order, !.active = 0]]
    BY <1>4, ThreadTypesUse DEF PollAgain, Main
  <2>2. Order \in Seq(Settings) /\ 0 \in Nat /\ Len(Order) + 0 <= Len(Order) /\ UNCHANGED config
    BY <1>4, ItemFacts DEF PollAgain
  <2>3. ThreadTypes'
    BY <1>2, <2>1, <2>2
  <2> QED
    BY <1>4, <2>3
    DEF TypeInv, PollAgain, Config, Objects, Histories, Counts, Wires, Port, config, objects, history, port
<1> QED
  BY <1>3, <1>4

LEMMA StartFlowTypes == TypeInv /\ StartFlow => TypeInv'
<1> SUFFICES ASSUME TypeInv, StartFlow PROVE TypeInv'
  OBVIOUS
<1>1. CASE xonxoff /\ rtscts
  <2>1. ThreadTypes'
    BY <1>1, IdleTypes, ThreadTypesUse DEF StartFlow
  <2>2. Histories'
    BY <1>1, EndedTypes, ThreadTypesUse DEF StartFlow
  <2> QED
    BY <2>1, <2>2 DEF TypeInv, StartFlow, Config, Objects, Counts, Wires, Port, config, objects, port
<1>2. CASE ~(xonxoff /\ rtscts)
  <2> DEFINE w == Requesting("control", FlowOf(xonxoff, rtscts), <<>>)
  <2>1. /\ w \in Thread /\ w.pc = "value" /\ w.item = "control"
        /\ w.value = FlowOf(xonxoff, rtscts) /\ w.active = 0
    BY ItemFacts DEF Requesting, Thread, AllValues, FlowOf, FlowModes
  <2>2. thread' = [thread EXCEPT !["main"] = w]
    BY <1>2 DEF StartFlow
  <2> HIDE DEF w
  <2>3. Main' = w
    BY <2>2, ThreadTypesUse DEF Main
  <2>4. MainThread'
    BY <1>2, <2>1, <2>3 DEF StartFlow, config, MainThread, Setting, InControl, Main
  <2>5. ThreadTypes'
    BY <2>1, <2>2, <2>4, MainPut
  <2>6. Histories'
    BY <1>2 DEF StartFlow, TypeInv, Histories, InControl
  <2> QED
    BY <2>5, <2>6 DEF TypeInv, StartFlow, Config, Objects, Counts, Wires, Port, config, objects, port
<1> QED
  BY <1>1, <1>2

(* Steps of the reader thread and of the server.                            *)
LEMMA HeadOf ==
  ASSUME NEW q \in Seq(Requests), q # <<>>
  PROVE  /\ Head(q) \in Requests /\ Tail(q) \in Seq(Requests)
         /\ Head(q).item \in Items
         /\ Head(q).value \in AllValues
<1>1. Head(q) \in Requests /\ Tail(q) \in Seq(Requests)
  OBVIOUS
<1> QED
  BY <1>1 DEF Requests, AllValues

LEMMA SameThreads ==
  ASSUME TypeInv, UNCHANGED thread, UNCHANGED config
  PROVE  ThreadTypes' /\ Main' = Main /\ Aux' = Aux /\ Config'
<1>1. MainThread'
  BY DEF TypeInv, ThreadTypes, MainThread, Setting, InControl, Main, config
<1>2. AuxThread'
  BY DEF TypeInv, ThreadTypes, AuxThread, Setting, Aux, config
<1> QED
  BY <1>1, <1>2 DEF TypeInv, Config, ThreadTypes, Main, Aux, config

LEMMA AnswerTypes == TypeInv /\ Answer => TypeInv'
<1> SUFFICES ASSUME TypeInv, Answer PROVE TypeInv'
  OBVIOUS
<1>1. Head(toClient).item \in Items /\ Tail(toClient) \in Seq(Requests)
  BY HeadOf DEF TypeInv, Wires, Answer
<1>2. Objects' /\ Wires'
  BY <1>1 DEF Answer, TypeInv, Objects, Wires, SubStates
<1> QED
  BY <1>2, SameThreads DEF Answer, TypeInv, Histories, Counts, Port, history, port

LEMMA ServeTypes == TypeInv /\ Serve => TypeInv'
<1> SUFFICES ASSUME TypeInv, Serve PROVE TypeInv'
  OBVIOUS
<1> DEFINE r == Head(toServer)
<1>1. r \in Requests /\ r.item \in Items /\ r.value \in AllValues /\ Tail(toServer) \in Seq(Requests)
  BY HeadOf DEF TypeInv, Wires, Serve, ServeSetting, ServeControl
<1>2. CASE ServeSetting
  <2> DEFINE now == IF r.value \in Supported THEN r.value ELSE actual[r.item]
  <2>1. r.item \in Settings /\ actual' = [actual EXCEPT ![r.item] = now]
        /\ toClient' = Append(toClient, [item |-> r.item, value |-> now])
    BY <1>2 DEF ServeSetting, Reply
  <2>2. now \in Supported
    BY <2>1 DEF TypeInv, Port
  <2>3. Port'
    BY <1>2, <2>1, <2>2 DEF ServeSetting, TypeInv, Port
  <2>4. [item |-> r.item, value |-> now] \in Requests
    BY <1>1, <2>2, SettingsAssumption DEF SettingsAssumption, Requests
  <2>5. Wires'
    BY <1>1, <1>2, <2>1, <2>4 DEF ServeSetting, TypeInv, Wires
  <2> QED
    BY <1>2, <2>3, <2>5, SameThreads DEF ServeSetting, TypeInv, Objects, Histories, Counts, history, objects
<1>3. CASE ServeControl
  <2>1. [item |-> "control", value |-> r.value] \in Requests
    BY <1>1, ItemFacts DEF Requests
  <2>2. toClient' \in Seq(Requests)
    BY <1>3, <2>1 DEF ServeControl, Reply, TypeInv, Wires
  <2>3. Wires'
    BY <1>1, <1>3, <2>2 DEF ServeControl, Wires
  <2>4. serverDtr' \in BOOLEAN
    BY <1>3 DEF ServeControl, TypeInv, Port
  <2>5. serverFlow' \subseteq {"sw", "hw"}
    BY <1>3 DEF ServeControl, FlowAfter, TypeInv, Port
  <2>6. Port'
    BY <1>3, <2>4, <2>5 DEF ServeControl, TypeInv, Port
  <2> QED
    BY <1>3, <2>3, <2>6, SameThreads DEF ServeControl, TypeInv, Objects, Histories, Counts, history, objects
<1> QED
  BY <1>2, <1>3 DEF Serve

LEMMA TypeNext == TypeInv /\ [Next]_vars => TypeInv'
<1> SUFFICES ASSUME TypeInv, [Next]_vars PROVE TypeInv'
  OBVIOUS
<1>1. CASE UNCHANGED vars
  BY <1>1, SameThreads
  DEF TypeInv, vars, Objects, Histories, Counts, Wires, Port, config, objects, history, port
<1>2. ASSUME NEW t \in Threads, UserStep(t) \/ GiveUp(t) PROVE TypeInv'
  BY <1>2, AssignTypes, SendRequestTypes, EndTypes, PollTypes, StartFlowTypes DEF UserStep
<1> QED
  BY <1>1, <1>2, ChangeTypes, ChangeFlowTypes, ChangeWriteTimeoutTypes, SetLineTypes, AnswerTypes, ServeTypes DEF Next

THEOREM Types == Spec => []TypeInv
BY TypeInit, TypeNext, PTL DEF Spec
-----------------------------------------------------------------------------
(* No wait depends on the network timeout.                                  *)
Sending(i) == \E t \in Threads : thread[t].item = i /\ thread[t].pc = "send"
Owed == \A i \in Items : state[i] = "REQUESTED" => UnderWay(i) \/ Sending(i)

(* A message for the item is in the channel.                                *)
InChannel(q, i) == \E k \in DOMAIN q : q[k].item = i

LEMMA UnderWayDef ==
  \A i : /\ UnderWay(i) <=> InChannel(toServer, i) \/ InChannel(toClient, i)
         /\ UnderWay(i)' <=> InChannel(toServer', i) \/ InChannel(toClient', i)
BY DEF UnderWay, InChannel

LEMMA InChannelAppend ==
  ASSUME NEW q \in Seq(Requests), NEW r \in Requests
  PROVE  \A i : InChannel(Append(q, r), i) <=> InChannel(q, i) \/ r.item = i
<1>1. /\ DOMAIN q = 1 .. Len(q) /\ DOMAIN Append(q, r) = 1 .. Len(q) + 1 /\ Len(q) \in Nat
      /\ \A k \in 1 .. Len(q) : Append(q, r)[k] = q[k]
      /\ Append(q, r)[Len(q) + 1] = r
  OBVIOUS
<1> QED
  BY <1>1 DEF InChannel

LEMMA InChannelTail ==
  ASSUME NEW q \in Seq(Requests), q # <<>>
  PROVE  \A i : InChannel(q, i) <=> InChannel(Tail(q), i) \/ Head(q).item = i
<1>1. /\ DOMAIN q = 1 .. Len(q) /\ DOMAIN Tail(q) = 1 .. Len(q) - 1 /\ Len(q) \in Nat \ {0}
      /\ \A k \in 1 .. Len(q) - 1 : Tail(q)[k] = q[k + 1]
      /\ Head(q) = q[1]
  OBVIOUS
<1>2. \A k \in 1 .. Len(q) : k = 1 \/ (k - 1 \in 1 .. Len(q) - 1 /\ q[k] = Tail(q)[k - 1])
  BY <1>1
<1>3. \A k \in 1 .. Len(q) - 1 : k + 1 \in 1 .. Len(q) /\ Tail(q)[k] = q[k + 1]
  BY <1>1
<1>4. 1 \in 1 .. Len(q)
  BY <1>1
<1> SUFFICES ASSUME NEW i PROVE InChannel(q, i) <=> InChannel(Tail(q), i) \/ Head(q).item = i
  OBVIOUS
<1>5. ASSUME InChannel(q, i) PROVE InChannel(Tail(q), i) \/ Head(q).item = i
  BY <1>1, <1>2, <1>5 DEF InChannel
<1>6. ASSUME InChannel(Tail(q), i) PROVE InChannel(q, i)
  BY <1>1, <1>3, <1>6 DEF InChannel
<1>7. ASSUME Head(q).item = i PROVE InChannel(q, i)
  BY <1>1, <1>4, <1>7 DEF InChannel
<1> QED
  BY <1>5, <1>6, <1>7

(* Steps that touch no object and no message, and no thread about to send.  *)
LEMMA OwedKept ==
  ASSUME TypeInv, Owed, UNCHANGED <<state, toServer, toClient>>,
         \A u \in Threads : thread[u].pc = "send" => thread'[u] = thread[u]
  PROVE  Owed'
BY DEF Owed, UnderWay, Sending

(* Which user steps these are.                                              *)
LEMMA OtherThreads ==
  ASSUME TypeInv, NEW t \in Threads, NEW w, thread' = [thread EXCEPT ![t] = w]
  PROVE  thread'[t] = w /\ \A u \in Threads : u # t => thread'[u] = thread[u]
BY ThreadTypesUse

LEMMA OwedUserKept ==
  ASSUME TypeInv, Owed, NEW t \in Threads,
         \/ Change \/ ChangeFlow \/ ChangeWriteTimeout \/ SetLine \/ AssignValue(t) \/ Rejected(t) \/ Confirmed(t)
         \/ GiveUp(t) \/ PollItem \/ PollAgain \/ StartFlow
  PROVE  Owed'
<1>1. UNCHANGED <<state, toServer, toClient>>
  BY DEF Change, ChangeFlow, ChangeWriteTimeout, SetLine, AssignValue, Rejected, Confirmed, GiveUp, PollItem,
     PollAgain, StartFlow, objects
<1>2. ASSUME NEW u \in Threads, thread[u].pc = "send" PROVE thread'[u] = thread[u]
  <2>1. CASE Change \/ ChangeFlow \/ ChangeWriteTimeout
    BY <1>2, <2>1, ThreadTypesUse DEF Change, ChangeFlow, ChangeWriteTimeout, Call, Reconfigure
  <2>2. CASE SetLine
    BY <1>2, <2>2, ThreadTypesUse DEF SetLine, Call
  <2>3. CASE AssignValue(t) \/ Rejected(t) \/ Confirmed(t)
    BY <1>2, <2>3, ThreadTypesUse DEF AssignValue, Rejected, Confirmed
  <2>4. CASE GiveUp(t) \/ PollItem \/ PollAgain \/ StartFlow
    BY <1>2, <2>4, ThreadTypesUse DEF GiveUp, PollItem, PollAgain, StartFlow, Summed
  <2> QED
    BY <2>1, <2>2, <2>3, <2>4
<1> QED
  BY <1>1, <1>2, OwedKept

LEMMA OwedNext == TypeInv /\ Owed /\ [Next]_vars => Owed'
<1> SUFFICES ASSUME TypeInv, Owed, [Next]_vars PROVE Owed'
  OBVIOUS
<1> USE DEF TypeInv, Wires
<1>1. CASE UNCHANGED vars
  BY <1>1, OwedKept DEF vars, objects
<1>2. ASSUME NEW t \in Threads, AssignState(t) PROVE Owed'
  <2>1. /\ thread'[t].item = thread[t].item /\ thread'[t].pc = "send"
        /\ \A u \in Threads : u # t => thread'[u] = thread[u]
        /\ thread[t].pc = "state" /\ thread[t].item \in Items
    BY <1>2, ThreadTypesUse DEF AssignState, Thread
  <2>2. \A i \in Items : i # thread[t].item => state'[i] = state[i]
    BY <1>2 DEF AssignState, Objects
  <2>3. \A i \in Items : UnderWay(i)' <=> UnderWay(i)
    BY <1>2 DEF AssignState, UnderWay
  <2> QED
    BY <2>1, <2>2, <2>3 DEF Owed, Sending
<1>3. ASSUME NEW t \in Threads, SendRequest(t) PROVE Owed'
  <2> DEFINE r == [item |-> thread[t].item, value |-> value[thread[t].item]]
  <2>1. r \in Requests /\ r.item = thread[t].item /\ toServer' = Append(toServer, r)
    BY <1>3, ThreadTypesUse, ItemFacts DEF SendRequest, Objects, Requests, Thread, Items
  <2> HIDE DEF r
  <2>2. \A i \in Items : UnderWay(i)' <=> UnderWay(i) \/ i = thread[t].item
    <3>1. \A i : InChannel(toServer', i) <=> InChannel(toServer, i) \/ r.item = i
      BY <2>1, InChannelAppend
    <3>2. toClient' = toClient
      BY <1>3 DEF SendRequest
    <3> QED
      BY <2>1, <3>1, <3>2, UnderWayDef
  <2>3. \A u \in Threads : u # t => thread'[u] = thread[u]
    BY <1>3, ThreadTypesUse DEF SendRequest
  <2> QED
    BY <1>3, <2>2, <2>3 DEF SendRequest, objects, Owed, Sending
<1>4. CASE Answer
  <2>1. \A i \in Items : UnderWay(i) => UnderWay(i)' \/ i = Head(toClient).item
    BY <1>4, InChannelTail, UnderWayDef DEF Answer
  <2>2. /\ Head(toClient).item \in Items
        /\ \A i \in Items : i # Head(toClient).item => state'[i] = state[i]
        /\ state'[Head(toClient).item] # "REQUESTED"
    BY <1>4, HeadOf DEF Answer, Objects
  <2> QED
    BY <1>4, <2>1, <2>2 DEF Answer, Owed, Sending
<1>5. CASE Serve
  <2>1. PICK v : /\ toClient' = Append(toClient, [item |-> Head(toServer).item, value |-> v])
                 /\ toServer # <<>> /\ toServer' = Tail(toServer)
    BY <1>5 DEF Serve, ServeSetting, ServeControl, Reply
  <2> DEFINE r == [item |-> Head(toServer).item, value |-> v]
  <2>2. toClient' \in Seq(Requests)
    BY <1>5, ServeTypes
  <2>3. r = toClient'[Len(toClient) + 1]
    BY <2>1
  <2>4. r \in Requests
    BY <2>1, <2>2, <2>3
  <2>5. \A i \in Items : UnderWay(i) => UnderWay(i)'
    <3>1. \A i : InChannel(toClient', i) <=> InChannel(toClient, i) \/ r.item = i
      BY <2>1, <2>4, InChannelAppend
    <3>2. \A i : InChannel(toServer, i) <=> InChannel(toServer', i) \/ Head(toServer).item = i
      BY <2>1, InChannelTail
    <3> QED
      BY <3>1, <3>2, UnderWayDef
  <2>6. UNCHANGED <<state, thread>>
    BY <1>5 DEF Serve, ServeSetting, ServeControl, objects
  <2> QED
    BY <2>5, <2>6 DEF Owed, Sending
<1>6. ASSUME NEW t \in Threads, UserStep(t) \/ GiveUp(t) PROVE Owed'
  BY <1>2, <1>3, <1>6, OwedUserKept DEF UserStep
<1> QED
  BY <1>1, <1>4, <1>5, <1>6, OwedUserKept, ThreadTypesUse DEF Next

(* An object that is REQUESTED has its request, or the answer, under way,   *)
(* or a thread is about to send it, whoever takes it over in between: no    *)
(* wait of is_ready's callers ends only by the network timeout.             *)
THEOREM NoWaitForNothing == Spec => []AnswerOnItsWay
<1>1. Init => Owed
  BY DEF Init, Owed
<1>2. TypeInv /\ Owed => AnswerOnItsWay
  BY TypeInvType DEF Owed, Sending, AnswerOnItsWay
<1> QED
  BY <1>1, <1>2, OwedNext, Types, PTL DEF Spec
-----------------------------------------------------------------------------
(* What the client's properties show arrives at the server's port.          *)

(* The settings a reconfiguration under way has yet to request.             *)
LeftOver(left) == {left[k] : k \in DOMAIN left}
Pending ==
  IF Setting("main") /\ Main.item # "control" THEN {Main.item} \cup LeftOver(Main.left) ELSE {}

(* Once the requests q are served, the port that now has p for s has c, if  *)
(* it can: the last request for s asks for c.                               *)
Arrives(q, s, p, c) ==
  /\ \A j \in DOMAIN q :
       q[j].item = s /\ (\A k \in DOMAIN q : k > j => q[k].item # s) => q[j].value = c
  /\ ~InChannel(q, s) => (c \in Supported => p = c)

Arriving == \A s \in Settings \ Pending : Arrives(toServer, s, actual[s], cached[s])

(* The objects hold what the properties show, from AssignValue on.          *)
ValuesFollow ==
  \A s \in Settings :
    s \notin Pending \/ (Main.item = s /\ Main.pc \in {"state", "send"}) => value[s] = cached[s]

Following == Arriving /\ ValuesFollow

(* ... unless a setter raised before it requested anything; a setter that   *)
(* is under way, or returned normally, did not.                             *)
ArrivalInv ==
  /\ Main.pc # "idle" \/ outcome = "ok" => Sendable
  /\ Sendable => Following

LEMMA LeftOverTail ==
  ASSUME NEW left \in Seq(Settings), left # <<>>
  PROVE  LeftOver(left) = {Head(left)} \cup LeftOver(Tail(left))
<1>1. /\ DOMAIN left = 1 .. Len(left) /\ DOMAIN Tail(left) = 1 .. Len(left) - 1
      /\ Len(left) \in Nat \ {0} /\ Head(left) = left[1]
      /\ \A k \in 1 .. Len(left) - 1 : Tail(left)[k] = left[k + 1]
  OBVIOUS
<1>2. \A k \in 1 .. Len(left) : k = 1 \/ (k - 1 \in 1 .. Len(left) - 1 /\ left[k] = Tail(left)[k - 1])
  BY <1>1
<1>3. \A k \in 1 .. Len(left) - 1 : k + 1 \in 1 .. Len(left) /\ Tail(left)[k] = left[k + 1]
  BY <1>1
<1>4. 1 \in 1 .. Len(left)
  BY <1>1
<1>5. ASSUME NEW s \in LeftOver(left) PROVE s = Head(left) \/ s \in LeftOver(Tail(left))
  <2>1. PICK k \in 1 .. Len(left) : s = left[k]
    BY <1>1 DEF LeftOver
  <2>2. CASE k = 1
    BY <1>1, <2>1, <2>2
  <2>3. CASE k # 1
    <3>1. k - 1 \in DOMAIN Tail(left) /\ s = Tail(left)[k - 1]
      BY <1>1, <1>2, <2>1, <2>3
    <3> QED
      BY <3>1 DEF LeftOver
  <2> QED
    BY <2>2, <2>3
<1>6. ASSUME NEW s \in LeftOver(Tail(left)) PROVE s \in LeftOver(left)
  BY <1>1, <1>3 DEF LeftOver
<1>7. Head(left) \in LeftOver(left)
  BY <1>1, <1>4 DEF LeftOver
<1> QED
  BY <1>5, <1>6, <1>7

LEMMA LeftOverOrder == {Head(Order)} \cup LeftOver(Tail(Order)) = Settings
<1>1. DOMAIN Order = 1 .. Len(Order)
  BY SettingsAssumption DEF SettingsAssumption
<1>2. LeftOver(Order) = Settings
  BY <1>1 DEF LeftOver, Settings
<1> QED
  BY <1>2, LeftOverTail, SettingsAssumption DEF SettingsAssumption

LEMMA ArrivesAppend ==
  ASSUME NEW q \in Seq(Requests), NEW r \in Requests, NEW s, NEW p, NEW c,
         IF r.item = s THEN r.value = c ELSE Arrives(q, s, p, c)
  PROVE  Arrives(Append(q, r), s, p, c)
<1> DEFINE n == Append(q, r)
<1>1. /\ DOMAIN q = 1 .. Len(q) /\ DOMAIN n = 1 .. Len(q) + 1 /\ Len(q) \in Nat
      /\ \A k \in 1 .. Len(q) : n[k] = q[k]
      /\ n[Len(q) + 1] = r
  OBVIOUS
<1>2. InChannel(n, s) <=> InChannel(q, s) \/ r.item = s
  BY InChannelAppend
<1> HIDE DEF n
<1>3. ASSUME NEW j \in DOMAIN n, n[j].item = s, \A k \in DOMAIN n : k > j => n[k].item # s
      PROVE  n[j].value = c
  <2>1. CASE j = Len(q) + 1
    BY <1>1, <1>3, <2>1
  <2>2. CASE j # Len(q) + 1
    <3>1. j \in DOMAIN q /\ n[j] = q[j] /\ Len(q) + 1 > j /\ Len(q) + 1 \in DOMAIN n
      BY <1>1, <2>2
    <3>2. r.item # s
      BY <1>1, <1>3, <3>1
    <3>3. \A k \in DOMAIN q : k > j => q[k].item # s
      BY <1>1, <1>3
    <3> QED
      BY <1>3, <3>1, <3>2, <3>3 DEF Arrives
  <2> QED
    BY <2>1, <2>2
<1>4. ~InChannel(n, s) => (c \in Supported => p = c)
  BY <1>2 DEF Arrives
<1> QED
  BY <1>3, <1>4 DEF Arrives, n

(* The server takes the first request.                                      *)
LEMMA ArrivesTail ==
  ASSUME NEW q \in Seq(Requests), q # <<>>, NEW s, NEW p, NEW c, Arrives(q, s, p, c)
  PROVE  Arrives(Tail(q), s,
                 IF Head(q).item = s /\ Head(q).value \in Supported THEN Head(q).value ELSE p, c)
<1> DEFINE n == Tail(q)
           v == IF Head(q).item = s /\ Head(q).value \in Supported THEN Head(q).value ELSE p
<1>1. /\ DOMAIN q = 1 .. Len(q) /\ DOMAIN n = 1 .. Len(q) - 1 /\ Len(q) \in Nat \ {0}
      /\ \A k \in 1 .. Len(q) - 1 : n[k] = q[k + 1]
      /\ Head(q) = q[1]
  OBVIOUS
<1>2. InChannel(q, s) <=> InChannel(n, s) \/ Head(q).item = s
  BY InChannelTail
<1> HIDE DEF n
<1>3. \A k \in DOMAIN n : k + 1 \in DOMAIN q /\ n[k] = q[k + 1]
  BY <1>1
<1>4. \A k \in DOMAIN q : k # 1 => k - 1 \in DOMAIN n /\ q[k] = n[k - 1]
  BY <1>1
<1>5. ASSUME NEW j \in DOMAIN n, n[j].item = s, \A k \in DOMAIN n : k > j => n[k].item # s
      PROVE  n[j].value = c
  <2>1. j + 1 \in DOMAIN q /\ n[j] = q[j + 1] /\ j \in Nat \ {0}
    BY <1>1, <1>3
  <2>2. ASSUME NEW k \in DOMAIN q, k > j + 1 PROVE q[k].item # s
    <3>1. k # 1 /\ k - 1 > j
      BY <1>1, <2>1, <2>2
    <3> QED
      BY <1>4, <1>5, <3>1
  <2> QED
    BY <1>5, <2>1, <2>2 DEF Arrives
<1>6. ASSUME ~InChannel(n, s), c \in Supported PROVE v = c
  <2>1. CASE Head(q).item = s
    <3>1. \A k \in DOMAIN q : k > 1 => q[k].item # s
      <4> SUFFICES ASSUME NEW k \in DOMAIN q, k > 1 PROVE q[k].item # s
        OBVIOUS
      <4>1. k - 1 \in DOMAIN n /\ q[k] = n[k - 1]
        BY <1>1, <1>4
      <4> QED
        BY <1>6, <4>1 DEF InChannel
    <3>2. 1 \in DOMAIN q
      BY <1>1
    <3>3. Head(q).value = c
      BY <1>1, <2>1, <3>1, <3>2 DEF Arrives
    <3> QED
      BY <1>6, <2>1, <3>3
  <2>2. CASE Head(q).item # s
    BY <1>2, <1>6, <2>2 DEF Arrives
  <2> QED
    BY <2>1, <2>2
<1> HIDE DEF v
<1>7. Arrives(n, s, v, c)
  BY <1>5, <1>6 DEF Arrives
<1> QED
  BY <1>7 DEF n, v

(* Steps that leave the properties, the objects' values, the requests and   *)
(* the port alone, and what the main thread has yet to request.             *)
LEMMA ArrivalKept ==
  ASSUME Following, UNCHANGED <<cached, value, toServer, actual>>, Pending' = Pending,
         \A s \in Settings : Main'.item = s /\ Main'.pc \in {"state", "send"}
                               => Main.item = s /\ Main.pc \in {"state", "send"}
  PROVE  Following'
BY DEF Following, Arriving, ValuesFollow

LEMMA NotPending ==
  /\ ~Setting("main") \/ Main.item = "control" => Pending = {}
  /\ ~Setting("main")' \/ Main'.item = "control" => Pending' = {}
BY DEF Pending

LEMMA PendingSame ==
  ASSUME Main'.item = Main.item, Main'.left = Main.left, Setting("main"), Setting("main")'
  PROVE  Pending' = Pending
BY DEF Pending

LEMMA MainFacts ==
  ASSUME TypeInv
  PROVE  /\ Main \in Thread /\ Main.item \in Items /\ Main.left \in Seq(Settings)
         /\ Main.pc = "idle" => Main.item = "control"
         /\ Main.pc = "wait" => Main.item = "control"
         /\ Setting("main") /\ Main.item # "control" => Main.value = cached[Main.item]
BY DEF TypeInv, ThreadTypes, MainThread, Thread, Idle

LEMMA ArrivalChange ==
  ASSUME TypeInv, Change \/ ChangeFlow \/ ChangeWriteTimeout, Sendable'
  PROVE  Following'
<1> DEFINE w == Requesting(Head(Order), cached'[Head(Order)], Tail(Order))
<1>1. thread' = [thread EXCEPT !["main"] = w]
  BY DEF Change, ChangeFlow, ChangeWriteTimeout, Reconfigure
<1>2. Main' = w
  BY <1>1, ThreadTypesUse DEF Main
<1>3. Main'.pc = "value" /\ Main'.item = Head(Order) /\ Main'.left = Tail(Order)
  BY <1>2 DEF Requesting
<1>4. Pending' = Settings
  BY <1>3, LeftOverOrder, ItemFacts DEF Pending, Setting, Main
<1> QED
  BY <1>3, <1>4 DEF Following, Arriving, ValuesFollow

LEMMA ArrivalAssign ==
  ASSUME TypeInv, Following, NEW t \in Threads, AssignValue(t) \/ AssignState(t)
  PROVE  Following'
<1>1. thread[t].item \in Items /\ UNCHANGED <<cached, toServer, actual>>
  BY ThreadTypesUse DEF Thread, AssignValue, AssignState, config, port
<1>2. CASE t = "aux"
  <2>1. Main' = Main /\ Aux.item = "control"
    BY <1>2, ThreadTypesUse DEF AssignValue, AssignState, Main, TypeInv, ThreadTypes, AuxThread
  <2>2. \A s \in Settings : value'[s] = value[s]
    BY <1>2, <2>1, ItemFacts DEF AssignValue, AssignState, TypeInv, Objects, Aux
  <2>3. Pending' = Pending
    BY <2>1 DEF Pending, Setting, Main
  <2> QED
    BY <1>1, <2>1, <2>2, <2>3 DEF Following, Arriving, ValuesFollow
<1>3. CASE t = "main"
  <2>1. /\ Main'.item = Main.item /\ Main'.left = Main.left
        /\ Main.pc \in {"value", "state"} /\ Main'.pc \in {"state", "send"}
    BY <1>3, ThreadTypesUse DEF AssignValue, AssignState, Main, Thread
  <2>2. Pending' = Pending
    BY <2>1, PendingSame DEF Setting, Main
  <2>3. \A s \in Settings : s # Main.item => value'[s] = value[s]
    <3>1. CASE AssignValue(t)
      BY <1>3, <3>1, ItemFacts DEF AssignValue, TypeInv, Objects, Main
    <3>2. CASE AssignState(t)
      BY <3>2 DEF AssignState
    <3> QED
      BY <3>1, <3>2
  <2>4. Main.item \in Settings => Main.item \in Pending
    BY <2>1, ItemFacts DEF Pending, Setting, Main
  <2>5. ASSUME NEW s \in Settings, s \notin Pending \/ Main.item = s PROVE value'[s] = cached[s]
    <3>1. CASE AssignValue(t)
      <4>1. CASE s = Main.item
        <5>1. value'[s] = Main.value
          BY <1>1, <1>3, <3>1, <4>1 DEF AssignValue, TypeInv, Objects, Main
        <5>2. Main.item # "control" /\ Setting("main")
          BY <2>1, <4>1, ItemFacts DEF Setting, Main
        <5> QED
          BY <4>1, <5>1, <5>2, MainFacts
      <4>2. CASE s # Main.item
        BY <2>3, <2>5, <4>2 DEF Following, ValuesFollow
      <4> QED
        BY <4>1, <4>2
    <3>2. CASE AssignState(t)
      BY <1>3, <2>5, <3>2 DEF AssignState, Following, ValuesFollow, Main
    <3> QED
      BY <3>1, <3>2
  <2> QED
    BY <1>1, <2>1, <2>2, <2>5 DEF Following, Arriving, ValuesFollow
<1> QED
  BY <1>2, <1>3, ThreadTypesUse

LEMMA ArrivalSend ==
  ASSUME TypeInv, Following, NEW t \in Threads, SendRequest(t)
  PROVE  Following'
<1> DEFINE r == [item |-> thread[t].item, value |-> value[thread[t].item]]
<1>1. /\ r \in Requests /\ r.item = thread[t].item /\ r.value = value[thread[t].item]
      /\ toServer \in Seq(Requests) /\ toServer' = Append(toServer, r)
  BY ThreadTypesUse, ItemFacts DEF SendRequest, TypeInv, Wires, Objects, Requests, Thread, Items
<1>2. UNCHANGED <<cached, value, actual>> /\ thread[t].pc = "send"
  BY DEF SendRequest, config, objects, port
<1> HIDE DEF r
<1>3. CASE thread[t].item = "control"
  <2>1. \A s \in Settings : Arrives(toServer, s, actual[s], cached[s]) => Arrives(toServer', s, actual[s], cached[s])
    BY <1>1, <1>3, ArrivesAppend, ItemFacts
  <2>2. CASE t = "aux"
    <3>1. Main' = Main
      BY <2>2, ThreadTypesUse DEF SendRequest, Main
    <3>2. Pending' = Pending
      BY <3>1 DEF Pending, Setting, Main
    <3> QED
      BY <1>2, <2>1, <3>1, <3>2 DEF Following, Arriving, ValuesFollow
  <2>3. CASE t = "main"
    <3>1. Main'.pc \in {"idle", "wait"}
      BY <1>3, <2>3, ThreadTypesUse, IdleThread DEF SendRequest, AfterSend, Main, Thread
    <3>2. Pending' = {} /\ Pending = {}
      BY <1>3, <2>3, <3>1, NotPending DEF Setting, Main
    <3> QED
      BY <1>2, <2>1, <3>1, <3>2 DEF Following, Arriving, ValuesFollow
  <2> QED
    BY <2>2, <2>3, ThreadTypesUse
<1>4. CASE thread[t].item # "control"
  <2>1. t = "main" /\ Main.item # "control" /\ Main.pc = "send"
    BY <1>2, <1>4, ThreadTypesUse DEF TypeInv, ThreadTypes, AuxThread, Aux, Main
  <2>2. r.value = cached[Main.item] /\ r.item = Main.item /\ Main.item \in Settings
    BY <1>1, <2>1, MainFacts, ItemFacts DEF Following, ValuesFollow, Main
  <2>3. Pending = {Main.item} \cup LeftOver(Main.left)
    BY <2>1 DEF Pending, Setting, Main
  <2>4. Pending' = LeftOver(Main.left) /\ Main'.pc \notin {"state", "send"}
    <3>1. CASE Main.left = <<>>
      <4>1. Main'.pc = "poll"
        BY <2>1, <3>1, ThreadTypesUse DEF SendRequest, AfterSend, Main, Thread
      <4>2. LeftOver(Main.left) = {}
        BY <3>1 DEF LeftOver
      <4> QED
        BY <4>1, <4>2, NotPending DEF Setting, Main
    <3>2. CASE Main.left # <<>>
      <4>1. thread' = [thread EXCEPT !["main"] =
                         Requesting(Head(Main.left), cached[Head(Main.left)], Tail(Main.left))]
        BY <2>1, <3>2 DEF SendRequest, AfterSend, Main
      <4>2. /\ Main'.pc = "value" /\ Main'.item = Head(Main.left)
            /\ Main'.left = Tail(Main.left)
        BY <4>1, ThreadTypesUse DEF Requesting, Main
      <4>3. Head(Main.left) \in Settings
        BY <3>2, MainFacts
      <4>4. Pending' = {Head(Main.left)} \cup LeftOver(Tail(Main.left))
        BY <4>2, <4>3, ItemFacts DEF Pending, Setting, Main
      <4> QED
        BY <3>2, <4>2, <4>4, LeftOverTail, MainFacts
    <3> QED
      BY <3>1, <3>2
  <2>5. ASSUME NEW s \in Settings \ LeftOver(Main.left)
        PROVE  Arrives(toServer', s, actual[s], cached[s]) /\ value[s] = cached[s]
    <3>1. s = Main.item \/ s \notin Pending
      BY <2>3
    <3>2. IF r.item = s THEN r.value = cached[s] ELSE Arrives(toServer, s, actual[s], cached[s])
      BY <2>2, <3>1 DEF Following, Arriving
    <3>3. value[s] = cached[s]
      BY <2>1, <3>1 DEF Following, ValuesFollow
    <3> QED
      BY <1>1, <3>2, <3>3, ArrivesAppend
  <2> QED
    BY <1>2, <2>4, <2>5 DEF Following, Arriving, ValuesFollow
<1> QED
  BY <1>3, <1>4

LEMMA ArrivalServe ==
  ASSUME TypeInv, Following, Serve
  PROVE  Following'
<1> DEFINE r == Head(toServer)
<1>1. toServer \in Seq(Requests) /\ toServer # <<>> /\ toServer' = Tail(toServer)
  BY DEF TypeInv, Wires, Serve, ServeSetting, ServeControl
<1>2. UNCHANGED <<cached, value, thread>>
  BY DEF Serve, ServeSetting, ServeControl, config, objects
<1>3. \A s \in Settings :
        actual'[s] = IF r.item = s /\ r.value \in Supported THEN r.value ELSE actual[s]
  <2>1. CASE ServeSetting
    BY <2>1 DEF ServeSetting, TypeInv, Port
  <2>2. CASE ServeControl
    BY <2>2, ItemFacts DEF ServeControl
  <2> QED
    BY <2>1, <2>2 DEF Serve
<1>4. ASSUME NEW s \in Settings, Arrives(toServer, s, actual[s], cached[s])
      PROVE  Arrives(toServer', s, actual'[s], cached[s])
  BY <1>1, <1>3, <1>4, ArrivesTail
<1>5. Pending' = Pending /\ Main' = Main
  BY <1>2 DEF Pending, Setting, Main
<1> QED
  BY <1>2, <1>4, <1>5 DEF Following, Arriving, ValuesFollow

(* The end of a reconfiguration, polling, and the answers, change nothing.  *)
LEMMA ArrivalRest ==
  ASSUME TypeInv, Following, NEW t \in Threads,
         \/ UNCHANGED vars \/ SetLine \/ Answer
         \/ Rejected(t) \/ Confirmed(t) \/ GiveUp(t) \/ PollItem \/ PollAgain \/ StartFlow
  PROVE  Following'
<1>1. UNCHANGED <<cached, value, toServer, actual>>
  BY DEF vars, SetLine, Answer, Rejected, Confirmed, GiveUp, PollItem, PollAgain, StartFlow,
     config, objects, port
<1>2. \/ Main' = Main
      \/ Main.pc \in {"poll", "wait"} /\ (Main'.item = "control" \/ Main'.pc = "poll")
  <2>1. CASE UNCHANGED vars \/ Answer
    BY <2>1 DEF vars, Answer, Main
  <2>2. CASE SetLine
    BY <2>2, ThreadTypesUse DEF SetLine, Main
  <2>3. CASE Rejected(t) \/ Confirmed(t) \/ GiveUp(t)
    <3>1. /\ thread' = [thread EXCEPT ![t] = Idle]
          /\ t = "main" => Main.pc \in {"poll", "wait"}
      BY <2>3 DEF Rejected, Confirmed, GiveUp, Summed, Main
    <3> QED
      BY <3>1, ThreadTypesUse, IdleThread DEF Main
  <2>4. CASE PollItem \/ PollAgain
    BY <2>4, ThreadTypesUse DEF PollItem, PollAgain, Summed, Main, Thread
  <2>5. CASE StartFlow
    BY <2>5, ThreadTypesUse, IdleThread DEF StartFlow, Summed, Main, Requesting
  <2> QED
    BY <2>1, <2>2, <2>3, <2>4, <2>5
<1>3. CASE Main' = Main
  <2>1. Pending' = Pending
    BY <1>3 DEF Pending, Setting, Main
  <2> QED
    BY <1>1, <1>3, <2>1, ArrivalKept
<1>4. CASE Main.pc \in {"poll", "wait"} /\ (Main'.item = "control" \/ Main'.pc = "poll")
  <2>1. Pending' = {} /\ Pending = {}
    BY <1>4, NotPending DEF Setting, Main
  <2>2. \A s \in Settings : ~(Main'.item = s /\ Main'.pc \in {"state", "send"})
    BY <1>4, ItemFacts
  <2> QED
    BY <1>1, <2>1, <2>2, ArrivalKept
<1> QED
  BY <1>2, <1>3, <1>4

LEMMA ArrivalInit == Init => ArrivalInv
<1> SUFFICES ASSUME Init PROVE ArrivalInv
  OBVIOUS
<1>1. \A s \in Settings : Arrives(<<>>, s, Initial, Initial)
  BY DEF Arrives
<1>2. Following
  BY <1>1, ItemFacts DEF Init, Following, Arriving, ValuesFollow
<1>3. Sendable
  BY SettingsAssumption DEF Init, Sendable, SettingsAssumption
<1> QED
  BY <1>2, <1>3 DEF ArrivalInv

LEMMA SendableSame == UNCHANGED config => Sendable' = Sendable
BY DEF config, Sendable

(* A setter that raises before it has requested anything.                   *)
LEMMA RefusedChange ==
  ASSUME TypeInv, Change \/ ChangeFlow \/ ChangeWriteTimeout, ~Sendable'
  PROVE  /\ UNCHANGED <<thread, value, state, overlap>> /\ Main' = Main /\ Main = Idle
         /\ outcome' = "invalid" /\ failed' = TRUE
<1>1. UNCHANGED <<thread, value, state, overlap>> /\ outcome' = "invalid" /\ failed' = TRUE
  BY DEF Change, ChangeFlow, ChangeWriteTimeout, Reconfigure, objects
<1>2. Main.pc = "idle"
  BY DEF Change, ChangeFlow, ChangeWriteTimeout, Call, Main
<1> QED
  BY <1>1, <1>2 DEF TypeInv, ThreadTypes, MainThread, Main

(* The main thread starts with a setter only, which alone changes what the  *)
(* properties show.                                                         *)
LEMMA MainStarts ==
  ASSUME TypeInv, [Next]_vars
  PROVE  \/ Change \/ ChangeFlow \/ ChangeWriteTimeout
         \/ /\ UNCHANGED config
            /\ Main'.pc # "idle" \/ outcome' = "ok" => Main.pc # "idle" \/ outcome = "ok"
            /\ ~(Change \/ ChangeFlow \/ ChangeWriteTimeout)
<1> SUFFICES ASSUME ~(Change \/ ChangeFlow \/ ChangeWriteTimeout)
             PROVE  /\ UNCHANGED config
                    /\ Main'.pc # "idle" \/ outcome' = "ok" => Main.pc # "idle" \/ outcome = "ok"
  OBVIOUS
<1>1. UNCHANGED config
  BY DEF Next, vars, UserStep, SetLine, GiveUp, AssignValue, AssignState, SendRequest, Rejected, Confirmed,
     PollItem, PollAgain, StartFlow, Answer, Serve, ServeSetting, ServeControl
<1>2. CASE UNCHANGED vars \/ Answer \/ Serve
  BY <1>2 DEF vars, Answer, Serve, ServeSetting, ServeControl, history, Main
<1>3. CASE SetLine
  BY <1>3, ThreadTypesUse DEF SetLine, Main
<1>4. CASE PollItem \/ PollAgain \/ StartFlow
  BY <1>4 DEF PollItem, PollAgain, StartFlow, Summed, Main
<1>5. ASSUME NEW t \in Threads,
             AssignValue(t) \/ AssignState(t) \/ SendRequest(t) \/ Rejected(t) \/ Confirmed(t) \/ GiveUp(t)
      PROVE  Main'.pc # "idle" \/ outcome' = "ok" => Main.pc # "idle" \/ outcome = "ok"
  <2>1. CASE t = "main"
    BY <1>5, <2>1
    DEF AssignValue, AssignState, SendRequest, Rejected, Confirmed, GiveUp, Summed, Main
  <2>2. CASE t # "main"
    <3>1. thread'["main"] = thread["main"] /\ outcome' = outcome
      <4>1. thread'["main"] = thread["main"]
        BY <1>5, <2>2, ThreadTypesUse DEF AssignValue, AssignState, SendRequest, Rejected, Confirmed, GiveUp
      <4>2. outcome' = outcome
        BY <1>5, <2>2
        DEF AssignValue, AssignState, SendRequest, Rejected, Confirmed, GiveUp, Ended, history
      <4> QED
        BY <4>1, <4>2
    <3> QED
      BY <3>1 DEF Main
  <2> QED
    BY <2>1, <2>2
<1> QED
  BY <1>1, <1>2, <1>3, <1>4, <1>5 DEF Next, UserStep

LEMMA ArrivalNext == TypeInv /\ ArrivalInv /\ [Next]_vars => ArrivalInv'
<1> SUFFICES ASSUME TypeInv, ArrivalInv, [Next]_vars PROVE ArrivalInv'
  OBVIOUS
<1>1. CASE (Change \/ ChangeFlow \/ ChangeWriteTimeout) /\ Sendable'
  BY <1>1, ArrivalChange DEF ArrivalInv
<1>2. CASE (Change \/ ChangeFlow \/ ChangeWriteTimeout) /\ ~Sendable'
  BY <1>2, RefusedChange, IdleThread DEF ArrivalInv
<1>3. CASE /\ UNCHANGED config
           /\ Main'.pc # "idle" \/ outcome' = "ok" => Main.pc # "idle" \/ outcome = "ok"
           /\ ~(Change \/ ChangeFlow \/ ChangeWriteTimeout)
  <2>1. ASSUME Following PROVE Following'
    <3>1. ASSUME NEW t \in Threads, UserStep(t) \/ GiveUp(t) PROVE Following'
      BY <2>1, <3>1, ArrivalAssign, ArrivalSend, ArrivalRest DEF UserStep
    <3> QED
      BY <1>3, <2>1, <3>1, ArrivalRest, ArrivalServe, ThreadTypesUse DEF Next
  <2> QED
    BY <1>3, <2>1, SendableSame DEF ArrivalInv
<1> QED
  BY <1>1, <1>2, <1>3, MainStarts

LEMMA ArrivalHolds == Spec => []ArrivalInv
BY Types, ArrivalInit, ArrivalNext, PTL DEF Spec

LEMMA NothingPending == AtRest => Pending = {}
BY IdleThread, NotPending DEF AtRest, Threads, Main

LEMMA Arrived == ArrivalInv => SettingsArrive
<1> SUFFICES ASSUME ArrivalInv, AtRest, Sendable, NEW s \in Settings, cached[s] \in Supported
             PROVE  actual[s] = cached[s]
  BY DEF SettingsArrive
<1>1. Arrives(<<>>, s, actual[s], cached[s])
  BY NothingPending DEF AtRest, ArrivalInv, Following, Arriving
<1> QED
  BY <1>1 DEF Arrives, InChannel

(* Whatever was given up, rejected, refused before it was requested or      *)
(* overtaken by a late answer: once all traffic of _reconfigure_port has    *)
(* ended, the server's port has every setting the client's properties show, *)
(* except those it cannot do, unless the stored baud rate or write timeout  *)
(* is one that makes every setter raise before it requests anything.        *)
THEOREM SettingsDoArrive == Spec => []SettingsArrive
BY ArrivalHolds, Arrived, PTL
-----------------------------------------------------------------------------
(* A reconfiguration that returned normally took effect on every setting.   *)

(* The server's answers name values its port has.                           *)
Genuine(q) == \A k \in DOMAIN q : q[k].item # "control" => q[k].value \in Supported

(* An object is ACTIVE for a value the server's port has, except between    *)
(* the two assignments of set().                                            *)
ActiveIsReal ==
  \A s \in Settings :
    state[s] = "ACTIVE" /\ ~(Main.pc = "state" /\ Main.item = s) => value[s] \in Supported

AllSupported == \A s \in Settings : cached[s] \in Supported

(* How many settings the main thread has polled in this round.              *)
Polled == Len(Order) - Len(Main.left)

(* If all of them were active, they are real, whatever stale answers have   *)
(* done to the objects since.                                               *)
PollCounts ==
  Main.pc = "poll" =>
    /\ Polled \in Nat
    /\ \A k \in 1 .. Len(Main.left) : Main.left[k] = Order[Polled + k]
    /\ Main.active = Polled => \A k \in 1 .. Polled : cached[Order[k]] \in Supported

SuccessInv ==
  /\ Genuine(toClient) /\ ActiveIsReal /\ PollCounts
  /\ InControl("main") \/ outcome = "ok" => AllSupported

LEMMA GenuineTail ==
  ASSUME NEW q \in Seq(Requests), q # <<>>, Genuine(q)
  PROVE  Genuine(Tail(q)) /\ (Head(q).item # "control" => Head(q).value \in Supported)
<1>1. /\ DOMAIN q = 1 .. Len(q) /\ DOMAIN Tail(q) = 1 .. Len(q) - 1 /\ Len(q) \in Nat \ {0}
      /\ \A k \in 1 .. Len(q) - 1 : Tail(q)[k] = q[k + 1]
      /\ Head(q) = q[1]
  OBVIOUS
<1>2. 1 \in DOMAIN q /\ \A k \in DOMAIN Tail(q) : k + 1 \in DOMAIN q /\ Tail(q)[k] = q[k + 1]
  BY <1>1
<1> QED
  BY <1>1, <1>2 DEF Genuine

LEMMA GenuineAppend ==
  ASSUME NEW q \in Seq(Requests), NEW r \in Requests, Genuine(q),
         r.item # "control" => r.value \in Supported
  PROVE  Genuine(Append(q, r))
<1>1. /\ DOMAIN q = 1 .. Len(q) /\ DOMAIN Append(q, r) = 1 .. Len(q) + 1 /\ Len(q) \in Nat
      /\ \A k \in 1 .. Len(q) : Append(q, r)[k] = q[k]
      /\ Append(q, r)[Len(q) + 1] = r
  OBVIOUS
<1> QED
  BY <1>1 DEF Genuine

LEMMA GenuineNext ==
  ASSUME TypeInv, Genuine(toClient), [Next]_vars
  PROVE  Genuine(toClient')
<1> USE DEF TypeInv, Wires
<1>1. CASE Answer
  BY <1>1, GenuineTail DEF Answer
<1>2. CASE Serve
  <2> DEFINE a == Head(toServer)
  <2>1. PICK v : /\ toClient' = Append(toClient, [item |-> a.item, value |-> v])
                 /\ a.item # "control" => v \in Supported
    <3>1. CASE ServeSetting
      <4> DEFINE now == IF a.value \in Supported THEN a.value ELSE actual[a.item]
      <4>1. now \in Supported /\ toClient' = Append(toClient, [item |-> a.item, value |-> now])
        BY <3>1 DEF ServeSetting, Reply, Port
      <4> QED
        BY <4>1
    <3>2. CASE ServeControl
      BY <3>2 DEF ServeControl, Reply
    <3> QED
      BY <1>2, <3>1, <3>2 DEF Serve
  <2> DEFINE r == [item |-> a.item, value |-> v]
  <2>2. toClient' \in Seq(Requests)
    BY <1>2, ServeTypes
  <2>3. r = toClient'[Len(toClient) + 1]
    BY <2>1
  <2>4. r \in Requests
    BY <2>1, <2>2, <2>3
  <2> QED
    BY <2>1, <2>4, GenuineAppend
<1>3. ASSUME NEW t \in Threads, UserStep(t) \/ GiveUp(t) PROVE UNCHANGED toClient
  BY <1>3 DEF UserStep, GiveUp, AssignValue, AssignState, SendRequest, Rejected, Confirmed,
     PollItem, PollAgain, StartFlow
<1>4. CASE UNCHANGED vars \/ Change \/ ChangeFlow \/ ChangeWriteTimeout \/ SetLine
  BY <1>4 DEF vars, Change, ChangeFlow, ChangeWriteTimeout, SetLine
<1> QED
  BY <1>1, <1>2, <1>3, <1>4 DEF Next

(* The main thread leaves the point between the two assignments only by the *)
(* second, and the objects are touched by set() and by check_answer only.   *)
LEMMA OtherSteps ==
  ASSUME TypeInv, [Next]_vars
  PROVE  \/ Answer
         \/ \E t \in Threads : AssignValue(t) \/ AssignState(t)
         \/ UNCHANGED <<value, state>> /\ (Main.pc = "state" => Main' = Main)
<1> USE ThreadTypesUse DEF Main
<1>1. CASE UNCHANGED vars \/ Serve
  BY <1>1 DEF vars, Serve, ServeSetting, ServeControl, objects
<1>2. CASE Change \/ ChangeFlow \/ ChangeWriteTimeout
  BY <1>2 DEF Change, ChangeFlow, ChangeWriteTimeout, Call, objects
<1>3. CASE SetLine
  BY <1>3 DEF SetLine, objects
<1>4. ASSUME NEW t \in Threads, SendRequest(t) \/ Rejected(t) \/ Confirmed(t) \/ GiveUp(t)
      PROVE  UNCHANGED <<value, state>> /\ (Main.pc = "state" => Main' = Main)
  <2>1. UNCHANGED <<value, state>> /\ (t = "main" => Main.pc # "state")
    BY <1>4 DEF SendRequest, Rejected, Confirmed, GiveUp, Summed, objects
  <2>2. t # "main" => Main' = Main
    BY <1>4 DEF SendRequest, Rejected, Confirmed, GiveUp
  <2> QED
    BY <2>1, <2>2
<1>5. CASE PollItem \/ PollAgain \/ StartFlow
  BY <1>5 DEF PollItem, PollAgain, StartFlow, Summed, objects
<1> QED
  BY <1>1, <1>2, <1>3, <1>4, <1>5 DEF Next, UserStep

LEMMA ActiveNext ==
  ASSUME TypeInv, Genuine(toClient), ActiveIsReal, [Next]_vars
  PROVE  ActiveIsReal'
<1> USE DEF TypeInv, Objects
<1>1. CASE Answer
  <2> DEFINE a == Head(toClient)
  <2>1. a.item \in Items /\ (a.item # "control" => a.value \in Supported)
    BY <1>1, HeadOf, GenuineTail DEF Answer, Wires
  <2>2. ASSUME NEW s \in Settings, state'[s] = "ACTIVE", ~(Main.pc = "state" /\ Main.item = s)
        PROVE  value[s] \in Supported
    <3>1. CASE s = a.item
      BY <1>1, <2>1, <2>2, <3>1, ItemFacts DEF Answer
    <3>2. CASE s # a.item
      BY <1>1, <2>2, <3>2, ItemFacts DEF Answer, ActiveIsReal
    <3> QED
      BY <3>1, <3>2
  <2>3. UNCHANGED <<value, thread>>
    BY <1>1 DEF Answer
  <2> QED
    BY <2>2, <2>3 DEF ActiveIsReal, Main
<1>2. ASSUME NEW t \in Threads, AssignValue(t) PROVE ActiveIsReal'
  <2>1. /\ \A s \in Settings : s # thread[t].item => value'[s] = value[s]
        /\ UNCHANGED state
    BY <1>2, ItemFacts DEF AssignValue
  <2>2. CASE t = "main"
    <3>1. Main'.pc = "state" /\ Main'.item = Main.item /\ Main.pc = "value"
      BY <1>2, <2>2, ThreadTypesUse DEF AssignValue, Main, Thread
    <3> QED
      BY <2>1, <2>2, <3>1 DEF ActiveIsReal, Main
  <2>3. CASE t = "aux"
    <3>1. Main' = Main /\ thread[t].item = "control"
      BY <1>2, <2>3, ThreadTypesUse DEF AssignValue, Main, Aux, ThreadTypes, AuxThread
    <3> QED
      BY <2>1, <3>1, ItemFacts DEF ActiveIsReal
  <2> QED
    BY <2>2, <2>3, ThreadTypesUse
<1>3. ASSUME NEW t \in Threads, AssignState(t) PROVE ActiveIsReal'
  <2>1. /\ UNCHANGED value /\ thread[t].item \in Items
        /\ \A s \in Settings : state'[s] = IF s = thread[t].item THEN "REQUESTED" ELSE state[s]
    BY <1>3, ItemFacts, ThreadTypesUse DEF AssignState, Thread
  <2>2. CASE t = "main"
    BY <2>1, <2>2 DEF ActiveIsReal, Main
  <2>3. CASE t = "aux"
    <3>1. Main' = Main
      BY <1>3, <2>3, ThreadTypesUse DEF AssignState, Main
    <3> QED
      BY <2>1, <3>1 DEF ActiveIsReal
  <2> QED
    BY <2>2, <2>3, ThreadTypesUse
<1>4. CASE UNCHANGED <<value, state>> /\ (Main.pc = "state" => Main' = Main)
  BY <1>4 DEF ActiveIsReal
<1> QED
  BY <1>1, <1>2, <1>3, <1>4, OtherSteps

(* Where the polling begins and goes on.                                    *)
LEMMA PollSteps ==
  ASSUME TypeInv, [Next]_vars, Main'.pc = "poll"
  PROVE  \/ Main' = Main /\ cached' = cached
         \/ PollItem
         \/ Main'.left = Order /\ Main'.active = 0
<1> USE ThreadTypesUse DEF Main
<1>1. CASE UNCHANGED vars \/ Answer \/ Serve
  BY <1>1 DEF vars, Answer, Serve, ServeSetting, ServeControl, config
<1>2. CASE Change \/ ChangeFlow \/ ChangeWriteTimeout
  <2>1. CASE Sendable'
    BY <1>2, <2>1 DEF Change, ChangeFlow, ChangeWriteTimeout, Reconfigure, Requesting
  <2>2. CASE ~Sendable'
    BY <1>2, <2>2, RefusedChange, IdleThread
  <2> QED
    BY <2>1, <2>2
<1>3. CASE SetLine
  BY <1>3 DEF SetLine, config
<1>4. ASSUME NEW t \in Threads, AssignValue(t) \/ AssignState(t) \/ Rejected(t) \/ Confirmed(t) \/ GiveUp(t)
      PROVE  Main' = Main /\ cached' = cached
  <2>1. t # "main"
    BY <1>4, IdleThread DEF AssignValue, AssignState, Rejected, Confirmed, GiveUp, Thread
  <2> QED
    BY <1>4, <2>1 DEF AssignValue, AssignState, Rejected, Confirmed, GiveUp, config
<1>5. ASSUME NEW t \in Threads, SendRequest(t)
      PROVE  \/ Main' = Main /\ cached' = cached
             \/ Main'.left = Order /\ Main'.active = 0
  <2>1. CASE t = "main"
    <3>1. Main' = AfterSend(t)
      BY <1>5, <2>1 DEF SendRequest
    <3>2. Main.item # "control" /\ Main.left = <<>>
      BY <2>1, <3>1, IdleThread DEF AfterSend, Requesting, Thread
    <3>3. Main.active = 0
      BY <1>5, <2>1 DEF SendRequest, TypeInv, ThreadTypes, MainThread, Setting
    <3> QED
      BY <2>1, <3>1, <3>2, <3>3 DEF AfterSend, Thread
  <2>2. CASE t # "main"
    <3>1. thread'["main"] = thread["main"] /\ cached' = cached
      BY <1>5, <2>2 DEF SendRequest, config
    <3> QED
      BY <3>1
  <2> QED
    BY <2>1, <2>2
<1>6. CASE PollAgain
  BY <1>6 DEF PollAgain, Thread
<1>7. CASE StartFlow
  BY <1>7, IdleThread DEF StartFlow, Requesting
<1> QED
  BY <1>1, <1>2, <1>3, <1>4, <1>5, <1>6, <1>7 DEF Next, UserStep

LEMMA PollNext ==
  ASSUME TypeInv, ArrivalInv, ActiveIsReal, PollCounts, [Next]_vars
  PROVE  PollCounts'
<1> SUFFICES ASSUME Main'.pc = "poll" PROVE PollCounts'
  BY DEF PollCounts
<1>1. CASE Main' = Main /\ cached' = cached
  BY <1>1 DEF PollCounts, Polled
<1>2. CASE Main'.left = Order /\ Main'.active = 0
  <2>1. Polled' = 0
    BY <1>2, ItemFacts DEF Polled
  <2> QED
    BY <1>2, <2>1 DEF PollCounts
<1>3. CASE PollItem
  <2> DEFINE s == Head(Main.left)
  <2>1. /\ Main.pc = "poll" /\ Main.left # <<>> /\ Main.left \in Seq(Settings)
        /\ Main.active \in Nat /\ Len(Main.left) + Main.active <= Len(Order)
    BY <1>3, MainFacts DEF PollItem, Main, TypeInv, ThreadTypes, MainThread, Thread
  <2>2. /\ Main'.left = Tail(Main.left) /\ cached' = cached
        /\ Main'.active = IF state[s] = "ACTIVE" THEN Main.active + 1 ELSE Main.active
    BY <1>3, ThreadTypesUse DEF PollItem, Main, Thread, config
  <2>3. /\ Len(Tail(Main.left)) = Len(Main.left) - 1 /\ Len(Main.left) \in Nat \ {0}
        /\ Len(Order) \in Nat /\ s = Main.left[1] /\ s \in Settings
        /\ \A k \in 1 .. Len(Main.left) - 1 : Tail(Main.left)[k] = Main.left[k + 1]
    BY <2>1, ItemFacts
  <2> HIDE DEF s
  <2>4. Polled \in Nat /\ Polled' = Polled + 1 /\ s = Order[Polled + 1]
    <3>1. Polled \in Nat
      BY <2>1 DEF PollCounts
    <3>2. Polled' = Polled + 1
      <4>1. Polled = Len(Order) - Len(Main.left) /\ Polled' = Len(Order) - Len(Main'.left)
        BY DEF Polled
      <4>2. Len(Main'.left) = Len(Main.left) - 1
        BY <2>2, <2>3
      <4> QED
        BY <2>3, <4>1, <4>2
    <3>3. 1 \in 1 .. Len(Main.left)
      BY <2>3
    <3> QED
      BY <2>1, <2>3, <3>1, <3>2, <3>3 DEF PollCounts
  <2>5. \A k \in 1 .. Len(Main'.left) : Main'.left[k] = Order[Polled' + k]
    <3> SUFFICES ASSUME NEW k \in 1 .. Len(Main'.left) PROVE Main'.left[k] = Order[Polled' + k]
      OBVIOUS
    <3>1. k + 1 \in 1 .. Len(Main.left) /\ Main'.left[k] = Main.left[k + 1]
      BY <2>2, <2>3
    <3>2. Main.left[k + 1] = Order[Polled + (k + 1)]
      BY <2>1, <3>1 DEF PollCounts
    <3>3. Polled + (k + 1) = Polled' + k
      BY <2>3, <2>4, <3>1
    <3> QED
      BY <3>1, <3>2, <3>3
  <2>6. ASSUME Main'.active = Polled', NEW k \in 1 .. Polled' PROVE cached[Order[k]] \in Supported
    <3>1. Main.active <= Polled
      BY <2>1, <2>3 DEF Polled
    <3>2. state[s] = "ACTIVE" /\ Main.active = Polled
      BY <2>1, <2>2, <2>4, <2>6, <3>1
    <3>3. value[s] \in Supported
      BY <2>1, <2>3, <3>2 DEF ActiveIsReal
    <3>4. s \notin Pending
      BY <2>1, NotPending DEF Setting, Main
    <3>5. cached[s] \in Supported
      BY <2>1, <2>3, <3>3, <3>4 DEF ArrivalInv, Following, ValuesFollow
    <3>6. CASE k = Polled + 1
      BY <2>4, <3>5, <3>6
    <3>7. CASE k # Polled + 1
      <4>1. k \in 1 .. Polled
        BY <2>4, <2>6, <3>7
      <4> QED
        BY <2>1, <3>2, <4>1 DEF PollCounts
    <3> QED
      BY <3>6, <3>7
  <2> QED
    BY <2>2, <2>4, <2>5, <2>6 DEF PollCounts
<1> QED
  BY <1>1, <1>2, <1>3, PollSteps

LEMMA ControlSteps ==
  ASSUME TypeInv, [Next]_vars, InControl("main")' \/ outcome' = "ok"
  PROVE  StartFlow \/ ((InControl("main") \/ outcome = "ok") /\ cached' = cached)
<1> USE ThreadTypesUse DEF Main, InControl
<1>1. CASE UNCHANGED vars \/ Answer \/ Serve
  BY <1>1 DEF vars, Answer, Serve, ServeSetting, ServeControl, config, history
<1>2. CASE Change \/ ChangeFlow \/ ChangeWriteTimeout
  <2>1. CASE Sendable'
    BY <1>2, <2>1, ItemFacts DEF Change, ChangeFlow, ChangeWriteTimeout, Reconfigure, Requesting
  <2>2. CASE ~Sendable'
    BY <1>2, <2>2, RefusedChange, IdleThread
  <2> QED
    BY <2>1, <2>2
<1>3. CASE SetLine
  BY <1>3 DEF SetLine, config
<1>4. ASSUME NEW t \in Threads, AssignValue(t) \/ AssignState(t)
      PROVE  (InControl("main") \/ outcome = "ok") /\ cached' = cached
  <2>1. outcome' = outcome /\ cached' = cached
    BY <1>4 DEF AssignValue, AssignState, config, history
  <2>2. CASE t = "main"
    <3>1. Main.pc \in {"value", "state"} /\ Main'.item = Main.item
      BY <1>4, <2>2 DEF AssignValue, AssignState, Thread
    <3> QED
      BY <2>1, <3>1
  <2>3. CASE t # "main"
    <3>1. thread'["main"] = thread["main"]
      BY <1>4, <2>3 DEF AssignValue, AssignState
    <3> QED
      BY <2>1, <3>1
  <2> QED
    BY <2>2, <2>3
<1>5. ASSUME NEW t \in Threads, SendRequest(t)
      PROVE  (InControl("main") \/ outcome = "ok") /\ cached' = cached
  <2>1. CASE t = "main"
    <3>1. Main' = AfterSend(t) /\ Main.pc = "send" /\ cached' = cached
      BY <1>5, <2>1 DEF SendRequest, config
    <3>2. outcome' # outcome => Main.item = "control"
      BY <1>5, <2>1 DEF SendRequest
    <3>3. Main.item # "control" => ~InControl("main")'
      BY <2>1, <3>1, ItemFacts, MainFacts DEF AfterSend, Requesting, Thread
    <3> QED
      BY <3>1, <3>2, <3>3
  <2>2. CASE t # "main"
    <3>1. thread'["main"] = thread["main"] /\ outcome' = outcome /\ cached' = cached
      BY <1>5, <2>2 DEF SendRequest, config
    <3> QED
      BY <3>1
  <2> QED
    BY <2>1, <2>2
<1>6. ASSUME NEW t \in Threads, Rejected(t) \/ Confirmed(t) \/ GiveUp(t)
      PROVE  (InControl("main") \/ outcome = "ok") /\ cached' = cached
  <2>1. CASE t = "main"
    <3>1. Main' = Idle /\ cached' = cached
      BY <1>6, <2>1 DEF Rejected, Confirmed, GiveUp, config
    <3>2. Confirmed(t)
      BY <1>6, <2>1, <3>1, IdleThread DEF Rejected, GiveUp, Ended
    <3> QED
      BY <2>1, <3>1, <3>2, MainFacts DEF Confirmed
  <2>2. CASE t # "main"
    BY <1>6, <2>2 DEF Rejected, Confirmed, GiveUp, Ended, config
  <2> QED
    BY <2>1, <2>2
<1>7. CASE PollItem \/ PollAgain
  BY <1>7 DEF PollItem, PollAgain, Summed, config, history, Thread
<1> QED
  BY <1>1, <1>2, <1>3, <1>4, <1>5, <1>6, <1>7 DEF Next, UserStep

LEMMA SuccessNext == TypeInv /\ ArrivalInv /\ SuccessInv /\ [Next]_vars => SuccessInv'
<1> SUFFICES ASSUME TypeInv, ArrivalInv, SuccessInv, [Next]_vars PROVE SuccessInv'
  OBVIOUS
<1>1. Genuine(toClient)' /\ ActiveIsReal' /\ PollCounts'
  BY GenuineNext, ActiveNext, PollNext DEF SuccessInv
<1>2. ASSUME InControl("main")' \/ outcome' = "ok" PROVE AllSupported'
  <2>1. CASE StartFlow
    <3>1. Main.pc = "poll" /\ Main.left = <<>> /\ Main.active = Len(Order) /\ cached' = cached
      BY <1>2, <2>1 DEF StartFlow, Summed, AllActive, Main, config
    <3>2. Polled = Len(Order)
      BY <3>1, ItemFacts DEF Polled
    <3>3. \A k \in 1 .. Len(Order) : cached[Order[k]] \in Supported
      BY <3>1, <3>2 DEF SuccessInv, PollCounts
    <3> QED
      BY <3>1, <3>3 DEF AllSupported, Settings
  <2>2. CASE (InControl("main") \/ outcome = "ok") /\ cached' = cached
    BY <2>2 DEF SuccessInv, AllSupported
  <2> QED
    BY <1>2, <2>1, <2>2, ControlSteps
<1> QED
  BY <1>1, <1>2 DEF SuccessInv

LEMMA SuccessHolds == Spec => []SuccessInv
<1>1. Init => SuccessInv
  <2> SUFFICES ASSUME Init PROVE SuccessInv
    OBVIOUS
  <2>1. Main = Idle
    BY DEF Init, Main, Threads
  <2>2. PollCounts
    BY <2>1, IdleThread DEF PollCounts
  <2>3. Genuine(toClient)
    BY DEF Init, Genuine
  <2>4. ActiveIsReal /\ AllSupported
    BY ItemFacts, SettingsAssumption DEF Init, ActiveIsReal, AllSupported, SettingsAssumption
  <2> QED
    BY <2>2, <2>3, <2>4 DEF SuccessInv
<1> QED
  BY <1>1, Types, ArrivalHolds, SuccessNext, PTL DEF Spec
-----------------------------------------------------------------------------
(* The flow control of a reconfiguration that returned normally.            *)

Asks(r, m) == r.item = "control" /\ r.value = m

(* Once the requests q are served, a server that now has the flow controls  *)
(* of now has m, or all of EventualFlow: only "none" switches one off.      *)
WillHave(q, now, m) ==
  \/ m \in now /\ \A j \in DOMAIN q : ~Asks(q[j], "none")
  \/ \E j \in DOMAIN q : Asks(q[j], m) /\ \A k \in DOMAIN q : k > j => ~Asks(q[k], "none")
EventualFlow(q, now) == {m \in {"sw", "hw"} : WillHave(q, now, m)}

(* What one request does.                                                   *)
HasAfter(r, has, m) == ~Asks(r, "none") /\ (has \/ Asks(r, m))

LEMMA WillHaveAppend ==
  ASSUME NEW q \in Seq(Requests), NEW r \in Requests, NEW now, NEW m \in {"sw", "hw"}
  PROVE  WillHave(Append(q, r), now, m) <=> HasAfter(r, WillHave(q, now, m), m)
<1> DEFINE n == Append(q, r)
<1>1. /\ DOMAIN q = 1 .. Len(q) /\ DOMAIN n = 1 .. Len(q) + 1 /\ Len(q) \in Nat
      /\ \A k \in 1 .. Len(q) : n[k] = q[k]
      /\ n[Len(q) + 1] = r
  OBVIOUS
<1> HIDE DEF n
<1>2. CASE Asks(r, "none")
  <2>1. Len(q) + 1 \in DOMAIN n /\ Asks(n[Len(q) + 1], "none") /\ ~Asks(n[Len(q) + 1], m)
    BY <1>1, <1>2 DEF Asks
  <2>2. \A j \in DOMAIN n : j = Len(q) + 1 \/ Len(q) + 1 > j
    BY <1>1
  <2> QED
    BY <1>2, <2>1, <2>2 DEF WillHave, HasAfter, n
<1>3. CASE ~Asks(r, "none")
  <2>1. \A j \in DOMAIN q : j \in DOMAIN n /\ n[j] = q[j]
    BY <1>1
  <2>2. \A j \in DOMAIN n : j \in DOMAIN q \/ j = Len(q) + 1
    BY <1>1
  <2>3. Len(q) + 1 \in DOMAIN n /\ \A k \in DOMAIN n : ~(k > Len(q) + 1)
    BY <1>1
  <2>4. (\A j \in DOMAIN n : ~Asks(n[j], "none")) <=> (\A j \in DOMAIN q : ~Asks(q[j], "none"))
    BY <1>1, <1>3, <2>1, <2>2
  <2>5. ASSUME NEW j \in DOMAIN q
        PROVE  (\A k \in DOMAIN n : k > j => ~Asks(n[k], "none"))
                 <=> (\A k \in DOMAIN q : k > j => ~Asks(q[k], "none"))
    BY <1>1, <1>3, <2>1, <2>2
  <2>6. ASSUME WillHave(n, now, m) PROVE WillHave(q, now, m) \/ Asks(r, m)
    BY <1>1, <2>1, <2>2, <2>4, <2>5, <2>6 DEF WillHave
  <2>7. ASSUME WillHave(q, now, m) PROVE WillHave(n, now, m)
    BY <2>1, <2>4, <2>5, <2>7 DEF WillHave
  <2>8. ASSUME Asks(r, m) PROVE WillHave(n, now, m)
    BY <1>1, <2>3, <2>8 DEF WillHave
  <2> QED
    BY <1>3, <2>6, <2>7, <2>8 DEF HasAfter, n
<1> QED
  BY <1>2, <1>3

LEMMA WillHaveTail ==
  ASSUME NEW q \in Seq(Requests), q # <<>>, NEW now, NEW next, NEW m \in {"sw", "hw"},
         m \in next <=> HasAfter(Head(q), m \in now, m)
  PROVE  WillHave(Tail(q), next, m) <=> WillHave(q, now, m)
<1> DEFINE n == Tail(q)
           r == Head(q)
<1>1. /\ DOMAIN q = 1 .. Len(q) /\ DOMAIN n = 1 .. Len(q) - 1 /\ Len(q) \in Nat \ {0}
      /\ \A k \in 1 .. Len(q) - 1 : n[k] = q[k + 1]
      /\ r = q[1]
  OBVIOUS
<1>2. \A k \in DOMAIN n : k \in Nat /\ k + 1 \in DOMAIN q /\ n[k] = q[k + 1]
  BY <1>1
<1>3. \A k \in DOMAIN q : k \in Nat /\ (k # 1 => k - 1 \in DOMAIN n /\ q[k] = n[k - 1])
  BY <1>1
<1>4. 1 \in DOMAIN q /\ \A k \in DOMAIN n : k + 1 > 1
  BY <1>1
<1> HIDE DEF n, r
<1>5. (\A j \in DOMAIN q : ~Asks(q[j], "none"))
        <=> ~Asks(r, "none") /\ (\A j \in DOMAIN n : ~Asks(n[j], "none"))
  <2>1. ASSUME NEW j \in DOMAIN q, ~Asks(r, "none"), \A k \in DOMAIN n : ~Asks(n[k], "none")
        PROVE  ~Asks(q[j], "none")
    BY <1>1, <1>3, <2>1
  <2>2. ASSUME \A j \in DOMAIN q : ~Asks(q[j], "none")
        PROVE  ~Asks(r, "none") /\ (\A j \in DOMAIN n : ~Asks(n[j], "none"))
    BY <1>1, <1>2, <1>4, <2>2
  <2> QED
    BY <2>1, <2>2
<1>6. (\A k \in DOMAIN q : k > 1 => ~Asks(q[k], "none")) <=> (\A k \in DOMAIN n : ~Asks(n[k], "none"))
  <2>1. ASSUME NEW j \in DOMAIN q, j > 1, \A k \in DOMAIN n : ~Asks(n[k], "none")
        PROVE  ~Asks(q[j], "none")
    BY <1>3, <2>1
  <2>2. ASSUME \A j \in DOMAIN q : j > 1 => ~Asks(q[j], "none")
        PROVE  \A j \in DOMAIN n : ~Asks(n[j], "none")
    BY <1>2, <1>4, <2>2
  <2> QED
    BY <2>1, <2>2
<1>7. ASSUME NEW j \in DOMAIN n
      PROVE  (\A k \in DOMAIN q : k > j + 1 => ~Asks(q[k], "none"))
               <=> (\A k \in DOMAIN n : k > j => ~Asks(n[k], "none"))
  <2>1. ASSUME NEW k \in DOMAIN q, k > j + 1, \A i \in DOMAIN n : i > j => ~Asks(n[i], "none")
        PROVE  ~Asks(q[k], "none")
    <3>1. k # 1 /\ k - 1 > j
      BY <1>1, <2>1
    <3> QED
      BY <1>3, <2>1, <3>1
  <2>2. ASSUME NEW k \in DOMAIN n, k > j, \A i \in DOMAIN q : i > j + 1 => ~Asks(q[i], "none")
        PROVE  ~Asks(n[k], "none")
    <3>1. k + 1 \in DOMAIN q /\ k + 1 > j + 1
      BY <1>1, <2>2
    <3> QED
      BY <1>2, <2>2, <3>1
  <2> QED
    BY <2>1, <2>2
<1>8. (\E j \in DOMAIN q : Asks(q[j], m) /\ \A k \in DOMAIN q : k > j => ~Asks(q[k], "none"))
        <=> \/ Asks(r, m) /\ \A k \in DOMAIN n : ~Asks(n[k], "none")
            \/ \E j \in DOMAIN n : Asks(n[j], m) /\ \A k \in DOMAIN n : k > j => ~Asks(n[k], "none")
  <2>1. ASSUME NEW j \in DOMAIN q, Asks(q[j], m), \A k \in DOMAIN q : k > j => ~Asks(q[k], "none")
        PROVE  \/ Asks(r, m) /\ \A k \in DOMAIN n : ~Asks(n[k], "none")
               \/ \E i \in DOMAIN n : Asks(n[i], m) /\ \A k \in DOMAIN n : k > i => ~Asks(n[k], "none")
    <3>1. CASE j = 1
      BY <1>1, <1>6, <2>1, <3>1
    <3>2. CASE j # 1
      <4>1. j - 1 \in DOMAIN n /\ Asks(n[j - 1], m) /\ (j - 1) + 1 = j
        BY <1>3, <2>1, <3>2
      <4>2. \A k \in DOMAIN n : k > j - 1 => ~Asks(n[k], "none")
        BY <1>7, <2>1, <4>1
      <4> QED
        BY <4>1, <4>2
    <3> QED
      BY <3>1, <3>2
  <2>2. ASSUME NEW j \in DOMAIN n, Asks(n[j], m), \A k \in DOMAIN n : k > j => ~Asks(n[k], "none")
        PROVE  \E i \in DOMAIN q : Asks(q[i], m) /\ \A k \in DOMAIN q : k > i => ~Asks(q[k], "none")
    <3>1. j + 1 \in DOMAIN q /\ Asks(q[j + 1], m)
      BY <1>2, <2>2
    <3> QED
      BY <1>7, <2>2, <3>1
  <2>3. ASSUME Asks(r, m), \A k \in DOMAIN n : ~Asks(n[k], "none")
        PROVE  \E i \in DOMAIN q : Asks(q[i], m) /\ \A k \in DOMAIN q : k > i => ~Asks(q[k], "none")
    BY <1>1, <1>4, <1>6, <2>3
  <2> QED
    BY <2>1, <2>2, <2>3
<1>9. m \in next <=> ~Asks(r, "none") /\ (m \in now \/ Asks(r, m))
  BY DEF HasAfter, r
<1>10. Asks(r, m) => ~Asks(r, "none")
  BY DEF Asks
<1> QED
  BY <1>5, <1>8, <1>9, <1>10 DEF WillHave, n

Running == (Main.pc # "idle" => outcome = "running") /\ (outcome = "running" => Main.pc # "idle")

(* Unless two threads were in it at once, the control object holds what     *)
(* the thread in it is about to send.                                       *)
Exclusive ==
  /\ ~(InControl("main") /\ InControl("aux"))
  /\ \A t \in Threads :
       InControl(t) /\ thread[t].pc \in {"state", "send"} => value["control"] = thread[t].value
ControlInv == ~overlap => Exclusive

(* What the main thread goes through.                                       *)
LEMMA MainMoves ==
  ASSUME TypeInv, [Next]_vars
  PROVE  \/ Main' = Main /\ outcome' = outcome /\ failed' = failed
         \/ Change \/ ChangeFlow \/ ChangeWriteTimeout \/ AssignValue("main") \/ AssignState("main")
         \/ SendRequest("main") \/ Rejected("main") \/ Confirmed("main") \/ GiveUp("main")
         \/ PollItem \/ PollAgain \/ StartFlow
<1> USE ThreadTypesUse DEF Main
<1>1. CASE UNCHANGED vars \/ Answer \/ Serve
  BY <1>1 DEF vars, Answer, Serve, ServeSetting, ServeControl, history
<1>2. CASE SetLine
  BY <1>2 DEF SetLine
<1>3. ASSUME NEW t \in Threads, t # "main", UserStep(t) \/ GiveUp(t)
      PROVE  Main' = Main /\ outcome' = outcome /\ failed' = failed
  <2>1. outcome' = outcome /\ failed' = failed
    BY <1>3 DEF UserStep, AssignValue, AssignState, SendRequest, Rejected, Confirmed, GiveUp,
       Ended, history
  <2>2. thread'["main"] = thread["main"]
    BY <1>3 DEF UserStep, AssignValue, AssignState, SendRequest, Rejected, Confirmed, GiveUp
  <2> QED
    BY <2>1, <2>2
<1> QED
  BY <1>1, <1>2, <1>3 DEF Next, UserStep

LEMMA RunningNext == TypeInv /\ Running /\ [Next]_vars => Running'
<1> SUFFICES ASSUME TypeInv, Running, [Next]_vars PROVE Running'
  OBVIOUS
<1> USE ThreadTypesUse DEF Main
<1>1. CASE Main' = Main /\ outcome' = outcome /\ failed' = failed
  BY <1>1 DEF Running
<1>2. CASE Change \/ ChangeFlow \/ ChangeWriteTimeout
  <2>1. CASE Sendable'
    BY <1>2, <2>1 DEF Change, ChangeFlow, ChangeWriteTimeout, Reconfigure, Requesting, Running
  <2>2. CASE ~Sendable'
    BY <1>2, <2>2, RefusedChange, IdleThread DEF Running
  <2> QED
    BY <2>1, <2>2
<1>3. CASE AssignValue("main") \/ AssignState("main") \/ PollItem \/ PollAgain
  BY <1>3 DEF AssignValue, AssignState, PollItem, PollAgain, Summed, Running, Thread, history
<1>4. CASE SendRequest("main")
  <2>1. outcome = "running" /\ Main' = AfterSend("main")
    BY <1>4 DEF SendRequest, Running
  <2>2. Main'.pc = "idle" <=> Main.item = "control" /\ ignore
    BY <2>1, IdleThread DEF AfterSend, Requesting, Thread
  <2> QED
    BY <1>4, <2>1, <2>2 DEF SendRequest, Running
<1>5. CASE Rejected("main") \/ Confirmed("main") \/ GiveUp("main")
  <2>1. Main' = Idle /\ outcome' # "running"
    BY <1>5 DEF Rejected, Confirmed, GiveUp, Ended
  <2> QED
    BY <2>1, IdleThread DEF Running
<1>6. CASE StartFlow
  BY <1>6, IdleThread DEF StartFlow, Summed, Ended, Requesting, Running
<1> QED
  BY <1>1, <1>2, <1>3, <1>4, <1>5, <1>6, MainMoves

(* Which threads come to be in control(t), from where.                      *)
LEMMA ControlNext == TypeInv /\ ControlInv /\ [Next]_vars => ControlInv'
<1> SUFFICES ASSUME TypeInv, ControlInv, [Next]_vars, ~overlap'
             PROVE  Exclusive'
  BY DEF ControlInv
<1> USE ThreadTypesUse
(* Steps in which no thread comes into the object.                          *)
<1>1. ASSUME ~overlap, value'["control"] = value["control"],
             \A t \in Threads :
               InControl(t)' => /\ InControl(t)
                                /\ thread'[t].value = thread[t].value
                                /\ thread'[t].pc \in {"state", "send"} => thread[t].pc \in {"state", "send"}
      PROVE  Exclusive'
  BY <1>1 DEF ControlInv, Exclusive
<1>2. CASE UNCHANGED vars \/ Answer \/ Serve
  <2>1. UNCHANGED <<overlap, value, thread>>
    BY <1>2 DEF vars, Answer, Serve, ServeSetting, ServeControl, history, objects
  <2> QED
    BY <1>1, <2>1 DEF InControl
<1>3. CASE Change \/ ChangeFlow \/ ChangeWriteTimeout
  <2>1. CASE Sendable'
    <3>1. UNCHANGED <<overlap, value>> /\ thread'["aux"] = thread["aux"] /\ thread'["main"].item # "control"
      BY <1>3, <2>1, ItemFacts DEF Change, ChangeFlow, ChangeWriteTimeout, Reconfigure, Requesting, objects
    <3> QED
      BY <1>1, <3>1 DEF Exclusive, InControl, Threads
  <2>2. CASE ~Sendable'
    <3>1. UNCHANGED <<overlap, value, thread>>
      BY <1>3, <2>2, RefusedChange
    <3> QED
      BY <1>1, <3>1 DEF InControl
  <2> QED
    BY <2>1, <2>2
<1>4. CASE SetLine
  <2>1. ~InControl("main")
    BY <1>4, Zenon DEF SetLine
  <2>2. thread'["main"] = thread["main"] /\ thread'["aux"].pc = "value"
    BY <1>4 DEF SetLine, Requesting
  <2> QED
    BY <2>1, <2>2 DEF Exclusive, InControl, Threads
<1>5. ASSUME NEW t \in Threads, AssignValue(t)
      PROVE  Exclusive'
  <2>1. /\ thread'[t].item = thread[t].item /\ thread'[t].value = thread[t].value
        /\ thread[t].pc = "value" /\ thread'[t].pc = "state" /\ overlap' = overlap
        /\ \A u \in Threads : u # t => thread'[u] = thread[u]
    BY <1>5 DEF AssignValue, Thread
  <2>2. \A u \in Threads : InControl(u)' <=> InControl(u)
    BY <2>1 DEF InControl
  <2>3. CASE thread[t].item = "control"
    <3>1. InControl(t) /\ \A u \in Threads : InControl(u) => u = t
      BY <2>1, <2>3 DEF InControl, ControlInv, Exclusive, Threads
    <3>2. value'["control"] = thread'[t].value
      BY <1>5, <2>1, <2>3, ItemFacts DEF AssignValue, TypeInv, Objects
    <3> QED
      BY <2>1, <2>2, <3>1, <3>2 DEF Exclusive, Threads
  <2>4. CASE thread[t].item # "control"
    <3>1. value'["control"] = value["control"]
      BY <1>5, <2>4, ItemFacts DEF AssignValue, TypeInv, Objects
    <3>2. ~InControl(t)
      BY <2>4 DEF InControl
    <3> QED
      BY <1>1, <2>1, <2>2, <3>1, <3>2
  <2> QED
    BY <2>3, <2>4
<1>6. ASSUME NEW t \in Threads, AssignState(t) \/ SendRequest(t) \/ Rejected(t) \/ Confirmed(t) \/ GiveUp(t)
      PROVE  Exclusive'
  <2>1. /\ UNCHANGED <<overlap, value>>
        /\ \A u \in Threads : u # t => thread'[u] = thread[u]
    BY <1>6 DEF AssignState, SendRequest, Rejected, Confirmed, GiveUp, history, objects
  <2>2. InControl(t)' => /\ InControl(t)
                         /\ thread'[t].value = thread[t].value
                         /\ thread'[t].pc \in {"state", "send"} => thread[t].pc \in {"state", "send"}
    <3>1. CASE AssignState(t)
      BY <3>1 DEF AssignState, InControl, Thread
    <3>2. CASE SendRequest(t)
      <4>1. thread'[t] = AfterSend(t) /\ thread[t].pc = "send"
        BY <3>2 DEF SendRequest
      <4>2. CASE thread[t].item = "control"
        BY <4>1, <4>2, IdleThread DEF AfterSend, InControl, Thread
      <4>3. CASE thread[t].item # "control"
        <5>1. thread[t].left \in Seq(Settings)
          BY DEF Thread
        <5>2. thread[t].left # <<>> => Head(thread[t].left) # "control"
          BY <5>1, ItemFacts
        <5>3. thread'[t].item # "control" \/ thread'[t].pc = "poll"
          BY <4>1, <4>3, <5>2 DEF AfterSend, Requesting, Thread
        <5> QED
          BY <5>3 DEF InControl
      <4> QED
        BY <4>2, <4>3
    <3>3. CASE Rejected(t) \/ Confirmed(t) \/ GiveUp(t)
      BY <3>3, IdleThread DEF Rejected, Confirmed, GiveUp, InControl
    <3> QED
      BY <1>6, <3>1, <3>2, <3>3
  <2>3. \A u \in Threads :
          InControl(u)' => /\ InControl(u)
                           /\ thread'[u].value = thread[u].value
                           /\ thread'[u].pc \in {"state", "send"} => thread[u].pc \in {"state", "send"}
    BY <2>1, <2>2 DEF InControl
  <2> QED
    BY <1>1, <2>1, <2>3
<1>7. CASE PollItem \/ PollAgain
  <2>1. /\ UNCHANGED <<overlap, value>>
        /\ thread'["aux"] = thread["aux"] /\ thread'["main"].pc = "poll"
    BY <1>7 DEF PollItem, PollAgain, Summed, history, objects, Thread
  <2> QED
    BY <1>1, <2>1 DEF Exclusive, InControl, Threads
<1>8. CASE StartFlow
  <2>1. thread'["aux"] = thread["aux"] /\ UNCHANGED value
    BY <1>8 DEF StartFlow, objects
  <2>2. CASE xonxoff /\ rtscts
    <3>1. thread'["main"].pc = "idle" /\ UNCHANGED overlap
      BY <1>8, <2>2, IdleThread DEF StartFlow
    <3> QED
      BY <1>1, <2>1, <3>1 DEF Exclusive, InControl, Threads
  <2>3. CASE ~(xonxoff /\ rtscts)
    <3>1. ~InControl("aux")
      BY <1>8, <2>3, Zenon DEF StartFlow
    <3>2. thread'["main"].pc = "value"
      BY <1>8, <2>3 DEF StartFlow, Requesting
    <3> QED
      BY <2>1, <3>1, <3>2 DEF Exclusive, InControl, Threads
  <2> QED
    BY <2>2, <2>3
<1> QED
  BY <1>2, <1>3, <1>4, <1>5, <1>6, <1>7, <1>8 DEF Next, UserStep

(* The flow control the client has asked for.                               *)
Asked == {FlowOf(xonxoff, rtscts)} \ {"none"}
Conflict == xonxoff /\ rtscts

(* What the server will have once it has served the requests under way.     *)
Flow == EventualFlow(toServer, serverFlow)

(* The reconfiguration has requested its flow control and not failed.       *)
Settled == outcome = "ok" \/ Main.pc = "wait"

(* From then on the server has it, or will.  Until then, unless one failed  *)
(* before, it has no flow control that this one would have to clear.        *)
FlowInv ==
  /\ ~failed => outcome \in {"ok", "running"}
  /\ outcome = "ok" => ~Conflict
  /\ ~overlap =>
       /\ Settled => Asked \subseteq Flow /\ (failed \/ Flow \subseteq Asked)
       /\ ~failed /\ ~Settled /\ ~Conflict /\ Asked # {} => Flow \subseteq Asked

LEMMA FlowServed ==
  ASSUME TypeInv, Serve
  PROVE  Flow' = Flow
<1> DEFINE r == Head(toServer)
<1>1. toServer \in Seq(Requests) /\ toServer # <<>> /\ toServer' = Tail(toServer)
  BY DEF TypeInv, Wires, Serve, ServeSetting, ServeControl
<1>2. ASSUME NEW m \in {"sw", "hw"} PROVE m \in serverFlow' <=> HasAfter(r, m \in serverFlow, m)
  <2>1. CASE ServeSetting
    BY <2>1, ItemFacts DEF ServeSetting, HasAfter, Asks
  <2>2. CASE ServeControl
    BY <2>2 DEF ServeControl, FlowAfter, HasAfter, Asks
  <2> QED
    BY <2>1, <2>2 DEF Serve
<1>3. \A m \in {"sw", "hw"} : WillHave(toServer', serverFlow', m) <=> WillHave(toServer, serverFlow, m)
  BY <1>1, <1>2, WillHaveTail
<1> QED
  BY <1>3 DEF Flow, EventualFlow

LEMMA FlowSent ==
  ASSUME TypeInv, NEW t \in Threads, SendRequest(t)
  PROVE  /\ thread[t].item # "control" \/ value["control"] \in LineModes => Flow' = Flow
         /\ thread[t].item = "control" /\ value["control"] = "none" => Flow' = {}
         /\ thread[t].item = "control" /\ value["control"] \in {"sw", "hw"}
              => Flow' = Flow \cup {value["control"]}
<1> DEFINE r == [item |-> thread[t].item, value |-> value[thread[t].item]]
<1>1. /\ r \in Requests /\ r.item = thread[t].item /\ r.value = value[thread[t].item]
      /\ toServer \in Seq(Requests) /\ toServer' = Append(toServer, r) /\ serverFlow' = serverFlow
  BY ThreadTypesUse, ItemFacts DEF SendRequest, TypeInv, Wires, Objects, Requests, Thread, Items, port
<1> HIDE DEF r
<1>2. \A m \in {"sw", "hw"} :
        WillHave(toServer', serverFlow', m) <=> HasAfter(r, WillHave(toServer, serverFlow, m), m)
  BY <1>1, WillHaveAppend
<1>3. \A m \in {"sw", "hw"} : m \in Flow' <=> HasAfter(r, m \in Flow, m)
  BY <1>2 DEF Flow, EventualFlow, HasAfter
<1>4. Flow \subseteq {"sw", "hw"} /\ Flow' \subseteq {"sw", "hw"}
  BY DEF Flow, EventualFlow
<1>5. CASE thread[t].item # "control" \/ value["control"] \in LineModes
  <2>1. \A m \in {"sw", "hw"} : ~Asks(r, m) /\ ~Asks(r, "none")
    BY <1>1, <1>5 DEF Asks, LineModes
  <2>2. \A m \in {"sw", "hw"} : m \in Flow' <=> m \in Flow
    BY <1>3, <2>1 DEF HasAfter
  <2>3. \A m : m \in Flow' <=> m \in Flow
    BY <1>4, <2>2
  <2>4. Flow' = Flow
    BY <2>3
  <2> QED
    BY <1>5, <2>4 DEF LineModes
<1>6. CASE thread[t].item = "control" /\ value["control"] = "none"
  BY <1>1, <1>3, <1>4, <1>6 DEF HasAfter, Asks, LineModes
<1>7. CASE thread[t].item = "control" /\ value["control"] \in {"sw", "hw"}
  <2>1. ~Asks(r, "none") /\ \A m \in {"sw", "hw"} : Asks(r, m) <=> m = value["control"]
    BY <1>1, <1>7 DEF Asks
  <2> QED
    BY <1>3, <1>4, <1>7, <2>1 DEF HasAfter, LineModes
<1> QED
  BY <1>5, <1>6, <1>7

(* A step that does not touch what the client asks for or the server gets.  *)
LEMMA FlowKept ==
  ASSUME FlowInv, Flow' = Flow, UNCHANGED <<xonxoff, rtscts, outcome, failed>>,
         overlap => overlap', Main'.pc = "wait" <=> Main.pc = "wait"
  PROVE  FlowInv'
<1>1. Asked' = Asked /\ (Conflict' <=> Conflict) /\ (Settled' <=> Settled)
  BY DEF Asked, Conflict, Settled
<1> QED
  BY <1>1 DEF FlowInv

LEMMA OverlapStays == TypeInv /\ [Next]_vars => (overlap => overlap')
<1> SUFFICES ASSUME TypeInv, [Next]_vars, overlap PROVE overlap'
  OBVIOUS
<1>1. CASE UNCHANGED vars \/ Answer \/ Serve \/ Change \/ ChangeFlow \/ ChangeWriteTimeout \/ SetLine
  BY <1>1, Zenon DEF vars, Answer, Serve, ServeSetting, ServeControl, Change, ChangeFlow, ChangeWriteTimeout, SetLine, history
<1>2. ASSUME NEW t \in Threads, UserStep(t) \/ GiveUp(t) PROVE overlap'
  BY <1>2, Zenon DEF UserStep, GiveUp, AssignValue, AssignState, SendRequest, Rejected, Confirmed,
     PollItem, PollAgain, StartFlow, history
<1> QED
  BY <1>1, <1>2, Zenon DEF Next

LEMMA FlowUnsent ==
  ASSUME TypeInv, [Next]_vars
  PROVE  Flow' = Flow \/ \E t \in Threads : SendRequest(t)
<1>1. CASE UNCHANGED vars \/ Answer \/ Change \/ ChangeFlow \/ ChangeWriteTimeout \/ SetLine
  BY <1>1 DEF vars, Answer, Change, ChangeFlow, ChangeWriteTimeout, SetLine, Flow, port
<1>2. ASSUME NEW t \in Threads, UserStep(t) \/ GiveUp(t), ~SendRequest(t) PROVE Flow' = Flow
  <2>1. UNCHANGED <<toServer, serverFlow>>
    BY <1>2 DEF UserStep, GiveUp, AssignValue, AssignState, Rejected, Confirmed,
       PollItem, PollAgain, StartFlow, port
  <2> QED
    BY <2>1 DEF Flow
<1> QED
  BY <1>1, <1>2, FlowServed DEF Next

LEMMA FlowSendNext ==
  ASSUME TypeInv, Running, ControlInv, FlowInv, NEW t \in Threads, SendRequest(t), ~overlap
  PROVE  FlowInv'
<1>1. /\ UNCHANGED <<xonxoff, rtscts, failed, overlap>> /\ thread[t].pc = "send"
      /\ Asked' = Asked /\ (Conflict' <=> Conflict)
  BY DEF SendRequest, config, Asked, Conflict
<1>2. CASE t = "aux"
  <2>1. thread[t].item = "control" /\ value["control"] \in LineModes
    BY <1>1, <1>2, ThreadTypesUse
    DEF ControlInv, Exclusive, InControl, TypeInv, ThreadTypes, AuxThread, Setting, Aux
  <2>2. Flow' = Flow /\ outcome' = outcome /\ Main' = Main
    BY <1>2, <2>1, FlowSent, ThreadTypesUse DEF SendRequest, Main
  <2> QED
    BY <1>1, <2>2, FlowKept
<1>3. CASE t = "main" /\ Main.item # "control"
  <2>1. Flow' = Flow /\ outcome' = outcome
    BY <1>3, FlowSent DEF SendRequest, Main
  <2>2. Main'.pc # "wait" /\ Main.pc # "wait"
    BY <1>1, <1>3, ThreadTypesUse DEF SendRequest, AfterSend, Requesting, Main, Thread
  <2> QED
    BY <1>1, <2>1, <2>2, FlowKept
<1>4. CASE t = "main" /\ Main.item = "control"
  <2>1. /\ value["control"] = FlowOf(xonxoff, rtscts) /\ ~Conflict
        /\ outcome = "running" /\ ~Settled
    BY <1>1, <1>4, ThreadTypesUse
    DEF ControlInv, Exclusive, InControl, TypeInv, ThreadTypes, MainThread, Setting, Main,
        Conflict, Running, Settled
  <2>2. outcome' \in {"ok", "running"}
    BY <1>4, <2>1 DEF SendRequest
  <2>3. FlowOf(xonxoff, rtscts) \in {"none", "sw", "hw"}
    BY DEF FlowOf
  <2>4. Asked \subseteq Flow' /\ (failed \/ Flow' \subseteq Asked)
    <3>1. CASE FlowOf(xonxoff, rtscts) = "none"
      <4>1. Flow' = {} /\ Asked = {}
        BY <1>4, <2>1, <3>1, FlowSent DEF Asked, Main
      <4> QED
        BY <4>1
    <3>2. CASE FlowOf(xonxoff, rtscts) # "none"
      <4>1. Asked = {value["control"]} /\ Flow' = Flow \cup {value["control"]}
        BY <1>4, <2>1, <2>3, <3>2, FlowSent DEF Asked, Main
      <4>2. failed \/ Flow \subseteq Asked
        BY <2>1, <4>1 DEF FlowInv
      <4> QED
        BY <4>1, <4>2
    <3> QED
      BY <3>1, <3>2
  <2>5. Settled'
    <3>1. CASE ignore
      BY <1>4, <3>1 DEF SendRequest, Settled, Main
    <3>2. CASE ~ignore
      BY <1>4, <3>2, ThreadTypesUse DEF SendRequest, AfterSend, Settled, Main, Thread
    <3> QED
      BY <3>1, <3>2
  <2> QED
    BY <1>1, <2>1, <2>2, <2>4, <2>5 DEF FlowInv
<1> QED
  BY <1>2, <1>3, <1>4, ThreadTypesUse

LEMMA FlowNext == TypeInv /\ Running /\ ControlInv /\ FlowInv /\ [Next]_vars => FlowInv'
<1> SUFFICES ASSUME TypeInv, Running, ControlInv, FlowInv, [Next]_vars PROVE FlowInv'
  OBVIOUS
<1>1. overlap => overlap'
  BY OverlapStays
<1>2. ASSUME NEW t \in Threads, SendRequest(t) PROVE FlowInv'
  <2>1. CASE ~overlap
    BY <1>2, <2>1, FlowSendNext
  <2>2. CASE overlap
    <3>1. outcome' = "ok" /\ outcome # "ok" => ~Conflict
      BY <1>2 DEF SendRequest, TypeInv, ThreadTypes, MainThread, InControl, Main, Conflict
    <3>2. Conflict' <=> Conflict
      BY <1>2 DEF SendRequest, config, Conflict
    <3>3. failed' = failed /\ outcome' \in {outcome, "ok"}
      BY <1>2 DEF SendRequest
    <3> QED
      BY <1>1, <2>2, <3>1, <3>2, <3>3 DEF FlowInv
  <2> QED
    BY <2>1, <2>2
<1>3. CASE Change \/ ChangeFlow \/ ChangeWriteTimeout
  <2> SUFFICES ASSUME Sendable' PROVE FlowInv'
    BY <1>3, RefusedChange, IdleThread DEF FlowInv, Settled
  <2>1. /\ UNCHANGED failed /\ Flow' = Flow /\ Main.pc = "idle"
        /\ outcome' = "running" /\ Main'.pc = "value"
    BY <1>3, ThreadTypesUse
    DEF Change, ChangeFlow, ChangeWriteTimeout, Call, Reconfigure, Requesting, Flow, Main, port
  <2>2. ~failed => outcome = "ok"
    BY <2>1 DEF FlowInv, Running
  <2>3. ASSUME ~overlap, ~failed, ~Conflict', Asked' # {} PROVE Flow \subseteq Asked'
    <3>1. ~Conflict /\ Flow \subseteq Asked
      BY <2>2, <2>3 DEF FlowInv, Settled
    <3>2. CASE Change \/ ChangeWriteTimeout
      BY <3>1, <3>2 DEF Change, ChangeWriteTimeout, Asked
    <3>3. CASE ChangeFlow
      <4>1. ~xonxoff /\ ~rtscts
        <5>1. xonxoff' \/ rtscts'
          BY <2>3 DEF Asked, FlowOf
        <5>2. \/ xonxoff' = ~xonxoff /\ rtscts' = rtscts
              \/ rtscts' = ~rtscts /\ xonxoff' = xonxoff
          BY <3>3 DEF ChangeFlow
        <5>3. {xonxoff, rtscts, xonxoff', rtscts'} \subseteq BOOLEAN
          BY <5>2 DEF TypeInv, Config
        <5> QED
          BY <2>3, <3>1, <5>1, <5>2, <5>3, SMT DEF Conflict
      <4>2. Asked = {}
        BY <4>1 DEF Asked, FlowOf
      <4> QED
        BY <3>1, <4>2
    <3> QED
      BY <1>3, <3>2, <3>3
  <2> QED
    BY <1>1, <2>1, <2>3 DEF FlowInv, Settled
<1>4. CASE AssignValue("main") \/ AssignState("main") \/ PollItem \/ PollAgain
  <2>1. /\ UNCHANGED <<xonxoff, rtscts, outcome, failed>>
        /\ Flow' = Flow /\ Main'.pc # "wait" /\ Main.pc # "wait"
    BY <1>4, ThreadTypesUse
    DEF AssignValue, AssignState, PollItem, PollAgain, Summed, Flow, Main, Thread, config, history, port
  <2> QED
    BY <1>1, <2>1, FlowKept
<1>5. ASSUME UNCHANGED <<xonxoff, rtscts>>, Flow' = Flow, Main' = Idle,
             failed', outcome' \notin {"ok", "running"}
      PROVE  FlowInv'
  BY <1>5, IdleThread DEF FlowInv, Settled
<1>6. CASE Rejected("main") \/ GiveUp("main")
  <2>1. /\ UNCHANGED <<xonxoff, rtscts>> /\ Flow' = Flow /\ Main' = Idle
        /\ outcome' \in {"rejected", "timeout"}
    BY <1>6, ThreadTypesUse DEF Rejected, GiveUp, Ended, Flow, Main, config, port
  <2>2. failed'
    BY <1>6, Zenon DEF Rejected, GiveUp, Ended
  <2> QED
    BY <1>5, <2>1, <2>2
<1>7. CASE Confirmed("main")
  <2>1. /\ UNCHANGED <<xonxoff, rtscts>> /\ Flow' = Flow /\ Main' = Idle
        /\ outcome' = "ok" /\ Main.pc = "wait" /\ Main.item = "control"
    BY <1>7, ThreadTypesUse, MainFacts DEF Confirmed, Ended, Flow, Main, config, port
  <2>2. failed' <=> failed
    BY <1>7, Zenon DEF Confirmed, Ended
  <2>3. ~Conflict
    BY <2>1 DEF TypeInv, ThreadTypes, MainThread, InControl, Main, Conflict
  <2>4. Asked' = Asked /\ (Conflict' <=> Conflict) /\ Settled /\ Settled'
    BY <2>1 DEF Asked, Conflict, Settled
  <2> QED
    BY <1>1, <2>1, <2>2, <2>3, <2>4 DEF FlowInv
<1>8. CASE StartFlow
  <2>1. /\ UNCHANGED <<xonxoff, rtscts>> /\ Flow' = Flow /\ Main.pc = "poll"
    BY <1>8 DEF StartFlow, Summed, Flow, Main, config, port
  <2>2. CASE Conflict
    <3>1. Main' = Idle /\ outcome' = "conflict"
      BY <1>8, <2>2, ThreadTypesUse DEF StartFlow, Ended, Main, Conflict
    <3>2. failed'
      BY <1>8, <2>2, Zenon DEF StartFlow, Ended, Conflict
    <3> QED
      BY <1>5, <2>1, <3>1, <3>2
  <2>3. CASE ~Conflict
    <3>1. Main'.pc = "value" /\ UNCHANGED <<outcome, failed>>
      BY <1>8, <2>3, ThreadTypesUse DEF StartFlow, Requesting, Main, Conflict
    <3> QED
      BY <1>1, <2>1, <3>1, FlowKept
  <2> QED
    BY <2>2, <2>3
<1>9. CASE /\ Main' = Main /\ outcome' = outcome /\ failed' = failed
           /\ ~(Change \/ ChangeFlow \/ ChangeWriteTimeout) /\ ~\E t \in Threads : SendRequest(t)
  <2>1. UNCHANGED <<xonxoff, rtscts>>
    BY <1>9 DEF Next, vars, UserStep, SetLine, GiveUp, AssignValue, AssignState, Rejected, Confirmed,
       PollItem, PollAgain, StartFlow, Answer, Serve, ServeSetting, ServeControl, config
  <2>2. Flow' = Flow
    BY <1>9, FlowUnsent
  <2> QED
    BY <1>1, <1>9, <2>1, <2>2, FlowKept
<1> QED
  BY <1>2, <1>3, <1>4, <1>6, <1>7, <1>8, <1>9, MainMoves, ThreadTypesUse

LEMMA FlowHolds == Spec => []FlowInv
<1>1. Init => Running /\ ControlInv /\ FlowInv
  <2> SUFFICES ASSUME Init PROVE Running /\ ControlInv /\ FlowInv
    OBVIOUS
  <2>1. /\ Main = Idle /\ outcome = "ok" /\ thread = [t \in Threads |-> Idle]
        /\ toServer = <<>> /\ serverFlow = {}
    BY DEF Init, Main, Threads
  <2>2. Running /\ ControlInv
    BY <2>1, IdleThread DEF Running, ControlInv, Exclusive, InControl, Threads
  <2>3. Flow = {}
    BY <2>1 DEF Flow, EventualFlow, WillHave
  <2>4. Asked = {} /\ ~Conflict
    BY DEF Init, Asked, FlowOf, Conflict
  <2> QED
    BY <2>1, <2>2, <2>3, <2>4 DEF FlowInv
<1> QED
  BY <1>1, Types, RunningNext, ControlNext, FlowNext, PTL DEF Spec

LEMMA FlowReal ==
  ASSUME TypeInv, FlowInv, AtRest, outcome = "ok"
  PROVE  FlowAgrees
<1>1. Flow = serverFlow
  <2>1. toServer = <<>> /\ serverFlow \subseteq {"sw", "hw"}
    BY DEF AtRest, TypeInv, Port
  <2>2. \A m : WillHave(<<>>, serverFlow, m) <=> m \in serverFlow
    BY DEF WillHave
  <2> QED
    BY <2>1, <2>2 DEF Flow, EventualFlow
<1> QED
  BY <1>1 DEF FlowInv, Settled, FlowAgrees, Asked

LEMMA SettingsReal ==
  ASSUME ArrivalInv, SuccessInv, AtRest, outcome = "ok", NEW s \in Settings
  PROVE  actual[s] = cached[s]
BY Arrived DEF SettingsArrive, SuccessInv, AllSupported, ArrivalInv

(* A reconfiguration that returned normally took effect on every setting:   *)
(* no stale or shared answer covers up a refusal (is_ready and check_answer *)
(* of TelnetSubnegotiation); and the server has the flow control asked for, *)
(* and no other, within the limits that FlowAgrees states.                  *)
THEOREM SuccessIsAlwaysReal == Spec => []SuccessIsReal
<1>1. TypeInv /\ FlowInv /\ ArrivalInv /\ SuccessInv => SuccessIsReal
  BY FlowReal, SettingsReal DEF SuccessIsReal
<1> QED
  BY <1>1, Types, FlowHolds, ArrivalHolds, SuccessHolds, PTL
-----------------------------------------------------------------------------
(* An orderly rejection is a real one.                                      *)

(* Every message under way is about the value its object holds, an answer   *)
(* names that value if the port has it, ...                                 *)
OwnRequests(q) == \A j \in DOMAIN q : q[j].value = value[q[j].item]
OwnAnswers(q) ==
  \A j \in DOMAIN q :
    q[j].item = "control" \/ value[q[j].item] \in Supported => q[j].value = value[q[j].item]

(* ... and so what an object takes for a refusal is one.                    *)
RefusalIsReal ==
  /\ state["control"] # "REALLY_INACTIVE"
  /\ \A s \in Settings :
       state[s] = "REALLY_INACTIVE" /\ ~(Main.pc = "state" /\ Main.item = s) => value[s] \notin Supported

MessagesInv == ~late => OwnRequests(toServer) /\ OwnAnswers(toClient)
OrderlyInv == ~late => RefusalIsReal /\ RejectionIsReal

LEMMA OwnTail ==
  ASSUME NEW q \in Seq(Requests), q # <<>>
  PROVE  /\ OwnRequests(q) => OwnRequests(Tail(q)) /\ Head(q).value = value[Head(q).item]
         /\ OwnAnswers(q) => /\ OwnAnswers(Tail(q))
                             /\ Head(q).item = "control" \/ value[Head(q).item] \in Supported
                                  => Head(q).value = value[Head(q).item]
<1>1. /\ DOMAIN q = 1 .. Len(q) /\ DOMAIN Tail(q) = 1 .. Len(q) - 1 /\ Len(q) \in Nat \ {0}
      /\ \A k \in 1 .. Len(q) - 1 : Tail(q)[k] = q[k + 1]
      /\ Head(q) = q[1]
  OBVIOUS
<1>2. 1 \in DOMAIN q /\ \A k \in DOMAIN Tail(q) : k + 1 \in DOMAIN q /\ Tail(q)[k] = q[k + 1]
  BY <1>1
<1>3. OwnRequests(q) => OwnRequests(Tail(q)) /\ Head(q).value = value[Head(q).item]
  BY <1>1, <1>2 DEF OwnRequests
<1>4. OwnAnswers(q) => OwnAnswers(Tail(q))
  BY <1>1, <1>2 DEF OwnAnswers
<1> QED
  BY <1>1, <1>2, <1>3, <1>4 DEF OwnAnswers

LEMMA OwnAppend ==
  ASSUME NEW q \in Seq(Requests), NEW r \in Requests
  PROVE  /\ OwnRequests(q) /\ r.value = value[r.item] => OwnRequests(Append(q, r))
         /\ OwnAnswers(q) /\ (r.item = "control" \/ value[r.item] \in Supported => r.value = value[r.item])
              => OwnAnswers(Append(q, r))
<1>1. /\ DOMAIN q = 1 .. Len(q) /\ DOMAIN Append(q, r) = 1 .. Len(q) + 1 /\ Len(q) \in Nat
      /\ \A k \in 1 .. Len(q) : Append(q, r)[k] = q[k]
      /\ Append(q, r)[Len(q) + 1] = r
  OBVIOUS
<1> QED
  BY <1>1 DEF OwnRequests, OwnAnswers

LEMMA MessagesNext == TypeInv /\ MessagesInv /\ [Next]_vars => MessagesInv'
<1> SUFFICES ASSUME TypeInv, MessagesInv, [Next]_vars, ~late'
             PROVE  OwnRequests(toServer)' /\ OwnAnswers(toClient)'
  BY DEF MessagesInv
<1>1. CASE UNCHANGED <<late, value, toServer, toClient>>
  BY <1>1 DEF MessagesInv, OwnRequests, OwnAnswers
<1>2. CASE Answer
  <2>1. /\ UNCHANGED <<late, value, toServer>> /\ toClient' = Tail(toClient)
        /\ toClient \in Seq(Requests) /\ toClient # <<>>
    BY <1>2 DEF Answer, history, TypeInv, Wires
  <2>2. OwnRequests(toServer) /\ OwnAnswers(Tail(toClient))
    BY <2>1, OwnTail DEF MessagesInv
  <2> QED
    BY <2>1, <2>2 DEF OwnRequests, OwnAnswers
<1>3. CASE Serve
  <2> DEFINE a == Head(toServer)
  <2>1. /\ UNCHANGED <<late, value>> /\ toServer' = Tail(toServer)
        /\ toServer \in Seq(Requests) /\ toClient \in Seq(Requests) /\ toServer # <<>>
    BY <1>3 DEF Serve, ServeSetting, ServeControl, history, objects, TypeInv, Wires
  <2>2. OwnRequests(Tail(toServer)) /\ OwnAnswers(toClient) /\ a.value = value[a.item]
    BY <2>1, OwnTail DEF MessagesInv
  <2>3. PICK v : /\ toClient' = Append(toClient, [item |-> a.item, value |-> v])
                 /\ a.item = "control" \/ a.value \in Supported => v = a.value
    <3>1. CASE ServeSetting
      BY <3>1, ItemFacts DEF ServeSetting, Reply
    <3>2. CASE ServeControl
      BY <3>2 DEF ServeControl, Reply
    <3> QED
      BY <1>3, <3>1, <3>2 DEF Serve
  <2> DEFINE r == [item |-> a.item, value |-> v]
  <2>4. toClient' \in Seq(Requests)
    BY <1>3, ServeTypes DEF TypeInv, Wires
  <2>5. r = toClient'[Len(toClient) + 1]
    BY <2>1, <2>3
  <2>6. r \in Requests
    BY <2>1, <2>3, <2>4, <2>5
  <2>7. OwnAnswers(toClient')
    BY <2>1, <2>2, <2>3, <2>6, OwnAppend
  <2> QED
    BY <2>1, <2>2, <2>7 DEF OwnRequests, OwnAnswers
<1>4. ASSUME NEW t \in Threads, AssignValue(t)
      PROVE  OwnRequests(toServer)' /\ OwnAnswers(toClient)'
  <2>1. /\ ~late /\ ~UnderWay(thread[t].item)
    BY <1>4, Zenon DEF AssignValue
  <2>2. UNCHANGED <<toServer, toClient>> /\ \A i \in Items : i # thread[t].item => value'[i] = value[i]
    BY <1>4 DEF AssignValue, TypeInv, Objects
  <2>3. /\ \A j \in DOMAIN toServer : toServer[j].item \in Items /\ toServer[j].item # thread[t].item
        /\ \A j \in DOMAIN toClient : toClient[j].item \in Items /\ toClient[j].item # thread[t].item
    <3>1. toServer \in Seq(Requests) /\ toClient \in Seq(Requests)
      BY DEF TypeInv, Wires
    <3>2. /\ \A j \in DOMAIN toServer : toServer[j] \in Requests
          /\ \A j \in DOMAIN toClient : toClient[j] \in Requests
      BY <3>1
    <3>3. \A m \in Requests : m.item \in Items
      BY DEF Requests
    <3> QED
      BY <2>1, <3>2, <3>3 DEF UnderWay
  <2>4. OwnRequests(toServer) /\ OwnAnswers(toClient)
    BY <2>1 DEF MessagesInv
  <2> QED
    BY <2>2, <2>3, <2>4 DEF OwnRequests, OwnAnswers
<1>5. ASSUME NEW t \in Threads, SendRequest(t)
      PROVE  OwnRequests(toServer)' /\ OwnAnswers(toClient)'
  <2> DEFINE r == [item |-> thread[t].item, value |-> value[thread[t].item]]
  <2>1. /\ r \in Requests /\ r.value = value[r.item]
        /\ toServer \in Seq(Requests) /\ toServer' = Append(toServer, r)
        /\ UNCHANGED <<late, value, toClient>>
    BY <1>5, ThreadTypesUse, ItemFacts
    DEF SendRequest, TypeInv, Wires, Objects, Requests, Thread, Items, objects
  <2> HIDE DEF r
  <2>2. OwnRequests(toServer') /\ OwnAnswers(toClient)
    BY <2>1, OwnAppend DEF MessagesInv
  <2> QED
    BY <2>1, <2>2 DEF OwnRequests, OwnAnswers
<1>6. \/ UNCHANGED <<late, value, toServer, toClient>> \/ Answer \/ Serve
      \/ \E t \in Threads : AssignValue(t) \/ SendRequest(t)
  BY DEF Next, vars, UserStep, Change, ChangeFlow, ChangeWriteTimeout, SetLine, GiveUp, AssignState, Rejected, Confirmed,
     PollItem, PollAgain, StartFlow, history, objects
<1> QED
  BY <1>1, <1>2, <1>3, <1>4, <1>5, <1>6

LEMMA LateStays == [Next]_vars => (late => late')
<1> SUFFICES ASSUME [Next]_vars, late PROVE late'
  OBVIOUS
<1>1. ASSUME NEW t \in Threads, AssignValue(t) PROVE late'
  BY <1>1, Zenon DEF AssignValue
<1>2. (\E t \in Threads : AssignValue(t)) \/ late' = late
  BY DEF Next, vars, UserStep, Change, ChangeFlow, ChangeWriteTimeout, SetLine, GiveUp, AssignState, SendRequest, Rejected,
     Confirmed, PollItem, PollAgain, StartFlow, Answer, Serve, ServeSetting, ServeControl, history
<1> QED
  BY <1>1, <1>2, Zenon

LEMMA RefusalNext ==
  ASSUME TypeInv, OwnAnswers(toClient), RefusalIsReal, [Next]_vars
  PROVE  RefusalIsReal'
<1> USE DEF TypeInv, Objects
<1>1. CASE Answer
  <2> DEFINE a == Head(toClient)
  <2>1. /\ a.item \in Items
        /\ a.item = "control" \/ value[a.item] \in Supported => a.value = value[a.item]
    BY <1>1, HeadOf, OwnTail DEF Answer, Wires
  <2>2. state'["control"] # "REALLY_INACTIVE"
    BY <1>1, <2>1, ItemFacts DEF Answer, RefusalIsReal
  <2>3. ASSUME NEW s \in Settings, state'[s] = "REALLY_INACTIVE", ~(Main.pc = "state" /\ Main.item = s)
        PROVE  value[s] \notin Supported
    <3>1. CASE s = a.item
      BY <1>1, <2>1, <2>3, <3>1, ItemFacts DEF Answer
    <3>2. CASE s # a.item
      BY <1>1, <2>3, <3>2, ItemFacts DEF Answer, RefusalIsReal
    <3> QED
      BY <3>1, <3>2
  <2>4. UNCHANGED <<value, thread>>
    BY <1>1 DEF Answer
  <2> QED
    BY <2>2, <2>3, <2>4 DEF RefusalIsReal, Main
<1>2. ASSUME NEW t \in Threads, AssignValue(t) PROVE RefusalIsReal'
  <2>1. /\ \A s \in Settings : s # thread[t].item => value'[s] = value[s]
        /\ UNCHANGED state
    BY <1>2, ItemFacts DEF AssignValue
  <2>2. CASE t = "main"
    <3>1. Main'.pc = "state" /\ Main'.item = Main.item /\ Main.pc = "value"
      BY <1>2, <2>2, ThreadTypesUse DEF AssignValue, Main, Thread
    <3> QED
      BY <2>1, <2>2, <3>1 DEF RefusalIsReal, Main
  <2>3. CASE t = "aux"
    <3>1. Main' = Main /\ thread[t].item = "control"
      BY <1>2, <2>3, ThreadTypesUse DEF AssignValue, Main, Aux, ThreadTypes, AuxThread
    <3> QED
      BY <2>1, <3>1, ItemFacts DEF RefusalIsReal
  <2> QED
    BY <2>2, <2>3, ThreadTypesUse
<1>3. ASSUME NEW t \in Threads, AssignState(t) PROVE RefusalIsReal'
  <2>1. /\ UNCHANGED value /\ thread[t].item \in Items
        /\ \A i \in Items : state'[i] = IF i = thread[t].item THEN "REQUESTED" ELSE state[i]
    BY <1>3, ItemFacts, ThreadTypesUse DEF AssignState, Thread
  <2>2. CASE t = "main"
    BY <2>1, <2>2, ItemFacts DEF RefusalIsReal, Main
  <2>3. CASE t = "aux"
    <3>1. Main' = Main
      BY <1>3, <2>3, ThreadTypesUse DEF AssignState, Main
    <3> QED
      BY <2>1, <3>1, ItemFacts DEF RefusalIsReal
  <2> QED
    BY <2>2, <2>3, ThreadTypesUse
<1>4. CASE UNCHANGED <<value, state>> /\ (Main.pc = "state" => Main' = Main)
  BY <1>4 DEF RefusalIsReal
<1> QED
  BY <1>1, <1>2, <1>3, <1>4, OtherSteps

LEMMA RejectionNext ==
  ASSUME TypeInv, ArrivalInv, RefusalIsReal, RejectionIsReal, [Next]_vars
  PROVE  RejectionIsReal'
<1>1. CASE Rejected("main")
  <2>1. UNCHANGED cached
    BY <1>1 DEF Rejected, config
  <2>2. CASE Main.pc = "poll" /\ Main.left # <<>> /\ state[Head(Main.left)] = "REALLY_INACTIVE"
    <3> DEFINE s == Head(Main.left)
    <3>1. s \in Settings
      BY <2>2, MainFacts
    <3>2. value[s] \notin Supported
      BY <2>2, <3>1 DEF RefusalIsReal
    <3>3. Pending = {}
      BY <2>2, NotPending DEF Setting, Main
    <3>4. value[s] = cached[s]
      BY <2>2, <3>1, <3>3 DEF ArrivalInv, Following, ValuesFollow
    <3> QED
      BY <2>1, <3>1, <3>2, <3>4 DEF RejectionIsReal
  <2>3. CASE Main.pc = "wait" /\ state[Main.item] = "REALLY_INACTIVE"
    BY <2>3, MainFacts DEF RefusalIsReal
  <2> QED
    BY <1>1, <2>2, <2>3 DEF Rejected, Main
<1>2. CASE Change \/ ChangeFlow \/ ChangeWriteTimeout
  BY <1>2 DEF Change, ChangeFlow, ChangeWriteTimeout, Reconfigure, RejectionIsReal
<1>3. CASE outcome' # "rejected"
  BY <1>3 DEF RejectionIsReal
<1>4. CASE UNCHANGED <<cached, outcome>>
  BY <1>4 DEF RejectionIsReal
<1>5. (Change \/ ChangeFlow \/ ChangeWriteTimeout) \/ UNCHANGED cached
  BY DEF Next, vars, UserStep, SetLine, GiveUp, AssignValue, AssignState, SendRequest, Rejected, Confirmed,
     PollItem, PollAgain, StartFlow, Answer, Serve, ServeSetting, ServeControl, config
<1>6. \/ Rejected("main") \/ Change \/ ChangeFlow \/ ChangeWriteTimeout
      \/ outcome' = outcome \/ outcome' # "rejected"
  BY MainMoves DEF AssignValue, AssignState, SendRequest, Confirmed, GiveUp, Ended,
     PollItem, PollAgain, StartFlow, history
<1> QED
  BY <1>1, <1>2, <1>3, <1>4, <1>5, <1>6

LEMMA OrderlyNext ==
  TypeInv /\ ArrivalInv /\ MessagesInv /\ OrderlyInv /\ [Next]_vars => OrderlyInv'
BY LateStays, RefusalNext, RejectionNext DEF MessagesInv, OrderlyInv

LEMMA OrderlyInit == Init => MessagesInv /\ OrderlyInv
<1> SUFFICES ASSUME Init
             PROVE  /\ OwnRequests(toServer) /\ OwnAnswers(toClient)
                    /\ RefusalIsReal /\ RejectionIsReal
  BY DEF MessagesInv, OrderlyInv
<1>1. \A i \in Items : state[i] = "ACTIVE"
  BY DEF Init
<1>2. RefusalIsReal
  BY <1>1, ItemFacts DEF RefusalIsReal
<1> QED
  BY <1>2 DEF Init, OwnRequests, OwnAnswers, RejectionIsReal

(* As long as no object is set again before the answer to its last request  *)
(* is in, is_ready raises for a value the server's port cannot do only: it  *)
(* reads the answer to the value it asked for, though two threads may share *)
(* the control object.                                                      *)
THEOREM OrderlyRejections == Spec => []OrderlyRejectionIsReal
<1>1. OrderlyInv => OrderlyRejectionIsReal
  BY DEF OrderlyInv, OrderlyRejectionIsReal
<1> QED
  BY <1>1, OrderlyInit, Types, ArrivalHolds, MessagesNext, OrderlyNext, PTL DEF Spec
=============================================================================

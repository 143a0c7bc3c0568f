-------------------------- MODULE ReaderThread_proofs --------------------------
(***************************************************************************)
(* Proofs about ReaderThread, for every number of calls and of chunks of    *)
(* data.  ReaderInv says of the steps between the calls and the thread what *)
(* the properties need to be inductive.                                     *)
(***************************************************************************)
EXTENDS ReaderThread, TLAPS

(* Where a thread is in its call goes with the kind of the call and with    *)
(* the lock: close() and write() hold it from Acquire to their end.         *)
CallOK(t) ==
  LET c == call[t] IN
    /\ c.pc = "none" => c.kind = "none"
    /\ c.pc = "lock" => c.kind \in {"write", "close"} /\ lock # t
    /\ c.pc = "write" => c.kind = "write" /\ lock = t
    /\ c.pc \in {"alive", "cancel", "join"} => c.kind \in {"stop", "close"}
    /\ c.pc = "port" => c.kind = "close"
    /\ c.pc \in {"alive", "cancel", "join", "port"} /\ c.kind = "close" => lock = t

CallsOK == \A t \in Threads : CallOK(t)

(* connection_lost is called at the end of the loop and nowhere else.       *)
ToldOnce ==
  /\ enter = "new" => reader = "new"
  /\ reader \in {"new", "setup", "made", "check", "waiting", "begun", "read", "received",
                 "unborn"} => told = 0
  /\ reader \in {"lost", "done"} => told = 1 /\ ~alive
  /\ reader = "dead" /\ tells => told = 1 /\ ~alive

(* After cancel_read() a reader on its way into the read finds the token,   *)
(* if it lasts, and when join() has returned the reader is not on its way   *)
(* any more: it has left the read, or waits in one that it may stay in.     *)
Reading == {"waiting", "begun", "read"}

Stopped ==
  \A t \in Threads :
    /\ call[t].pc \in {"cancel", "join", "port"} => ~alive
    /\ call[t].pc \in {"join", "port"} =>
         (reader \in Reading => cancel \/ cancels # "lasting" \/ ~open)
    /\ call[t].pc = "port" => reader \notin {"waiting", "begun"}
    /\ call[t].pc = "port" /\ reader = "read" => cancels = "pending"

ReaderInv == TypeOK /\ CallsOK /\ ToldOnce /\ Stopped

LEMMA InvInit == Init => ReaderInv
<1> SUFFICES ASSUME Init PROVE ReaderInv
  OBVIOUS
<1>1. TypeOK
  <2>1. calls \in [Threads -> 0 .. MaxCalls] /\ data \in 0 .. MaxData /\ told \in 0 .. 1
    BY ThreadAssumption DEF Init
  <2>2. call \in [Threads -> [pc : {"none", "lock", "write", "alive", "cancel", "join", "port"},
                             kind : {"none", "write", "stop", "close"}]]
    BY DEF Init, NoCall
  <2>3. /\ lock \in Threads \cup {None}
        /\ \A t \in Threads : lock # t
    BY DEF Init, None, Threads
  <2>4. {tells, reraises, alive, connectionMade, error, early, raising,
         open, failed, cancel} \subseteq BOOLEAN /\ cancels \in CancelKinds
    BY DEF Init
  <2> QED
    BY <2>1, <2>2, <2>3, <2>4 DEF Init, TypeOK
<1>2. CallsOK
  BY DEF Init, CallsOK, CallOK, NoCall, None, Threads
<1>3. ToldOnce
  BY DEF Init, ToldOnce
<1>4. Stopped
  BY DEF Init, Stopped, Reading, NoCall
<1> QED
  BY <1>1, <1>2, <1>3, <1>4 DEF ReaderInv

(* The part of TypeOK that is about the calls. *)
CallTypes ==
  /\ lock \in Threads \cup {None}
  /\ call \in [Threads -> [pc : {"none", "lock", "write", "alive", "cancel", "join", "port"},
                           kind : {"none", "write", "stop", "close"}]]
  /\ \A t \in Threads : lock = t => call[t].kind \in {"write", "close"}

(* A step of one thread's call leaves the calls of the others well formed,  *)
(* if it takes the lock from nobody else.                                   *)
LEMMA OneCallMoves ==
  ASSUME CallTypes, CallsOK, NEW t \in Threads,
         NEW c \in [pc : {"none", "lock", "write", "alive", "cancel", "join", "port"},
                    kind : {"none", "write", "stop", "close"}],
         call' = [call EXCEPT ![t] = c],
         \/ lock' = lock
         \/ lock = None /\ lock' = t
         \/ lock = t /\ lock' = None,
         CallOK(t)', lock' = t => c.kind \in {"write", "close"}
  PROVE  CallTypes' /\ CallsOK'
<1>1. None \notin Threads
  BY DEF None, Threads
<1>2. call'[t] = c /\ \A u \in Threads \ {t} : call'[u] = call[u]
  BY DEF CallTypes
<1>3. \A u \in Threads \ {t} : lock' = u <=> lock = u
  BY <1>1
<1>4. CallTypes'
  BY <1>2, <1>3 DEF CallTypes
<1>5. ASSUME NEW u \in Threads \ {t} PROVE CallOK(u)'
  BY <1>2, <1>3 DEF CallsOK, CallOK
<1> QED
  BY <1>4, <1>5 DEF CallsOK

Calls == [pc : {"none", "lock", "write", "alive", "cancel", "join", "port"},
          kind : {"none", "write", "stop", "close"}]

(* The steps of the calls, as changes of one record and of the lock.        *)
LEMMA CallSteps ==
  ASSUME TypeOK, CallsOK, NEW t \in Threads, Begin(t) \/ CallStep(t)
  PROVE  CallTypes' /\ CallsOK'
<1> DEFINE c == call[t]
<1>0. CallTypes /\ c \in Calls /\ CallOK(t) /\ NoCall \in Calls /\ None \notin Threads
  BY DEF TypeOK, CallTypes, CallsOK, Calls, NoCall, None, Threads
<1>1. ASSUME Begin(t) PROVE CallTypes' /\ CallsOK'
  <2>1. PICK n \in {[kind |-> "write", pc |-> "lock"], [kind |-> "close", pc |-> "lock"],
                    [kind |-> "stop", pc |-> "alive"]} :
          call' = [call EXCEPT ![t] = n] /\ lock' = lock
    BY <1>1 DEF Begin
  <2>2. n \in Calls /\ n.pc \in {"lock", "alive"} /\ (n.pc = "lock" => n.kind \in {"write", "close"})
        /\ (n.pc = "alive" => n.kind = "stop")
    BY <2>1 DEF Calls
  <2>3. lock # t
    BY <1>0, <1>1 DEF Begin, MayCall, NoCall, CallTypes
  <2>4. call'[t] = n
    BY <1>0, <2>1 DEF CallTypes
  <2>5. CallOK(t)'
    BY <2>1, <2>2, <2>3, <2>4 DEF CallOK
  <2> QED
    BY <1>0, <2>1, <2>2, <2>3, <2>5, OneCallMoves DEF Calls
<1>2. ASSUME Acquire(t) PROVE CallTypes' /\ CallsOK'
  <2> DEFINE n == [c EXCEPT !.pc = IF c.kind = "write" THEN "write" ELSE "alive"]
  <2>1. call' = [call EXCEPT ![t] = n] /\ lock = None /\ lock' = t /\ c.pc = "lock"
    BY <1>2 DEF Acquire
  <2>2. n \in Calls /\ n.kind = c.kind /\ c.kind \in {"write", "close"}
        /\ n.pc = IF c.kind = "write" THEN "write" ELSE "alive"
    BY <1>0, <2>1 DEF Calls, CallOK
  <2>3. call'[t] = n
    BY <1>0, <2>1 DEF CallTypes
  <2>4. \/ call'[t].pc = "write" /\ call'[t].kind = "write"
        \/ call'[t].pc = "alive" /\ call'[t].kind = "close"
    BY <2>2, <2>3
  <2>5. CallOK(t)'
    BY <2>1, <2>4 DEF CallOK
  <2> QED
    BY <1>0, <2>1, <2>2, <2>5, OneCallMoves DEF Calls
<1>3. ASSUME NEW raised, Finish(t, raised) PROVE CallTypes' /\ CallsOK'
  <2>1. call' = [call EXCEPT ![t] = NoCall] /\ lock' = IF lock = t THEN None ELSE lock
    BY <1>3 DEF Finish
  <2>2. call'[t] = NoCall /\ lock' # t
    BY <1>0, <2>1 DEF CallTypes
  <2>3. CallOK(t)'
    BY <2>2 DEF CallOK, NoCall
  <2> QED
    BY <1>0, <2>1, <2>2, <2>3, OneCallMoves DEF Calls
<1>4. ASSUME NEW q \in {"cancel", "join", "port"}, lock' = lock,
             call' = [call EXCEPT ![t].pc = q],
             c.pc \in {"alive", "cancel", "join"}, q = "port" => c.kind = "close"
      PROVE  CallTypes' /\ CallsOK'
  <2> DEFINE n == [c EXCEPT !.pc = q]
  <2>1. n \in Calls /\ n.kind = c.kind /\ n.pc = q /\ c.kind \in {"stop", "close"}
    BY <1>0, <1>4 DEF Calls, CallOK
  <2>2. call' = [call EXCEPT ![t] = n]
    BY <1>4
  <2>3. call'[t] = n
    BY <1>0, <2>2 DEF CallTypes
  <2>4. CallOK(t)'
    BY <1>0, <1>4, <2>1, <2>3 DEF CallOK
  <2>5. lock' = t => n.kind \in {"write", "close"}
    BY <1>0, <1>4, <2>1 DEF CallTypes
  <2> QED
    BY <1>0, <1>4, <2>1, <2>2, <2>4, <2>5, OneCallMoves DEF Calls
<1>5. ASSUME ClearAlive(t) PROVE CallTypes' /\ CallsOK'
  BY <1>4, <1>5 DEF ClearAlive
<1>6. ASSUME Cancel(t) PROVE CallTypes' /\ CallsOK'
  BY <1>4, <1>6 DEF Cancel
<1>7. ASSUME Join(t) PROVE CallTypes' /\ CallsOK'
  <2>1. CASE c.kind = "close"
    BY <1>4, <1>7, <2>1 DEF Join
  <2>2. CASE c.kind # "close"
    BY <1>3, <1>7, <2>2 DEF Join
  <2> QED
    BY <2>1, <2>2
<1>8. ASSUME Write(t) \/ ClosePort(t) \/ (t = "reader" /\ JoinSelf)
      PROVE  CallTypes' /\ CallsOK'
  BY <1>3, <1>8 DEF Write, ClosePort, JoinSelf
<1> QED
  BY <1>1, <1>2, <1>5, <1>6, <1>7, <1>8 DEF CallStep, StopStep

(* TypeOK of what the calls leave alone, and of the calls.                  *)
LEMMA TypedNext == TypeOK /\ CallsOK /\ ToldOnce /\ [Next]_vars => TypeOK'
<1> SUFFICES ASSUME TypeOK, CallsOK, ToldOnce, [Next]_vars PROVE TypeOK'
  OBVIOUS
<1> DEFINE Bools == /\ cancels \in CancelKinds /\ tells \in BOOLEAN /\ reraises \in BOOLEAN
                    /\ alive \in BOOLEAN /\ connectionMade \in BOOLEAN
                    /\ error \in BOOLEAN /\ early \in BOOLEAN /\ raising \in BOOLEAN
                    /\ open \in BOOLEAN /\ failed \in BOOLEAN /\ cancel \in BOOLEAN
           Places == /\ reader \in Callbacks \cup {"new", "setup", "check", "waiting", "begun",
                                                   "read", "done", "dead", "unborn"}
                     /\ enter \in {"new", "waiting", "connected", "refused"}
           Numbers == /\ calls \in [Threads -> 0 .. MaxCalls]
                      /\ data \in 0 .. MaxData
                      /\ told \in 0 .. 1
<1>0. Bools /\ Places /\ Numbers /\ CallTypes
  BY DEF TypeOK, CallTypes
<1>1. ASSUME Bools', Places', Numbers', CallTypes' PROVE TypeOK'
  BY <1>1 DEF TypeOK, CallTypes
<1>2. ASSUME NEW t \in Threads, Begin(t) \/ CallStep(t) PROVE TypeOK'
  <2>1. CallTypes'
    BY <1>2, CallSteps
  <2>2. ASSUME Begin(t) PROVE Bools' /\ Places' /\ Numbers'
    <3>1. calls' \in [Threads -> 0 .. MaxCalls]
      BY <1>0, <2>2, ThreadAssumption DEF Begin, MayCall
    <3> QED
      BY <1>0, <2>2, <3>1 DEF Begin, options, run, port
  <2>3. ASSUME CallStep(t) PROVE Bools' /\ Places' /\ Numbers'
    <3>1. CASE Acquire(t) \/ ClearAlive(t) \/ Cancel(t)
      <4>1. UNCHANGED <<cancels, tells, reraises, reader, connectionMade, error, early,
                        raising, open, failed, enter, calls, data, told>>
        BY <3>1 DEF Acquire, ClearAlive, Cancel, options, run, port
      <4>2. alive' \in BOOLEAN
        BY <1>0, <3>1 DEF Acquire, ClearAlive, Cancel
      <4>3. cancel' \in BOOLEAN
        BY <1>0, <3>1 DEF Acquire, ClearAlive, Cancel, port
      <4> QED
        BY <1>0, <4>1, <4>2, <4>3
    <3>2. CASE Write(t) \/ Join(t) \/ ClosePort(t) \/ (t = "reader" /\ JoinSelf)
      <4>1. UNCHANGED <<cancels, tells, reraises, reader, alive, connectionMade, error,
                        early, failed, enter, calls, data, told>>
        BY <3>2 DEF Write, Join, ClosePort, JoinSelf, options, port
      <4>2. raising' \in BOOLEAN
        BY <1>0, <3>2 DEF Write, Join, ClosePort, JoinSelf, Finish
      <4>3. open' \in BOOLEAN /\ cancel' \in BOOLEAN
        BY <1>0, <3>2 DEF Write, Join, ClosePort, JoinSelf, port
      <4> QED
        BY <1>0, <4>1, <4>2, <4>3
    <3> QED
      BY <2>3, <3>1, <3>2 DEF CallStep, StopStep
  <2> QED
    BY <1>1, <1>2, <2>1, <2>2, <2>3
<1>3. ASSUME DataArrives \/ Unplug \/ Start \/ Woken PROVE TypeOK'
  <2>1. CallTypes'
    BY <1>0, <1>3 DEF DataArrives, Unplug, Start, Woken, CallTypes
  <2>2. Numbers'
    BY <1>0, <1>3, ThreadAssumption DEF DataArrives, Unplug, Start, Woken, run, port
  <2>3. Places'
    BY <1>0, <1>3 DEF DataArrives, Unplug, Start, Woken, run, Callbacks
  <2>4. /\ UNCHANGED <<cancels, tells, reraises, alive, connectionMade, error, early,
                      raising, open, cancel>>
        /\ failed' = TRUE \/ failed' = failed
    BY <1>3 DEF DataArrives, Unplug, Start, Woken, options, run, port
  <2>5. Bools'
    BY <1>0, <2>4
  <2> QED
    BY <1>1, <2>1, <2>2, <2>3, <2>5
<1>4. ASSUME ReaderStep PROVE TypeOK'
  <2>1. CallTypes'
    BY <1>0, <1>4 DEF ReaderStep, SetUp, Check, InWaiting, ReadWaits, ReadReturns, ReadFails,
                      Made, Received, Lost, CallTypes
  <2>2. Numbers'
    <3>1. told = 0 \/ told' = told
      BY <1>4 DEF ReaderStep, SetUp, Check, InWaiting, ReadWaits, ReadReturns, ReadFails,
                  Made, Received, Lost, Lose, ToldOnce
    <3>2. told' = told \/ told' = told + 1
      BY <1>4 DEF ReaderStep, SetUp, Check, InWaiting, ReadWaits, ReadReturns, ReadFails,
                  Made, Received, Lost, Lose
    <3>3. calls' = calls /\ (data' = data \/ data' = 0)
      BY <1>4 DEF ReaderStep, SetUp, Check, InWaiting, ReadWaits, ReadReturns, ReadFails,
                  Made, Received, Lost, port
    <3> QED
      BY <1>0, <3>1, <3>2, <3>3, ThreadAssumption
  <2>3. Bools' /\ Places'
    <3>1. CASE Check \/ InWaiting \/ ReadWaits \/ ReadReturns \/ ReadFails
      <4>1. Places'
        BY <1>0, <3>1 DEF Check, InWaiting, ReadWaits, ReadReturns, ReadFails, Lose, Callbacks
      <4>2. UNCHANGED <<cancels, tells, reraises, connectionMade, early, raising, open, failed>>
        BY <3>1 DEF Check, InWaiting, ReadWaits, ReadReturns, ReadFails, options, port
      <4>3. alive' \in BOOLEAN /\ error' \in BOOLEAN
        BY <1>0, <3>1 DEF Check, InWaiting, ReadWaits, ReadReturns, ReadFails, Lose
      <4>4. cancel' \in BOOLEAN
        BY <1>0, <3>1 DEF Check, InWaiting, ReadWaits, ReadReturns, ReadFails, port
      <4> QED
        BY <1>0, <4>1, <4>2, <4>3, <4>4
    <3>3. ASSUME NEW raised \in BOOLEAN, SetUp(raised) PROVE Bools' /\ Places'
      BY <1>0, <3>3 DEF SetUp, options, port, Callbacks
    <3>2. ASSUME NEW raised \in BOOLEAN, Made(raised) \/ Received(raised) \/ Lost(raised)
          PROVE  Bools' /\ Places'
      <4>1. Places'
        BY <1>0, <3>2 DEF Made, Received, Lost, Lose, Callbacks
      <4>2. /\ UNCHANGED <<cancels, tells, reraises, open, failed, cancel>>
            /\ raising' = FALSE
            /\ early' = early \/ early' = raised
            /\ alive' = alive \/ alive' = FALSE
            /\ error' = error \/ error' = TRUE
        BY <3>2 DEF Made, Received, Lost, Lose, options, port
      <4>3. connectionMade' \in BOOLEAN
        BY <1>0, <3>2 DEF Made, Received, Lost
      <4> QED
        BY <1>0, <4>1, <4>2, <4>3
    <3> QED
      BY <1>4, <3>1, <3>2, <3>3 DEF ReaderStep
  <2> QED
    BY <1>1, <2>1, <2>2, <2>3
<1>5. CASE UNCHANGED vars
  BY <1>0, <1>1, <1>5 DEF vars, options, run, port, CallTypes
<1> QED
  BY <1>2, <1>3, <1>4, <1>5 DEF Next

LEMMA ToldNext == TypeOK /\ ToldOnce /\ [Next]_vars => ToldOnce'
<1> SUFFICES ASSUME TypeOK, ToldOnce, [Next]_vars PROVE ToldOnce'
  OBVIOUS
<1>1. ASSUME NEW t \in Threads, Begin(t) \/ CallStep(t) PROVE ToldOnce'
  <2>1. /\ UNCHANGED <<tells, reader, told, enter>>
        /\ alive' = alive \/ ~alive'
    BY <1>1 DEF Begin, CallStep, StopStep, Acquire, Write, ClearAlive, Cancel, Join, JoinSelf,
                ClosePort, options, run
  <2> QED
    BY <2>1 DEF ToldOnce
<1>2. ASSUME DataArrives \/ Unplug \/ Woken PROVE ToldOnce'
  <2>1. UNCHANGED <<tells, reader, told, alive>> /\ (enter' = "new" => enter = "new")
    BY <1>2 DEF DataArrives, Unplug, Woken, options, run
  <2> QED
    BY <2>1 DEF ToldOnce
<1>3. CASE Start
  BY <1>3 DEF Start, ToldOnce
<1>4. CASE ReaderStep
  <2>1. CASE Check \/ InWaiting \/ ReadWaits \/ ReadReturns \/ ReadFails
    BY <2>1 DEF Check, InWaiting, ReadWaits, ReadReturns, ReadFails, Lose, ToldOnce, options
  <2>2. ASSUME NEW raised \in BOOLEAN,
               SetUp(raised) \/ Made(raised) \/ Received(raised) \/ Lost(raised)
        PROVE  ToldOnce'
    BY <2>2 DEF SetUp, Made, Received, Lost, Lose, ToldOnce, options
  <2> QED
    BY <1>4, <2>1, <2>2 DEF ReaderStep
<1>5. CASE UNCHANGED vars
  BY <1>5 DEF vars, options, run, ToldOnce
<1> QED
  BY <1>1, <1>2, <1>3, <1>4, <1>5 DEF Next

(* What Stopped says of one thread. *)
StoppedBy(t) ==
  /\ call[t].pc \in {"cancel", "join", "port"} => ~alive
  /\ call[t].pc \in {"join", "port"} =>
       (reader \in Reading => cancel \/ cancels # "lasting" \/ ~open)
  /\ call[t].pc = "port" => reader \notin {"waiting", "begun"}
  /\ call[t].pc = "port" /\ reader = "read" => cancels = "pending"

LEMMA StoppedNext == ReaderInv /\ [Next]_vars => Stopped'
<1> SUFFICES ASSUME ReaderInv, [Next]_vars, NEW u \in Threads PROVE StoppedBy(u)'
  BY DEF Stopped, StoppedBy
<1>0. /\ TypeOK /\ CallsOK /\ ToldOnce /\ Stopped /\ StoppedBy(u)
      /\ call \in [Threads -> Calls]
  BY DEF ReaderInv, Stopped, StoppedBy, TypeOK, Calls
(* A thread's own step, or one of another that leaves it where it is. *)
<1>1. ASSUME NEW t \in Threads, Begin(t) \/ CallStep(t) PROVE StoppedBy(u)'
  <2>1. CASE Begin(t) \/ Acquire(t)
    <3>1. /\ UNCHANGED <<alive, reader, cancel, cancels, open>>
          /\ call'[u] = call[u] \/ call'[u].pc \in {"lock", "alive", "write"}
      BY <1>0, <2>1 DEF Begin, Acquire, options, run, port, Calls
    <3> QED
      BY <1>0, <3>1 DEF StoppedBy
  <2>2. CASE Write(t) \/ (t = "reader" /\ JoinSelf)
    <3>1. /\ UNCHANGED <<alive, reader, cancel, cancels, open>>
          /\ call'[u] = call[u] \/ call'[u].pc = "none"
      BY <1>0, <2>2 DEF Write, JoinSelf, Finish, NoCall, options, port
    <3> QED
      BY <1>0, <3>1 DEF StoppedBy
  <2>3. CASE ClearAlive(t)
    <3>1. /\ UNCHANGED <<reader, cancel, cancels, open>> /\ ~alive'
          /\ call'[u] = call[u] \/ call'[u].pc = "cancel"
      BY <1>0, <2>3 DEF ClearAlive, options, run, port, Calls
    <3> QED
      BY <1>0, <3>1 DEF StoppedBy
  <2>4. CASE Cancel(t)
    <3>1. /\ UNCHANGED <<alive, reader, cancels, open>> /\ ~alive
          /\ cancel' \/ cancels # "lasting" \/ ~open
          /\ call'[u] = call[u] \/ call'[u].pc = "join"
      BY <1>0, <2>4 DEF Cancel, Stopped, options, run, port, Calls
    <3> QED
      BY <1>0, <3>1 DEF StoppedBy
  <2>5. CASE Join(t)
    <3>1. UNCHANGED <<alive, reader, cancel, cancels, open>>
      BY <2>5 DEF Join, options, port
    <3>2. call'[u] = call[u] \/ call'[u].pc = "none" \/ (u = t /\ call'[u].pc = "port")
      BY <1>0, <2>5 DEF Join, Finish, NoCall, Calls
    <3>3. reader \notin {"waiting", "begun"} /\ (reader = "read" => cancels = "pending")
      BY <1>0, <2>5 DEF Join, Stopped, Reading, Ended, InCallback, Callbacks, Blocked,
                        TypeOK, CancelKinds
    <3>4. ~alive
      BY <1>0, <2>5 DEF Join, Stopped
    <3>5. CASE call'[u] = call[u]
      BY <1>0, <3>1, <3>5 DEF StoppedBy
    <3>6. CASE call'[u].pc \in {"none", "port"}
      BY <1>0, <3>1, <3>3, <3>4, <3>6 DEF StoppedBy, Reading
    <3> QED
      BY <3>2, <3>5, <3>6
  <2>6. CASE ClosePort(t)
    <3>1. /\ UNCHANGED <<alive, reader, cancels>> /\ ~open'
          /\ call'[u] = call[u] \/ call'[u].pc = "none"
      BY <1>0, <2>6 DEF ClosePort, Finish, NoCall, options
    <3> QED
      BY <1>0, <3>1 DEF StoppedBy
  <2> QED
    BY <1>1, <2>1, <2>2, <2>3, <2>4, <2>5, <2>6 DEF CallStep, StopStep
<1>2. ASSUME DataArrives \/ Unplug \/ Start \/ Woken \/ UNCHANGED vars PROVE StoppedBy(u)'
  <2>1. /\ UNCHANGED <<alive, call, cancel, cancels, open>>
        /\ reader' = reader \/ reader' = "setup"
    BY <1>2 DEF DataArrives, Unplug, Start, Woken, vars, options, run, port
  <2> QED
    BY <1>0, <2>1 DEF StoppedBy, Reading
<1>3. CASE ReaderStep
  <2>1. CASE Check
    <3>1. UNCHANGED <<call, cancel, cancels, open>>
      BY <2>1 DEF Check, options, port
    <3>2. \/ alive /\ alive' = alive
          \/ reader' = "lost" /\ ~alive'
      BY <2>1 DEF Check, Lose
    <3> QED
      BY <1>0, <3>1, <3>2 DEF StoppedBy, Reading
  <2>2. CASE InWaiting \/ ReadWaits
    <3>1. /\ UNCHANGED <<call, cancel, cancels, open>> /\ reader \in {"waiting", "begun"}
          /\ alive' = alive \/ ~alive'
      BY <2>2 DEF InWaiting, ReadWaits, Lose, options, port
    <3> QED
      BY <1>0, <3>1 DEF StoppedBy, Reading
  <2>3. CASE ReadReturns \/ ReadFails
    <3>1. /\ UNCHANGED <<call, cancels, open>>
          /\ reader' \notin Reading
          /\ alive' = alive \/ ~alive'
      BY <2>3 DEF ReadReturns, ReadFails, Lose, Reading, options, port
    <3> QED
      BY <1>0, <3>1 DEF StoppedBy, Reading
  <2>4. ASSUME NEW raised \in BOOLEAN,
               SetUp(raised) \/ Made(raised) \/ Received(raised) \/ Lost(raised)
        PROVE  StoppedBy(u)'
    <3>1. /\ UNCHANGED call
          /\ reader' \notin Reading
          /\ alive' = alive \/ ~alive'
      BY <2>4 DEF SetUp, Made, Received, Lost, Lose, Reading
    <3> QED
      BY <1>0, <3>1 DEF StoppedBy, Reading
  <2> QED
    BY <1>3, <2>1, <2>2, <2>3, <2>4 DEF ReaderStep
<1> QED
  BY <1>1, <1>2, <1>3 DEF Next

LEMMA CallsNext == TypeOK /\ CallsOK /\ [Next]_vars => CallsOK'
<1> SUFFICES ASSUME TypeOK, CallsOK, [Next]_vars PROVE CallsOK'
  OBVIOUS
<1>1. ASSUME NEW t \in Threads, Begin(t) \/ CallStep(t) PROVE CallsOK'
  BY <1>1, CallSteps
<1>2. ASSUME UNCHANGED <<lock, call>> PROVE CallsOK'
  BY <1>2 DEF CallsOK, CallOK
<1>3. ASSUME DataArrives \/ Unplug \/ Start \/ Woken \/ ReaderStep \/ UNCHANGED vars
      PROVE  UNCHANGED <<lock, call>>
  BY <1>3 DEF DataArrives, Unplug, Start, Woken, ReaderStep, SetUp, Check, InWaiting, ReadWaits,
              ReadReturns, ReadFails, Made, Received, Lost, vars
<1> QED
  BY <1>1, <1>2, <1>3 DEF Next

LEMMA InvNext == ReaderInv /\ [Next]_vars => ReaderInv'
  BY TypedNext, CallsNext, ToldNext, StoppedNext DEF ReaderInv

(* Every variable keeps its type, and only a thread in write() or close()   *)
(* holds the lock.                                                          *)
THEOREM TypeCorrect == Spec => []TypeOK
<1>1. ReaderInv => TypeOK
  BY DEF ReaderInv
<1> QED
  BY <1>1, InvInit, InvNext, PTL DEF Spec

(* A protocol that was connected hears of the end exactly once, and the     *)
(* thread is marked as ended, wherever an exception comes from, as long as  *)
(* a failed port raises SerialExceptions.                                   *)
THEOREM EndIsTold == Spec => []LostIsToldBySerialExceptions
<1>1. ReaderInv => LostIsToldBySerialExceptions
  BY DEF ReaderInv, ToldOnce, LostIsToldBySerialExceptions
<1> QED
  BY <1>1, InvInit, InvNext, PTL DEF Spec

(* The port is closed at a moment when no thread writes it or is about to   *)
(* read it, and none reads it except on Windows.                            *)
THEOREM CloseIsIdle == Spec => ClosesIdlePort
<1>1. ReaderInv /\ [Next]_vars =>
        [open /\ ~open' =>
           /\ reader \notin {"waiting", "begun"}
           /\ reader = "read" => cancels = "pending"
           /\ \A t \in Threads : call[t].pc # "write"]_vars
  <2> SUFFICES ASSUME ReaderInv, [Next]_vars, open, ~open'
               PROVE  /\ reader \notin {"waiting", "begun"}
                      /\ reader = "read" => cancels = "pending"
                      /\ \A t \in Threads : call[t].pc # "write"
    OBVIOUS
  <2>1. PICK t \in Threads : ClosePort(t)
    BY DEF Next, CallStep, StopStep, Begin, Acquire, Write, ClearAlive, Cancel, Join, JoinSelf,
           DataArrives, Unplug, Start, Woken, ReaderStep, SetUp, Check, InWaiting, ReadWaits,
           ReadReturns, ReadFails, Made, Received, Lost, vars, port
  <2>2. call[t].pc = "port" /\ call[t].kind = "close" /\ lock = t
    BY <2>1 DEF ClosePort, ReaderInv, CallsOK, CallOK
  <2>3. reader \notin {"waiting", "begun"} /\ (reader = "read" => cancels = "pending")
    BY <2>2 DEF ReaderInv, Stopped
  <2>4. ASSUME NEW u \in Threads PROVE call[u].pc # "write"
    BY <2>2 DEF ReaderInv, CallsOK, CallOK
  <2> QED
    BY <2>3, <2>4
<1> QED
  BY <1>1, InvInit, InvNext, PTL DEF Spec, ClosesIdlePort
=============================================================================

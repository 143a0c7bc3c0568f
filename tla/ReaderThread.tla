----------------------------- MODULE ReaderThread -----------------------------
(***************************************************************************)
(* serial.threaded.ReaderThread: a thread reads the port and calls the      *)
(* user's protocol; other threads, and the protocol itself, write through   *)
(* it, stop it or close the port.  Threads share `alive`, a lock and the    *)
(* event that connect() and the context manager wait for.                   *)
(*                                                                         *)
(* The user closes the port by close() of the thread only.  A callback may  *)
(* last longer than the two seconds of join(), and so may a read that       *)
(* nothing ends and a write; the other steps of the library do not.         *)
(***************************************************************************)
EXTENDS Naturals

CONSTANTS
  MaxCalls,  \* bound on the calls of each thread: write, stop, close
  MaxData    \* bound on the chunks of data that arrive

ASSUME ThreadAssumption == MaxCalls \in Nat /\ MaxData \in Nat

Threads == {"main", "aux", "reader"}
Callbacks == {"made", "received", "lost"}

VARIABLES
  cancels,    \* what the port's cancel_read does, see CancelKinds
  tells,      \* in_waiting of a failed port raises a SerialException, no OSError
  reraises,   \* connection_lost raises the exception it gets, as Protocol's does
  reader,     \* where run() is
  alive, connectionMade,
  error,      \* connection_lost is to be called with an exception (None if not)
  early,      \* ... because connection_made raised
  raising,    \* the callback under way has had an exception
  lock,       \* the holder of _lock
  call,       \* each thread's call of write, stop or close
  calls,
  enter,      \* the main thread's start() and wait for the event
  open, failed, data, cancel,   \* the port; cancel: its pipe holds a token
  told        \* history: the number of calls of connection_lost

(* A port without cancel_read gets a timeout of one second.  On POSIX the   *)
(* request lasts until a read finds it, in a pipe; so it does in the queue  *)
(* of loop://.  On Windows it ends the read that is pending and is          *)
(* forgotten if there is none.                                              *)
CancelKinds == {"none", "lasting", "pending"}

options == <<cancels, tells, reraises>>
run == <<reader, error, early, raising, told>>
port == <<open, failed, data, cancel>>
vars == <<options, run, alive, connectionMade, lock, call, calls, enter, port>>

None == "none"
NoCall == [pc |-> "none", kind |-> "none"]

Init ==
  /\ cancels \in CancelKinds /\ tells \in BOOLEAN /\ reraises \in BOOLEAN
  /\ reader = "new"
  /\ alive = TRUE /\ connectionMade = FALSE
  /\ error = FALSE /\ early = FALSE /\ raising = FALSE
  /\ lock = None
  /\ call = [t \in Threads |-> NoCall]
  /\ calls = [t \in Threads |-> 0]
  /\ enter = "new"
  /\ open = TRUE /\ failed = FALSE /\ data = 0 /\ cancel = FALSE
  /\ told = 0

Ended == reader \in {"done", "dead", "unborn"}
InCallback == reader \in Callbacks

(* The device sends, or is unplugged. *)
DataArrives ==
  /\ ~failed /\ data < MaxData
  /\ data' = data + 1
  /\ UNCHANGED <<options, run, alive, connectionMade, lock, call, calls, enter,
                 open, failed, cancel>>

Unplug ==
  /\ ~failed
  /\ failed' = TRUE
  /\ UNCHANGED <<options, run, alive, connectionMade, lock, call, calls, enter,
                 open, data, cancel>>
-----------------------------------------------------------------------------
(* __enter__, or start() and connect(). *)
Start ==
  /\ enter = "new"
  /\ enter' = "waiting"
  /\ reader' = "setup"
  /\ UNCHANGED <<options, alive, connectionMade, error, early, raising, told,
                 lock, call, calls, port>>

Woken ==
  /\ enter = "waiting" /\ connectionMade
  /\ enter' = IF alive THEN "connected" ELSE "refused"
  /\ UNCHANGED <<options, run, alive, connectionMade, lock, call, calls, port>>

(* Who may call: the main thread when it has the transport, or an exception *)
(* instead of it; another thread that was given the transport; and the      *)
(* protocol, from a callback.                                               *)
MayCall(t) ==
  /\ call[t] = NoCall
  /\ calls[t] < MaxCalls
  /\ CASE t = "main" -> enter \in {"connected", "refused"}
       [] t = "aux" -> enter = "connected"
       [] t = "reader" -> InCallback /\ ~raising

Begin(t) ==
  /\ MayCall(t)
  /\ \E c \in {[kind |-> "write", pc |-> "lock"], [kind |-> "close", pc |-> "lock"],
               [kind |-> "stop", pc |-> "alive"]} : call' = [call EXCEPT ![t] = c]
  /\ calls' = [calls EXCEPT ![t] = @ + 1]
  /\ UNCHANGED <<options, run, alive, connectionMade, lock, enter, port>>

(* A mutation of Acquire: close() does not take the lock. *)
AcquireUnlessClosing(t) ==
  /\ call[t].pc = "lock"
  /\ call[t].kind = "close" \/ lock = None
  /\ lock' = IF call[t].kind = "close" THEN lock ELSE t
  /\ call' = [call EXCEPT ![t].pc = IF call[t].kind = "write" THEN "write" ELSE "alive"]
  /\ UNCHANGED <<options, run, alive, connectionMade, calls, enter, port>>

Acquire(t) ==
  /\ call[t].pc = "lock"
  /\ lock = None
  /\ lock' = t
  /\ call' = [call EXCEPT ![t].pc = IF call[t].kind = "write" THEN "write" ELSE "alive"]
  /\ UNCHANGED <<options, run, alive, connectionMade, calls, enter, port>>

(* A mutation of Finish: an exception leaves the lock taken. *)
FinishLocked(t, raised) ==
  /\ call' = [call EXCEPT ![t] = NoCall]
  /\ lock' = IF lock = t /\ ~raised THEN None ELSE lock
  /\ raising' = (raising \/ (raised /\ t = "reader"))

(* The end of a call.  A lock taken by `with` is released; an exception in  *)
(* the reader thread goes through the callback that made the call.          *)
Finish(t, raised) ==
  /\ call' = [call EXCEPT ![t] = NoCall]
  /\ lock' = IF lock = t THEN None ELSE lock
  /\ raising' = (raising \/ (raised /\ t = "reader"))

(* serial.write, which raises when the port is closed or gone; it may wait  *)
(* for the device as long as that takes.                                    *)
Write(t) ==
  /\ call[t].pc = "write"
  /\ Finish(t, ~open \/ failed)
  /\ UNCHANGED <<options, reader, error, early, told, alive, connectionMade, calls,
                 enter, port>>

ClearAlive(t) ==
  /\ call[t].pc = "alive"
  /\ alive' = FALSE
  /\ call' = [call EXCEPT ![t].pc = "cancel"]
  /\ UNCHANGED <<options, run, connectionMade, lock, calls, enter, port>>

(* A read that nothing ends: neither the device nor the token or a timeout. *)
Blocked == reader = "read" /\ data = 0 /\ ~failed /\ open /\ cancels # "none" /\ ~cancel

(* The request to cancel_read is kept, meets a pending read or is lost. *)
Cancel(t) ==
  /\ call[t].pc = "cancel"
  /\ cancel' = (cancel \/ /\ open
                          /\ \/ cancels = "lasting"
                             \/ cancels = "pending" /\ Blocked)
  /\ call' = [call EXCEPT ![t].pc = "join"]
  /\ UNCHANGED <<options, run, alive, connectionMade, lock, calls, enter,
                 open, failed, data>>

(* A mutation of Join: it waits for the thread for as long as it takes. *)
JoinForever(t) ==
  /\ call[t].pc = "join" /\ t # "reader"
  /\ Ended
  /\ IF call[t].kind = "close"
     THEN call' = [call EXCEPT ![t].pc = "port"] /\ UNCHANGED <<lock, raising>>
     ELSE Finish(t, FALSE)
  /\ UNCHANGED <<options, reader, error, early, told, alive, connectionMade, calls,
                 enter, port>>

(* join(2) returns when the thread has ended or the two seconds are over:   *)
(* a callback or a read that nothing ends may last longer.                  *)
Join(t) ==
  /\ call[t].pc = "join" /\ t # "reader"
  /\ Ended \/ InCallback \/ Blocked
  /\ IF call[t].kind = "close"
     THEN call' = [call EXCEPT ![t].pc = "port"] /\ UNCHANGED <<lock, raising>>
     ELSE Finish(t, FALSE)
  /\ UNCHANGED <<options, reader, error, early, told, alive, connectionMade, calls,
                 enter, port>>

(* join() of the current thread raises; the port stays open. *)
JoinSelf ==
  /\ call["reader"].pc = "join"
  /\ Finish("reader", TRUE)
  /\ UNCHANGED <<options, reader, error, early, told, alive, connectionMade, calls,
                 enter, port>>

ClosePort(t) ==
  /\ call[t].pc = "port"
  /\ open' = FALSE
  /\ cancel' = FALSE
  /\ Finish(t, FALSE)
  /\ UNCHANGED <<options, reader, error, early, told, alive, connectionMade, calls,
                 enter, failed, data>>

StopStep(t) ==
  \/ Acquire(t) \/ ClearAlive(t) \/ Cancel(t) \/ Join(t) \/ ClosePort(t)
  \/ t = "reader" /\ JoinSelf

CallStep(t) == Write(t) \/ StopStep(t)
-----------------------------------------------------------------------------
(* run() *)
Lose(e) ==
  /\ reader' = "lost"
  /\ error' = e
  /\ told' = told + 1
  /\ alive' = FALSE

(* On a port without cancel_read the timeout is set; the protocol is made.  *)
(* Both may raise, and nothing handles that: the thread ends at once.       *)
SetUp(raised) ==
  /\ reader = "setup"
  /\ reader' = IF raised THEN "unborn" ELSE "made"
  /\ UNCHANGED <<options, error, early, raising, told, alive, connectionMade, lock,
                 call, calls, enter, port>>

(* while self.alive and self.serial.is_open *)
Check ==
  /\ reader = "check"
  /\ IF alive /\ open
     THEN reader' = "waiting" /\ UNCHANGED <<error, told, alive>>
     ELSE Lose(FALSE)
  /\ UNCHANGED <<options, early, raising, connectionMade, lock, call, calls, enter, port>>

(* A mutation of InWaiting: the exception ends the thread unseen. *)
InWaitingUnseen ==
  /\ reader = "waiting"
  /\ reader' = IF failed THEN "dead" ELSE "begun"
  /\ UNCHANGED <<options, error, early, raising, told, alive, connectionMade, lock,
                 call, calls, enter, port>>

(* serial.in_waiting; only a SerialException is handled. *)
InWaiting ==
  /\ reader = "waiting"
  /\ IF open /\ ~failed
     THEN reader' = "begun" /\ UNCHANGED <<error, told, alive>>
     ELSE IF tells THEN Lose(TRUE)
     ELSE reader' = "dead" /\ UNCHANGED <<error, told, alive>>
  /\ UNCHANGED <<options, early, raising, connectionMade, lock, call, calls, enter, port>>

(* serial.read has begun; the request to the driver is pending only now.    *)
ReadWaits ==
  /\ reader = "begun" /\ open /\ ~failed
  /\ reader' = "read"
  /\ UNCHANGED <<options, error, early, raising, told, alive, connectionMade, lock,
                 call, calls, enter, port>>

(* It returns: data, the token of cancel_read, the timeout or an error; on  *)
(* Windows _close() cancels the read that is pending.                       *)
ReadReturns ==
  /\ reader = "read"
  /\ IF open THEN ~failed ELSE cancels = "pending"
  /\ \/ /\ cancel \/ ~open
        /\ cancel' = FALSE /\ reader' = "check" /\ UNCHANGED data
     \/ /\ data > 0 /\ ~cancel /\ open
        /\ data' = 0 /\ reader' = "received" /\ UNCHANGED cancel
     \/ /\ data = 0 /\ cancels = "none" /\ open
        /\ reader' = "check" /\ UNCHANGED <<data, cancel>>
  /\ UNCHANGED <<options, error, early, raising, told, alive, connectionMade, lock,
                 call, calls, enter, open, failed>>

ReadFails ==
  /\ reader \in {"begun", "read"} /\ (failed \/ ~open)
  /\ Lose(TRUE)
  /\ UNCHANGED <<options, early, raising, connectionMade, lock, call, calls, enter, port>>

(* The callback under way ends, by itself or with an exception: of its own  *)
(* or of a call it made.                                                    *)
CallbackEnds(raised) == call["reader"] = NoCall /\ (raising => raised)

Made(raised) ==
  /\ reader = "made" /\ CallbackEnds(raised)
  /\ raising' = FALSE
  /\ early' = raised
  /\ IF raised
     THEN Lose(TRUE) /\ UNCHANGED connectionMade
     ELSE /\ reader' = "check"
          /\ connectionMade' = TRUE
          /\ UNCHANGED <<error, told, alive>>
  /\ UNCHANGED <<options, lock, call, calls, enter, port>>

Received(raised) ==
  /\ reader = "received" /\ CallbackEnds(raised)
  /\ raising' = FALSE
  /\ IF raised THEN Lose(TRUE)
     ELSE reader' = "check" /\ UNCHANGED <<error, told, alive>>
  /\ UNCHANGED <<options, early, connectionMade, lock, call, calls, enter, port>>

(* A mutation of Lost: nobody tells the waiting thread of the failure. *)
LostSilently(raised) ==
  /\ reader = "lost" /\ CallbackEnds(raised)
  /\ reraises /\ error => raised
  /\ ~raising /\ ~(reraises /\ error) => ~raised
  /\ raising' = FALSE
  /\ reader' = IF raised THEN "dead" ELSE "done"
  /\ UNCHANGED <<options, error, early, told, alive, connectionMade, lock, call, calls,
                 enter, port>>

(* connection_lost has returned or raised; after connection_made failed,    *)
(* the event is set only now, and not if it raised.                         *)
Lost(raised) ==
  /\ reader = "lost" /\ CallbackEnds(raised)
  /\ reraises /\ error => raised
  /\ ~raising /\ ~(reraises /\ error) => ~raised
  /\ raising' = FALSE
  /\ reader' = IF raised THEN "dead" ELSE "done"
  /\ connectionMade' = (connectionMade \/ (early /\ ~raised))
  /\ UNCHANGED <<options, error, early, told, alive, lock, call, calls, enter, port>>

ReaderStep ==
  \/ Check \/ InWaiting \/ ReadWaits \/ ReadReturns \/ ReadFails
  \/ \E raised \in BOOLEAN :
       SetUp(raised) \/ Made(raised) \/ Received(raised) \/ Lost(raised)

Next ==
  \/ DataArrives \/ Unplug \/ Start \/ Woken
  \/ \E t \in Threads : Begin(t) \/ CallStep(t)
  \/ ReaderStep

(* Every thread runs and callbacks come to an end.  The device and the      *)
(* calls of the user are free, and so is a write, which may wait for a      *)
(* device that takes nothing; the calls are finitely many, so that a lock   *)
(* which is not handed out in any order still reaches every caller.         *)
Fairness ==
  /\ WF_vars(ReaderStep) /\ WF_vars(Woken)
  /\ \A t \in Threads : WF_vars(StopStep(t))

Spec == Init /\ [][Next]_vars
FairSpec == Spec /\ Fairness
-----------------------------------------------------------------------------
(* Types; a lock is held only by a thread that is in a call.                *)
TypeOK ==
  /\ cancels \in CancelKinds
  /\ {tells, reraises, alive, connectionMade, error, early, raising,
      open, failed, cancel} \subseteq BOOLEAN
  /\ reader \in Callbacks \cup {"new", "setup", "check", "waiting", "begun", "read",
                                "done", "dead", "unborn"}
  /\ lock \in Threads \cup {None}
  /\ call \in [Threads -> [pc : {"none", "lock", "write", "alive", "cancel", "join", "port"},
                           kind : {"none", "write", "stop", "close"}]]
  /\ \A t \in Threads : lock = t => call[t].kind \in {"write", "close"}
  /\ calls \in [Threads -> 0 .. MaxCalls]
  /\ enter \in {"new", "waiting", "connected", "refused"}
  /\ data \in 0 .. MaxData
  /\ told \in 0 .. 1

(* The docstring of connection_lost: "Called when the serial port is closed *)
(* or the reader loop terminated otherwise."                                *)
LostIsTold == reader \in {"done", "dead"} => told = 1

(* A protocol that was connected (its connection_made called, whatever came *)
(* of it) hears of the end, and the thread is marked as ended, when a       *)
(* failed port raises SerialExceptions only, through errors in callbacks,   *)
(* in calls made from them and while they are being stopped.                *)
LostIsToldBySerialExceptions ==
  tells /\ reader \in {"done", "dead"} => told = 1 /\ ~alive

(* The comment in close(): "first stop reading, so that closing can be done *)
(* on idle port", and the lock "to let other threads finish writing".  At   *)
(* the step that closes the port no thread is in serial.write, and the      *)
(* reader is neither in serial.read nor about to enter it, even if it did   *)
(* not end in time: but for a Windows port, where the request to cancel may *)
(* have been forgotten and the read is pending in the driver.               *)
ClosesIdlePort ==
  [][open /\ ~open' =>
       /\ reader \notin {"waiting", "begun"}
       /\ reader = "read" => cancels = "pending"
       /\ \A t \in Threads : call[t].pc # "write"]_vars

(* No write waits for the device for ever. *)
WritesReturn == \A t \in Threads : []<>(call[t].pc # "write")

(* If writes come back, then write, stop and close always do (the calls are *)
(* finitely many, so all have returned again and again), though close()     *)
(* holds the lock while it joins a thread that may be waiting for it, and   *)
(* callbacks may stop or close the thread they run in.  A thread that was   *)
(* stopped, by whomever, ends: no read stays blocked, not even when two     *)
(* threads stop it at once or the token came too early, except on Windows;  *)
(* there it may remain in a read that nothing ends.  When the port is       *)
(* closed, the thread ends on every platform.                               *)
CallsReturn ==
  WritesReturn =>
    /\ []<>(\A t \in Threads : call[t] = NoCall)
    /\ (~alive) ~> (Ended \/ (cancels = "pending" /\ Blocked))
    /\ (~open) ~> Ended

(* Entering the context returns or raises, in every case but two: that both *)
(* connection_made and then connection_lost raised, and that the thread     *)
(* ended before the protocol was connected, when the port refused its       *)
(* timeout or the protocol could not be made.                               *)
EnterReturnsOrLostRaised ==
  WritesReturn =>
    (enter = "waiting") ~>
      (enter # "waiting" \/ (early /\ reader = "dead") \/ reader = "unborn")
=============================================================================

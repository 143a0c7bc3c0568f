------------------------------- MODULE QueuePort -------------------------------
(***************************************************************************)
(* The ports whose read() takes bytes from a queue: rfc2217:// and          *)
(* cp2110://, where a thread of the port fills it, and loop://, where       *)
(* write() does.  One thread reads, another one resets the input buffer or  *)
(* cancels, a third one closes the port; the peer may hang up.  None in the *)
(* queue tells one read that there is no more.                              *)
(***************************************************************************)
EXTENDS Naturals, SequencesExt, FiniteSetsExt

CONSTANTS
  MaxSize,     \* bound on the size of a read
  MaxReads,    \* bound on the reads
  MaxFed,      \* bound on the bytes that arrive
  BufferSize   \* of the queue of loop://

ASSUME QueueAssumption == {MaxSize, MaxReads, MaxFed, BufferSize} \subseteq Nat \ {0}

Backends == {"rfc2217", "cp2110", "loop"}

VARIABLES
  backend,
  timeout,     \* of reads: "none", or "finite" (zero included)
  isOpen,
  thread,      \* self._thread is set
  feeder,      \* where the port's own thread is
  peer,        \* the connection, or the device, is there
  shut,        \* the port's own end is shut down
  queue,       \* chunks of bytes, or End
  writer,      \* a write() of loop:// is putting its bytes
  fed,         \* the bytes that arrived so far are 1 .. fed
  rd,          \* the read under way
  reads,
  returned,    \* history: what reads returned
  vanished,    \* history: bytes were discarded by a reset, or with an exception
  taken,       \* history: some End was taken out of the queue
  untold,      \* history: an exception ended the port's thread without an End
  reset, closer   \* where the other two threads are

config == <<backend, timeout>>
history == <<returned, vanished, taken, untold>>
port == <<isOpen, thread, peer, shut>>
input == <<queue, fed>>
reader == <<rd, reads>>
users == <<writer, reset, closer>>
queueVars == <<config, port, feeder, input, reader, history, users>>

End == <<>>
NoRead == [pc |-> "idle", size |-> 0, data |-> <<>>]

QueueInit ==
  /\ backend \in Backends
  /\ timeout \in {"none", "finite"}
  /\ isOpen = TRUE
  /\ thread = (backend # "loop")
  /\ feeder = IF backend = "loop" THEN "gone" ELSE "check"
  /\ peer = TRUE /\ shut = FALSE
  /\ queue = <<>> /\ writer = FALSE /\ fed = 0
  /\ rd = NoRead /\ reads = 0
  /\ returned = <<>> /\ vanished = FALSE /\ taken = FALSE /\ untold = FALSE
  /\ reset = "idle" /\ closer = "idle"
-----------------------------------------------------------------------------
(* The bytes fed next, in chunks of up to n.                                *)
Arrives(n) == {[i \in 1 .. k |-> fed + i] : k \in 1 .. Min({n, MaxFed - fed})}

(* _telnet_read_loop and _hid_read_loop.                                    *)
FeederCheck ==
  /\ feeder = "check"
  /\ feeder' = IF isOpen THEN "recv" ELSE "dying"
  /\ UNCHANGED <<config, port, input, reader, history, users>>

FeederTimeout ==
  /\ feeder = "recv"
  /\ feeder' = "check"
  /\ UNCHANGED <<config, port, input, reader, history, users>>

(* rfc2217 puts its bytes one by one, cp2110 a report as a whole.           *)
Chunk == IF backend = "cp2110" THEN 2 ELSE 1

(* What recv() of rfc2217 returned is put without another look at is_open.  *)
FeederPut ==
  /\ feeder = "put" \/ (feeder = "recv" /\ peer /\ ~shut)
  /\ fed < MaxFed
  /\ \E c \in Arrives(Chunk) :
       queue' = Append(queue, c) /\ fed' = fed + Len(c)
  /\ feeder' \in {"check"} \cup {p \in {"put"} : backend = "rfc2217" /\ fed' < MaxFed}
  /\ UNCHANGED <<config, port, reader, history, users>>

(* A mutation of FeederLost: the loop ends without a word. *)
FeederLostSilently ==
  /\ feeder = "recv" /\ (~peer \/ shut)
  /\ feeder' = "dying"
  /\ UNCHANGED <<config, port, input, reader, history, users>>

(* The end of the connection: rfc2217 says so to the reader; an exception   *)
(* of the HID library ends the loop of cp2110.                              *)
FeederLost ==
  /\ feeder = "recv" /\ (~peer \/ shut)
  /\ feeder' = "dying"
  /\ queue' = IF backend = "rfc2217" THEN Append(queue, End) ELSE queue
  /\ UNCHANGED <<config, port, fed, reader, history, users>>

(* Received bytes are processed outside of the try around recv(): one that  *)
(* ends a subnegotiation which never began, an answer that cannot be sent   *)
(* any more, or a report of cp2110 of another length than it says, ends the *)
(* thread without a None.  So does recv() once close() has forgotten the    *)
(* socket.                                                                  *)
FeederRaises ==
  /\ \/ feeder = "put" \/ (feeder = "recv" /\ peer /\ ~shut)
     \/ feeder = "recv" /\ backend = "rfc2217" /\ closer = "done"
  /\ feeder' = "dying"
  /\ untold' = TRUE
  /\ UNCHANGED <<config, port, input, reader, returned, vanished, taken, users>>

(* The thread is over; cp2110's takes its own reference away.               *)
FeederDies ==
  /\ feeder = "dying"
  /\ feeder' = "gone"
  /\ thread' = (thread /\ backend # "cp2110")
  /\ UNCHANGED <<config, isOpen, peer, shut, input, reader, history, users>>

FeederStep ==
  FeederCheck \/ FeederTimeout \/ FeederPut \/ FeederLost \/ FeederRaises \/ FeederDies

(* write() of loop:// looks at is_open once, then puts byte after byte; a   *)
(* full queue makes it wait, for ever or until its write timeout.           *)
StartWrite ==
  /\ backend = "loop" /\ isOpen /\ ~writer
  /\ fed < MaxFed
  /\ writer' = TRUE
  /\ UNCHANGED <<config, port, feeder, input, reader, history, reset, closer>>

WriteByte ==
  /\ writer /\ fed < MaxFed /\ Len(queue) < BufferSize
  /\ queue' = Append(queue, <<fed + 1>>)
  /\ fed' = fed + 1
  /\ UNCHANGED <<config, port, feeder, reader, history, users>>

EndWrite ==
  /\ writer
  /\ writer' = FALSE
  /\ UNCHANGED <<config, port, feeder, input, reader, history, reset, closer>>

WriteStep == StartWrite \/ WriteByte \/ EndWrite

HangUp ==
  /\ backend # "loop" /\ peer
  /\ peer' = FALSE
  /\ UNCHANGED <<config, isOpen, thread, shut, feeder, input, reader, history,
                 users>>
-----------------------------------------------------------------------------
(* read(size)                                                               *)
Return(d) == returned' = returned \o d /\ rd' = NoRead /\ UNCHANGED vanished

Raise == vanished' = (vanished \/ rd.data # <<>>) /\ rd' = NoRead /\ UNCHANGED returned

StartRead ==
  /\ rd.pc = "idle" /\ isOpen /\ reads < MaxReads
  /\ \E n \in 1 .. MaxSize : rd' = [pc |-> "test", size |-> n, data |-> <<>>]
  /\ reads' = reads + 1
  /\ UNCHANGED <<config, port, feeder, input, history, users>>

(* self._thread is None or not self._thread.is_alive() *)
ThreadDied ==
  \/ backend = "rfc2217" /\ (~thread \/ feeder = "gone")
  \/ backend = "cp2110" /\ ~thread

(* The head of the loop: enough, no thread any more, or wait.               *)
Test ==
  /\ rd.pc = "test"
  /\ CASE Len(rd.data) >= rd.size \/ (backend = "loop" /\ ~isOpen) -> Return(rd.data)
       [] Len(rd.data) < rd.size /\ ThreadDied -> Raise
       [] OTHER -> rd' = [rd EXCEPT !.pc = "get"] /\ UNCHANGED <<returned, vanished>>
  /\ UNCHANGED <<config, port, feeder, input, reads, taken, untold, users>>

(* A mutation of Get: the end of the queue takes the read's bytes with it. *)
GetNothing ==
  /\ rd.pc = "get" /\ queue # <<>>
  /\ queue' = Tail(queue)
  /\ IF Head(queue) = End THEN Return(<<>>)
     ELSE LET d == rd.data \o Head(queue) IN
       \/ timeout = "finite" /\ Return(d)
       \/ rd' = [rd EXCEPT !.pc = "test", !.data = d] /\ UNCHANGED <<returned, vanished>>
  /\ taken' = (taken \/ Head(queue) = End)
  /\ UNCHANGED <<config, port, feeder, fed, reads, untold, users>>

(* None ends the read; so may the timeout, after an item was taken ...      *)
Get ==
  /\ rd.pc = "get" /\ queue # <<>>
  /\ queue' = Tail(queue)
  /\ LET d == rd.data \o Head(queue) IN
       \/ (Head(queue) = End \/ timeout = "finite") /\ Return(d)
       \/ /\ Head(queue) # End
          /\ rd' = [rd EXCEPT !.pc = "test", !.data = d]
          /\ UNCHANGED <<returned, vanished>>
  /\ taken' = (taken \/ Head(queue) = End)
  /\ UNCHANGED <<config, port, feeder, fed, reads, untold, users>>

(* ... or while there is none.                                              *)
GetTimeout ==
  /\ rd.pc = "get" /\ queue = <<>> /\ timeout = "finite"
  /\ Return(rd.data)
  /\ UNCHANGED <<config, port, feeder, input, reads, taken, untold, users>>

ReadStep == Test \/ Get \/ GetTimeout
-----------------------------------------------------------------------------
(* reset_input_buffer: rfc2217 and cp2110 first tell the other end, which   *)
(* may fail; then the queue is emptied item by item.                        *)
StartReset ==
  /\ reset = "idle" /\ isOpen
  /\ reset' \in {"drain"} \cup {p \in {"done"} : backend # "loop"}
  /\ UNCHANGED <<config, port, feeder, input, reader, history, writer, closer>>

Drain ==
  /\ reset = "drain" /\ queue # <<>>
  /\ queue' = Tail(queue)
  /\ vanished' = (vanished \/ Head(queue) # End)
  /\ taken' = (taken \/ Head(queue) = End)
  /\ UNCHANGED <<config, port, feeder, fed, reader, returned, untold, users>>

(* qsize() is zero, or a read took the item it had counted.                *)
EndReset ==
  /\ reset = "drain"
  /\ queue = <<>>
  /\ reset' = "done"
  /\ UNCHANGED <<config, port, feeder, input, reader, history, writer, closer>>

(* cancel_read of loop://, which fails when the queue is full.              *)
CancelRead ==
  /\ backend = "loop" /\ reset = "idle"
  /\ Len(queue) < BufferSize
  /\ queue' = Append(queue, End)
  /\ reset' = "done"
  /\ UNCHANGED <<config, port, feeder, fed, reader, history, writer, closer>>

ResetStep == Drain \/ EndReset
-----------------------------------------------------------------------------
(* close()                                                                  *)
CloseFlag ==
  /\ closer = "idle"
  /\ isOpen' = FALSE
  /\ closer' = "shutdown"
  /\ UNCHANGED <<config, thread, peer, shut, feeder, input, reader, history,
                 writer, reset>>

(* The socket is shut down; loop:// wakes the reader if the queue has room. *)
CloseShutdown ==
  /\ closer = "shutdown"
  /\ shut' = (backend = "rfc2217")
  /\ queue' = IF backend = "loop" /\ Len(queue) < BufferSize THEN Append(queue, End)
              ELSE queue
  /\ closer' = IF backend # "loop" /\ thread THEN "join" ELSE "handle"
  /\ UNCHANGED <<config, isOpen, thread, peer, feeder, fed, reader, history,
                 writer, reset>>

(* self._thread.join() takes the reference a second time: cp2110's thread   *)
(* may have taken it away in between.  It comes back when the thread is     *)
(* gone, and after its timeout.                                             *)
CloseJoin ==
  /\ closer = "join"
  /\ closer' = IF thread THEN "handle" ELSE "failed"
  /\ thread' = FALSE
  /\ UNCHANGED <<config, isOpen, peer, shut, feeder, input, reader, history,
                 writer, reset>>

CloseHandle ==
  /\ closer = "handle"
  /\ shut' = TRUE
  /\ closer' = "done"
  /\ UNCHANGED <<config, isOpen, thread, peer, feeder, input, reader, history,
                 writer, reset>>

CloseStep == CloseShutdown \/ CloseJoin \/ CloseHandle

QueueNext ==
  \/ FeederStep \/ WriteStep \/ HangUp
  \/ StartRead \/ ReadStep
  \/ StartReset \/ ResetStep \/ CancelRead
  \/ CloseFlag \/ CloseStep

(* Every thread runs.  recv() that fails at once is not put off for ever by *)
(* timeouts.  Data, the peer and the calls of the user are free.            *)
QueueFairness ==
  /\ WF_queueVars(FeederStep) /\ SF_queueVars(FeederLost)
  /\ WF_queueVars(ReadStep) /\ WF_queueVars(ResetStep) /\ WF_queueVars(CloseStep)

QueueSpec == QueueInit /\ [][QueueNext]_queueVars
QueueFairSpec == QueueSpec /\ QueueFairness
-----------------------------------------------------------------------------
(* Types.                                                                   *)
QueueTypeOK ==
  /\ backend \in Backends /\ timeout \in {"none", "finite"}
  /\ {isOpen, thread, peer, shut, writer, vanished, taken, untold} \subseteq BOOLEAN
  /\ feeder \in {"check", "recv", "put", "dying", "gone"}
  /\ queue \in Seq(Seq(1 .. MaxFed))
  /\ backend = "loop" => Len(queue) <= BufferSize
  /\ fed \in 0 .. MaxFed
  /\ rd \in [pc : {"idle", "test", "get"}, size : 0 .. MaxSize, data : Seq(1 .. MaxFed)]
  /\ rd.pc = "idle" => rd = NoRead
  /\ reads \in 0 .. MaxReads
  /\ returned \in Seq(1 .. MaxFed)
  /\ reset \in {"idle", "drain", "done"}
  /\ closer \in {"idle", "shutdown", "join", "handle", "done", "failed"}

Held == returned \o rd.data \o FlattenSeq(queue)

(* Every byte that arrived was returned once, in order, or is still to be   *)
(* read, through timeouts, cancelled reads and the end of the connection;   *)
(* only a reset discards, and an exception of a read that had some already. *)
(* Where the queue holds single bytes a read has never more than it asked   *)
(* for.  With the types.                                                    *)
NothingVanishes ==
  /\ QueueTypeOK
  /\ IF vanished THEN \A i, j \in DOMAIN Held : i < j => Held[i] < Held[j]
     ELSE Held = [i \in 1 .. fed |-> i]
  /\ backend # "cp2110" => Len(rd.data) <= rd.size

(* A read of rfc2217:// that waits when the connection is lost returns,     *)
(* without a timeout too, as long as the one None that tells of the loss    *)
(* was not taken before, the port is not closed meanwhile, and the port's   *)
(* thread was not ended by an exception of what it makes of received bytes, *)
(* which puts no None.  Closing loop:// ends the read under way, also when  *)
(* the queue had no room for its None, unless a reset under way takes the   *)
(* None, or the bytes that were in its place.  And the port's thread ends,  *)
(* however it does, and close() comes back.                                 *)
EndsAreTold ==
  /\ (backend = "rfc2217" /\ rd.pc = "get" /\ ~peer)
       ~> (rd.pc # "get" \/ taken \/ ~isOpen \/ untold)
  /\ (backend = "loop" /\ ~isOpen) ~> (rd.pc = "idle" \/ taken \/ vanished)
  /\ (~isOpen) ~> (feeder = "gone" /\ closer \in {"done", "failed"})
=============================================================================

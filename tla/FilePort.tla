------------------------------- MODULE FilePort -------------------------------
(***************************************************************************)
(* read() and write() of the ports of an operating system:                  *)
(* serial/serialposix.py, with select, with poll() and with the tty's       *)
(* VTIME; socket://; serialwin32.py with its overlapped calls; serialcli.py *)
(* and serialjava.py, which read byte by byte; and rs485.py, which switches *)
(* RTS around the write of any of them.  The device sends, takes what is    *)
(* written as fast as it likes, and may go; another thread cancels a call,  *)
(* resets the input buffer or reads it empty.                               *)
(*                                                                          *)
(* The two directions share nothing but the device: a behaviour has one of  *)
(* them.  The port is closed and opened again while it is idle, as the      *)
(* reader thread does it (ClosesIdlePort of ReaderThread).  System calls    *)
(* that a signal interrupts are retried by Python.                          *)
(***************************************************************************)
EXTENDS Integers, SequencesExt, FiniteSetsExt

CONSTANTS
  MaxSize,    \* bound on the size of a read and on the data of a write
  MaxCalls,   \* bound on the reads and writes
  MaxFed,     \* bound on the bytes that arrive
  MaxCancels, \* bound on the calls of cancel_read and cancel_write
  Room        \* of the driver's output buffer

ASSUME FileAssumption == {MaxSize, MaxCalls, MaxFed, MaxCancels, Room} \subseteq Nat \ {0}

Classes == {"select", "poll", "vtime", "socket", "overlapped", "net", "java"}
Polling == {"select", "poll", "socket"}
Bytewise == {"net", "java"}
Timeouts == {"none", "zero", "finite"}

VARIABLES
  class, direction, timeout,
  rs485,       \* the port is an RS485, with settings (without: as if it were none)
  rts,         \* its RTS has the level for sending
  gone,        \* the device, or the socket's peer, is away
  input, fed,  \* the bytes that arrived so far are 1 .. fed
  room,        \* free bytes of the output buffer, less what waits for one
  sent,        \* what the device has taken
  written,     \* the bytes handed to write() so far are 1 .. written
  tokens,      \* in the pipe of the direction; the overlapped call is cancelled
  cancels,     \* the calls that put them
  calls,
  rd, wr,      \* the read and the write under way
  returned,    \* history: what reads returned
  discarded,   \* history: input was reset, lost with the device or an exception
  result       \* history: how the last call ended

config == <<class, direction, timeout, rs485>>
device == <<gone, rts>>
output == <<room, sent, written, wr>>
source == <<input, fed>>
reading == <<rd, returned, discarded>>
pipe == <<tokens, cancels>>
vars == <<config, device, source, output, pipe, calls, reading, result>>

(* reset: history, the input was emptied after the wait told of some.       *)
NoRead == [pc |-> "idle", size |-> 0, data |-> <<>>, late |-> FALSE, bound |-> FALSE,
           reset |-> FALSE]
NoWrite == [pc |-> "idle", left |-> <<>>, total |-> 0, n |-> 0, pushed |-> 0, late |-> FALSE]
Result(how, count, pushed) == [how |-> how, count |-> count, pushed |-> pushed]

(* .NET has no WriteTimeout of 0.                                           *)
Init ==
  /\ class \in Classes /\ direction \in {"read", "write"} /\ timeout \in Timeouts
  /\ direction = "write" /\ timeout = "zero" => class # "net"
  /\ rs485 \in BOOLEAN /\ (rs485 => direction = "write" /\ class # "socket")
  /\ rts = FALSE
  /\ gone = FALSE
  /\ input = <<>> /\ fed = 0
  /\ room = Room /\ sent = <<>> /\ written = 0
  /\ tokens = 0 /\ cancels = 0 /\ calls = 0
  /\ rd = NoRead /\ wr = NoWrite
  /\ returned = <<>> /\ discarded = FALSE
  /\ result = Result("ok", 0, 0)

Numbered(first, n) == [i \in 1 .. n |-> first + i]
-----------------------------------------------------------------------------
(* The device and the time.                                                 *)
Feed ==
  /\ direction = "read" /\ ~gone /\ fed < MaxFed
  /\ input' = Append(input, fed + 1) /\ fed' = fed + 1
  /\ UNCHANGED <<config, device, output, pipe, calls, reading, result>>

Drain ==
  /\ ~gone /\ room < Room
  /\ room' = room + 1
  /\ UNCHANGED <<config, device, source, sent, written, wr, pipe, calls, reading, result>>

(* What a tty has received is lost when it hangs up.                        *)
Unplug ==
  /\ ~gone
  /\ gone' = TRUE
  /\ \E keep \in BOOLEAN :
       /\ class = "socket" => keep
       /\ input' = IF keep THEN input ELSE <<>>
       /\ discarded' = (discarded \/ ~keep)
  /\ UNCHANGED <<config, rts, fed, output, pipe, calls, rd, returned, result>>

Expire ==
  /\ timeout = "finite"
  /\ \/ rd.pc # "idle" /\ rd' = [rd EXCEPT !.late = TRUE] /\ UNCHANGED wr
     \/ wr.pc # "idle" /\ wr' = [wr EXCEPT !.late = TRUE] /\ UNCHANGED rd
  /\ UNCHANGED <<config, device, source, room, sent, written, pipe, calls,
                 returned, discarded, result>>

Idle == rd.pc = "idle" /\ wr.pc = "idle"

(* close() and open(): new pipes, an empty input buffer.                    *)
Reopen ==
  /\ Idle /\ ~gone
  /\ tokens' = 0
  /\ input' = <<>>
  /\ discarded' = TRUE
  /\ UNCHANGED <<config, device, fed, output, cancels, calls, rd, returned, result>>

Pending == "pending" \in {rd.pc, wr.pc}

(* reset_input_buffer(), or a reader of another thread or program.  The     *)
(* PurgeComm of Windows aborts the read that is pending, too.               *)
ResetInput ==
  /\ direction = "read"
  /\ input' = <<>>
  /\ discarded' = TRUE
  /\ rd' = IF rd.pc = "take" THEN [rd EXCEPT !.reset = TRUE] ELSE rd
  /\ tokens' = IF class = "overlapped" /\ Pending THEN 1 ELSE tokens
  /\ UNCHANGED <<config, device, fed, output, cancels, calls, returned, result>>

(* Which calls can be cancelled: cancel_read, cancel_write.                 *)
Cancellable == class \in IF direction = "read" THEN {"select", "poll", "overlapped"}
                                               ELSE {"select", "poll", "vtime", "overlapped"}

(* A byte in the pipe stays there until a call takes it.                    *)
(* _cancel_overlapped_io: a call that is not pending, or not yet, is not    *)
(* cancelled, and the request is forgotten.                                 *)
CancelToken ==
  IF class # "overlapped" THEN tokens + 1
  ELSE IF Pending THEN 1 ELSE tokens

Cancel ==
  /\ Cancellable /\ cancels < MaxCancels
  /\ tokens' = CancelToken
  /\ cancels' = cancels + 1
  /\ UNCHANGED <<config, device, source, output, calls, reading, result>>
-----------------------------------------------------------------------------
(* read(size): wait for the device or the pipe, then take.                  *)
StartRead ==
  /\ direction = "read" /\ Idle /\ calls < MaxCalls
  /\ \E n \in 1 .. MaxSize :
       rd' = [NoRead EXCEPT !.pc = CASE class \in Polling -> "wait"
                                     [] class = "vtime" -> "take"
                                     [] class \in Bytewise -> "byte"
                                     [] class = "overlapped" -> "submit",
                            !.size = n]
  /\ calls' = calls + 1
  /\ UNCHANGED <<config, device, source, output, pipe, returned, discarded, result>>

Return(data) ==
  /\ returned' = returned \o data
  /\ rd' = NoRead
  /\ result' = Result("ok", Len(data), 0)
  /\ UNCHANGED discarded

Raise ==
  /\ discarded' = (discarded \/ rd.data # <<>>)
  /\ rd' = NoRead
  /\ result' = Result("raised", 0, 0)
  /\ UNCHANGED returned

Continue(r) == rd' = r /\ UNCHANGED <<returned, discarded, result>>

TimeIsUp == rd.late \/ timeout = "zero"
Readable == input # <<>> \/ gone

(* A mutation of WaitCancelled: the bytes of the read are dropped. *)
WaitCancelledDropping ==
  /\ rd.pc = "wait" /\ tokens > 0
  /\ tokens' = 0
  /\ Return(<<>>)
  /\ UNCHANGED <<config, device, source, output, cancels, calls>>

(* Every token is taken, and what was read so far is returned.              *)
WaitCancelled ==
  /\ rd.pc = "wait" /\ tokens > 0
  /\ tokens' = 0
  /\ Return(rd.data)
  /\ UNCHANGED <<config, device, source, output, cancels, calls>>

(* poll() tells of the device's end, and its loop may come to that first.   *)
WaitReady ==
  /\ rd.pc = "wait" /\ Readable
  /\ \/ /\ class = "poll" /\ gone
        /\ Raise
     \/ /\ tokens = 0 /\ ~(class = "poll" /\ gone)
        /\ Continue([rd EXCEPT !.pc = "take", !.bound = TRUE, !.reset = FALSE])
  /\ UNCHANGED <<config, device, source, output, pipe, calls>>

(* A mutation of WaitTimeout: the read goes on without a look at `ready`.   *)
WaitTimeoutReads ==
  /\ rd.pc = "wait" /\ ~Readable /\ tokens = 0 /\ TimeIsUp
  /\ Continue([rd EXCEPT !.pc = "take", !.reset = FALSE])
  /\ UNCHANGED <<config, device, source, output, pipe, calls>>

(* PosixPollSerial.read then uses the variable of its loop over the events: *)
(* it is not bound yet, or has the device in it from the time before.       *)
WaitTimeout ==
  /\ rd.pc = "wait" /\ ~Readable /\ tokens = 0 /\ TimeIsUp
  /\ IF class # "poll" THEN Return(rd.data)
     ELSE IF rd.bound THEN Continue([rd EXCEPT !.pc = "take", !.reset = FALSE])
     ELSE Raise
  /\ UNCHANGED <<config, device, source, output, pipe, calls>>

(* The end of the loop's body; VTIME has no look at the time.               *)
AfterTake(r) ==
  IF Len(r.data) >= r.size \/ (TimeIsUp /\ class # "vtime") THEN Return(r.data)
  ELSE Continue([r EXCEPT !.pc = IF class = "vtime" THEN "take" ELSE "wait"])

Wanted == rd.size - Len(rd.data)

Take ==
  /\ rd.pc = "take" /\ input # <<>>
  /\ \E n \in 1 .. Min({Wanted, Len(input)}) :
       /\ AfterTake([rd EXCEPT !.data = @ \o SubSeq(input, 1, n)])
       /\ input' = SubSeq(input, n + 1, Len(input))
  /\ UNCHANGED <<config, device, fed, output, pipe, calls>>

(* Ready, but without data: the device is away.                             *)
TakeNothing ==
  /\ rd.pc = "take" /\ input = <<>> /\ gone
  /\ CASE class \in {"select", "socket"} -> Raise
       [] class = "poll" -> AfterTake(rd)
       [] class = "vtime" -> Return(rd.data)
  /\ UNCHANGED <<config, device, source, output, pipe, calls>>

(* Ready, and emptied since.  A socket answers EAGAIN, which is caught.  A  *)
(* tty with VMIN and VTIME of 0 reads no bytes, as Linux does it, or        *)
(* answers EAGAIN, as it does with an inter_byte_timeout: Serial takes the  *)
(* first for an error, PosixPollSerial does not catch the second.  With     *)
(* VTIME it waits for its first byte, for its own time, if it has one.      *)
TakeBlocked ==
  /\ rd.pc = "take" /\ input = <<>> /\ ~gone
  /\ CASE class = "socket" -> AfterTake(rd)
       [] class \in {"select", "poll"} -> AfterTake(rd) \/ Raise
       [] class = "vtime" -> timeout # "none" /\ Return(rd.data)
  /\ UNCHANGED <<config, device, source, output, pipe, calls>>

(* Windows.  Without time to wait, ReadFile is asked for what has arrived.  *)
ReadFile ==
  /\ rd.pc = "submit"
  /\ LET n == IF timeout = "zero" THEN Min({rd.size, Len(input)}) ELSE rd.size IN
       CASE gone -> Raise
         [] ~gone /\ n = 0 -> Return(<<>>)
         [] OTHER -> Continue([rd EXCEPT !.pc = "pending", !.size = n])
  /\ UNCHANGED <<config, device, source, output, pipe, calls>>

(* GetOverlappedResult: all bytes are there, the time is up or the call was *)
(* aborted.  A device that goes aborts it too, or makes it fail.            *)
ReadPending ==
  /\ rd.pc = "pending"
  /\ \/ /\ Len(input) >= rd.size \/ TimeIsUp \/ tokens > 0 \/ gone
        /\ LET n == Min({rd.size, Len(input)}) IN
             /\ Return(SubSeq(input, 1, n))
             /\ input' = SubSeq(input, n + 1, Len(input))
     \/ gone /\ Raise /\ UNCHANGED input
  /\ tokens' = 0
  /\ UNCHANGED <<config, device, fed, output, cancels, calls>>

(* .NET and Java: each byte has the timeout for itself.                     *)
ReadByte ==
  /\ rd.pc = "byte" /\ input # <<>>
  /\ LET data == Append(rd.data, Head(input)) IN
       IF Len(data) = rd.size THEN Return(data)
       ELSE Continue([rd EXCEPT !.data = data, !.late = FALSE])
  /\ input' = Tail(input)
  /\ UNCHANGED <<config, device, fed, output, pipe, calls>>

(* TimeoutException and -1.  The -1 of Java is also the end of the stream:  *)
(* without a timeout it asks again.                                         *)
NoByte ==
  /\ rd.pc = "byte" /\ input = <<>>
  /\ \/ (TimeIsUp \/ (gone /\ class = "java" /\ timeout # "none")) /\ Return(rd.data)
     \/ gone /\ Raise
  /\ UNCHANGED <<config, device, source, output, pipe, calls>>

ReadStep ==
  \/ WaitCancelled \/ WaitReady \/ WaitTimeout \/ Take \/ TakeNothing \/ TakeBlocked
  \/ ReadFile \/ ReadPending \/ ReadByte \/ NoByte
-----------------------------------------------------------------------------
SwitchToSend == rts' = (rts \/ rs485)

(* write(data): push what the driver takes, then wait until it takes more.  *)
StartWrite ==
  /\ direction = "write" /\ Idle /\ calls < MaxCalls
  /\ \E n \in 1 .. MaxSize :
       /\ wr' = [NoWrite EXCEPT !.pc = CASE class \in Polling \cup {"vtime"} -> "push"
                                         [] class = "overlapped" -> "submit"
                                         [] class \in Bytewise -> "pending",
                                !.left = Numbered(written, n), !.total = n]
       /\ written' = written + n
  /\ SwitchToSend
  /\ calls' = calls + 1
  /\ UNCHANGED <<config, gone, source, room, sent, pipe, reading, result>>

(* A mutation of EndWrite: RTS is switched back without flush().            *)
EndWriteUnflushed(how, count, pushed) ==
  /\ wr' = IF rs485 THEN [NoWrite EXCEPT !.pc = "drained"] ELSE NoWrite
  /\ result' = Result(how, count, pushed)

(* The RS485 goes on with flush(), unless the write raised, and drops the   *)
(* count: its write() returns None.                                         *)
EndWrite(how, count, pushed) ==
  LET flushed == rs485 /\ how # "raised" IN
    /\ wr' = IF flushed THEN [NoWrite EXCEPT !.pc = "flush"] ELSE NoWrite
    /\ result' = IF flushed THEN Result("none", 0, pushed) ELSE Result(how, count, pushed)

TimedOut == wr.late /\ class # "java"
GoOn(w) == wr' = w /\ UNCHANGED result

(* Part of it may be taken in blocking mode too, before a hangup.  A socket *)
(* takes data until it hears that its peer is away.                         *)
Push ==
  /\ wr.pc = "push" /\ room > 0 /\ (gone => class = "socket")
  /\ \E n \in 1 .. Min({room, Len(wr.left)}) :
       LET w == [wr EXCEPT !.pc = "select", !.n = n, !.pushed = @ + n] IN
         /\ room' = room - n
         /\ sent' = sent \o SubSeq(wr.left, 1, n)
         /\ CASE timeout = "zero" -> EndWrite("ok", n, w.pushed)
              [] timeout = "finite" /\ wr.late -> EndWrite("raised", 0, w.pushed)
              [] OTHER -> GoOn(w)
  /\ UNCHANGED <<config, device, source, written, pipe, calls, reading>>

(* EAGAIN: tried again at once until the timeout.  A descriptor in blocking *)
(* mode, for VTIME, waits for room instead.                                 *)
PushBlocked ==
  /\ wr.pc = "push" /\ ~gone /\ room = 0 /\ class # "vtime"
  /\ wr.late /\ EndWrite("raised", 0, wr.pushed)
  /\ UNCHANGED <<config, device, source, room, sent, written, pipe, calls, reading>>

PushFails ==
  /\ wr.pc = "push" /\ gone
  /\ EndWrite("raised", 0, wr.pushed)
  /\ UNCHANGED <<config, device, source, room, sent, written, pipe, calls, reading>>

(* A mutation of SelectCancelled: the pipe is looked at after the timeout.   *)
SelectCancelledLate ==
  /\ wr.pc = "select" /\ tokens > 0 /\ wr.late
  /\ tokens' = 0
  /\ EndWrite("cancelled", wr.total - Len(wr.left), wr.pushed)
  /\ UNCHANGED <<config, device, source, room, sent, written, cancels, calls, reading>>

(* Without a timeout one token is taken, with one all of them.              *)
SelectCancelled ==
  /\ wr.pc = "select" /\ tokens > 0
  /\ tokens' = IF timeout = "none" THEN tokens - 1 ELSE 0
  /\ EndWrite("cancelled", wr.total - Len(wr.left), wr.pushed)
  /\ UNCHANGED <<config, device, source, room, sent, written, cancels, calls, reading>>

(* A mutation of Rest: the bytes that were written stay. *)
RestAll(w) == w.left
Rest(w) == SubSeq(w.left, w.n + 1, Len(w.left))

SelectReady ==
  /\ wr.pc = "select" /\ tokens = 0 /\ (room > 0 \/ gone)
  /\ CASE wr.late -> EndWrite("raised", 0, wr.pushed)
       [] ~wr.late /\ wr.n >= Len(wr.left) -> EndWrite("ok", wr.total, wr.pushed)
       [] OTHER -> GoOn([wr EXCEPT !.pc = "push", !.left = Rest(wr)])
  /\ UNCHANGED <<config, device, source, room, sent, written, pipe, calls, reading>>

SelectTimeout ==
  /\ wr.pc = "select" /\ tokens = 0 /\ room = 0 /\ ~gone /\ wr.late
  /\ EndWrite("raised", 0, wr.pushed)
  /\ UNCHANGED <<config, device, source, room, sent, written, pipe, calls, reading>>

(* Windows.  Without a write timeout of its own the call ends here, and the *)
(* system keeps the data, or is out of memory for it.                       *)
WriteFile ==
  /\ wr.pc = "submit"
  /\ CASE gone -> EndWrite("raised", 0, 0) /\ UNCHANGED <<room, sent>>
       [] ~gone /\ timeout = "zero" ->
            \/ /\ EndWrite("ok", wr.total, wr.total)
               /\ sent' = sent \o wr.left
               /\ room' = room - wr.total
            \/ EndWrite("ok", 0, 0) /\ UNCHANGED <<room, sent>>
       [] OTHER -> GoOn([wr EXCEPT !.pc = "pending"]) /\ UNCHANGED <<room, sent>>
  /\ UNCHANGED <<config, device, source, written, pipe, calls, reading>>

(* The driver goes on with the write of Windows, of .NET or of Java.        *)
Transfer ==
  /\ wr.pc = "pending" /\ room > 0 /\ ~gone /\ wr.left # <<>>
  /\ room' = room - 1
  /\ sent' = Append(sent, Head(wr.left))
  /\ wr' = [wr EXCEPT !.left = Tail(@), !.pushed = @ + 1]
  /\ UNCHANGED <<config, device, source, written, pipe, calls, reading, result>>

(* A write timeout is reported, a cancelled write is not an error; Java has *)
(* no write timeout.                                                        *)
WritePending ==
  /\ wr.pc = "pending"
  /\ \/ wr.left = <<>> /\ EndWrite("ok", wr.total, wr.pushed)
     \/ wr.left # <<>> /\ (gone \/ TimedOut) /\ EndWrite("raised", 0, wr.pushed)
     \/ wr.left # <<>> /\ (tokens > 0 \/ (gone /\ class = "overlapped"))
          /\ EndWrite("cancelled", wr.pushed, wr.pushed)
  /\ tokens' = 0
  /\ UNCHANGED <<config, device, source, room, sent, written, cancels, calls, reading>>

(* flush() of the RS485 waits for the driver for as long as it takes.       *)
Flush ==
  /\ wr.pc = "flush" /\ (room = Room \/ gone)
  /\ wr' = IF gone THEN NoWrite ELSE [wr EXCEPT !.pc = "drained"]
  /\ result' = IF gone THEN Result("raised", 0, result.pushed) ELSE result
  /\ UNCHANGED <<config, device, source, room, sent, written, pipe, calls, reading>>

SwitchToReceive ==
  /\ wr.pc = "drained"
  /\ wr' = NoWrite
  /\ rts' = FALSE
  /\ UNCHANGED <<config, gone, source, room, sent, written, pipe, calls, reading, result>>

WriteStep ==
  \/ Push \/ PushBlocked \/ PushFails \/ SelectCancelled \/ SelectReady \/ SelectTimeout
  \/ WriteFile \/ Transfer \/ WritePending \/ Flush \/ SwitchToReceive

Next ==
  \/ Feed \/ Drain \/ Unplug \/ Expire \/ Reopen \/ ResetInput \/ Cancel
  \/ StartRead \/ ReadStep \/ StartWrite \/ WriteStep

(* The calls run and the time passes; the device and the user are free.     *)
Fairness == WF_vars(ReadStep) /\ WF_vars(WriteStep) /\ WF_vars(Expire)

Spec == Init /\ [][Next]_vars
FairSpec == Spec /\ Fairness
-----------------------------------------------------------------------------
Bytes == 1 .. MaxFed
Written == 1 .. MaxSize * MaxCalls

(* Types; a read never has more than it was asked for.                      *)
TypeOK ==
  /\ class \in Classes /\ direction \in {"read", "write"} /\ timeout \in Timeouts
  /\ gone \in BOOLEAN /\ discarded \in BOOLEAN
  /\ input \in Seq(Bytes) /\ fed \in 0 .. MaxFed /\ returned \in Seq(Bytes)
  /\ room \in -(MaxSize * MaxCalls) .. Room /\ sent \in Seq(Written)
  /\ tokens \in 0 .. MaxCancels /\ rs485 \in BOOLEAN /\ rts \in BOOLEAN
  /\ cancels \in 0 .. MaxCancels /\ calls \in 0 .. MaxCalls
  /\ rd \in [pc : {"idle", "wait", "take", "submit", "pending", "byte"}, size : 0 .. MaxSize, data : Seq(Bytes),
             late : BOOLEAN, bound : BOOLEAN, reset : BOOLEAN]
  /\ Len(rd.data) <= rd.size
  /\ wr \in [pc : {"idle", "push", "select", "submit", "pending", "flush", "drained"},
             left : Seq(Written), total : 0 .. MaxSize,
             n : 0 .. MaxSize, pushed : 0 .. MaxSize, late : BOOLEAN]
  /\ result \in [how : {"ok", "raised", "cancelled", "none"}, count : 0 .. MaxSize,
                 pushed : 0 .. MaxSize]

Increasing(s) == \A i, j \in DOMAIN s : i < j => s[i] < s[j]

(* Every byte is returned once and in order, or is still there, through     *)
(* timeouts, cancelled reads and what cancel_read left in the pipe; input   *)
(* is lost only with a reset, the device or an exception.  With the types.  *)
BytesKept ==
  LET all == returned \o rd.data \o input
  IN TypeOK /\ Increasing(all) /\ (~discarded => all = Numbered(0, fed))

(* The documentation of write: "Number of bytes written".  No byte reaches  *)
(* the device twice or before an earlier one, and the number returned is    *)
(* what it took: for a write that was cancelled at most that (the bytes of  *)
(* the last os.write are missing from it).  An RS485 returns no number.     *)
WriteTellsWhatWasSent ==
  /\ Increasing(sent)
  /\ direction = "write" =>
       /\ result.how = "ok" => result.count = result.pushed
       /\ result.how = "cancelled" => result.count <= result.pushed

(* The message of serialposix.py: "device disconnected or multiple access   *)
(* on port?".  A read raises for these reasons only: a timeout, a token, a  *)
(* reset before it waited do not look like them.  Multiple access is that   *)
(* the input was emptied between its select() and its os.read(), on a       *)
(* serial port; a socket raises when its peer is gone and for nothing else. *)
(* PosixPollSerial raises in other cases too, see WaitTimeout.              *)
RaisesForCause ==
  [][class # "poll" /\ rd.pc # "idle" /\ rd'.pc = "idle" /\ result'.how = "raised" =>
       gone \/ (class = "select" /\ rd.reset)]_vars

Written485 == wr.pc \in {"flush", "drained", "idle"}

(* A call with a timeout comes back, whatever the device does; so does a    *)
(* non-blocking read.  Excepted are the writes of VTIMESerial, whose        *)
(* descriptor is in blocking mode, and of Java, which has no write timeout. *)
(* A token in the pipe ends the call under way, without a timeout too, be   *)
(* it put before the call waits or while it does; so does CancelIoEx for a  *)
(* call that is pending.  A write that the driver has taken nothing of yet  *)
(* does not look at the pipe.  The flush() that follows in an RS485 heeds   *)
(* neither.                                                                 *)
CallsEnd ==
  /\ (rd.pc # "idle" /\ timeout # "none") ~> (rd.pc = "idle")
  /\ (wr.pc # "idle" /\ timeout = "finite" /\ class \notin {"vtime", "java"}) ~> Written485
  /\ (rd.pc # "idle" /\ tokens > 0) ~> (rd.pc = "idle")
  /\ (tokens > 0 /\ (wr.pushed > 0 \/ wr.pc = "pending")) ~> Written485

(* RTS has the level for sending for as long as the driver has a byte to    *)
(* send, and the level for receiving when a write has returned: only one    *)
(* that raised leaves the transmitter on.                                   *)
RtsFollowsData ==
  rs485 => /\ room < Room /\ ~gone => rts
           /\ Idle /\ result.how # "raised" => ~rts
=============================================================================

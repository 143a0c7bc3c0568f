# pySerial in TLA+

TLA+ models of pySerial 3.5, TLC runs that check them on small instances, and
proofs of the most important invariants for every instance. The subject is the
part of the library where several threads, two processes or a device act at the
same time, or where one step of several may fail: RFC 2217 (serial over Telnet),
the reader thread of `serial.threaded`, `open`, `close`, settings, `read` and `write`
of the ports of each platform, the framing of packets and lines, and two of its
programs, the terminal `miniterm` and the port publisher.

* [The system](#the-system): its parts, their state and how they interact
* [Modules](#modules): which module models which part, and how
* [Runs](#runs): what TLC checks, with which bounds and what it shows
* [Fairness](#fairness)
* [Findings](#findings): where code and documentation differ
* [Proofs](#proofs)
* [What is not modelled, and what no property covers](#not-modelled)
* [Plan](#plan)

Run a check with `tlc -config Modem.cfg MCModemState.tla`, a proof with
`tlapm TelnetNegotiation_proofs.tla`. `PROJECT.json` lists components, runs,
findings, hazards and theorems, the source lines every definition stands for
(`map`), and for every property one mutation of the model which breaks it
(`mutants`; the mutated operators are beside the originals, each with a comment
*A mutation of ...*).

## The system

Paths are relative to `src/`. *Hard* names what a test hardly reaches.

| Component | State | Operations and interaction | Hard | Must hold |
|---|---|---|---|---|
| RFC 2217 option negotiation (`serial/rfc2217.py`: `TelnetOption`, `Serial.open`, `PortManager.__init__`, `_client_ok`) | per option `state`, `active`; `_client_is_rfc2217` | DO/DONT/WILL/WONT in both directions over TCP; `open()` in the user's thread polls what the reader thread changes | both ends ask at once, unlocked torn reads, refusals | no option one-sided, negotiation ends, `open()` returns only with what was agreed |
| RFC 2217 port settings (`TelnetSubnegotiation`, `_reconfigure_port`, `rfc2217_set_control`, server's `_telnet_process_subnegotiation`) | per suboption `value`, `state`; cached settings; the server's real port | requests by any thread, answers compared in the reader thread | late answers, rejections half way, two threads on one object | what the client shows is in force; success and rejection are true |
| RFC 2217 modem state (`check_modem_lines`, `get_modem_state`) | `last_modemstate`; the client's cache and its timeout | poller and filter threads of the server; client polls | unlocked read-compare-save | notifications tell the changes; the client catches up |
| RFC 2217 byte stream (`write`, `_internal_raw_write`, `telnet_send_option`, `_telnet_read_loop`, `filter`) | write lock, `mode`, `suboption` | several threads send through one socket; TCP cuts anywhere | escaping of IAC in data and in values | a channel of whole messages |
| Ports with a read queue (`rfc2217://`, `loop://`, `cp2110://`) | `Queue`, `_thread`, `is_open` | a feeder thread (or `write`) puts, `read` takes, `None` ends a read; `reset_input_buffer`, `cancel_read`, `close` from other threads | sentinel taken by another, full queue, connection lost | no byte lost, the waiting read and `close()` come back |
| Reader thread (`serial/threaded/__init__.py`) | `alive`, `_lock`, `_connection_made`, the port | `run` calls the protocol; `write`, `stop`, `close` from any thread and from callbacks | callbacks that raise or call back, lock held while joining | end is told once, port closed idle, everybody returns |
| POSIX port (`serial/serialposix.py`: `Serial`, `PosixPollSerial`, `VTIMESerial`) and socket port (`serial/urlhandler/protocol_socket.py`) | descriptor, cancel pipes, `Timeout`; lock of the device | `read`/`write` loops over select, poll or VTIME; cancellation through a pipe; `open` and `_reconfigure_port` in stages, each of which may fail | stale tokens, partial writes, EAGAIN, device unplugged, failure half way | bytes kept, true counts, calls return for the right reason; a closed port holds nothing |
| Windows port (`serial/serialwin32.py`) | handle, two overlapped structures | overlapped `ReadFile`/`WriteFile`, `CancelIoEx`, `PurgeComm` | a cancellation before the call is pending | as POSIX |
| CLI and Java ports (`serial/serialcli.py`, `serial/serialjava.py`) | the platform's port object | read byte by byte, each with the timeout | lost devices, failing `open` | as POSIX |
| Settings of `SerialBase` (`serial/serialutil.py`) | remembered settings, RTS and DTR | setters reconfigure an open port one by one; `apply_settings`; `read_until` | rejected values, intermediate settings, lines told before `open` | the device has what the port remembers, settings can be restored |
| RS-485 in software (`serial/rs485.py`) | RTS | write framed by RTS changes, with `flush` between | a failing write, data still in the driver | RTS covers the data |
| Framing (`Packetizer`, `FramedPacket`, `LineReader`), hexlify codec, `read_until`, what miniterm shows | a buffer or the state of a decoder | called by a reader thread with arbitrary chunks | packets cut anywhere | chunking does not matter |
| Miniterm (`serial/tools/miniterm.py`) | `alive`, `_reader_alive`, two threads, the port | reader and writer thread, menu, port change, suspension | each stops the others from any state | ends, nobody takes the port from the reader, one port open |
| Port publisher (`examples/port_publisher.py`) and redirectors | `published`, per Forwarder device, server socket, client, two buffers | one select loop; callbacks chosen before the first runs; devices and clients come and go | stale callbacks, exceptions in a round, replugged devices | the next client starts anew, devices are served, clients told |
| URL handlers alt, hwgrep, spy; port listing; GUI examples, scripts | none that several actors share | wrappers, enumeration, formatting | | |

The parts build on each other: `ReaderThread` drives a port by `in_waiting`,
`read`, `cancel_read`, `write` and `close`; `rfc2217://` is a port with a read
queue whose feeder thread is the client's Telnet parser; the parser receives
what the byte stream delivers, and hands options to the negotiation and
suboptions to the settings and the modem state. The models meet at those
interfaces, each taking of its neighbour what the neighbour's properties
promise:

* `TelnetNegotiation`, `PortSettings` and `ModemState` take whole messages in
  order from a sequence. That is `ImplementsChannel` of `TelnetStream`.
* `ModemState` lets a client ask only of a server that knows it. That is
  `OpenedMeansAgreed` of `TelnetNegotiation`.
* `FilePort` reopens the port while it is idle. That is `ClosesIdlePort` of
  `ReaderThread`.
* `ReaderThread` and `Miniterm` take from `FilePort` what each platform's
  `cancel_read` does: on POSIX the token in the pipe ends the read it finds or
  the next one (`CallsEnd`), on Windows only a pending read hears of it.
* `PortPublisher` restores settings with `apply_settings`. That repeating it ends
  with the old settings in force is `RestoreEnds` of `SerialPort`.

## Modules

| Module | Models | State and actions against the code |
|---|---|---|
| `TelnetNegotiation` | the two `TelnetOption` lists, the startup requests, `open()` | A *link* is one option in one direction, so a message is a link and a yes/no. `ConsiderOption`/`SendRequest` are the two steps of the startup loops; `Receive` is `process_incoming` with its branches `Accept`, `Drop`, `Refuse`, `Ignore`; `Settle` is the assignment of `active` after `state` and the callback; `PollMandatory` reads `active` and `state` of the two mandatory options one by one, as the two `sum(...)` do; `GiveUp` is the timeout. A foreign server may `Switch` an option. |
| `Rfc2217Options` | the option tables of client and server | data of `TelnetNegotiation` |
| `PortSettings` | a reconfiguration, a line method in a second thread, and the server | `set()` is three steps (`AssignValue`, `AssignState`, `SendRequest`), which a setter only comes to when write timeout and baud rate can be sent (`Sendable`, tested in `Reconfigure` after the new value is stored); `PollItem` is one item of `sum(o.active ...)`, and `Rejected` the exception of `is_ready` in it; `Answer` is `check_answer` in the reader thread; `GiveUp` the network timeout; `Serve` the server with its backup of the old value. |
| `ModemState` | `check_modem_lines`, the notification's way, the cache and its polling | the five steps of the unlocked call (`Enter` reads the lines, `Deltas`, `Test`, `Send`, `Save`), called by `Poll`, `ClientOk` and `Asked`; `Cache` and `Restart` are the client's two assignments, in this order. `twoThreads` chooses a program with a poller thread or with one loop. |
| `TelnetStream`, `TelnetChannel` | senders, wire and receiver, byte by byte; the abstract channel | `Begin` takes the write lock and expands the message, `Push` is a piece of `sendall`, `Receive` one byte of the state machine. `TelnetStream` is shown to implement `TelnetChannel` (whole messages in FIFO order) with the history of messages sent and delivered as the mapping. |
| `QueuePort` | `read`, reset, cancel, `close` and the feeder of the three queue ports | `backend` chooses the port; steps are cut at each access to `is_open`, `_thread` and the queue. `End` is `None`; the feeder ends with it when the connection is lost (`FeederLost`), and without it when what it does with received bytes raises (`FeederRaises`). The reader's `Test`/`Get`/`GetTimeout` are the head and the body of the loop. |
| `ReaderThread` | `run`, `write`, `stop`, `close`, `connect`, `__enter__` | `reader` is where `run` is. `SetUp` is its first lines, which may raise outside of every `try`; `Check`, `ReadWaits` and `ReadReturns` are the test of `alive`, the way into the read and the read, so that a cancellation can come between. A call goes through lock, `alive = False`, `cancel_read`, `join`, `serial.close`. A callback is a state in which the thread may make calls, and may raise. Options: does a `cancel_read` of the port last until the next read, end only a pending one, or not exist (`CancelKinds`), does its `in_waiting` raise a `SerialException`, does `connection_lost` re-raise. |
| `FilePort` | `read` and `write` of all platforms, cancellation, RS-485 | `WaitCancelled`/`WaitReady`/`WaitTimeout` are the outcomes of select or poll, `Take*` those of `os.read`/`recv`, `Push*` of `os.write`/`send`, `Select*` of the select behind it. `tokens` are the bytes in the pipe. `ReadFile`/`ReadPending` and `WriteFile`/`Transfer`/`WritePending` are the overlapped calls of Windows before and while they are pending; `ReadByte`/`NoByte` the byte-by-byte loops of .NET and Java, whose writes are `Transfer`/`WritePending`. With `rs485` a write goes on to `Flush` and `SwitchToReceive`. The seven classes are one module because their loops differ in a few guards only, and the differences are the interesting part. |
| `SerialPort` | the constructor, `open`, `close`, the setters, `rts`/`dtr`, `get_settings`, `apply_settings` of four platforms | `s` is what the port remembers, `dev` what the device has, `line` the levels of RTS and DTR, `held` the descriptors and handles. `open` and `_reconfigure_port` are sequences of stages, and the actions choose the stage that fails, and what gets lost without an exception (`Unheard`); the device refuses one combination of settings. `ApplyKey` is one setter of `apply_settings`. |
| `Miniterm` | `main`, `reader`, `writer`, `start`/`stop`/`join`/`close`, `change_port`, `suspend_port` | one variable for where each thread is: `main` opens, starts, joins; `tx` is the writer with its menu and errands, whose writes may block (`TxSend`, `TxWritten`); `rx` the reader, cut between its tests and the read. `token` is the cancel pipe of a POSIX port, `nul` what `Console.cancel` puts into the terminal. Ports are two native ones and a URL. |
| `PortPublisher` | the loop of the publisher, its `Forwarder`s, devices and clients | `CheckDevices`, `PublishNext`, `Select` and one action per callback (`SerialRead` ... `ServerRead`). `todo` is the set of the round's callbacks that are left, each with its place in the round (`Rank`); `Select` chooses them and `First` is the next one. A Forwarder without a place in the dictionary is an *orphan* until Python collects it (`Collect`), which cannot be while the variable `publisher` of the main loop's `for` refers to it (`kept`). `spoiled` names the devices whose Forwarder an exception left half open or half closed. |
| `Framing` | `Packetizer`, `FramedPacket`, `LineReader`'s decoder, hexlify's encoder, miniterm's decoder and transformations, `read_until` | `Decoded` is what a decoder does with one byte (of the Packetizer: a turn of its loop, `Split`), `Run` a chunk byte by byte; `ReceiveChunk` gives it a chunk of any size, `ConnectionLost`, `NoByte` and `LateByte` come between. The reference definitions see the whole stream. The terminator is not empty: with an empty one `line[-0:]` of `read_until` would be the whole line and never compare equal. |
| `*_proofs` | | theorems about the module of that name; `Streams_proofs` is about `TelnetStream`, `QueuePort` and `Framing`, `Programs_proofs` about `Miniterm` and `PortPublisher`. A proof module extends the modules it is about, so definitions of these have names of their own (`QueueSpec`, `FramingNext`, `publisherVars`). |
| `MC*` | | the constants of the runs |

Bytes are numbered in the order in which they arrive or are written, so that
loss, duplication and reordering show. Time is an action that may happen
(`Expire`, `GiveUp`, `TimedOut`): a timeout is late at any moment after the
call began, never at a given one.

## Runs

| Run | Shows | Instance and why it is enough |
|---|---|---|
| `negotiation` | `NeverOneSided`, `QuietAgreement`, `OpenedMeansAgreed`, `NegotiationEnds` | The real option tables against this repository's server, one that has no RFC 2217, and one that asks for nothing; a foreign server switches ECHO up to twice (on and off, or off and on again; `AgreementAtRest` is for any number). Options interact only through `open()`, which reads two. |
| `modem` | `OneThreadComparesWithLastSent`, `AnswerIsThere`, `DeltasTellChanges`, `ClientCatchesUp`, `PollingHeals` | One line that changes twice: the lines are compared bit by bit, and a change and its reverse are what a lost update needs. One message in flight in each direction makes senders block. |
| `settings` | `SettingsArrive`, `SuccessIsReal`, `OrderlyRejectionIsReal`, `AnswerOnItsWay` | Two settings (one before and one after a rejection), four values of which one is impossible and one does not fit into a request, three reconfigurations: one that leaves an answer under way, one that meets it, and one more; a second thread may take the place of one of them with a line change on the shared control object. |
| `stream` | `BackToNormal`, `ImplementsChannel` | Five byte values with a role of their own (IAC, SB, SE, DO, any other) as data, as option codes and in values; three messages, so that one follows and one precedes the interesting one; three bytes on the wire, the longest command. |
| `queue_ports` | `NothingVanishes`, `EndsAreTold` | Two reads of up to two bytes, three bytes, a queue of two: a read can span two items, be left with one, and find the queue full. |
| `reader_thread` | `LostIsToldBySerialExceptions`, `ClosesIdlePort`, `CallsReturn`, `EnterReturnsOrLostRaised` | Three threads (one of them the reader itself) with one call each, one chunk of data, and the three kinds of `cancel_read`; the inductive invariant of the proofs was also checked with two calls each. |
| `reader_unplugged` | finding: `LostIsTold` | the same |
| `file_ports` | `BytesKept`, `WriteTellsWhatWasSent`, `RtsFollowsData`, `RaisesForCause`, `CallsEnd` | Two calls of up to two bytes, an output buffer of two, two cancellations: a token can be left over from one call and meet the next, alone or with another. |
| `serial_port` | `ClosedHoldsNothing`, `InForce`, `LinesTold`, `RestoreEnds` | POSIX, Windows, .NET and Java, each stage of `open`, `close` and `_reconfigure_port` failing; eight programs, each with the two or three settings whose handling interferes: refused combinations of two settings, one that gets lost unnoticed, handshakes and RS-485 with the line they take over, timeouts, the exclusive lock. |
| `miniterm` | `OnlyCurrentOpen`, `PortUndisturbed`, `ExitEnds` | Two native ports and a URL are the least with which a change can succeed, fail, go to a port without `cancel_read` and come back. Keys, data and unplugging are unbounded. |
| `publisher` | `StartsAnew`, `PluggedIsServed`, `LostClientsAreTold` | Two clients of one device (the next one comes while the last one goes), and two devices with one client (network ports are taken by another); one callback more than must be ready in a round; one exception of the RFC 2217 code or of zeroconf; buffers are empty, partly filled or full. |
| `framing` | `ChunksDoNotMatter`, `LinesAreTheStream` | All streams of up to six bytes over those that differ for each decoder, in chunks of up to three: a terminator of two bytes, a character of two bytes and a packet can each be cut anywhere, twice. |

Of the modules whose types are not a property of their own, the first invariant
includes `TypeOK`. Runs have at most 1.3 million states and take up to three
minutes on two cores.

`CHECK_DEADLOCK FALSE` is in every configuration: all models end when their
bounded users have made their calls, and a connection may simply rest. That
nobody waits for ever is what the liveness properties say, where the code
promises it.

`RaisesForCause` leaves out `PosixPollSerial`, and `CallsEnd` the writes of
`VTIMESerial` and of Java: see [below](#not-modelled). `PollingHeals` assumes in
its formula that the client goes on polling, `PluggedIsServed` that devices come
to rest, `ExitEnds` that the port's read can be woken (by a timeout, or on POSIX
by `cancel_read`), and `ExitEnds`, `CallsReturn` and `EnterReturnsOrLostRaised`
that no write blocks for ever (`WritesReturn`). What else a property excepts is
in its comment; most exceptions are findings. `AnswerOnItsWay` is the part of
"every wait ends by its answer" that has no need of fairness: with a server that
serves and a network that delivers, no wait depends on the network timeout.

## Fairness

* Threads of the library run: weak fairness of each thread's steps. A step that
  is a blocking call is enabled only when the call can return, so fairness does
  not pretend that a blocked thread goes on.
* TCP delivers: weak fairness of the receiving steps.
* `ModemState`: strong fairness of `Poll` and `Asked`. The poller calls
  `check_modem_lines` in an endless loop, and with one thread it competes with
  the filter for the one call that may be under way.
* `ReaderThread`: the reader, and `stop` and `close` of every thread. A write is
  not fair: with RTS/CTS, XON/XOFF or a full socket it may block for ever.
* `QueuePort`: strong fairness of `FeederLost`. A `recv` on a lost connection
  fails at once, every time, and cannot be put off by the socket's timeout.
* `FilePort`: weak fairness of `Expire`; time passes.
* `SerialPort`: the calls that restore settings go on; nothing else is fair.
* `Miniterm`: each thread runs. Keys, the answers of the user, data, the device
  and the writes to it are not fair, so the program may wait for them for ever;
  `ExitEnds` excepts a prompt.
* `PortPublisher`: weak fairness of the loop; strong of `CheckDevices`, since
  five seconds are over again and again however busy the rounds are; and weak of
  `Collect`: Python collects what nothing refers to. A Forwarder with a client is
  in a cycle with its `PortManager`, so this means the cyclic collector, which the
  allocations of a running loop set off. One that the loop variable `publisher`
  refers to is never collected. Clients and devices are free.
* Never fair: the user's calls, the device or peer sending and going away, the
  changes of lines, callbacks' errors, and the timeouts of `TelnetNegotiation`
  and `ModemState`. `NegotiationEnds` therefore says that `open()` does not depend
  on its timeout.

## Findings

1. **The reader thread may die silently** (run `reader_unplugged`). `in_waiting` of a
   POSIX port raises `OSError` when the device goes away. `run` catches
   `SerialException` only, so `connection_lost` is never called. The docstring
   says it is "called when the serial port is closed or the reader loop
   terminated otherwise".

The following were met while modelling and have no run of their own. The models
contain each of them where no other is named; the property named holds with the
exception its comment states.

2. **A refused RFC 2217 option opens the port.** `rfc2217.py:478` compares the
   number of active mandatory options with the number of those not INACTIVE. A
   server that answers DONT to COM-PORT makes the option INACTIVE, so 0 is
   compared with 0 and `open()` returns, though the comment and the error text
   there say that it waits for the option or fails (`OpenedMeansAgreed`).
3. **`last_modemstate` is not always the last value sent.** Of two overlapping
   calls of `check_modem_lines`, the one that notified first may save last
   (`OneThreadComparesWithLastSent`; `PollingHeals` says when it does not matter).
4. **A spurious rejection.** `check_answer` compares a late answer to an earlier
   request with the value requested now, and the setter raises for a value that
   the server goes on to accept (`OrderlyRejectionIsReal`).
5. **`rs485_mode = None` does not switch RS-485 off** on POSIX
   (`serialposix.py:532` configures it only when it is set), where
   `documentation/pyserial_api.rst` says that None disables it (`InForce`).
6. **`apply_settings` may raise half way** because two settings in between do not
   go together, with the remaining ones not applied. Repeating it converges
   (`RestoreEnds`).
7. **`open()` of the Java port leaves the device open** when configuring it
   raises; `close()` of the POSIX port whose `os.close` raises leaves `is_open`
   True and the pipes open; and `close()` of the .NET port catches an exception
   of a name that does not exist (`serialcli.py:139`), so one that fails leaves
   `is_open` True (`ClosedHoldsNothing`).
8. **`RS485.write` drops the count** of the write it wraps, so what a non-blocking
   or cancelled write did not take is lost unnoticed; its `flush` has no timeout;
   and an exception leaves RTS at the level for sending (`RtsFollowsData`,
   `CallsEnd`).
9. **Miniterm may not end.** `serial.write` has no timeout and nobody cancels
   it, so a writer whose bytes nobody takes is joined for ever. On Windows there
   is no handler of SIGINT: `KeyboardInterrupt` leaves the first `join`, and the
   second one waits for a writer that nobody has told to stop. There also a
   `cancel_read` between the reader's test and `ReadFile` is forgotten, so a
   reader without a timeout stays and `_stop_reader`, whose docstring says "wait
   for clean exit of thread", does not return; `cancel_read` of a closed port is
   a `TypeError`, which ends the program when it is left, or its port changed,
   while suspended. On POSIX an `OSError` of `in_waiting` ends the reader
   unnoticed; when `serial_for_url` fails in `change_port` its handler uses the
   unassigned `new_serial`; and after suspending, a port change to the same or
   to no port leaves the port closed without a reader (`ExitEnds`,
   `OnlyCurrentOpen`).
10. **The port publisher** keeps a dead Forwarder in its dictionary when switching
   the lines off raises in `close()`, so a device that is replugged within five
   seconds is not served again; publishes the service of a Forwarder whose
   `open()` has just failed and closed it; and a stale `socket_error` of a round
   disconnects the client that was accepted in that round. Its destructor closes
   a Forwarder that was forgotten, but the loop variable `publisher`
   (`port_publisher.py:555`) still refers to it if it was the only one: its
   client's connection stays open, its TCP port stays bound, and when the device
   is plugged again the new Forwarder cannot bind that port and closes itself,
   so the device is not served (`PluggedIsServed`, `LostClientsAreTold`,
   `StartsAnew`).
11. **`FramedPacket` delivers an empty packet for a stray STOP**, where its docstring
   says "find data enclosed in START/STOP"; and `Packetizer`, unlike
   `FramedPacket`, keeps its buffer when the connection is lost, so the first
   packet of the next one may have the old half before it (`ChunksDoNotMatter` has
   both in its reference).
12. **A setter of `rfc2217://` that raises stores its value first.** A baud rate
   that is 0 or too large, or any write timeout (`rfc2217.py:507-514`), makes every
   setter after it raise as well, before it requests anything, though each stores
   what it was given. Until the value is taken back the properties show settings
   that the server was never asked for (`SettingsArrive`).
13. **The reader thread of `rfc2217://` may end without telling.** What it raises
   while it processes received bytes (an answer to an option that cannot be sent,
   `bytes(None)` for a stray SE) is outside of its `try` (`rfc2217.py:736-747`): no
   `None` is put, the port stays open, and a read that waits without a timeout
   waits for ever (`EndsAreTold`).
14. **`ReaderThread` on Windows may stay in its read.** A `cancel_read` that comes
   before `ReadFile` is pending is forgotten (`serialwin32.py:450-465`), `join` times
   out, and `close()` closes the port under the read, though its comment says
   that it is idle by then; after `stop()` alone the thread stays (`ClosesIdlePort`,
   `CallsReturn`).
15. **`ReaderThread` may end before it begins.** A port that refuses the timeout of
   one second, or a `protocol_factory` that raises, ends the thread outside of
   every `try` (`threaded/__init__.py:183-185`): `__enter__` and `connect()` wait for
   ever (`EnterReturnsOrLostRaised`; `LostIsTold` is about protocols that exist).
16. **A POSIX read may raise with its device present.** With VMIN = VTIME = 0 a
   tty that a reset or another reader emptied after `select` gives an empty
   read, which `serialposix.py:598-604` takes for an unplugged device; its message
   names the other reader, not the reset (`RaisesForCause`).
17. **Settings may be lost without an exception.** Nobody looks at the result of
   `SetCommTimeouts` (`serialwin32.py:126`), and POSIX may leave a setting such as
   `rtscts` unset, as a comment there says (`serialposix.py:501-511`). The next
   reconfiguration makes it good (`InForce`). `EscapeCommFunction` and
   `SetCommBreak` are not looked at either (`LinesTold`).

## Proofs

All theorems are for every value of the constants under the `ASSUME`s of the
modules, which say what the code provides: the tables are functions of the
options, the client's initial table has we-RFC2217 REQUESTED and we-BINARY
INACTIVE, and each list has every option that it asks for; a reconfiguration has
at least one setting, all of them other than the control object; the bytes
include those with a role in Telnet; a terminator is not empty; bounds are
natural numbers, and positive where nothing happens otherwise.

**`TelnetNegotiation_proofs`**
* `TypeCorrect`: `Spec => []TypeOK`; also that the startup loops stay in their
  lists.
* `NegotiationIsMutual`: `Spec => []NeverOneSided`, for all option tables, orders
  and servers. The property alone is not inductive, since a positive message
  may arrive after its sender has changed its mind. `NegotiationInv` adds what
  each message on its way, and each request about to be sent, still says of its
  sender (`ClaimsHold`, `AskingHolds`). The step is the lemma `ReceiveMonotone`:
  whoever refuses goes on refusing, and whoever agrees goes on agreeing unless
  the partner refuses. So claims, once true, stay true.
* `OpenIsSound`: `Spec => []OpenedMeansAgreed`, for servers as this repository's
  (`Rfc2217Server`: the mandatory options are not switched while connected, and
  the server reacts to we-RFC2217 by its callback and does not ask for it
  itself). `OpenInv` adds to `NegotiationInv` that what `open()` has read so far
  can only have become more true (`ReadingsHold`): this is why the unlocked
  torn reading does no harm.
* `AgreementAtRest`: `Spec => []QuietAgreement`, for all tables and any number of
  switches by a foreign server. `QuietAgreement` looks at empty channels only, so
  it cannot be inductive. `AgreementInv` says for each option what the last word on
  it is in each channel. The server's is yes as long as it has the option (`Told`).
  So is the client's, unless the server has switched the option off since
  hearing it, and then a no is on its way back (`Heard`). Of an option that the
  client has yet to ask for it has said nothing (`Unasked`). With both channels
  empty, these leave nothing but agreement. The run allows two switches; the
  theorem covers a server that switches while answers to several earlier switches
  are still on the wire.

**`PortSettings_proofs`**
* `Types`: every variable keeps its type, for any settings, values and number of
  calls; also what a thread holds at each place of `set()` and of its polling.
* `NoWaitForNothing` (`Spec => []AnswerOnItsWay`). With the types the property is
  inductive: serving a request puts its answer under way, and taking an answer
  from the channel, even a late one to an earlier request, ends the state
  REQUESTED.
* `SettingsDoArrive` (`[]SettingsArrive`). `Arriving` follows each setting from the
  client's cache through the requests in the channel to the server's port: what
  the port will have, once the channel is served, is what was requested last, as
  far as the server does not refuse it. A setter that raises before it requests
  anything breaks this, so `ArrivalInv` has it only for settings that can be sent
  (`Sendable`), which are those of every setter that is under way or returned; the
  setter that takes the value back requests all settings, and all are followed again.
* `SuccessIsAlwaysReal` (`[]SuccessIsReal`), with late answers, rejections and
  second threads. For the settings: answers are of supported values (`Genuine`), so
  an object becomes ACTIVE only with one (`ActiveIsReal`), and when all items of
  the poll were counted, each was (`PollCounts`). For flow control, which the server
  accumulates instead of replacing: unless two threads overlapped in the control
  object, the thread in it sends what it has stored (`Exclusive`), and the server
  has, or will have, the flow control of the last complete reconfiguration
  (`FlowInv`).
* `OrderlyRejections` (`[]OrderlyRejectionIsReal`). While no answer was late, all
  requests and answers on their way belong to the value stored now
  (`MessagesInv`), so what an object takes for a refusal is one (`RefusalIsReal`).
  Without `late` the claim is false: this is finding 4.

**`Streams_proofs`**
* `StreamIsChannel`: `Spec => Channel!Ordered`, the safety part of the
  refinement `ImplementsChannel`. Whole messages arrive once and in the order in
  which they were sent, for any bytes and lengths, any number of threads and any
  cuts. Every `Begin` is a `Send`, every `Receive` a `Deliver` or a stutter,
  every `Push` a stutter.
* `ReceiverComesBack`: `Spec => []BackToNormal`.

  Both rest on `StreamInv`: what is under way (on the wire, and in the hands of
  the thread that has the lock) takes the receiver from where it is to its first
  state with everything delivered that was sent. `Path` states "takes to" by a
  run of the state machine (`Stepped` is one byte of it). Paths can be joined,
  so it is enough that each escaped message leads from the first state to the
  first state; that holds because a doubled IAC is data in every state that
  reads data. The model escapes with `FlattenSeq`, a recursive function over the
  message. Its facts are proved by the least counterexample: `LeastNumber`, from
  the well-foundedness of `<` in the library, is induction as a fact about sets
  of numbers, without an operator for the statement (`Induction`).
* `NoByteVanishes` (`QueueSpec => []NothingVanishes`), for reads, chunks and
  queues of any size. `QueueInv` says of `Held` (what reads have returned, what
  the read under way has, what is in the queue, one after the other) that its
  bytes ascend, were all fed, and are everything that was fed unless some were
  discarded (`InPlace`). For that the parts must have their shape: `loop://` has
  no feeder, a read that waits has less than it asked for, and only `cp2110://`
  puts more than one byte at a time into the queue. Each action moves the border
  between two parts of `Held`, puts fed bytes at its end, or takes a part out
  and sets `vanished`.
* `ReadUntilLosesNothing` (`FramingSpec => []LinesAreTheStream`) and
  `ChunkingIsInvisible` (`FramingSpec => []ChunksDoNotMatter`), for any
  alphabet, terminator, size, chain of transformations, stream and cut. What a
  chunk becomes is a recursive function over its bytes (`Run`), and the
  references look at the whole stream with sets of positions, so neither
  property is inductive. `FramingInv` says for each decoder what it has put out
  *and what it holds* in terms of the stream so far: the digit held is the last
  of an odd number since the last space (`HexGood`), the packet begun is what is
  inside the brackets now (`FramedGood`), a lead byte is held if the stream ends
  in one (`TextGood`), the buffer has no terminator (`PacketsGood`,
  `NoTerminator`), the line has no end in it (`Lines`). Then one lemma for each
  decoder takes one byte (`FramedByte`, `HexByte`, `TextTurn`, `ReadTurn`;
  `SplitTurn` and `PacketAdded` a turn of the Packetizer), and induction over
  the bytes of the chunk does the rest (`BytesKeep`, `PacketizerKeeps`). A
  terminator that lies across two chunks is no case of its own: the Packetizer
  looks at its whole buffer, and the loop is over only when no terminator is
  left, as each turn makes the buffer shorter. For miniterm it remains that a
  chain of transformations of a text is that of its parts (`ShownJoins`).

**`ReaderThread_proofs`**
* `TypeCorrect`, `EndIsTold` (`Spec => []LostIsToldBySerialExceptions`) and
  `CloseIsIdle` (`Spec => ClosesIdlePort`). `ReaderInv` adds which calls hold the
  lock where (`CallsOK`), where `connection_lost` has been called (`ToldOnce`), and
  that a reader on its way into `read` after `cancel_read` finds the token where
  tokens last (`Stopped`). The last part carries `CloseIsIdle`: `join` cannot
  return while the reader is in the read, because the token or the timeout gets it
  out within the two seconds. Where requests are forgotten `Stopped` keeps
  what is left: when the port is closed the reader is not between its test of
  `alive` and the driver.

**`FilePort_proofs`**
* `WritesAreTrue` (`Spec => []WriteTellsWhatWasSent`), `RtsCoversData`
  (`[]RtsFollowsData`) and `ReadsRaiseForCause` (`Spec => RaisesForCause`), for reads,
  writes, resets and buffers of any size. The only assumption is that the
  bounds are positive. `FileInv` adds which class may be at which place of its
  code (`Places`: no POSIX write is ever in an overlapped call), how much of a
  write has gone to the driver at each of these places (`Progress`), and where
  RTS stands during a write of an RS485 (`Framed`). `Progress` carries the
  first: a write that is interrupted between `os.write` and its bookkeeping has
  sent more than it knows, never less.
* `NoByteIsLost` (`[]BytesKept`), for reads and input of any size, through timeouts,
  cancellations, resets and the tokens they leave in the pipe. What reads have
  returned, what the read under way holds and the input buffer are, one after
  the other, the bytes that arrived, in order, and all of them unless an
  exception, a reset or the end of the device has discarded some (`Kept`). Of the
  many steps of the seven classes one lemma speaks: each takes the first bytes of
  the input, none or some, and gives them to the read or with it to the caller,
  or raises (`Carries`). `Counters` and
  `Bounded` are the bounds that `TypeOK` needs: a pipe has at most one token for
  each `cancel_read`, and what was sent plus what is left is what was written.

**`SerialPort_proofs`**
* `SettingsInForce` (`Spec => []InForce`), `LinesAsWanted` (`[]LinesTold`) and
  `HoldsAllOrNothing` (`[]ClosedHoldsNothing`), for any programs whose platform,
  settings (those that a system may lose without a word among them) and lines
  are known ones (`ProgramAssumption`). The stages of `open` with their failures
  are steps of the model, so the properties are inductive with little added:
  `InForce` by itself, as a reconfiguration hands over all settings each time,
  and forgets what an earlier one has lost; `LinesTold` with the types of the
  levels (`LinesInv`), and `ClosedHoldsNothing` with both of these and the
  descriptors that a failed `os.close` leaves in an open port (`HoldInv`).

**`Programs_proofs`**
* `OnlyOneOpen` (`Spec => []OnlyCurrentOpen`) and `ReaderUndisturbed`
  (`Spec => PortUndisturbed`), for any ports: a port's name only has to differ from
  `None`, and native ports from URLs. `MinitermInv` adds which threads exist while
  the main thread is where (`Phases`), that the writer replaces or suspends the
  port only after joining the reader (`Errands`), and that the reader of an open
  port has been told to stop by nobody while the writer is about no errand
  (`Reads`). Writes may block and ports refuse to close.
* `NextClientStartsAnew` (`PublisherSpec => StartsAnew`), for any devices,
  clients, network ports and exceptions. What the next client finds depends on
  the callbacks of a round, which were chosen before the first of them ran.
  `PublisherInv` says of the Forwarders that one without a client has nothing of
  the last one (`Clean`), that an unpublished one is as at the start, that one
  spoiled by an exception is not alive, and that nobody waits for one without a
  server (`ForwardersOK`); of the round, that no callback is in it twice, none
  is of a spoiled Forwarder, and that data of a client is read only with room
  for it (`RoundOK`); and which of these may be where in the main loop
  (`LoopOK`). That a network port is free for a new Forwarder, fewer Forwarders
  than devices having one, is counted in `FreeNetOK`. The loop variable is 0 or
  a published device (`LoopVariableOK`).

**`ModemState_proofs`**
* `AnswerFound` (`Spec => []AnswerIsThere`), for any mask: nothing empties the cache,
  and whoever restarts the timeout has stored a value before (`CacheInv`).
* `ComparedWithSent` (`Spec => []OneThreadComparesWithLastSent`) and `ChangesTold`
  (`Spec => DeltasTellChanges`). The invariant says of programs with one thread that
  there is one call at a time and that it has compared with what is still saved
  (`OneCall`), and that between sending and saving the call itself holds what was
  sent (`SentIsSaved`). The case that needs thought is a check that saves without
  notifying: under the full mask it saves no lines and no changes, which is what
  was sent before.

Every safety property of the runs that pass is proved. Only model-checked:

* All liveness, the liveness half of `ImplementsChannel` among it: the prover does
  neither liveness under fairness nor ENABLED.
* Whether the bounds of the runs are reached with the interesting cases. No
  theorem says that anything happens; the mutations in `PROJECT.json` do.

<a name="not-modelled"></a>
## What is not modelled, and what no property covers

Not modelled: the wrappers of `alt://`, `hwgrep://` and `spy://`, the port listing,
the GUI and AT examples and the scripts. They choose a class, enumerate devices
or format text and keep no state that several actors share; `at_protocol.py`
would be a client of `ReaderThread`.
Of the modelled parts these are left out:

* `rfc2217.py`: line state notifications, which no method of the client reads.
* `cp2110://`: settings and the outgoing reports. `loop://`: modem lines.
* The ports: counts (`in_waiting`, `out_waiting`), `nonblocking`, the flow control
  and buffer size methods, `inter_byte_timeout`, breaks, the ioctl numbers and
  custom baud rates of each system.
* Windows: that a write reuses the overlapped structure of a non-blocking write
  before it which is still pending.
* Miniterm: the consoles' keys, `ask_for_port`, texts and the command line. The
  publisher: zeroconf's own threads, logging, daemonizing.
* wxTerminal decodes each chunk by itself, so a character may be cut.
* Miniterm: a reader that an exception of `console.write` ends, as a character
  that the terminal's encoding does not have may raise.
* Framing: `read_until` over a port whose `read(1)` returns more than one byte,
  which `cp2110://` does. `LinesAreTheStream` takes one byte at most.
* `close()` of `rfc2217://` clears `_socket` while another thread may be in `write()`
  (`rfc2217.py:558`): an `AttributeError` in place of a `PortNotOpenError`.
* `reset_input_buffer` of `rfc2217://` and `cp2110://` may raise `queue.Empty` when a
  read takes the item it has counted; in `QueuePort` it ends there.
* Zero-length reads and writes, which return at once.
* Python 2's branches (`select.error`), and signals.

The models contain behaviour no property speaks of, because the code promises
nothing else:

* `PosixPollSerial.read` (`serialposix.py:830-840`) on a timeout uses the loop
  variable `fd`. It is unbound the first time, which is an `UnboundLocalError`.
  Later it is the device, and `os.read` raises `BlockingIOError`. The docstring
  says the read may return less. `WaitTimeout` and `TakeBlocked` have both.
* A write that was cancelled returns a count without the bytes of its last
  `os.write` (`serialposix.py:640, 671`), where `documentation/pyserial_api.rst:182`
  says "Number of bytes written". `WriteTellsWhatWasSent` says "at most".
* A write that finds the driver's buffer full before its first byte tries again
  at once and does not look at the cancel pipe. `CallsEnd` begins with the
  first byte.
* `VTIMESerial` makes the descriptor blocking, also for writes: the write
  timeout cannot interrupt `os.write`.
* After the one `None` of a lost `rfc2217://` connection was taken, or if the
  loop ended by an exception (finding 13) or because `is_open` was cleared, a
  read without a timeout is told by nobody; in `cp2110://` never. `EndsAreTold`
  excludes these cases by its disjuncts.
* A write of `loop://` that waits for room while the port is closed.
* `reset_input_buffer` may take the `None` meant for a read (`EndsAreTold`
  excludes it).

## Plan

Done, in this order: negotiation with its proofs, modem state, settings, reader
thread with its proofs, byte stream with its abstract channel, queue ports, file
ports; then settings and `open` of the ports (`SerialPort`), miniterm, the port
publisher, framing, and Windows, .NET, Java and RS-485 in `FilePort`; the proofs of
`FilePort`, `SerialPort`, `Miniterm` and `ModemState`; those of `PortSettings` and
`TelnetStream`, of `BytesKept` and of `QuietAgreement`; those of `QueuePort`,
`PortPublisher` and `Framing`.

Next:

1. `ReaderThread` over `FilePort`, in place of the reader thread's abstract port.
2. The AT protocol on `LineReader`: a response that comes after its command's
   timeout is taken for the next command's.
3. cp2110's outgoing reports and settings, loop's modem lines.

Abstract specifications worth stating: the channel (done); a port as a pair of
byte queues with cancellation, which both `FilePort` and `QueuePort` implement; a
reader thread as a sequence of callbacks `made (received)* lost`.

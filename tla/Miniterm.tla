------------------------------- MODULE Miniterm -------------------------------
(***************************************************************************)
(* The terminal program, serial/tools/miniterm.py, from start() to close(): *)
(* the main thread that waits in join(), the writer that reads keys from the*)
(* console and carries out the menu commands, the reader it stops and starts*)
(* again for them, and the ports they share.                                *)
(*                                                                          *)
(* Three ways to wake a thread: cancel_read of the port, a timeout of the   *)
(* port, and a key (NUL) pushed into the console.  Ports of Native have     *)
(* cancel_read, those of Url (socket://) have not.  On POSIX a cancel waits *)
(* in a pipe for the next read; Windows cancels a pending read only.        *)
(* Transformations and codecs are in Framing.                               *)
(***************************************************************************)
EXTENDS Integers, FiniteSets

CONSTANTS Native, Url, None, Platforms
ASSUME MinitermAssumption == Native \cap Url = {} /\ None \notin Native \union Url
Ports == Native \union Url

VARIABLES
  platform,
  alive, reader_alive,
  main,       \* where the main thread is
  tx, errand, \* where the writer is; what it stopped the reader for
  menu_active,
  rx,         \* where the receiver_thread is
  port, open, \* self.serial; the ports that are open
  polled,     \* the port has a timeout
  token,      \* a cancelled read of the port that has not returned
  gone,       \* the devices that are unplugged
  nul,        \* a key pushed into the console
  wanted      \* the port asked for

flags == <<alive, reader_alive>>
writer == <<tx, errand, menu_active, wanted>>
ports == <<port, open, polled>>
vars == <<platform, flags, main, writer, rx, ports, token, gone, nul>>

Init ==
  /\ platform \in Platforms
  /\ alive = FALSE /\ reader_alive = FALSE
  /\ main = "open" /\ tx = "unborn" /\ errand = "none" /\ rx = "unborn"
  /\ menu_active = FALSE /\ wanted = None
  /\ port = None /\ open = {} /\ polled = FALSE
  /\ token = FALSE /\ gone = {} /\ nul = FALSE

(* cancel_read: of an open port; of a closed one, Windows has no OVERLAPPED *)
(* to cancel and raises.                                                    *)
CancelRaises == platform = "win32" /\ port \in Native \ open
CancelRead ==
  token' = (token \/ (port \in Native \cap open /\ (platform = "posix" \/ rx = "read")))
-----------------------------------------------------------------------------
(* The reader.                                                              *)
RxTestOwnFlag ==  \* a mutation of RxTest: alive is not looked at
  /\ rx = "test"
  /\ rx' = IF reader_alive THEN "enter" ELSE "ended"
  /\ UNCHANGED <<platform, flags, main, writer, ports, token, gone, nul>>
RxTest ==
  /\ rx = "test"
  /\ rx' = IF alive /\ reader_alive THEN "enter" ELSE "ended"
  /\ UNCHANGED <<platform, flags, main, writer, ports, token, gone, nul>>

RxEnter ==
  /\ rx = "enter" /\ port \in open \ gone
  /\ rx' = "read"
  /\ UNCHANGED <<platform, flags, main, writer, ports, token, gone, nul>>

RxReturn ==
  /\ rx = "read" /\ port \notin gone
  /\ rx' = "test" /\ token' = FALSE
  /\ UNCHANGED <<platform, flags, main, writer, ports, gone, nul>>
RxData == RxReturn
RxTimeout == polled /\ RxReturn
RxCancelled == token /\ RxReturn

(* A SerialException ends the program; what in_waiting of POSIX raises, and *)
(* of a closed port too, is none and ends the thread only.                  *)
RxRaise ==
  /\ rx \in {"enter", "read"} /\ port \notin open \ gone
  /\ rx' = "dead"
  /\ \/ /\ platform = "posix" /\ port \in Native /\ rx = "enter"
        /\ UNCHANGED <<flags, nul>>
     \/ /\ port \in open \/ platform = "win32" \/ port \in Url
        /\ alive' = FALSE /\ nul' = TRUE /\ UNCHANGED reader_alive
  /\ UNCHANGED <<platform, main, writer, ports, token, gone>>

Unplug ==
  /\ \E p \in open : gone' = gone \union {p}
  /\ UNCHANGED <<platform, flags, main, writer, rx, ports, token, nul>>
Plug ==
  /\ \E p \in gone \ open : gone' = gone \ {p}
  /\ UNCHANGED <<platform, flags, main, writer, rx, ports, token, nul>>
-----------------------------------------------------------------------------
(* The writer: its loop, and the keys that need no other thread.            *)
Raises == alive' = FALSE /\ UNCHANGED reader_alive /\ tx' = "dead"

TxTest ==
  /\ tx = "test"
  /\ tx' = IF alive THEN "key" ELSE "ended"
  /\ UNCHANGED <<platform, flags, main, errand, menu_active, wanted, rx, ports, token, gone, nul>>

(* A pushed key, or alive cleared while waiting for one.                    *)
TxWoken ==
  /\ tx = "key" /\ nul
  /\ nul' = FALSE
  /\ tx' = IF alive THEN "send" ELSE "ended"
  /\ UNCHANGED <<platform, flags, main, errand, menu_active, wanted, rx, ports, token, gone>>

Stop == alive' = FALSE /\ UNCHANGED reader_alive

TxKey ==
  /\ tx = "key"
  /\ IF ~alive THEN tx' = "ended" /\ UNCHANGED <<flags, menu_active>>
     ELSE \/ ~menu_active /\ menu_active' = TRUE /\ tx' = "test" /\ UNCHANGED flags
          \/ ~menu_active /\ tx' = "send" /\ UNCHANGED <<flags, menu_active>>
          \/ Stop /\ tx' = "ended" /\ UNCHANGED menu_active     \* exit character
  /\ UNCHANGED <<platform, main, errand, wanted, rx, ports, token, gone, nul>>

TxSend ==
  /\ tx = "send"
  /\ IF port \in open \ gone THEN tx' = "write" /\ UNCHANGED flags ELSE Raises
  /\ UNCHANGED <<platform, main, errand, menu_active, wanted, rx, ports, token, gone, nul>>

(* The port has no write timeout, and nobody cancels a write: it is over    *)
(* when the device, or the peer of a socket, has taken the bytes.           *)
TxWritten ==
  /\ tx = "write"
  /\ \/ tx' = "test" /\ UNCHANGED flags
     \/ port \in gone /\ Raises
  /\ UNCHANGED <<platform, main, errand, menu_active, wanted, rx, ports, token, gone, nul>>

Leave == menu_active' = FALSE

(* The commands of the menu: a setting, which may be refused; Q; the menu   *)
(* character itself, to be sent; those that prompt, with the console in its *)
(* normal mode, which discards its input.                                   *)
MenuSet ==
  /\ tx = "key" /\ menu_active /\ alive
  /\ Leave
  /\ \/ tx' = "test" /\ UNCHANGED flags
     \/ Raises
     \/ Stop /\ tx' = "test"
     \/ tx' = "send" /\ UNCHANGED flags
  /\ UNCHANGED <<platform, main, errand, wanted, rx, ports, token, gone, nul>>

Prompt == nul' = FALSE
Answered == nul' = FALSE

MenuPrompt ==
  /\ tx = "key" /\ menu_active /\ alive
  /\ Leave /\ Prompt
  /\ tx' = "prompt" /\ errand' \in {"change", "none"}
  /\ UNCHANGED <<platform, flags, main, wanted, rx, ports, token, gone>>

MenuSuspend ==
  /\ tx = "key" /\ menu_active /\ alive
  /\ Leave
  /\ tx' = "stop_reader" /\ errand' = "suspend"
  /\ UNCHANGED <<platform, flags, main, wanted, rx, ports, token, gone, nul>>

(* The answer: a baud rate, filter, encoding or file, whose errors are told *)
(* unless the port raises; or a port, the same or none being no change.     *)
AnswerOther ==
  /\ tx = "prompt" /\ errand = "none"
  /\ Answered
  /\ (tx' = "test" /\ UNCHANGED flags) \/ Raises
  /\ UNCHANGED <<platform, main, errand, menu_active, wanted, rx, ports, token, gone>>
AnswerPort ==
  /\ tx = "prompt" /\ errand = "change"
  /\ Answered
  /\ wanted' \in {None} \union (Ports \ {port})
  /\ tx' = IF wanted' = None THEN "test" ELSE "stop_reader"
  /\ UNCHANGED <<platform, flags, main, errand, menu_active, rx, ports, token, gone>>
-----------------------------------------------------------------------------
(* Stopping the reader, for a port change or to suspend.                    *)
TxStopReader ==
  /\ tx = "stop_reader"
  /\ reader_alive' = FALSE
  /\ IF CancelRaises THEN alive' = FALSE /\ tx' = "dead" /\ UNCHANGED token
     ELSE CancelRead /\ tx' = "join_reader" /\ UNCHANGED alive
  /\ UNCHANGED <<platform, main, errand, menu_active, wanted, rx, ports, gone, nul>>

(* A mutation of RxGone: the thread is not joined.                          *)
RxGoneUnjoined == TRUE
RxGone == rx \in {"ended", "dead"}

(* os.close raises on some devices that are gone; the port is open then.    *)
CloseMayRaise == platform = "posix" /\ port \in Native

TxJoinReader ==
  /\ tx = "join_reader" /\ RxGone
  /\ \/ errand = "change" /\ tx' = "swap" /\ UNCHANGED <<flags, open, token>>
     \/ /\ errand # "change" /\ tx' = "suspended"
        /\ open' = open \ {port} /\ token' = FALSE /\ UNCHANGED flags
     \/ errand # "change" /\ CloseMayRaise /\ Raises /\ UNCHANGED <<open, token>>
  /\ UNCHANGED <<platform, main, errand, menu_active, wanted, rx, port, polled, gone, nul>>

StartReader == reader_alive' = TRUE /\ rx' = "test"

SwappedKeeping ==  \* a mutation of Swapped: the old port is not closed
  /\ wanted \notin gone
  /\ open' = open \union {wanted} /\ port' = wanted
  /\ token' = FALSE
  /\ StartReader /\ UNCHANGED <<alive, polled>>
(* The new port gets the settings, the timeout too, and is open before the  *)
(* old one is closed.  serial_for_url may raise, where nobody has prepared  *)
(* for it, and so may closing the old port, which stays the current one,    *)
(* while the last reference to the new one goes with the writer; all else   *)
(* that fails leaves the old port.                                          *)
SwapFails == /\ StartReader
             /\ UNCHANGED <<alive, ports, token>>
Swapped == /\ wanted \notin gone
           /\ open' = (open \ {port}) \union {wanted} /\ port' = wanted
           /\ token' = FALSE
           /\ StartReader /\ UNCHANGED <<alive, polled>>

TxSwap ==
  /\ tx = "swap"
  /\ \/ Raises /\ UNCHANGED <<rx, ports, token>>
     \/ (SwapFails \/ Swapped) /\ tx' = "test"
  /\ UNCHANGED <<platform, main, errand, menu_active, wanted, gone, nul>>

(* Suspended: exit, change the port, or open again.  alive is not looked at. *)
Reopen(k) ==
  \/ /\ k = "exit"
     /\ alive' = FALSE /\ StartReader
     /\ tx' = "test" /\ UNCHANGED <<open, errand>>
  \/ /\ k = "change"
     /\ tx' = "prompt" /\ errand' = "change"
     /\ UNCHANGED <<flags, rx, open>>
  \/ /\ k = "other"
     /\ \/ UNCHANGED <<flags, rx, tx, open>>
        \/ /\ port \notin gone
           /\ open' = open \union {port} /\ StartReader
           /\ tx' = "test" /\ UNCHANGED alive
     /\ UNCHANGED errand

TxSuspended ==
  /\ tx = "suspended"
  /\ \E k \in IF nul THEN {"other"} ELSE {"exit", "change", "other"} : Reopen(k)
  /\ nul' = FALSE
  /\ UNCHANGED <<platform, main, menu_active, wanted, port, polled, token, gone>>
-----------------------------------------------------------------------------
(* The main thread: open, which may fail and then ends the program or asks  *)
(* for another port; start; join, with a signal handler; close.             *)
MainOpen ==
  /\ main = "open"
  /\ \E p \in Ports \ gone :
       port' = p /\ open' = {p} /\ polled' = (p \in Url)
  /\ main' = "start"
  /\ UNCHANGED <<platform, flags, writer, rx, token, gone, nul>>
MainCannotOpen ==
  /\ main = "open" /\ main' \in {"open", "exit"}
  /\ UNCHANGED <<platform, flags, writer, rx, ports, token, gone, nul>>

MainStart ==
  /\ main = "start" /\ main' = "join_tx"
  /\ alive' = TRUE /\ StartReader
  /\ tx' = "test"
  /\ UNCHANGED <<platform, errand, menu_active, wanted, ports, token, gone, nul>>

(* Only the console of POSIX has a handler.  On Windows join(True) is left  *)
(* by KeyboardInterrupt, and join() waits for the writer again, which was   *)
(* not told to stop; a second interrupt ends the program.                   *)
Sigint ==
  \/ /\ platform = "posix" /\ main \in {"start", "join_tx", "join_rx"}
     /\ alive' = FALSE /\ nul' = TRUE
     /\ UNCHANGED <<platform, reader_alive, main, writer, rx, ports, token, gone>>
  \/ /\ platform = "win32" /\ main \in {"join_tx", "join", "join_rx"}
     /\ main' = IF main = "join_tx" THEN "join" ELSE "died"
     /\ UNCHANGED <<platform, flags, writer, rx, ports, token, gone, nul>>

MainJoinTx ==
  /\ main \in {"join_tx", "join"} /\ tx \in {"ended", "dead"}
  /\ IF CancelRaises THEN main' = "died" /\ UNCHANGED token
     ELSE CancelRead /\ main' = "join_rx"
  /\ UNCHANGED <<platform, flags, writer, rx, ports, gone, nul>>

MainJoinRx ==
  /\ main = "join_rx" /\ RxGone
  /\ \/ main' = "done" /\ open' = open \ {port} /\ token' = FALSE
     \/ CloseMayRaise /\ main' = "died" /\ UNCHANGED <<open, token>>
  /\ UNCHANGED <<platform, flags, writer, rx, port, polled, gone, nul>>

Rx == RxTest \/ RxEnter \/ RxRaise
Tx == TxTest \/ TxWoken \/ TxSend \/ TxStopReader \/ TxJoinReader \/ TxSwap
User == TxKey \/ MenuSet \/ MenuPrompt \/ MenuSuspend \/ AnswerOther \/ AnswerPort \/ TxSuspended
Main == MainOpen \/ MainCannotOpen \/ MainStart \/ MainJoinTx \/ MainJoinRx

Next == \/ Rx \/ RxData \/ RxTimeout \/ RxCancelled \/ Tx \/ TxWritten \/ User \/ Main
        \/ Sigint \/ Unplug \/ Plug

Spec == Init /\ [][Next]_vars

(* Threads run, timeouts expire and cancelled reads return; nothing makes   *)
(* the user type, data arrive, a device take what is written or go.         *)
FairSpec == /\ Spec
            /\ WF_vars(Rx) /\ WF_vars(RxTimeout) /\ WF_vars(RxCancelled)
            /\ WF_vars(Tx) /\ WF_vars(Main)
-----------------------------------------------------------------------------
TypeOK ==
  /\ platform \in Platforms
  /\ alive \in BOOLEAN /\ reader_alive \in BOOLEAN /\ menu_active \in BOOLEAN
  /\ polled \in BOOLEAN /\ token \in BOOLEAN /\ nul \in BOOLEAN
  /\ main \in {"open", "exit", "start", "join_tx", "join", "join_rx", "done", "died"}
  /\ tx \in {"unborn", "test", "key", "send", "write", "prompt", "stop_reader", "join_reader",
             "swap", "suspended", "ended", "dead"}
  /\ errand \in {"none", "change", "suspend"}
  /\ rx \in {"unborn", "test", "enter", "read", "ended", "dead"}
  /\ port \in Ports \union {None} /\ open \subseteq Ports /\ gone \subseteq Ports
  /\ wanted \in Ports \union {None}

(* Only the current port is ever left open, whatever fails in a port change,*)
(* and none when the program has closed.  While the writer takes keys and   *)
(* its port is open, a reader is there to show what arrives; but on POSIX   *)
(* in_waiting may have ended it unnoticed.  With the types.                 *)
OnlyCurrentOpen ==
  /\ TypeOK
  /\ open \subseteq {port}
  /\ main = "done" => open = {}
  /\ tx = "key" /\ alive /\ port \in open =>
       rx \in {"test", "enter", "read"} \/ (platform = "posix" /\ rx = "dead")

(* Nobody closes or replaces the port under the reader.                      *)
PortUndisturbed ==
  [][(rx \in {"enter", "read"}) => port' = port /\ (port \in open <=> port \in open')]_vars

(* Whoever ends the program, reader, writer, menu or signal: it does end,   *)
(* unless it waits for an answer of the user, as long as its port can be    *)
(* woken, by a timeout, or on POSIX by cancel_read, and if what the writer  *)
(* writes is taken at last: a write that blocks keeps the program for ever. *)
Wakeable == port = None \/ polled \/ (platform = "posix" /\ port \in Native)
WritesReturn == []<>(tx # "write")
ExitEnds ==
  []Wakeable /\ WritesReturn =>
    ((~alive /\ main \in {"join_tx", "join"}) ~>
       (main \in {"done", "died"} \/ tx \in {"prompt", "suspended"}))

=============================================================================

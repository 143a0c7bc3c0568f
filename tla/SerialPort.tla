------------------------------ MODULE SerialPort ------------------------------
(***************************************************************************)
(* The life of a local port on the four platforms: open, close, the setters *)
(* of SerialBase (serial/serialutil.py), get_settings and apply_settings,   *)
(* and what _reconfigure_port of serialposix.py, serialwin32.py,            *)
(* serialcli.py and serialjava.py does with them.                           *)
(*                                                                          *)
(* _reconfigure_port is a row of stages, each of which hands some settings  *)
(* to the device or raises; the setter has stored the value by then.  Any   *)
(* stage may raise because of the device, and some do because of the values;*)
(* and some settings may be lost on the way without a word, see Unheard.    *)
(* Two more actors: a program that has the same device open (stty, flock)   *)
(* and the user's plan to restore settings taken with get_settings.         *)
(***************************************************************************)
EXTENDS Integers, SequencesExt, FiniteSetsExt

CONSTANTS
  Programs,   \* records: the platform, the values and lines a program sets,
              \* the settings its system may leave as they are and tell nobody
  None, Handshake,
  Custom,     \* baud rates termios has no constant for
  Refused     \* pairs of byte size and stop bits that SetCommState refuses

SavedSettings == <<"baudrate", "bytesize", "parity", "stopbits", "xonxoff", "dsrdtr",
                   "rtscts", "timeout", "write_timeout", "inter_byte_timeout">>
Keys == ToSet(SavedSettings) \union {"exclusive", "rs485_mode"}
Lines == {"rts", "dtr", "break"}

ASSUME ProgramAssumption ==
  \A p \in Programs : /\ p.platform \in {"posix", "win32", "cli", "java"}
                      /\ DOMAIN p.values \subseteq Keys /\ p.lines \subseteq Lines
                      /\ p.unnoticed \subseteq Keys

Defaults == [baudrate |-> 9600, bytesize |-> 8, parity |-> "N", stopbits |-> 10,
             xonxoff |-> FALSE, dsrdtr |-> FALSE, rtscts |-> FALSE, timeout |-> None,
             write_timeout |-> None, inter_byte_timeout |-> None, exclusive |-> None,
             rs485_mode |-> None]

VARIABLES
  program,   \* the one that uses the port
  port,      \* None or a name
  s,         \* the settings as the setters store them: _baudrate, ...
  want,      \* _rts_state, _dtr_state, _break_state
  is_open, held,   \* the flag; the descriptors and handles that exist
  dev, line, \* settings and lines of the device; None is unknown
  failed,    \* history: lines whose last update raised, or failed on Windows
  unheard,   \* history: settings the last reconfiguration lost on the way
  lock,      \* flock on the device: "free", "ours", "theirs"
  outcome,   \* history: of the last reconfiguration, "touched" by others since
  saved,     \* a dictionary from get_settings
  pc, mode   \* the call under way; "restore" until apply_settings succeeds

known == <<s, want, saved>>
device == <<dev, line, failed, lock>>
history == <<outcome, unheard>>
vars == <<program, port, known, is_open, held, device, history, pc, mode>>

platform == program.platform
Fresh == [k \in Keys |-> None]

Init ==
  /\ program \in Programs
  /\ port = "a"
  /\ s = Defaults /\ want = [rts |-> TRUE, dtr |-> TRUE, break |-> FALSE]
  /\ is_open = FALSE /\ held = {}
  /\ dev = Fresh /\ line = [l \in Lines |-> None] /\ failed = {} /\ lock = "free"
  /\ outcome = "raised" /\ unheard = {} /\ saved = None
  /\ pc = "idle" /\ mode = "use"
-----------------------------------------------------------------------------
(* _reconfigure_port: the settings each stage hands over, in order.         *)
PosixStages ==
  << {},  \* flock
     {"baudrate", "bytesize", "parity", "stopbits", "xonxoff", "rtscts", "inter_byte_timeout"},
     {"baudrate"},      \* _set_special_baudrate
     {"rs485_mode"} >>  \* _set_rs485_mode
Win32Stages ==
  << {"timeout", "write_timeout", "inter_byte_timeout"},
     {"baudrate", "bytesize", "parity", "stopbits", "xonxoff", "rtscts", "dsrdtr", "rs485_mode"} >>
CliStages ==
  << {"timeout"}, {"write_timeout"}, {"baudrate"}, {"bytesize"}, {"parity"}, {"stopbits"},
     {"xonxoff", "rtscts"} >>
JavaStages ==
  << {"baudrate", "bytesize", "stopbits", "parity"}, {"xonxoff", "rtscts"}, {"timeout"} >>
Stages == [posix |-> PosixStages, win32 |-> Win32Stages, cli |-> CliStages,
           java |-> JavaStages][platform]

(* The stages that are skipped: a rate with a constant, no RS-485 settings. *)
Applies(t, i) ==
  platform = "posix" => /\ i = 3 => t.baudrate \in Custom
                        /\ i = 4 => t.rs485_mode # None

PosixRejects(t, i) ==
  \/ i = 1 /\ t.exclusive = TRUE /\ lock = "theirs"
  \/ i = 2 /\ t.inter_byte_timeout = "long"  \* VTIME is a byte
Win32Rejects(t, i) ==
  i = 2 /\ (<<t.bytesize, t.stopbits>> \in Refused \/ t.rs485_mode = "delayed")
Rejects(t, i) == \/ platform = "posix" /\ PosixRejects(t, i)
                 \/ platform = "win32" /\ Win32Rejects(t, i)

(* The stages that succeed when the device fails in stage f (0: nowhere).   *)
Completed(t, f) ==
  LET bad == {i \in 1 .. Len(Stages) : Applies(t, i) /\ (i = f \/ Rejects(t, i))}
  IN IF bad = {} THEN Len(Stages) ELSE Min(bad) - 1

(* What the device is told: POSIX has no 1.5 stop bits; on Windows RS-485   *)
(* replaces the RTS/CTS handshake and polling the inter byte timeout.       *)
Told(t, k) ==
  CASE platform = "posix" /\ k = "stopbits" -> IF t.stopbits = 10 THEN 10 ELSE 20
    [] platform = "win32" /\ k = "rtscts" -> t.rtscts /\ t.rs485_mode = None
    [] platform = "win32" /\ k = "inter_byte_timeout" ->
         IF t.timeout = 0 THEN None ELSE t.inter_byte_timeout
    [] OTHER -> t[k]

(* What may be lost while nothing raises: tcsetattr succeeds when it could  *)
(* make some of the changes, and without CRTSCTS in termios rtscts is left  *)
(* out; the result of SetCommTimeouts is not looked at.                     *)
Unheard ==
  IF mode = "restore" \/ platform \notin {"posix", "win32"} THEN {{}}
  ELSE IF platform = "posix" THEN SUBSET program.unnoticed ELSE {{}, Win32Stages[1]}

DeviceAfter(t, n, u) ==
  [k \in Keys |->
     IF k \in u \/ \A i \in 1 .. n : Applies(t, i) => k \notin Stages[i] THEN dev[k]
     ELSE IF platform = "posix" /\ k = "baudrate" /\ t.baudrate \in Custom /\ n < 3
          THEN None  \* BOTHER without the rate
          ELSE Told(t, k)]

LockAfter(t, n) ==
  IF platform # "posix" \/ n = 0 \/ t.exclusive = None THEN lock
  ELSE IF t.exclusive THEN "ours" ELSE IF lock = "ours" THEN "free" ELSE lock

(* Handshaking, once asked for, owns its line; the DCB of Windows sets the  *)
(* lines as well.                                                           *)
SetsLines(n) == platform = "win32" /\ n = Len(Stages)

LinesAfter(t, n) ==
  LET flow == \E i \in 1 .. n : "rtscts" \in Stages[i]
      dcb == SetsLines(n)
  IN [line EXCEPT
        !.rts = IF flow /\ (t.rtscts \/ (dcb /\ t.rs485_mode # None)) THEN Handshake
                ELSE IF dcb THEN want.rts ELSE line.rts,
        !.dtr = IF ~dcb THEN line.dtr ELSE IF t.dsrdtr THEN Handshake ELSE want.dtr]

(* Where the device may fail; what SetCommTimeouts returns is not checked.  *)
Failing == IF mode = "restore" THEN {0}
           ELSE IF platform = "win32" THEN {0, 2} ELSE 0 .. Len(Stages)

(* A descriptor that close() has lost rejects everything.                   *)
StagesDone(t, f) == IF is_open /\ platform = "posix" /\ "fd" \notin held THEN 0 ELSE Completed(t, f)

Reconfigure(t) ==
  \E f \in Failing, u \in Unheard :
    LET n == StagesDone(t, f) IN
      /\ dev' = DeviceAfter(t, n, u) /\ line' = LinesAfter(t, n) /\ lock' = LockAfter(t, n)
      /\ outcome' = IF n = Len(Stages) THEN "ok" ELSE "raised"
      /\ unheard' = IF n = Len(Stages) THEN u ELSE {}
      /\ failed' = IF SetsLines(n) THEN failed \ {"rts", "dtr"} ELSE failed
-----------------------------------------------------------------------------
(* open(), close().                                                         *)
PosixHandles == {"fd", "read_r", "read_w", "write_r", "write_w"}
Win32Handles == {"handle", "read_event", "write_event"}
Handles == [posix |-> PosixHandles, win32 |-> Win32Handles,
            cli |-> {"handle"}, java |-> {"handle"}][platform]

(* What exists when the step of open() raises.                              *)
PosixHeld == [configure |-> {"fd"}, lines |-> {"fd"}, flush |-> {"fd"}, read_pipe |-> {"fd"},
              write_pipe |-> {"fd", "read_r", "read_w"}, nonblock |-> PosixHandles]
Win32Cleanup(h) == h \ Win32Handles

(* A mutation of PosixCleanup: one end of a pipe is forgotten.               *)
PosixCleanupForgetful(h) == h \ (PosixHandles \ {"read_w"})
PosixCleanup(h) == h \ PosixHandles

(* The lines open() sets: DTR, then RTS, both in one try.                   *)
Shaken == [rts |-> s.rtscts, dtr |-> s.dsrdtr, break |-> FALSE]
(* A mutation of Updated: each handshake guards the other line.              *)
UpdatedSwapped == {l \in {"dtr"} : ~Shaken.rts} \union {l \in {"rts"} : ~Shaken.dtr}
Updated == {l \in {"dtr", "rts"} : ~Shaken[l]}
Unset == {{}, Updated, Updated \ {"dtr"}}
LinesOpened(fail) ==
  /\ line' = [l \in Lines |-> IF l \in Updated \ fail THEN want[l]
                             ELSE IF Shaken[l] THEN Handshake ELSE None]
  /\ failed' = fail

Closed(h) == /\ is_open' = FALSE /\ held' = h
             /\ lock' = IF lock = "theirs" THEN lock ELSE "free"
Configured(n) == /\ \E u \in Unheard : /\ dev' = DeviceAfter(s, n, u)
                                       /\ unheard' = IF n = Len(Stages) THEN u ELSE {}
                 /\ outcome' = IF n = Len(Stages) THEN "ok" ELSE "raised"

(* _close() gives back the timeouts that open() found, or fails to.         *)
OriginalTimeouts(d) == {d, [k \in Keys |-> IF k \in Win32Stages[1] THEN None ELSE d[k]]}

CannotOpen ==  \* no name, no such device
  /\ held' = IF platform = "java" THEN held ELSE {}
  /\ outcome' = "raised"
  /\ UNCHANGED <<is_open, device, unheard>>

PosixOpen(n) ==
  /\ platform = "posix"
  /\ Configured(n)
  /\ \/ \E step \in DOMAIN PosixHeld :
          /\ (n < Len(Stages)) = (step = "configure")
          /\ Closed(PosixCleanup(PosixHeld[step]))
          /\ \E fail \in Unset : LinesOpened(fail)
     \/ /\ n = Len(Stages)
        /\ is_open' = TRUE /\ held' = Handles
        /\ lock' = LockAfter(s, n)
        /\ \E fail \in Unset : LinesOpened(fail)  \* EINVAL and ENOTTY are ignored

Win32Open(n) ==
  /\ platform = "win32"
  /\ line' = LinesAfter(s, n) /\ failed' = {}
  /\ IF n = Len(Stages)
     THEN Configured(n) /\ is_open' = TRUE /\ held' = Handles /\ UNCHANGED lock
     ELSE /\ Closed(Win32Cleanup(Win32Handles))
          /\ \E u \in Unheard : dev' \in OriginalTimeouts(DeviceAfter(s, n, u))
          /\ outcome' = "raised" /\ unheard' = {}

(* .NET: the object is configured, then opened; the flag is set before the  *)
(* lines and the input are, which may raise with the port open.             *)
CliOpen(n) ==
  /\ platform = "cli"
  /\ UNCHANGED lock
  /\ \/ n < Len(Stages) /\ CannotOpen
     \/ /\ n = Len(Stages)
        /\ Configured(n)
        /\ is_open' = TRUE /\ held' = Handles
        /\ \E fail \in Unset : LinesOpened(fail)

(* Java: nothing closes the device when configuring it raises; opened again *)
(* it is in use.                                                            *)
JavaOpen(n) ==
  /\ platform = "java" /\ held = {}
  /\ Configured(n)
  /\ is_open' = (n = Len(Stages)) /\ held' = Handles
  /\ line' = [l \in Lines |-> None] /\ failed' = {}
  /\ UNCHANGED lock

Open ==
  /\ pc \in {"idle", "reopening"} /\ mode = "use" /\ ~is_open
  /\ pc' = "idle"
  /\ \/ CannotOpen
     \/ /\ port # None
        /\ \E f \in Failing : LET n == Completed(s, f) IN
             PosixOpen(n) \/ Win32Open(n) \/ CliOpen(n) \/ JavaOpen(n)
  /\ UNCHANGED <<program, port, known, mode>>

(* os.close may raise, with the descriptor gone: the port stays open and    *)
(* its pipes exist.  The Close() of .NET may raise too, and the handler     *)
(* with it, which names a class that does not exist: the port stays open.   *)
(* In Java a stream may fail to close.                                      *)
CloseHandles ==
  \/ /\ platform = "posix" => "fd" \in held
     /\ Closed({})
     /\ dev' \in IF platform = "win32" THEN OriginalTimeouts(dev) ELSE {dev}
  \/ /\ platform = "cli"
     /\ UNCHANGED <<is_open, held, lock, dev>>
  \/ /\ platform \in {"posix", "java"}
     /\ held' = held \ {"fd"}
     /\ lock' = IF platform = "posix" /\ lock = "ours" THEN "free" ELSE lock
     /\ UNCHANGED <<is_open, dev>>

Close ==
  /\ pc = "idle" /\ mode = "use" /\ is_open
  /\ CloseHandles
  /\ UNCHANGED <<program, port, known, line, failed, history, pc, mode>>
-----------------------------------------------------------------------------
(* The setters: the value is stored, then an open port is reconfigured.     *)
(* Mutations of Set: a value that is stored already is not set again; a     *)
(* value is stored when the device has accepted it.                         *)
SetOnce(k, v) ==
  LET t == [s EXCEPT ![k] = v] IN
    /\ s' = t
    /\ IF is_open /\ s # t THEN Reconfigure(t)
       ELSE outcome' = (IF is_open THEN "ok" ELSE outcome) /\ UNCHANGED <<device, unheard>>
SetAccepted(k, v) ==
  LET t == [s EXCEPT ![k] = v] IN
    IF is_open THEN Reconfigure(t) /\ s' = (IF outcome' = "ok" THEN t ELSE s)
    ELSE s' = t /\ UNCHANGED <<device, history>>
Set(k, v) ==
  LET t == [s EXCEPT ![k] = v] IN
    /\ s' = t
    /\ IF is_open THEN Reconfigure(t) ELSE UNCHANGED <<device, history>>

(* dsrdtr set to None follows rtscts; Windows cannot share a port.          *)
Setter ==
  /\ pc = "idle" /\ mode = "use"
  /\ \E k \in DOMAIN program.values : \E v \in program.values[k] :
       IF platform = "win32" /\ k = "exclusive" /\ v = FALSE THEN UNCHANGED <<s, device, history>>
       ELSE Set(k, IF k = "dsrdtr" /\ v = None THEN s.rtscts ELSE v)
  /\ UNCHANGED <<program, port, want, saved, is_open, held, pc, mode>>

(* rts, dtr, break_condition.  They raise if they fail, except on Windows,  *)
(* where the calls are not checked.                                         *)
SetLine ==
  /\ pc = "idle" /\ mode = "use"
  /\ \E l \in program.lines, v \in BOOLEAN :
       /\ want' = [want EXCEPT ![l] = v]
       /\ IF ~is_open THEN UNCHANGED <<line, failed>>
          ELSE \/ /\ platform = "posix" => "fd" \in held
                  /\ line' = [line EXCEPT ![l] = IF platform = "win32" /\ @ = Handshake THEN @ ELSE v]
                  /\ failed' = failed \ {l}
               \/ failed' = failed \union {l} /\ UNCHANGED line
  /\ UNCHANGED <<program, port, s, saved, is_open, held, dev, lock, history, pc, mode>>

(* The setter of port closes an open port and opens it under the new name.  *)
(* Another device differs from this one as if others had configured it.     *)
SetPort ==
  /\ pc = "idle" /\ mode = "use"
  /\ \E p \in {"a", None} :
       IF ~is_open THEN port' = p /\ UNCHANGED <<is_open, held, dev, lock, pc>>
       ELSE /\ CloseHandles
            /\ port' = IF is_open' THEN port ELSE p
            /\ pc' = IF is_open' THEN pc ELSE "reopening"
  /\ UNCHANGED <<program, known, line, failed, history, mode>>

GetSettings ==
  /\ pc = "idle" /\ mode = "use" /\ is_open /\ outcome = "ok"
  /\ saved = None  \* bound: once
  /\ saved' = [k \in ToSet(SavedSettings) |-> s[k]]
  /\ UNCHANGED <<program, port, s, want, is_open, held, device, history, pc, mode>>

(* The keys in the dictionary's order, those that already agree left out: a *)
(* key that was set agrees, whether its setter raised or not.               *)
Differing == SelectSeq(SavedSettings, LAMBDA k : saved[k] # s[k])

(* apply_settings, for once or until it succeeds; the latter when there is  *)
(* something to undo, on a device that does not fail by itself.             *)
InOrder == /\ is_open /\ held = Handles
           /\ s.exclusive = TRUE => lock = "ours"
           /\ s.rs485_mode # "delayed"

ApplySettings ==
  /\ pc = "idle" /\ saved # None
  /\ pc' = "applying"
  /\ mode' \in IF InOrder /\ Differing # <<>> THEN {mode, "restore"} ELSE {mode}
  /\ UNCHANGED <<program, port, known, is_open, held, device, history>>

ApplyKey ==
  /\ pc = "applying" /\ Differing # <<>>
  /\ Set(Differing[1], saved[Differing[1]])
  /\ pc' = IF is_open /\ outcome' = "raised" THEN "idle" ELSE pc
  /\ UNCHANGED <<program, port, want, saved, is_open, held, mode>>

ApplyReturn ==
  /\ pc = "applying" /\ Differing = <<>>
  /\ pc' = "idle" /\ mode' = "use"
  /\ UNCHANGED <<program, port, known, is_open, held, device, history>>

(* Other programs, where the device is shared.                              *)
Others ==
  /\ platform = "posix" \/ ~is_open
  /\ pc = "idle" /\ mode = "use"
  /\ \/ /\ \E k \in DOMAIN program.values : dev' = [dev EXCEPT ![k] = Fresh[k]]
        /\ outcome' = IF outcome = "ok" THEN "touched" ELSE outcome
        /\ UNCHANGED lock
     \/ /\ platform = "posix"
        /\ lock' \in IF lock = "ours" THEN {lock} ELSE {"free", "theirs"}
        /\ UNCHANGED <<dev, outcome>>
  /\ UNCHANGED <<program, port, known, is_open, held, line, failed, unheard, pc, mode>>

Next == \/ Open \/ Close \/ Setter \/ SetLine \/ SetPort
        \/ GetSettings \/ ApplySettings \/ ApplyKey \/ ApplyReturn \/ Others

Spec == Init /\ [][Next]_vars

(* Calls go on, and who restores settings calls again after an exception.   *)
FairSpec == Spec /\ WF_vars(ApplyKey \/ ApplyReturn) /\ WF_vars(mode = "restore" /\ ApplySettings)
-----------------------------------------------------------------------------
TypeOK ==
  /\ program \in Programs /\ port \in {"a", None}
  /\ DOMAIN s = Keys /\ DOMAIN dev = Keys
  /\ want \in [Lines -> BOOLEAN] /\ line \in [Lines -> BOOLEAN \union {None, Handshake}]
  /\ failed \subseteq Lines /\ unheard \subseteq Keys
  /\ is_open \in BOOLEAN /\ held \subseteq Handles
  /\ lock \in {"free", "ours", "theirs"}
  /\ outcome \in {"ok", "raised", "touched"}
  /\ pc \in {"idle", "applying", "reopening"} /\ mode \in {"use", "restore"}

(* However open() or close() went, a closed port holds no descriptor, handle*)
(* or lock, and an open one holds all of them but a descriptor that close() *)
(* lost.  Not in Java, where open() leaves the device open when configuring *)
(* it raises.  With the types.                                              *)
ClosedHoldsNothing ==
  /\ TypeOK
  /\ IF is_open THEN held \in {Handles, Handles \ {"fd"}}
     ELSE /\ lock # "ours"
          /\ platform # "java" => held = {}

(* After open(), or a setter, that did not raise, the device has all of the *)
(* settings the port remembers, those of earlier setters that raised too,   *)
(* and those that were lost unnoticed before: whatever goes wrong in one    *)
(* reconfiguration, the next that does not raise makes good.  Excepted are  *)
(* the settings which that one has lost, and that POSIX does not switch     *)
(* RS-485 off.                                                              *)
InForce ==
  is_open /\ outcome = "ok" =>
    \A i \in 1 .. Len(Stages) : \A k \in Stages[i] \ unheard :
      dev[k] = Told(s, k) \/ (platform = "posix" /\ k = "rs485_mode" /\ s[k] = None)

(* RTS and DTR of an open port have the level the program gave them, before *)
(* or after open(), unless that failed or a handshake was asked for.        *)
LinesTold ==
  is_open /\ platform # "java" =>
    \A l \in {"rts", "dtr"} \ failed : line[l] \in {want[l], Handshake}

(* Restoring settings by apply_settings until it does not raise ends, on a  *)
(* device that does not fail by itself, although settings in between may be *)
(* refused, and then the old settings are in force, all of them.            *)
RestoreEnds ==
  /\ (mode = "restore") ~> (mode = "use")
  /\ [][mode = "restore" /\ mode' = "use" =>
          /\ \A k \in DOMAIN saved : s[k] = saved[k]
          /\ outcome = "ok"]_vars

=============================================================================

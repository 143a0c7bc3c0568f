--------------------------- MODULE SerialPort_proofs ---------------------------
(***************************************************************************)
(* Proofs about SerialPort, for all programs, custom baud rates and refused *)
(* settings: which stage of open() or of a setter fails does not matter.    *)
(***************************************************************************)
EXTENDS SerialPort, TLAPS

KnownPlatform == program \in Programs /\ platform \in {"posix", "win32", "cli", "java"}

LEMMA PlatformInit == Init => KnownPlatform
BY ProgramAssumption DEF Init, KnownPlatform, platform

LEMMA PlatformStays == KnownPlatform /\ [Next]_vars => KnownPlatform' /\ UNCHANGED program
BY DEF KnownPlatform, platform, Next, vars, Open, Close, Setter, SetLine, SetPort, GetSettings,
       ApplySettings, ApplyKey, ApplyReturn, Others
-----------------------------------------------------------------------------
LEMMA NamesAreKeys ==
  {"baudrate", "bytesize", "parity", "stopbits", "xonxoff", "dsrdtr", "rtscts", "timeout",
   "write_timeout", "inter_byte_timeout", "exclusive", "rs485_mode"} = Keys
<1>1. Len(SavedSettings) = 10
  BY DEF SavedSettings
<1>2. ToSet(SavedSettings) = {SavedSettings[i] : i \in 1 .. 10}
  BY <1>1 DEF ToSet, SavedSettings
<1>3. ToSet(SavedSettings) =
        {"baudrate", "bytesize", "parity", "stopbits", "xonxoff", "dsrdtr", "rtscts", "timeout",
         "write_timeout", "inter_byte_timeout"}
  BY <1>2 DEF SavedSettings
<1> QED
  BY <1>3 DEF Keys

(* Each stage's settings are settings.                                      *)
LEMMA StagesOfKeys ==
  ASSUME KnownPlatform, NEW i \in 1 .. Len(Stages)
  PROVE  Stages[i] \subseteq Keys
<1>1. CASE platform = "posix"
  <2>1. Stages = PosixStages
    BY <1>1 DEF Stages
  <2>2. i \in 1 .. 4
    BY <2>1 DEF PosixStages
  <2> QED
    BY <2>1, <2>2, NamesAreKeys DEF PosixStages
<1>2. CASE platform = "win32"
  <2>1. Stages = Win32Stages
    BY <1>2 DEF Stages
  <2>2. i \in 1 .. 2
    BY <2>1 DEF Win32Stages
  <2> QED
    BY <2>1, <2>2, NamesAreKeys DEF Win32Stages
<1>3. CASE platform = "cli"
  <2>1. Stages = CliStages
    BY <1>3 DEF Stages
  <2>2. i \in 1 .. 7
    BY <2>1 DEF CliStages
  <2> QED
    BY <2>1, <2>2, NamesAreKeys DEF CliStages
<1>4. CASE platform = "java"
  <2>1. Stages = JavaStages
    BY <1>4 DEF Stages
  <2>2. i \in 1 .. 3
    BY <2>1 DEF JavaStages
  <2> QED
    BY <2>1, <2>2, NamesAreKeys DEF JavaStages
<1> QED
  BY <1>1, <1>2, <1>3, <1>4 DEF KnownPlatform

(* What may be lost unnoticed are settings.                                 *)
LEMMA UnheardAreKeys ==
  ASSUME KnownPlatform, NEW u \in Unheard
  PROVE  u \subseteq Keys
<1>1. program.unnoticed \subseteq Keys
  BY ProgramAssumption DEF KnownPlatform
<1>2. Win32Stages[1] \subseteq Keys
  BY NamesAreKeys DEF Win32Stages
<1> QED
  BY <1>1, <1>2 DEF Unheard

(* When all stages have succeeded the device has been told everything but   *)
(* what was lost on the way.                                                *)
LEMMA AllStagesTellAll ==
  ASSUME KnownPlatform, NEW t, NEW u, NEW i \in 1 .. Len(Stages), NEW k \in Stages[i] \ u
  PROVE  \/ DeviceAfter(t, Len(Stages), u)[k] = Told(t, k)
         \/ platform = "posix" /\ k = "rs485_mode" /\ t[k] = None
<1>1. k \in Keys
  BY StagesOfKeys
<1>2. CASE platform # "posix"
  <2>1. Applies(t, i)
    BY <1>2 DEF Applies
  <2> QED
    BY <1>1, <1>2, <2>1 DEF DeviceAfter
<1>3. CASE platform = "posix"
  <2>1. Stages = PosixStages /\ Len(Stages) = 4
    BY <1>3 DEF Stages, PosixStages
  <2>2. ~(Len(Stages) < 3)
    BY <2>1
  <2>3. CASE \E j \in 1 .. Len(Stages) : Applies(t, j) /\ k \in Stages[j]
    BY <1>1, <2>2, <2>3 DEF DeviceAfter
  <2>4. CASE i = 4 /\ ~Applies(t, i)
    BY <1>3, <2>1, <2>4 DEF Applies, PosixStages
  <2>5. CASE i = 3
    <3>1. k \in Stages[2] /\ Applies(t, 2) /\ 2 \in 1 .. Len(Stages)
      BY <2>1, <2>5 DEF Applies, PosixStages
    <3> QED
      BY <2>3, <3>1
  <2>6. CASE i \notin {3, 4}
    <3>1. Applies(t, i)
      BY <2>6 DEF Applies
    <3> QED
      BY <2>3, <3>1
  <2> QED
    BY <2>3, <2>4, <2>5, <2>6
<1> QED
  BY <1>2, <1>3
-----------------------------------------------------------------------------
(* Nothing depends on anything but the settings and the platform.           *)
LEMMA SameProgram ==
  ASSUME UNCHANGED program
  PROVE  platform' = platform /\ Stages' = Stages
BY DEF platform, Stages, PosixStages, Win32Stages, CliStages, JavaStages

(* A reconfiguration that ends without an exception has told everything.    *)
LEMMA ReconfigureTellsAll ==
  ASSUME KnownPlatform, UNCHANGED program, NEW t, s' = t,
         dev' = DeviceAfter(t, Len(Stages), unheard')
  PROVE  InForce'
<1>1. platform' = platform /\ Stages' = Stages
  BY SameProgram
<1>2. ASSUME NEW k PROVE Told(s, k)' = Told(t, k)
  BY <1>1 DEF Told
<1>3. ASSUME NEW i \in 1 .. Len(Stages), NEW k \in Stages[i] \ unheard'
      PROVE  dev'[k] = Told(s, k)' \/ (platform' = "posix" /\ k = "rs485_mode" /\ s'[k] = None)
  BY <1>1, <1>2, AllStagesTellAll
<1> QED
  BY <1>1, <1>3 DEF InForce

LEMMA InForceKept ==
  ASSUME UNCHANGED <<program, s, dev, unheard>>,
         is_open' /\ outcome' = "ok" => is_open /\ outcome = "ok",
         InForce
  PROVE  InForce'
<1>1. platform' = platform /\ Stages' = Stages
  BY SameProgram
<1>2. ASSUME NEW k PROVE Told(s, k)' = Told(s, k)
  BY <1>1 DEF Told
<1> QED
  BY <1>1, <1>2 DEF InForce

(* A setter: its value is stored and told, or it raises.                    *)
LEMMA SetInForce ==
  ASSUME KnownPlatform, InForce, NEW k, NEW v, Set(k, v), UNCHANGED <<program, is_open>>
  PROVE  InForce'
<1> DEFINE t == [s EXCEPT ![k] = v]
<1>1. s' = t /\ IF is_open THEN Reconfigure(t) ELSE UNCHANGED <<device, history>>
  BY DEF Set
<1> HIDE DEF t
<1>2. CASE ~is_open
  BY <1>2 DEF InForce
<1>3. CASE is_open
  <2>1. PICK n, u : /\ dev' = DeviceAfter(t, n, u)
                    /\ outcome' = IF n = Len(Stages) THEN "ok" ELSE "raised"
                    /\ unheard' = IF n = Len(Stages) THEN u ELSE {}
    BY <1>1, <1>3 DEF Reconfigure
  <2>2. CASE n = Len(Stages)
    BY <1>1, <2>1, <2>2, ReconfigureTellsAll
  <2>3. CASE n # Len(Stages)
    BY <2>1, <2>3 DEF InForce
  <2> QED
    BY <2>2, <2>3
<1> QED
  BY <1>2, <1>3

LEMMA OpenInForce ==
  ASSUME KnownPlatform, InForce, Open
  PROVE  InForce'
<1>1. UNCHANGED <<program, s>> /\ ~is_open
  BY DEF Open, known
<1>2. CASE ~is_open'
  BY <1>2 DEF InForce
<1>3. CASE is_open'
  <2>1. ~CannotOpen
    BY <1>1, <1>3 DEF CannotOpen
  <2>2. PICK n : PosixOpen(n) \/ Win32Open(n) \/ CliOpen(n) \/ JavaOpen(n)
    BY <2>1 DEF Open
  <2>3. n = Len(Stages) /\ Configured(n)
    BY <1>1, <1>3, <2>1, <2>2 DEF PosixOpen, Win32Open, CliOpen, JavaOpen, Closed
  <2>4. dev' = DeviceAfter(s, Len(Stages), unheard')
    BY <2>3 DEF Configured
  <2> QED
    BY <1>1, <2>4, ReconfigureTellsAll
<1> QED
  BY <1>2, <1>3

LEMMA CloseInForce ==
  ASSUME InForce, CloseHandles, UNCHANGED <<program, s, history>>
  PROVE  InForce'
<1>1. CASE ~is_open'
  BY <1>1 DEF InForce
<1>2. CASE is_open'
  <2>1. UNCHANGED <<is_open, dev>>
    BY <1>2 DEF CloseHandles, Closed
  <2> QED
    BY <2>1, InForceKept DEF history
<1> QED
  BY <1>1, <1>2

LEMMA InForceStep == KnownPlatform /\ InForce /\ [Next]_vars => InForce'
<1> SUFFICES ASSUME KnownPlatform, InForce, [Next]_vars PROVE InForce'
  OBVIOUS
<1>1. CASE Open
  BY <1>1, OpenInForce
<1>2. CASE Close
  BY <1>2, CloseInForce DEF Close, known
<1>3. CASE Setter
  <2>1. UNCHANGED <<program, is_open>>
    BY <1>3 DEF Setter
  <2>2. CASE UNCHANGED <<s, device, history>>
    BY <2>1, <2>2, InForceKept DEF device, history
  <2>3. CASE \E k, v : Set(k, v)
    BY <2>1, <2>3, SetInForce
  <2> QED
    BY <1>3, <2>2, <2>3 DEF Setter
<1>4. CASE SetLine \/ GetSettings \/ ApplySettings \/ ApplyReturn
  <2>1. UNCHANGED <<program, s, dev, is_open, outcome, unheard>>
    BY <1>4 DEF SetLine, GetSettings, ApplySettings, ApplyReturn, device, known, history
  <2> QED
    BY <2>1, InForceKept
<1>5. CASE SetPort
  <2>1. UNCHANGED <<program, s, history>>
    BY <1>5 DEF SetPort, known
  <2>2. CASE UNCHANGED <<is_open, held, dev, lock, pc>>
    BY <2>1, <2>2, InForceKept DEF history
  <2>3. CASE CloseHandles
    BY <2>1, <2>3, CloseInForce
  <2> QED
    BY <1>5, <2>2, <2>3 DEF SetPort
<1>6. CASE ApplyKey
  BY <1>6, SetInForce DEF ApplyKey
<1>7. CASE Others
  <2>1. UNCHANGED <<program, s, is_open, unheard>>
    BY <1>7 DEF Others, known
  <2>2. CASE outcome' # "ok"
    BY <2>2 DEF InForce
  <2>3. CASE UNCHANGED <<dev, outcome>>
    BY <2>1, <2>3, InForceKept
  <2> QED
    BY <1>7, <2>2, <2>3 DEF Others
<1>8. CASE UNCHANGED vars
  BY <1>8, InForceKept DEF vars, device, known, history
<1> QED
  BY <1>1, <1>2, <1>3, <1>4, <1>5, <1>6, <1>7, <1>8 DEF Next

(* After open(), or a setter, that did not raise, the device has all the    *)
(* port remembers but what that call has lost unnoticed, whatever failed or *)
(* was lost before.                                                         *)
THEOREM SettingsInForce == Spec => []InForce
<1>1. Init => InForce
  BY DEF Init, InForce
<1> QED
  BY <1>1, PlatformInit, PlatformStays, InForceStep, PTL DEF Spec
-----------------------------------------------------------------------------
(* The lines.                                                               *)
LineTypes ==
  /\ want \in [Lines -> BOOLEAN]
  /\ line \in [Lines -> BOOLEAN \cup {None, Handshake}]

LinesInv == KnownPlatform /\ LineTypes /\ LinesTold

LEMMA LinesKept ==
  ASSUME LinesInv, UNCHANGED <<program, want, line, failed>>, is_open' => is_open, KnownPlatform'
  PROVE  LinesInv'
BY DEF LinesInv, LineTypes, LinesTold, platform

LEMMA SetKeepsLines ==
  ASSUME LinesInv, NEW k, NEW v, Set(k, v), UNCHANGED <<program, want, is_open>>, KnownPlatform'
  PROVE  LinesInv'
<1> DEFINE t == [s EXCEPT ![k] = v]
<1>1. CASE UNCHANGED device
  BY <1>1, LinesKept DEF device
<1>2. CASE is_open /\ Reconfigure(t)
  <2> HIDE DEF t
  <2>1. PICK n : /\ line' = LinesAfter(t, n)
                 /\ failed' = IF SetsLines(n) THEN failed \ {"rts", "dtr"} ELSE failed
    BY <1>2 DEF Reconfigure
  <2>2. "rts" \in Lines /\ "dtr" \in Lines
    BY DEF Lines
  <2>3. /\ line' \in [Lines -> BOOLEAN \cup {None, Handshake}]
        /\ \A l \in {"rts", "dtr"} : line'[l] \in {line[l], want[l], Handshake}
    BY <2>1, <2>2 DEF LinesAfter, LinesInv, LineTypes
  <2>4. SetsLines(n) => \A l \in {"rts", "dtr"} : line'[l] \in {want[l], Handshake}
    <3>1. SUFFICES ASSUME SetsLines(n)
                   PROVE  \A l \in {"rts", "dtr"} : line'[l] \in {want[l], Handshake}
      OBVIOUS
    <3>2. "rtscts" \in Stages[n] /\ n \in 1 .. n
      BY <3>1 DEF SetsLines, Stages, Win32Stages
    <3> QED
      BY <2>1, <2>2, <3>1, <3>2 DEF LinesAfter, LinesInv, LineTypes
  <2> QED
    BY <1>2, <2>1, <2>3, <2>4 DEF LinesInv, LineTypes, LinesTold, platform
<1> QED
  BY <1>1, <1>2 DEF Set

(* The lines as open() leaves them, with those whose update raised.         *)
LEMMA LinesOpenedTold ==
  ASSUME LineTypes, NEW fail \in Unset, LinesOpened(fail), UNCHANGED want
  PROVE  LineTypes' /\ \A l \in {"rts", "dtr"} \ failed' : line'[l] \in {want'[l], Handshake}
<1>1. "rts" \in Lines /\ "dtr" \in Lines
  BY DEF Lines
<1>2. /\ line' = [l \in Lines |-> IF l \in Updated \ fail THEN want[l]
                                  ELSE IF Shaken[l] THEN Handshake ELSE None]
      /\ failed' = fail
  BY DEF LinesOpened
<1>3. line' \in [Lines -> BOOLEAN \cup {None, Handshake}]
  BY <1>2 DEF LineTypes
<1>4. \A l \in {"rts", "dtr"} : l \in Updated \/ Shaken[l]
  BY DEF Updated
<1> QED
  BY <1>1, <1>2, <1>3, <1>4 DEF LineTypes

LEMMA OpenLines ==
  ASSUME LinesInv, Open, KnownPlatform'
  PROVE  LinesInv'
<1>1. UNCHANGED <<program, want>> /\ ~is_open
  BY DEF Open, known
<1>2. CASE CannotOpen
  BY <1>1, <1>2, LinesKept DEF CannotOpen, device
<1>3. ASSUME NEW n, PosixOpen(n) \/ CliOpen(n), ~CannotOpen PROVE LinesInv'
  <2>1. PICK fail \in Unset : LinesOpened(fail)
    BY <1>3 DEF PosixOpen, CliOpen
  <2> QED
    BY <1>1, <2>1, LinesOpenedTold DEF LinesInv, LinesTold
<1>4. ASSUME NEW n, Win32Open(n) PROVE LinesInv'
  <2>1. platform = "win32" /\ line' = LinesAfter(s, n) /\ failed' = {}
    BY <1>4 DEF Win32Open
  <2>2. "rts" \in Lines /\ "dtr" \in Lines
    BY DEF Lines
  <2>3. line' \in [Lines -> BOOLEAN \cup {None, Handshake}]
    BY <2>1, <2>2 DEF LinesAfter, LinesInv, LineTypes
  <2>4. CASE n # Len(Stages)
    <3>1. ~is_open'
      BY <1>4, <2>4 DEF Win32Open, Closed
    <3> QED
      BY <1>1, <2>3, <3>1 DEF LinesInv, LineTypes, LinesTold
  <2>5. CASE n = Len(Stages)
    <3>1. \E i \in 1 .. n : "rtscts" \in Stages[i]
      <4>1. Stages = Win32Stages
        BY <2>1 DEF Stages
      <4>2. 2 \in 1 .. n /\ "rtscts" \in Stages[2]
        BY <2>5, <4>1 DEF Win32Stages
      <4> QED
        BY <4>2
    <3>2. \A l \in {"rts", "dtr"} : line'[l] \in {want[l], Handshake}
      BY <2>1, <2>2, <2>5, <3>1 DEF LinesAfter, SetsLines, LinesInv, LineTypes
    <3> QED
      BY <1>1, <2>3, <3>2 DEF LinesInv, LineTypes, LinesTold
  <2> QED
    BY <2>4, <2>5
<1>5. ASSUME NEW n, JavaOpen(n) PROVE LinesInv'
  <2>1. platform' = "java" /\ line' = [l \in Lines |-> None]
    BY <1>1, <1>5 DEF JavaOpen, platform
  <2> QED
    BY <1>1, <2>1 DEF LinesInv, LineTypes, LinesTold
<1> QED
  BY <1>2, <1>3, <1>4, <1>5 DEF Open

LEMMA LinesStep == LinesInv /\ [Next]_vars => LinesInv'
<1> SUFFICES ASSUME LinesInv, [Next]_vars PROVE LinesInv'
  OBVIOUS
<1>1. KnownPlatform' /\ UNCHANGED program
  BY PlatformStays DEF LinesInv
<1>2. CASE Open
  BY <1>1, <1>2, OpenLines
<1>3. CASE Close \/ SetPort
  <2>1. is_open' => is_open
    BY <1>3 DEF Close, SetPort, CloseHandles, Closed
  <2>2. UNCHANGED <<want, line, failed>>
    BY <1>3 DEF Close, SetPort, known
  <2> QED
    BY <1>1, <2>1, <2>2, LinesKept
<1>4. CASE Setter
  <2>1. UNCHANGED <<want, is_open>>
    BY <1>4 DEF Setter
  <2>2. CASE UNCHANGED <<s, device, history>>
    BY <1>1, <2>1, <2>2, LinesKept DEF device
  <2>3. CASE \E k, v : Set(k, v)
    BY <1>1, <2>1, <2>3, SetKeepsLines
  <2> QED
    BY <1>4, <2>2, <2>3 DEF Setter
<1>5. CASE SetLine
  <2>1. PICK l \in program.lines, v \in BOOLEAN :
          /\ want' = [want EXCEPT ![l] = v]
          /\ IF ~is_open THEN UNCHANGED <<line, failed>>
             ELSE \/ /\ line' = [line EXCEPT ![l] = IF platform = "win32" /\ @ = Handshake THEN @ ELSE v]
                     /\ failed' = failed \ {l}
                  \/ /\ failed' = failed \union {l} /\ UNCHANGED line
    BY <1>5 DEF SetLine
  <2>2. l \in Lines /\ UNCHANGED is_open
    BY <1>5, ProgramAssumption DEF SetLine, LinesInv, KnownPlatform
  <2>3. want' \in [Lines -> BOOLEAN]
    BY <2>1, <2>2 DEF LinesInv, LineTypes
  <2>4. line' \in [Lines -> BOOLEAN \cup {None, Handshake}]
    BY <2>1, <2>2 DEF LinesInv, LineTypes
  <2>5. \A m \in Lines : m # l => want'[m] = want[m] /\ line'[m] = line[m]
    BY <2>1, <2>2 DEF LinesInv, LineTypes
  <2>6. is_open => l \in failed' \/ line'[l] \in {want'[l], Handshake}
    BY <2>1, <2>2 DEF LinesInv, LineTypes
  <2>7. is_open => failed \ {l} \subseteq failed'
    BY <2>1
  <2>8. "rts" \in Lines /\ "dtr" \in Lines
    BY DEF Lines
  <2>9. LinesTold'
    BY <1>1, <2>2, <2>5, <2>6, <2>7, <2>8 DEF LinesInv, LinesTold, platform
  <2> QED
    BY <1>1, <2>3, <2>4, <2>9 DEF LinesInv, LineTypes
<1>6. CASE GetSettings \/ ApplySettings \/ ApplyReturn \/ Others
  BY <1>1, <1>6, LinesKept DEF GetSettings, ApplySettings, ApplyReturn, Others, known, device
<1>7. CASE ApplyKey
  BY <1>1, <1>7, SetKeepsLines DEF ApplyKey
<1>8. CASE UNCHANGED vars
  BY <1>1, <1>8, LinesKept DEF vars, device, known
<1> QED
  BY <1>2, <1>3, <1>4, <1>5, <1>6, <1>7, <1>8 DEF Next

LEMMA InitLines == Init => LinesInv
<1>1. ASSUME Init PROVE LineTypes
  <2>1. want \in [Lines -> BOOLEAN]
    <3> DEFINE w == [rts |-> TRUE, dtr |-> TRUE, break |-> FALSE]
    <3>1. w = [l \in Lines |-> w[l]]
      BY DEF Lines
    <3>2. {w.rts, w.dtr, w.break} \subseteq BOOLEAN
      OBVIOUS
    <3>3. \A l \in Lines : w[l] \in BOOLEAN
      BY <3>2 DEF Lines
    <3>4. want = w
      BY <1>1 DEF Init
    <3> HIDE DEF w
    <3> QED
      BY <3>1, <3>3, <3>4
  <2>2. line \in [Lines -> BOOLEAN \cup {None, Handshake}]
    BY <1>1 DEF Init
  <2> QED
    BY <2>1, <2>2 DEF LineTypes
<1>2. Init => LinesTold
  BY DEF Init, LinesTold
<1> QED
  BY <1>1, <1>2, PlatformInit DEF LinesInv

(* RTS and DTR of an open port are as the program wants them, unless        *)
(* setting them raised or a handshake has the line.                         *)
THEOREM LinesAsWanted == Spec => []LinesTold
<1>1. LinesInv => LinesTold
  BY DEF LinesInv
<1> QED
  BY <1>1, InitLines, LinesStep, PTL DEF Spec
-----------------------------------------------------------------------------
(* What a port holds.                                                       *)
Holds ==
  /\ held \subseteq Handles
  /\ IF is_open THEN held \in {Handles, Handles \ {"fd"}}
     ELSE lock # "ours" /\ (platform # "java" => held = {})

PlainTypes ==
  /\ port \in {"a", None} /\ DOMAIN s = Keys /\ DOMAIN dev = Keys
  /\ failed \subseteq Lines /\ unheard \subseteq Keys /\ is_open \in BOOLEAN
  /\ lock \in {"free", "ours", "theirs"} /\ outcome \in {"ok", "raised", "touched"}
  /\ pc \in {"idle", "applying", "reopening"} /\ mode \in {"use", "restore"}

HoldInv == LinesInv /\ PlainTypes /\ Holds

LEMMA SameHandles ==
  ASSUME UNCHANGED program
  PROVE  platform' = platform /\ Handles' = Handles
BY DEF platform, Handles, PosixHandles, Win32Handles

LEMMA DevicesAreTold ==
  ASSUME NEW t, NEW n, NEW u, NEW d, DOMAIN d = Keys
  PROVE  /\ DOMAIN DeviceAfter(t, n, u) = Keys
         /\ \A e \in OriginalTimeouts(d) : DOMAIN e = Keys
BY DEF DeviceAfter, OriginalTimeouts

LEMMA ConfiguredTypes ==
  ASSUME KnownPlatform, NEW n, Configured(n)
  PROVE  DOMAIN dev' = Keys /\ unheard' \subseteq Keys /\ outcome' \in {"ok", "raised"}
<1>1. PICK u \in Unheard : /\ dev' = DeviceAfter(s, n, u)
                           /\ unheard' = IF n = Len(Stages) THEN u ELSE {}
  BY DEF Configured
<1>2. u \subseteq Keys
  BY UnheardAreKeys
<1>3. DOMAIN dev' = Keys
  BY <1>1 DEF DeviceAfter
<1> QED
  BY <1>1, <1>2, <1>3 DEF Configured

LEMMA LockTypes ==
  ASSUME PlainTypes, NEW t, NEW n
  PROVE  LockAfter(t, n) \in {"free", "ours", "theirs"}
BY DEF PlainTypes, LockAfter

LEMMA UnsetAreLines == \A fail \in Unset : fail \subseteq Lines
BY DEF Unset, Updated, Lines

LEMMA SetTypes ==
  ASSUME KnownPlatform, PlainTypes, NEW k, NEW v, Set(k, v)
  PROVE  /\ DOMAIN s' = Keys /\ DOMAIN dev' = Keys
         /\ failed' \subseteq Lines /\ unheard' \subseteq Keys
         /\ lock' \in {"free", "ours", "theirs"} /\ outcome' \in {"ok", "raised", "touched"}
         /\ ~is_open => lock' = lock
<1> DEFINE t == [s EXCEPT ![k] = v]
<1>1. DOMAIN t = Keys
  BY DEF PlainTypes
<1>2. s' = t /\ IF is_open THEN Reconfigure(t) ELSE UNCHANGED <<device, history>>
  BY DEF Set
<1> HIDE DEF t
<1>3. CASE ~is_open
  BY <1>1, <1>2, <1>3 DEF PlainTypes, device, history
<1>4. CASE is_open
  <2>1. PICK n, u :
          /\ u \in Unheard
          /\ dev' = DeviceAfter(t, n, u) /\ lock' = LockAfter(t, n)
          /\ outcome' = IF n = Len(Stages) THEN "ok" ELSE "raised"
          /\ unheard' = IF n = Len(Stages) THEN u ELSE {}
          /\ failed' = IF SetsLines(n) THEN failed \ {"rts", "dtr"} ELSE failed
    BY <1>2, <1>4 DEF Reconfigure
  <2>2. u \subseteq Keys
    BY <2>1, UnheardAreKeys
  <2>3. DOMAIN dev' = Keys
    BY <2>1 DEF DeviceAfter
  <2>4. failed' \subseteq Lines /\ unheard' \subseteq Keys
    BY <2>1, <2>2 DEF PlainTypes
  <2> QED
    BY <1>1, <1>2, <1>4, <2>1, <2>3, <2>4, LockTypes
<1> QED
  BY <1>3, <1>4

(* However open() goes, it leaves all handles or none, but in Java.         *)
LEMMA OpenHolds ==
  ASSUME HoldInv, Open
  PROVE  PlainTypes' /\ Holds'
<1>1. /\ UNCHANGED <<program, port, s, mode>> /\ pc' = "idle" /\ ~is_open
      /\ held \subseteq Handles /\ lock # "ours" /\ (platform # "java" => held = {})
  BY DEF Open, known, HoldInv, Holds
<1>2. platform' = platform /\ Handles' = Handles
  BY <1>1, SameHandles
<1>3. platform \in {"posix", "win32", "cli", "java"}
  BY DEF HoldInv, LinesInv, KnownPlatform
<1> USE DEF HoldInv, LinesInv
<1>4. CASE CannotOpen
  BY <1>1, <1>2, <1>4 DEF CannotOpen, PlainTypes, Holds, device
<1>5. ASSUME NEW n, PosixOpen(n) PROVE PlainTypes' /\ Holds'
  <2>1. /\ DOMAIN dev' = Keys /\ unheard' \subseteq Keys /\ outcome' \in {"ok", "raised"}
        /\ platform = "posix" /\ Handles = PosixHandles
    BY <1>5, ConfiguredTypes DEF PosixOpen, Handles
  <2>2. PICK fail \in Unset : failed' = fail
    BY <1>5 DEF PosixOpen, LinesOpened
  <2>3. CASE is_open' = TRUE /\ held' = Handles /\ lock' = LockAfter(s, n)
    BY <1>1, <1>2, <2>1, <2>2, <2>3, LockTypes, UnsetAreLines DEF PlainTypes, Holds
  <2>4. CASE \E step \in DOMAIN PosixHeld : Closed(PosixCleanup(PosixHeld[step]))
    <3>1. PICK step \in DOMAIN PosixHeld : Closed(PosixCleanup(PosixHeld[step]))
      BY <2>4
    <3>2. PosixHeld[step] \subseteq PosixHandles
      BY <3>1 DEF PosixHeld, PosixHandles
    <3>3. is_open' = FALSE /\ held' = {} /\ lock' \in {"free", "theirs"}
      BY <3>1, <3>2 DEF Closed, PosixCleanup
    <3> QED
      BY <1>1, <1>2, <2>1, <2>2, <3>3, UnsetAreLines DEF PlainTypes, Holds
  <2> QED
    BY <1>5, <2>3, <2>4 DEF PosixOpen
<1>6. ASSUME NEW n, Win32Open(n) PROVE PlainTypes' /\ Holds'
  <2>1. platform = "win32" /\ failed' = {} /\ Handles = Win32Handles
    BY <1>6 DEF Win32Open, Handles
  <2>2. CASE n = Len(Stages)
    <3>1. DOMAIN dev' = Keys /\ unheard' \subseteq Keys /\ outcome' \in {"ok", "raised"}
      BY <1>6, <2>2, ConfiguredTypes DEF Win32Open
    <3> QED
      BY <1>1, <1>2, <1>6, <2>1, <2>2, <3>1 DEF Win32Open, PlainTypes, Holds
  <2>3. CASE n # Len(Stages)
    <3>1. PICK u : dev' \in OriginalTimeouts(DeviceAfter(s, n, u))
      BY <1>6, <2>3 DEF Win32Open
    <3>2. DOMAIN dev' = Keys
      BY <3>1, DevicesAreTold DEF DeviceAfter
    <3> QED
      BY <1>1, <1>2, <1>6, <2>1, <2>3, <3>2 DEF Win32Open, PlainTypes, Holds, Closed, Win32Cleanup
  <2> QED
    BY <2>2, <2>3
<1>7. ASSUME NEW n, CliOpen(n), ~CannotOpen PROVE PlainTypes' /\ Holds'
  <2>1. PICK fail \in Unset : failed' = fail
    BY <1>7 DEF CliOpen, LinesOpened
  <2>2. DOMAIN dev' = Keys /\ unheard' \subseteq Keys /\ outcome' \in {"ok", "raised"}
    BY <1>7, ConfiguredTypes DEF CliOpen
  <2> QED
    BY <1>1, <1>2, <1>7, <2>1, <2>2, UnsetAreLines DEF CliOpen, PlainTypes, Holds
<1>8. ASSUME NEW n, JavaOpen(n) PROVE PlainTypes' /\ Holds'
  <2>1. DOMAIN dev' = Keys /\ unheard' \subseteq Keys /\ outcome' \in {"ok", "raised"}
    BY <1>8, ConfiguredTypes DEF JavaOpen
  <2> QED
    BY <1>1, <1>2, <1>8, <2>1 DEF JavaOpen, PlainTypes, Holds
<1> QED
  BY <1>4, <1>5, <1>6, <1>7, <1>8 DEF Open

LEMMA CloseHolds ==
  ASSUME HoldInv, is_open, CloseHandles, UNCHANGED program
  PROVE  /\ Holds' /\ is_open' \in BOOLEAN /\ DOMAIN dev' = Keys
         /\ lock' \in {"free", "ours", "theirs"}
<1>1. platform' = platform /\ Handles' = Handles
  BY SameHandles
<1>2. /\ held \in {Handles, Handles \ {"fd"}} /\ DOMAIN dev = Keys /\ is_open \in BOOLEAN
      /\ lock \in {"free", "ours", "theirs"}
  BY DEF HoldInv, PlainTypes, Holds
<1>3. CASE Closed({}) /\ dev' \in IF platform = "win32" THEN OriginalTimeouts(dev) ELSE {dev}
  BY <1>1, <1>2, <1>3, DevicesAreTold DEF Closed, Holds
<1>4. CASE /\ held' = held \ {"fd"}
           /\ lock' = IF platform = "posix" /\ lock = "ours" THEN "free" ELSE lock
           /\ UNCHANGED <<is_open, dev>>
  BY <1>1, <1>2, <1>4 DEF Holds
<1>5. CASE UNCHANGED <<is_open, held, lock, dev>>
  BY <1>1, <1>2, <1>5 DEF Holds
<1> QED
  BY <1>3, <1>4, <1>5 DEF CloseHandles

LEMMA HoldStep == HoldInv /\ [Next]_vars => HoldInv'
<1> SUFFICES ASSUME HoldInv, [Next]_vars PROVE HoldInv'
  OBVIOUS
<1>1. LinesInv' /\ UNCHANGED program
  BY LinesStep, PlatformStays DEF HoldInv, LinesInv
<1>2. platform' = platform /\ Handles' = Handles
  BY <1>1, SameHandles
<1>3. PlainTypes' /\ Holds'
  <2>1. CASE Open
    BY <2>1, OpenHolds
  <2>2. CASE Close
    BY <1>1, <2>2, CloseHolds DEF Close, HoldInv, PlainTypes, known, history
  <2>3. CASE Setter
    <3>1. UNCHANGED <<port, is_open, held, pc, mode>>
      BY <2>3 DEF Setter
    <3>2. CASE UNCHANGED <<s, device, history>>
      BY <1>2, <3>1, <3>2 DEF HoldInv, PlainTypes, Holds, device, history
    <3>3. CASE \E k, v : Set(k, v)
      <4>1. /\ DOMAIN s' = Keys /\ DOMAIN dev' = Keys
            /\ failed' \subseteq Lines /\ unheard' \subseteq Keys
            /\ lock' \in {"free", "ours", "theirs"} /\ outcome' \in {"ok", "raised", "touched"}
            /\ ~is_open => lock' = lock
        BY <3>3, SetTypes DEF HoldInv, LinesInv
      <4> QED
        BY <1>2, <3>1, <4>1 DEF HoldInv, PlainTypes, Holds
    <3> QED
      BY <2>3, <3>2, <3>3 DEF Setter
  <2>4. CASE SetLine
    <3>1. UNCHANGED <<port, s, dev, is_open, held, lock, outcome, unheard, pc, mode>>
      BY <2>4 DEF SetLine, history
    <3>2. failed' \subseteq Lines
      BY <2>4, ProgramAssumption DEF SetLine, HoldInv, PlainTypes, LinesInv, KnownPlatform
    <3> QED
      BY <1>2, <3>1, <3>2 DEF HoldInv, PlainTypes, Holds
  <2>5. CASE SetPort
    <3>1. /\ UNCHANGED <<s, failed, outcome, unheard, mode>> /\ port' \in {"a", None}
          /\ pc' \in {"idle", "applying", "reopening"}
      BY <2>5 DEF SetPort, known, history, HoldInv, PlainTypes
    <3>2. CASE UNCHANGED <<is_open, held, dev, lock, pc>>
      BY <1>2, <3>1, <3>2 DEF HoldInv, PlainTypes, Holds
    <3>3. CASE is_open /\ CloseHandles
      BY <1>1, <3>1, <3>3, CloseHolds DEF HoldInv, PlainTypes
    <3> QED
      BY <2>5, <3>2, <3>3 DEF SetPort
  <2>6. CASE GetSettings \/ ApplySettings \/ ApplyReturn
    <3>1. UNCHANGED <<port, s, dev, failed, is_open, held, lock, outcome, unheard>>
      BY <2>6 DEF GetSettings, ApplySettings, ApplyReturn, known, device, history
    <3>2. pc' \in {"idle", "applying", "reopening"} /\ mode' \in {"use", "restore"}
      BY <2>6 DEF GetSettings, ApplySettings, ApplyReturn, HoldInv, PlainTypes
    <3> QED
      BY <1>2, <3>1, <3>2 DEF HoldInv, PlainTypes, Holds
  <2>7. CASE ApplyKey
    <3>1. UNCHANGED <<port, is_open, held, mode>> /\ pc' \in {"idle", "applying", "reopening"}
      BY <2>7 DEF ApplyKey
    <3>2. /\ DOMAIN s' = Keys /\ DOMAIN dev' = Keys
          /\ failed' \subseteq Lines /\ unheard' \subseteq Keys
          /\ lock' \in {"free", "ours", "theirs"} /\ outcome' \in {"ok", "raised", "touched"}
          /\ ~is_open => lock' = lock
      BY <2>7, SetTypes DEF ApplyKey, HoldInv, LinesInv
    <3> QED
      BY <1>2, <3>1, <3>2 DEF HoldInv, PlainTypes, Holds
  <2>8. CASE Others
    <3>1. UNCHANGED <<port, s, failed, unheard, is_open, held, pc, mode>>
      BY <2>8 DEF Others, known
    <3>2. DOMAIN dev' = Keys
      BY <2>8 DEF Others, HoldInv, PlainTypes
    <3>3. lock' \in {"free", "ours", "theirs"} /\ (lock # "ours" => lock' # "ours")
      BY <2>8 DEF Others, HoldInv, PlainTypes
    <3>4. outcome' \in {"ok", "raised", "touched"}
      BY <2>8 DEF Others, HoldInv, PlainTypes
    <3> QED
      BY <1>2, <3>1, <3>2, <3>3, <3>4 DEF HoldInv, PlainTypes, Holds
  <2>9. CASE UNCHANGED vars
    BY <1>2, <2>9 DEF vars, known, device, history, HoldInv, PlainTypes, Holds
  <2> QED
    BY <2>1, <2>2, <2>3, <2>4, <2>5, <2>6, <2>7, <2>8, <2>9 DEF Next
<1> QED
  BY <1>1, <1>3 DEF HoldInv

(* However open() or close() went, a closed port holds no descriptor, handle *)
(* or lock, and an open one holds all but what close() has lost; with the    *)
(* types of all variables.                                                   *)
THEOREM HoldsAllOrNothing == Spec => []ClosedHoldsNothing
<1>1. ASSUME Init PROVE PlainTypes
  <2>1. DOMAIN Defaults = Keys
    BY NamesAreKeys DEF Defaults
  <2>2. DOMAIN Fresh = Keys
    BY DEF Fresh
  <2> QED
    BY <1>1, <2>1, <2>2 DEF Init, PlainTypes
<1>2. Init => Holds
  BY DEF Init, Holds
<1>3. HoldInv => ClosedHoldsNothing
  BY DEF HoldInv, LinesInv, KnownPlatform, LineTypes, PlainTypes, Holds, ClosedHoldsNothing, TypeOK
<1> QED
  BY <1>1, <1>2, <1>3, InitLines, HoldStep, PTL DEF Spec, HoldInv
=============================================================================

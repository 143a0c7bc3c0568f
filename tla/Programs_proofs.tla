---------------------------- MODULE Programs_proofs ----------------------------
(***************************************************************************)
(* Proofs about the two programs.  Miniterm, for any sets of ports and both *)
(* platforms: only the current port is ever left open, and nobody closes or *)
(* replaces the port while the reader is in it.  PortPublisher, for any     *)
(* number of devices and clients and every order of the callbacks of a      *)
(* round: the next client has nothing of the last one.                      *)
(***************************************************************************)
EXTENDS Miniterm, PortPublisher, FiniteSetTheorems, WellFoundedInduction, TLAPS

Reading == {"test", "enter", "read"}

(* Which threads exist in which phase of the main thread: the writer runs   *)
(* while the main thread waits for it, and the reader outlives it until it  *)
(* has been joined too.                                                     *)
Phases ==
  /\ main \in {"open", "exit"} => port = None /\ open = {} /\ tx = "unborn" /\ rx = "unborn"
  /\ main = "start" => port # None /\ tx = "unborn" /\ rx = "unborn"
  /\ main \in {"join_tx", "join", "join_rx", "done", "died"} =>
       port # None /\ tx # "unborn" /\ rx # "unborn"
  /\ main \in {"join_rx", "done"} => tx \in {"ended", "dead"}
  /\ main = "done" => RxGone

(* What the writer has in hand when it replaces or suspends the port: the   *)
(* new port, a reader that has been joined, and no open port while suspended. *)
Errands ==
  /\ tx = "swap" => errand = "change" /\ RxGone
  /\ tx = "suspended" => RxGone /\ port \notin open
  /\ (tx \in {"stop_reader", "join_reader", "swap"} /\ errand = "change") => wanted # None

(* While the program runs and the writer is about no errand, the reader of  *)
(* an open port has not been told to stop, and is there.                    *)
Reads ==
  (alive /\ port \in open /\ tx \in {"test", "key", "send", "write", "prompt", "stop_reader"}) =>
    /\ reader_alive
    /\ rx \in Reading \/ (platform = "posix" /\ rx = "dead")

(* The types in three parts, which call for different provers.              *)
FlagTypes ==
  /\ platform \in Platforms
  /\ alive \in BOOLEAN /\ reader_alive \in BOOLEAN /\ menu_active \in BOOLEAN
  /\ polled \in BOOLEAN /\ token \in BOOLEAN /\ nul \in BOOLEAN
PlaceTypes ==
  /\ main \in {"open", "exit", "start", "join_tx", "join", "join_rx", "done", "died"}
  /\ tx \in {"unborn", "test", "key", "send", "write", "prompt", "stop_reader", "join_reader",
             "swap", "suspended", "ended", "dead"}
  /\ errand \in {"none", "change", "suspend"}
  /\ rx \in {"unborn", "test", "enter", "read", "ended", "dead"}
PortTypes ==
  /\ port \in Ports \union {None} /\ open \subseteq Ports /\ gone \subseteq Ports
  /\ wanted \in Ports \union {None}

MinitermInv ==
  /\ FlagTypes /\ PlaceTypes /\ PortTypes
  /\ open \subseteq {port}
  /\ main = "done" => open = {}
  /\ Phases /\ Errands /\ Reads

LEMMA InvInit == Init => MinitermInv
BY MinitermAssumption
   DEF Init, MinitermInv, FlagTypes, PlaceTypes, PortTypes, Phases, Errands, Reads, RxGone, Ports
-----------------------------------------------------------------------------
(* Each group of steps keeps each part of the invariant.                    *)
LEMMA RxKeeps ==
  ASSUME MinitermInv, Rx \/ RxData \/ RxTimeout \/ RxCancelled
  PROVE  MinitermInv'
<1> USE DEF MinitermInv, flags, writer, ports
<1> USE DEF Rx, RxData, RxTimeout, RxCancelled, RxTest, RxEnter, RxReturn, RxRaise
<1>1. FlagTypes'
  BY Zenon DEF FlagTypes
<1>2. PlaceTypes'
  BY DEF PlaceTypes
<1>3. PortTypes'
  BY DEF PortTypes, Phases, Errands
<1>4. (open \subseteq {port} /\ (main = "done" => open = {}))'
  BY DEF Phases
<1>5. Phases'
  BY MinitermAssumption DEF PlaceTypes, PortTypes, Phases, Errands, RxGone, Ports
<1>6. Errands'
  BY DEF PlaceTypes, Phases, Errands, RxGone
<1>7. Reads'
  BY DEF Phases, Reads, Reading, RxGone, Errands
<1> QED
  BY <1>1, <1>2, <1>3, <1>4, <1>5, <1>6, <1>7

LEMMA TxKeeps ==
  ASSUME MinitermInv, Tx \/ TxWritten
  PROVE  MinitermInv'
<1> USE DEF MinitermInv, flags, writer, ports
<1> USE DEF Tx, TxTest, TxWoken, TxSend, TxWritten, TxStopReader, TxJoinReader, TxSwap, Raises,
            CancelRead, CancelRaises, Swapped, SwapFails, StartReader
<1>1. FlagTypes'
  BY Zenon DEF FlagTypes
<1>2. PlaceTypes'
  BY DEF PlaceTypes
<1>3. PortTypes'
  BY DEF PortTypes, Phases, Errands
<1>4. (open \subseteq {port} /\ (main = "done" => open = {}))'
  BY DEF Phases
<1>5. Phases'
  BY MinitermAssumption DEF PlaceTypes, PortTypes, Phases, Errands, RxGone, Ports
<1>6. Errands'
  BY DEF PlaceTypes, Phases, Errands, RxGone
<1>7. Reads'
  BY DEF Phases, Reads, Reading, RxGone, Errands
<1> QED
  BY <1>1, <1>2, <1>3, <1>4, <1>5, <1>6, <1>7

LEMMA UserKeeps ==
  ASSUME MinitermInv, User
  PROVE  MinitermInv'
<1> USE DEF MinitermInv, flags, writer, ports
<1> USE DEF User, TxKey, Stop, MenuSet, Leave, MenuPrompt, Prompt, MenuSuspend,
            AnswerOther, Answered, AnswerPort, TxSuspended, Reopen, Raises, StartReader
<1>1. FlagTypes'
  BY Zenon DEF FlagTypes
<1>2. PlaceTypes'
  BY DEF PlaceTypes
<1>3. PortTypes'
  BY DEF PlaceTypes, PortTypes, Phases, Errands
<1>4. (open \subseteq {port} /\ (main = "done" => open = {}))'
  BY DEF Phases
<1>5. Phases'
  BY MinitermAssumption DEF PlaceTypes, PortTypes, Phases, Errands, RxGone, Ports
<1>6. Errands'
  BY DEF PlaceTypes, Phases, Errands, RxGone
<1>7. Reads'
  <2>1. CASE TxSuspended
    <3>1. PICK k \in {"exit", "change", "other"} : Reopen(k)
      BY <2>1
    <3>2. CASE k = "exit"
      BY <3>1, <3>2 DEF Reads
    <3>3. CASE k = "change"
      BY <2>1, <3>1, <3>3 DEF Reads, Errands
    <3>4. CASE k = "other"
      BY <2>1, <3>1, <3>4 DEF Reads, Reading
    <3> QED
      BY <3>1, <3>2, <3>3, <3>4
  <2>2. CASE ~TxSuspended
    BY <2>2 DEF Reads, Reading
  <2> QED
    BY <2>1, <2>2
<1> QED
  BY <1>1, <1>2, <1>3, <1>4, <1>5, <1>6, <1>7

LEMMA MainKeeps ==
  ASSUME MinitermInv, Main
  PROVE  MinitermInv'
<1> USE DEF MinitermInv, flags, writer, ports
<1> USE DEF Main, MainOpen, MainCannotOpen, MainStart, StartReader, MainJoinTx,
            MainJoinRx, CancelRead, CancelRaises
<1>1. FlagTypes'
  <2>1. CASE MainOpen
    <3>1. PICK p \in Ports : polled' = (p \in Url)
      BY <2>1
    <3>2. polled' \in BOOLEAN
      BY <3>1
    <3> QED
      BY <2>1, <3>2, Zenon DEF FlagTypes
  <2>2. CASE ~MainOpen
    BY <2>2, Zenon DEF FlagTypes
  <2> QED
    BY <2>1, <2>2
<1>2. PlaceTypes'
  BY DEF PlaceTypes
<1>3. PortTypes'
  BY DEF PortTypes, Phases, Errands
<1>4. (open \subseteq {port} /\ (main = "done" => open = {}))'
  BY DEF Phases
<1>5. Phases'
  BY MinitermAssumption DEF PlaceTypes, PortTypes, Phases, Errands, RxGone, Ports
<1>6. Errands'
  BY DEF PlaceTypes, Phases, Errands, RxGone
<1>7. Reads'
  BY DEF Phases, Reads, Reading, RxGone, Errands
<1> QED
  BY <1>1, <1>2, <1>3, <1>4, <1>5, <1>6, <1>7

LEMMA WorldKeeps ==
  ASSUME MinitermInv, Sigint \/ Unplug \/ Plug
  PROVE  MinitermInv'
<1> USE DEF MinitermInv, flags, writer, ports
<1> USE DEF Sigint, Unplug, Plug
<1>1. FlagTypes'
  BY Zenon DEF FlagTypes
<1>2. PlaceTypes'
  BY DEF PlaceTypes
<1>3. PortTypes'
  BY DEF PortTypes, Phases, Errands
<1>4. (open \subseteq {port} /\ (main = "done" => open = {}))'
  BY DEF Phases
<1>5. Phases'
  BY MinitermAssumption DEF PlaceTypes, PortTypes, Phases, Errands, RxGone, Ports
<1>6. Errands'
  BY DEF PlaceTypes, Phases, Errands, RxGone
<1>7. Reads'
  <2>1. CASE Sigint
    BY <2>1 DEF Reads
  <2>2. CASE Unplug \/ Plug
    BY <2>2 DEF Reads
  <2> QED
    BY <2>1, <2>2
<1> QED
  BY <1>1, <1>2, <1>3, <1>4, <1>5, <1>6, <1>7

LEMMA InvNext == MinitermInv /\ [Next]_vars => MinitermInv'
<1> SUFFICES ASSUME MinitermInv, [Next]_vars PROVE MinitermInv'
  OBVIOUS
<1>1. CASE UNCHANGED vars
  BY <1>1 DEF MinitermInv, FlagTypes, PlaceTypes, PortTypes, Phases, Errands, Reads,
              RxGone, vars, flags, writer, ports
<1>2. CASE Next
  BY <1>2, RxKeeps, TxKeeps, UserKeeps, MainKeeps, WorldKeeps DEF Next
<1> QED
  BY <1>1, <1>2

LEMMA Invariant == Spec => []MinitermInv
BY InvInit, InvNext, PTL DEF Spec
-----------------------------------------------------------------------------
(* Whatever fails in a port change, only the current port is left open, none *)
(* when the program has closed, and who can type at an open port is shown    *)
(* what arrives, unless in_waiting of POSIX has ended the reader.            *)
THEOREM OnlyOneOpen == Spec => []OnlyCurrentOpen
<1>1. MinitermInv => OnlyCurrentOpen
  BY DEF MinitermInv, FlagTypes, PlaceTypes, PortTypes, OnlyCurrentOpen, TypeOK, Reads, Reading
<1> QED
  BY <1>1, Invariant, PTL

(* No step of the writer or the main thread closes or replaces the port      *)
(* while the reader is in it.                                                *)
THEOREM ReaderUndisturbed == Spec => PortUndisturbed
<1>1. ASSUME MinitermInv, [Next]_vars
      PROVE  [(rx \in {"enter", "read"}) => port' = port /\ (port \in open <=> port \in open')]_vars
  <2> SUFFICES ASSUME Next, rx \in {"enter", "read"}
               PROVE  port' = port /\ open' = open
    BY <1>1 DEF vars, ports
  <2> USE <1>1 DEF MinitermInv, Phases, Errands, RxGone, ports
  <2>1. CASE Rx \/ RxData \/ RxTimeout \/ RxCancelled
    BY <2>1 DEF Rx, RxData, RxTimeout, RxCancelled, RxTest, RxEnter, RxReturn, RxRaise
  <2>2. CASE Tx \/ TxWritten
    BY <2>2 DEF Tx, TxTest, TxWoken, TxSend, TxWritten, TxStopReader, TxJoinReader, TxSwap
  <2>3. CASE User
    BY <2>3 DEF User, TxKey, MenuSet, MenuPrompt, MenuSuspend, AnswerOther, AnswerPort, TxSuspended
  <2>4. CASE Main
    BY <2>4 DEF Main, MainOpen, MainCannotOpen, MainStart, MainJoinTx, MainJoinRx
  <2>5. CASE Sigint \/ Unplug \/ Plug
    BY <2>5 DEF Sigint, Unplug, Plug
  <2> QED
    BY <2>1, <2>2, <2>3, <2>4, <2>5 DEF Next
<1> QED
  BY <1>1, Invariant, PTL DEF Spec, PortUndisturbed
-----------------------------------------------------------------------------
(* PortPublisher: one process, its Forwarders, devices that come and go.    *)

(* A nonempty set of numbers has a least element.                           *)
LEMMA LeastNumber ==
  ASSUME NEW T, T \subseteq Nat, T # {}
  PROVE  \E x \in T : \A y \in T : x <= y
<1> DEFINE R == {ss \in Nat \X Nat : ss[1] < ss[2]}
<1>1. IsWellFoundedOn(R, Nat)
  BY NatLessThanWellFounded DEF OpToRel
<1>2. \E x \in T : \A y \in T : ~(<<y, x>> \in R)
  <2> HIDE DEF R
  <2> QED
    BY <1>1, WFMin
<1>3. PICK x \in T : \A y \in T : ~(<<y, x>> \in R)
  BY <1>2
<1>4. \A y \in T : y \in Nat /\ x \in Nat /\ ~(y < x)
  BY <1>3
<1> QED
  BY <1>4

Forwarders ==
  [alive : BOOLEAN, serial : BOOLEAN, gone : BOOLEAN, server : BOOLEAN, net : 0..N,
   socket : Clients \union {NoClient}, rfc : BOOLEAN, rts : BOOLEAN, changed : BOOLEAN,
   net2ser : 0..Full, ser2net : BOOLEAN]

(* A Forwarder without a client has nothing of one, unless its close() was   *)
(* left by an exception.                                                     *)
Clean(f) == f.socket = NoClient => ~f.ser2net /\ (f.alive => ~f.changed /\ ~f.rts)
FwOK(f) == f \in Forwarders /\ Clean(f)

LEMMA Numbers == N \in Nat \ {0} /\ Burst \in Nat /\ Full \in Nat \ {0} /\ Upsets \in Nat /\ NoClient \notin Clients
BY PublisherAssumption DEF PublisherAssumption

LEMMA IdleOK == FwOK(Idle) /\ ~Idle.server /\ ~Idle.serial /\ ~Idle.alive /\ Idle.socket = NoClient /\ Idle.net2ser = 0
BY Numbers DEF FwOK, Clean, Forwarders, Idle

LEMMA SameForwarder ==
  ASSUME NEW f \in Forwarders, NEW g \in Forwarders,
         f.alive = g.alive, f.serial = g.serial, f.gone = g.gone, f.server = g.server, f.net = g.net,
         f.socket = g.socket, f.rfc = g.rfc, f.rts = g.rts, f.changed = g.changed,
         f.net2ser = g.net2ser, f.ser2net = g.ser2net
  PROVE  f = g
BY DEF Forwarders

(* What handle_disconnect makes of a Forwarder.                              *)
LEMMA DisconnectedOK ==
  ASSUME NEW f, FwOK(f)
  PROVE  LET g == Disconnected(f)
         IN  /\ FwOK(g) /\ g.alive = f.alive /\ g.server = f.server /\ g.net2ser = f.net2ser
             /\ f = Idle => g = Idle
<1>1. CASE LinesRaise(f) /\ f.changed
  <2>1. Disconnected(f) = [f EXCEPT !.rts = FALSE]
    BY <1>1 DEF Disconnected
  <2>2. f # Idle
    BY <1>1 DEF LinesRaise, Idle
  <2> QED
    BY <1>1, <2>1, <2>2 DEF FwOK, Clean, Forwarders
<1>2. CASE ~(LinesRaise(f) /\ f.changed)
  <2>1. Disconnected(f) = [f EXCEPT !.rts = FALSE, !.changed = FALSE, !.rfc = FALSE, !.ser2net = FALSE, !.socket = NoClient]
    BY <1>2 DEF Disconnected, Restored
  <2>2. FwOK(Disconnected(f))
    BY <2>1 DEF FwOK, Clean, Forwarders
  <2>3. Disconnected(f).alive = f.alive /\ Disconnected(f).server = f.server /\ Disconnected(f).net2ser = f.net2ser
    <3>1. f \in Forwarders
      BY DEF FwOK
    <3> QED
      BY <2>1, <3>1, Zenon DEF Forwarders
  <2>4. f = Idle => Disconnected(f) = Idle
    <3> SUFFICES ASSUME f = Idle PROVE Disconnected(f) = f
      OBVIOUS
    <3>1. f.rts = FALSE /\ f.changed = FALSE /\ f.rfc = FALSE /\ f.ser2net = FALSE /\ f.socket = NoClient
      BY DEF Idle
    <3>2. f \in Forwarders
      BY DEF FwOK
    <3> DEFINE g == Disconnected(f)
    <3>3. g \in Forwarders
      BY <2>2 DEF FwOK
    <3>4. g.rts = FALSE /\ g.changed = FALSE /\ g.rfc = FALSE /\ g.ser2net = FALSE /\ g.socket = NoClient
      BY <2>1, <3>2 DEF Forwarders
    <3>5. /\ g.alive = f.alive /\ g.serial = f.serial /\ g.gone = f.gone /\ g.server = f.server /\ g.net = f.net
          /\ g.net2ser = f.net2ser
      BY <2>1, <3>2 DEF Forwarders
    <3> HIDE DEF g
    <3>6. f = g
      BY <3>1, <3>2, <3>3, <3>4, <3>5, SameForwarder
    <3> QED
      BY <3>6 DEF g
  <2> QED
    BY <2>2, <2>3, <2>4
<1> QED
  BY <1>1, <1>2

LEMMA ClosingOK ==
  ASSUME NEW f, FwOK(f)
  PROVE  FwOK(Closing(f)) /\ ~Closing(f).alive /\ ~Closing(f).server
BY DEF FwOK, Clean, Forwarders, Closing

(* The world and the counters; the Forwarders: one that is not published is  *)
(* idle, one that an exception has spoiled is not alive, and nobody waits    *)
(* for one without a server; the main loop, and the round of callbacks: no   *)
(* callback is there twice, none is of a spoiled Forwarder, and there is     *)
(* room for what a client sends.                                             *)
WorldOK ==
  /\ world \in Worlds /\ present \subseteq world.devices /\ left \subseteq Clients
  /\ queue \in [Devices -> SUBSET Clients] /\ upsets \in 0..Upsets
ForwardersOK ==
  /\ fw \in [Devices -> Forwarders] /\ \A d \in Devices : FwOK(fw[d])
  /\ published \subseteq Devices /\ spoiled \subseteq published
  /\ \A d \in Devices : /\ d \notin published => fw[d] = Idle
                        /\ d \in spoiled => ~fw[d].alive
                        /\ ~fw[d].server => queue[d] = {}
LoopOK ==
  /\ pc \in {"check", "publish", "select", "handle"}
  /\ fresh \subseteq Devices \ published
  /\ fresh # {} => pc = "publish"
  /\ todo # {} => pc = "handle"
RoundOK ==
  \A c \in todo : /\ c.d \in Devices \ spoiled /\ c.k \in Callback /\ c.at \in Nat
                  /\ c.k = "socket_read" => fw[c.d].net2ser < Full
                  /\ \A x \in todo : x.d = c.d /\ x.k = c.k => x = c
PublisherInv == WorldOK /\ ForwardersOK /\ LoopOK /\ RoundOK

LEMMA WorldDevices == WorldOK => present \subseteq Devices
BY WorldsAssumption DEF WorldsAssumption, WorldOK

LEMMA PublisherInvInit == PublisherInit => PublisherInv
<1> SUFFICES ASSUME PublisherInit PROVE PublisherInv
  OBVIOUS
<1>1. WorldOK
  BY Numbers DEF PublisherInit, WorldOK
<1>2. fw \in [Devices -> Forwarders] /\ \A d \in Devices : fw[d] = Idle
  BY IdleOK DEF PublisherInit, FwOK
<1>3. ForwardersOK
  BY <1>2, IdleOK DEF PublisherInit, ForwardersOK
<1>4. LoopOK /\ RoundOK
  BY DEF PublisherInit, LoopOK, RoundOK
<1> QED
  BY <1>1, <1>3, <1>4 DEF PublisherInv

LEMMA PublisherInvStutter ==
  ASSUME PublisherInv, UNCHANGED <<world, present, published, fw, spoiled, pc, fresh, todo, queue, left, upsets>>
  PROVE  PublisherInv'
BY DEF PublisherInv, WorldOK, ForwardersOK, LoopOK, RoundOK
-----------------------------------------------------------------------------
(* Steps that leave the Forwarders alone.                                   *)
LEMMA PublisherQuiet ==
  ASSUME PublisherInv,
         \/ NoCheckYet \/ Published \/ RoundEnds
         \/ \E d \in Devices : PlugDevice(d) \/ \E c \in Clients : Connect(c, d) \/ ClientLeaves(c)
         \/ \E c \in Clients \union {NoClient} : Collect(c)
  PROVE  PublisherInv'
<1> USE DEF PublisherInv, env, loop
<1>1. CASE NoCheckYet \/ Published \/ RoundEnds
  BY <1>1 DEF NoCheckYet, Published, RoundEnds, WorldOK, ForwardersOK, LoopOK, RoundOK
<1>2. ASSUME NEW d \in Devices, PlugDevice(d) PROVE PublisherInv'
  BY <1>2 DEF PlugDevice, WorldOK, ForwardersOK, LoopOK, RoundOK
<1>3. ASSUME NEW d \in Devices, NEW c \in Clients, Connect(c, d) PROVE PublisherInv'
  <2>1. /\ fw[d].server /\ queue' = [queue EXCEPT ![d] = queue[d] \union {c}] /\ left' = left \ {c}
        /\ UNCHANGED <<world, present, published, fw, spoiled, pc, fresh, todo, upsets>>
    BY <1>3 DEF Connect
  <2>2. queue' \in [Devices -> SUBSET Clients] /\ \A x \in Devices \ {d} : queue'[x] = queue[x]
    BY <2>1 DEF WorldOK
  <2>3. WorldOK'
    BY <2>1, <2>2 DEF WorldOK
  <2>4. ForwardersOK'
    BY <2>1, <2>2 DEF ForwardersOK
  <2> QED
    BY <2>1, <2>3, <2>4 DEF LoopOK, RoundOK
<1>4. ASSUME NEW c \in Clients, ClientLeaves(c) PROVE PublisherInv'
  BY <1>4 DEF ClientLeaves, WorldOK, ForwardersOK, LoopOK, RoundOK
<1>5. ASSUME NEW c \in Clients \union {NoClient}, Collect(c) PROVE PublisherInv'
  BY <1>5, PublisherInvStutter DEF Collect
<1> QED
  BY <1>1, <1>2, <1>3, <1>4, <1>5

LEMMA PublisherUnplug ==
  ASSUME PublisherInv, NEW d \in Devices, UnplugDevice(d)
  PROVE  PublisherInv'
<1> DEFINE g == [fw[d] EXCEPT !.gone = fw[d].gone \/ fw[d].serial]
<1>1. /\ present' = present \ {d} /\ fw' = [fw EXCEPT ![d].gone = fw[d].gone \/ fw[d].serial]
      /\ UNCHANGED <<world, published, spoiled, pc, fresh, todo, queue, left, upsets>>
  BY DEF UnplugDevice, loop
<1>2. fw[d] \in Forwarders /\ FwOK(fw[d]) /\ fw \in [Devices -> Forwarders]
  BY DEF PublisherInv, ForwardersOK
<1>3. /\ g \in Forwarders /\ g.socket = fw[d].socket /\ g.ser2net = fw[d].ser2net /\ g.alive = fw[d].alive
      /\ g.changed = fw[d].changed /\ g.rts = fw[d].rts /\ g.server = fw[d].server /\ g.net2ser = fw[d].net2ser
      /\ g.serial = fw[d].serial /\ g.net = fw[d].net /\ g.rfc = fw[d].rfc
  BY <1>2 DEF Forwarders
<1>4. fw[d] = Idle => g = Idle
  <2> SUFFICES ASSUME fw[d] = Idle PROVE g = fw[d]
    OBVIOUS
  <2>1. ~fw[d].gone /\ ~fw[d].serial
    BY DEF Idle
  <2>2. g.gone = fw[d].gone
    BY <1>2, <2>1 DEF Forwarders
  <2> HIDE DEF g
  <2> QED
    BY <1>2, <1>3, <2>2, SameForwarder
<1>5. fw' = [fw EXCEPT ![d] = g]
  BY <1>1
<1> HIDE DEF g
<1>6. FwOK(g)
  BY <1>2, <1>3 DEF FwOK, Clean
<1>7. fw'[d] = g /\ fw' \in [Devices -> Forwarders] /\ \A x \in Devices \ {d} : fw'[x] = fw[x]
  BY <1>2, <1>3, <1>5
<1>8. ForwardersOK'
  <2> SUFFICES ASSUME NEW x \in Devices
               PROVE  /\ FwOK(fw'[x]) /\ (x \notin published => fw'[x] = Idle)
                      /\ (x \in spoiled => ~fw'[x].alive) /\ (~fw'[x].server => queue[x] = {})
    BY <1>1, <1>7 DEF PublisherInv, ForwardersOK
  <2>1. CASE x = d
    BY <1>3, <1>4, <1>6, <1>7, <2>1 DEF PublisherInv, ForwardersOK
  <2>2. CASE x # d
    BY <1>7, <2>2 DEF PublisherInv, ForwardersOK
  <2> QED
    BY <2>1, <2>2
<1>9. RoundOK'
  <2>1. \A x \in Devices : fw'[x].net2ser = fw[x].net2ser
    BY <1>3, <1>7
  <2> QED
    BY <1>1, <2>1 DEF PublisherInv, RoundOK
<1> QED
  BY <1>1, <1>8, <1>9 DEF PublisherInv, WorldOK, LoopOK

LEMMA PublisherCheck == ASSUME PublisherInv, CheckDevices PROVE PublisherInv'
<1>1. /\ pc = "check" /\ pc' = "publish" /\ fresh' = present \ published
      /\ fw' = [d \in Devices |-> IF d \in Missing THEN Idle ELSE fw[d]]
      /\ queue' = [d \in Devices |-> IF d \in Missing THEN {} ELSE queue[d]]
      /\ published' = published \ Missing /\ spoiled' = spoiled \ Missing
      /\ UNCHANGED <<todo, world, present, left, upsets>>
  BY DEF CheckDevices, Forget
<1>2. todo = {} /\ present \subseteq Devices
  BY <1>1, WorldDevices DEF PublisherInv, LoopOK
<1>3. WorldOK'
  BY <1>1 DEF PublisherInv, WorldOK
<1>4. Idle \in Forwarders /\ FwOK(Idle)
  BY IdleOK DEF FwOK
<1>5. ForwardersOK'
  <2>1. fw' \in [Devices -> Forwarders]
    BY <1>1, <1>4 DEF PublisherInv, ForwardersOK
  <2>2. ASSUME NEW d \in Devices
        PROVE  /\ FwOK(fw'[d]) /\ (d \notin published' => fw'[d] = Idle)
               /\ (d \in spoiled' => ~fw'[d].alive) /\ (~fw'[d].server => queue'[d] = {})
    <3>1. CASE d \in Missing
      BY <1>1, <1>4, <3>1 DEF PublisherInv, ForwardersOK
    <3>2. CASE d \notin Missing
      BY <1>1, <3>2 DEF PublisherInv, ForwardersOK
    <3> QED
      BY <3>1, <3>2
  <2> QED
    BY <1>1, <2>1, <2>2 DEF PublisherInv, ForwardersOK
<1>6. LoopOK' /\ RoundOK'
  BY <1>1, <1>2 DEF LoopOK, RoundOK
<1> QED
  BY <1>3, <1>5, <1>6 DEF PublisherInv

(* The first free TCP port is one: fewer Forwarders than devices have one.   *)
LEMMA FreeNetOK ==
  ASSUME PublisherInv, NEW d \in fresh
  PROVE  FreeNet \in 1..N
<1> DEFINE taken == {fw[x].net : x \in published}
           free == {p \in 1..N : p \notin taken}
<1>1. published \subseteq Devices /\ d \in Devices /\ d \notin published
  BY DEF PublisherInv, ForwardersOK, LoopOK
<1>2. free # {}
  <2> SUFFICES ASSUME \A p \in 1..N : p \in taken PROVE FALSE
    OBVIOUS
  <2> DEFINE g == [p \in 1..N |-> CHOOSE x \in published : fw[x].net = p]
             rest == Devices \ {d}
  <2>1. \A p \in 1..N : g[p] \in published /\ fw[g[p]].net = p
    OBVIOUS
  <2>2. IsFiniteSet(1..N) /\ Cardinality(1..N) = N
    BY Numbers, FS_Interval
  <2>3. IsFiniteSet(rest) /\ Cardinality(rest) = N - 1
    BY <1>1, <2>2, FS_RemoveElement DEF Devices
  <2>4. g \in [1..N -> rest]
    BY <1>1, <2>1
  <2> HIDE DEF g, rest
  <2>5. Cardinality(rest) < Cardinality(1..N)
    BY <2>2, <2>3, Numbers
  <2>6. PICK p \in 1..N, q \in 1..N : p # q /\ g[p] = g[q]
    BY <2>2, <2>3, <2>4, <2>5, FS_PigeonHole
  <2> QED
    BY <2>1, <2>6
<1>3. \E p \in free : \A q \in free : p <= q
  <2>1. free \subseteq Nat
    OBVIOUS
  <2> HIDE DEF free
  <2> QED
    BY <1>2, <2>1, LeastNumber
<1>4. PICK p \in free : \A q \in free : p <= q
  BY <1>3
<1>5. p \in 1..N /\ p \notin taken /\ \A q \in 1..(p - 1) : q \in taken
  <2>1. p \in 1..N /\ p \notin taken /\ p \in Nat
    OBVIOUS
  <2>2. ASSUME NEW q \in 1..(p - 1) PROVE q \in taken
    <3>1. q \in 1..N /\ ~(p <= q)
      BY <2>1, Numbers
    <3>2. q \notin free
      BY <1>4, <3>1
    <3> QED
      BY <3>1, <3>2
  <2> QED
    BY <2>1, <2>2
<1> QED
  BY <1>5 DEF FreeNet

LEMMA OpenedOK ==
  ASSUME PublisherInv, NEW d \in fresh, NEW b \in BOOLEAN
  PROVE  LET g == [Opened EXCEPT !.alive = b]
         IN  FwOK(Opened) /\ FwOK(g) /\ g.alive = b /\ g.server /\ Opened.server
<1>1. FreeNet \in 1..N
  BY FreeNetOK
<1>2. Opened \in Forwarders /\ Opened.server /\ ~Opened.ser2net /\ ~Opened.changed /\ ~Opened.rts
  <2>1. Idle \in Forwarders /\ ~Idle.ser2net /\ ~Idle.changed /\ ~Idle.rts
    BY IdleOK DEF Idle, FwOK
  <2> DEFINE i == Idle
  <2>2. Opened = [i EXCEPT !.alive = TRUE, !.serial = TRUE, !.server = TRUE, !.net = FreeNet]
    BY DEF Opened
  <2>3. FreeNet \in 0..N /\ i \in Forwarders /\ ~i.ser2net /\ ~i.changed /\ ~i.rts
    BY <1>1, <2>1
  <2> HIDE DEF i
  <2>4. Opened \in Forwarders
    BY <2>2, <2>3 DEF Forwarders
  <2>5. Opened.server /\ ~Opened.ser2net /\ ~Opened.changed /\ ~Opened.rts
    BY <2>2, <2>3 DEF Forwarders
  <2> QED
    BY <2>4, <2>5
<1> DEFINE g == [Opened EXCEPT !.alive = b]
<1>3. g \in Forwarders /\ g.server /\ ~g.ser2net /\ ~g.changed /\ ~g.rts /\ g.alive = b
  BY <1>2 DEF Forwarders
<1> QED
  BY <1>2, <1>3 DEF FwOK, Clean

LEMMA PublisherPublish == ASSUME PublisherInv, PublishNext PROVE PublisherInv'
<1> DEFINE d == CHOOSE x \in fresh : \A y \in fresh : x <= y
<1>1. /\ pc = "publish" /\ fresh # {}
      /\ Publish(d) \/ PublishRaises(d)
      /\ UNCHANGED <<todo, world, present, queue, left>>
  BY DEF PublishNext, env
<1>2. fresh \subseteq Devices \ published /\ todo = {} /\ Devices \subseteq Nat
  BY <1>1 DEF PublisherInv, LoopOK, Devices
<1>3. d \in fresh
  <2>1. fresh \subseteq Nat
    BY <1>2
  <2>2. \E x \in fresh : \A y \in fresh : x <= y
    BY <1>1, <2>1, LeastNumber
  <2> QED
    BY <2>2
<1> HIDE DEF d
<1>4. d \in Devices /\ d \notin published /\ d \notin spoiled
  BY <1>2, <1>3 DEF PublisherInv, ForwardersOK
<1>5. ASSUME NEW g, FwOK(g), g.server, fw' = [fw EXCEPT ![d] = g], published' = published \union {d},
             \/ spoiled' = spoiled
             \/ spoiled' = spoiled \union {d} /\ ~g.alive
      PROVE  ForwardersOK'
  <2>1. fw' \in [Devices -> Forwarders] /\ fw'[d] = g /\ \A x \in Devices \ {d} : fw'[x] = fw[x]
    BY <1>4, <1>5 DEF PublisherInv, ForwardersOK, FwOK
  <2>2. ASSUME NEW x \in Devices
        PROVE  /\ FwOK(fw'[x]) /\ (x \notin published' => fw'[x] = Idle)
               /\ (x \in spoiled' => ~fw'[x].alive) /\ (~fw'[x].server => queue'[x] = {})
    <3>1. CASE x = d
      BY <1>4, <1>5, <2>1, <3>1
    <3>2. CASE x # d
      BY <1>1, <1>5, <2>1, <3>2 DEF PublisherInv, ForwardersOK
    <3> QED
      BY <3>1, <3>2
  <2>3. published' \subseteq Devices /\ spoiled' \subseteq published'
    BY <1>4, <1>5 DEF PublisherInv, ForwardersOK
  <2> QED
    BY <2>1, <2>2, <2>3 DEF ForwardersOK
<1>6. CASE Publish(d)
  <2>1. fresh' = fresh \ {d} /\ UNCHANGED <<pc, spoiled, upsets>>
    BY <1>6 DEF Publish
  <2>2. WorldOK' /\ RoundOK'
    BY <1>1, <1>2, <2>1 DEF PublisherInv, WorldOK, RoundOK
  <2>3. CASE fw' = [fw EXCEPT ![d] = Opened] /\ published' = published \union {d}
    <3>1. FwOK(Opened) /\ Opened.server
      BY <1>3, OpenedOK
    <3>2. ForwardersOK'
      BY <1>5, <2>1, <2>3, <3>1
    <3>3. LoopOK'
      BY <1>1, <1>2, <2>1, <2>3 DEF LoopOK
    <3> QED
      BY <2>2, <3>2, <3>3 DEF PublisherInv
  <2>4. CASE UNCHANGED <<published, fw>>
    BY <1>1, <1>2, <2>1, <2>2, <2>4 DEF PublisherInv, ForwardersOK, LoopOK
  <2> QED
    BY <1>6, <2>3, <2>4 DEF Publish
<1>7. CASE PublishRaises(d)
  <2> DEFINE g == [Opened EXCEPT !.alive = FALSE]
  <2>1. /\ upsets < Upsets /\ upsets' = upsets + 1 /\ fw' = [fw EXCEPT ![d] = g]
        /\ published' = published \union {d} /\ spoiled' = spoiled \union {d} /\ fresh' = {} /\ pc' = "check"
    BY <1>7 DEF PublishRaises
  <2>2. FwOK(g) /\ g.server /\ ~g.alive
    BY <1>3, OpenedOK
  <2>3. upsets' \in 0..Upsets
    BY <2>1, Numbers DEF PublisherInv, WorldOK
  <2>4. WorldOK' /\ RoundOK' /\ LoopOK'
    BY <1>1, <1>2, <2>1, <2>3 DEF PublisherInv, WorldOK, RoundOK, LoopOK
  <2> HIDE DEF g
  <2>5. ForwardersOK'
    BY <1>5, <2>1, <2>2
  <2> QED
    BY <2>4, <2>5 DEF PublisherInv
<1> QED
  BY <1>1, <1>6, <1>7

LEMMA InMapsOK ==
  ASSUME NEW d, NEW k \in InMaps(d)
  PROVE  /\ fw[d].alive /\ k \in Callback
         /\ k = "socket_read" => fw[d].net2ser < Full
<1>1. {"serial_read", "socket_read", "connect", "serial_write", "socket_write", "serial_error", "socket_error"}
        \subseteq Callback
  BY DEF Callback, Order
<1> QED
  BY <1>1 DEF InMaps

LEMMA RankOK ==
  ASSUME NEW k \in Callback, NEW d \in Devices, NEW place \in [Devices -> Devices]
  PROVE  Rank(k, d, place) \in Nat
<1> DEFINE p == CHOOSE n \in 1..7 : Order[n] = k
           phase == IF p < 4 THEN 0 ELSE IF p < 6 THEN 1 ELSE 2
<1>1. p \in 1..7
  BY DEF Callback
<1>2. phase \in {0, 1, 2} /\ place[d] \in Nat /\ N \in Nat
  BY Numbers DEF Devices
<1> HIDE DEF p, phase
<1>3. phase * N \in Nat
  BY <1>2
<1>4. (phase * N + place[d]) * 8 + p \in Nat
  BY <1>1, <1>2, <1>3
<1> QED
  BY <1>4 DEF Rank, p, phase

LEMMA PublisherSelect == ASSUME PublisherInv, Select PROVE PublisherInv'
<1>1. PICK S \in SUBSET Callbacks([d \in published |-> Unsure(d)]), place \in Bijection(Devices, Devices) :
        todo' = {[k |-> c[1], d |-> c[2], at |-> Rank(c[1], c[2], place)]
                  : c \in S \union Callbacks([d \in published |-> Sure(d)])}
  BY DEF Select
<1>2. /\ pc' = "handle" /\ pc = "select"
      /\ fw' = [d \in Devices |-> IF d \in published /\ fw[d].alive /\ fw[d].socket = NoClient
                                  THEN [fw[d] EXCEPT !.ser2net = FALSE] ELSE fw[d]]
      /\ UNCHANGED <<published, spoiled, fresh, world, present, queue, left, upsets>>
  BY DEF Select, env
<1> DEFINE all == S \union Callbacks([d \in published |-> Sure(d)])
           made(c) == [k |-> c[1], d |-> c[2], at |-> Rank(c[1], c[2], place)]
<1>3. ASSUME NEW d \in Devices
      PROVE  /\ fw'[d] \in Forwarders /\ FwOK(fw'[d])
             /\ fw'[d].alive = fw[d].alive /\ fw'[d].server = fw[d].server /\ fw'[d].net2ser = fw[d].net2ser
             /\ d \notin published => fw'[d] = fw[d]
  <2>1. fw[d] \in Forwarders /\ FwOK(fw[d])
    BY DEF PublisherInv, ForwardersOK
  <2>2. CASE fw'[d] = fw[d]
    BY <2>1, <2>2
  <2>3. CASE d \in published /\ fw'[d] = [fw[d] EXCEPT !.ser2net = FALSE]
    BY <2>1, <2>3 DEF FwOK, Clean, Forwarders
  <2> QED
    BY <1>2, <2>2, <2>3
<1>4. ForwardersOK'
  <2>1. fw' \in [Devices -> Forwarders]
    BY <1>2, <1>3
  <2> QED
    BY <1>2, <1>3, <2>1 DEF PublisherInv, ForwardersOK
<1>5. ASSUME NEW c \in all
      PROVE  \E k, d : /\ c = <<k, d>> /\ d \in published /\ k \in InMaps(d)
  <2>1. \A d \in published : Sure(d) \subseteq InMaps(d) /\ Unsure(d) \subseteq InMaps(d)
    BY DEF Sure, Unsure
  <2>2. CASE c \in Callbacks([d \in published |-> Unsure(d)])
    BY <2>1, <2>2 DEF Callbacks
  <2>3. CASE c \in Callbacks([d \in published |-> Sure(d)])
    BY <2>1, <2>3 DEF Callbacks
  <2> QED
    BY <1>5, <2>2, <2>3
<1>6. place \in [Devices -> Devices]
  BY DEF Bijection, Injection
<1>7. ASSUME NEW x \in todo'
      PROVE  /\ x.d \in Devices \ spoiled' /\ x.k \in Callback /\ x.at \in Nat
             /\ x.k = "socket_read" => fw'[x.d].net2ser < Full
             /\ x.at = Rank(x.k, x.d, place) /\ x = made(<<x.k, x.d>>)
  <2>1. PICK c \in all : x = made(c)
    BY <1>1
  <2>2. PICK k, d : c = <<k, d>> /\ d \in published /\ k \in InMaps(d)
    BY <1>5, <2>1
  <2>3. x.k = k /\ x.d = d /\ x.at = Rank(k, d, place) /\ x = made(<<k, d>>)
    BY <2>1, <2>2
  <2>4. d \in Devices /\ fw[d].alive /\ k \in Callback /\ (k = "socket_read" => fw[d].net2ser < Full)
    BY <2>2, InMapsOK DEF PublisherInv, ForwardersOK
  <2>5. d \notin spoiled'
    BY <1>2, <2>4 DEF PublisherInv, ForwardersOK
  <2>6. Rank(k, d, place) \in Nat
    BY <1>6, <2>4, RankOK
  <2> QED
    BY <1>3, <2>3, <2>4, <2>5, <2>6
<1>8. RoundOK'
  BY <1>7 DEF RoundOK
<1>9. WorldOK' /\ LoopOK'
  BY <1>2 DEF PublisherInv, WorldOK, LoopOK
<1> QED
  BY <1>4, <1>8, <1>9 DEF PublisherInv
-----------------------------------------------------------------------------
(* The callbacks.  The first of a round is one of it, of a Forwarder that is *)
(* not spoiled, and it is the only one of its kind for its device.          *)
LEMMA FirstOK ==
  ASSUME PublisherInv, todo # {}
  PROVE  /\ First \in todo /\ First.d \in Devices \ spoiled
         /\ First.k = "socket_read" => fw[First.d].net2ser < Full
         /\ \A x \in todo \ {First} : ~(x.d = First.d /\ x.k = First.k)
<1> DEFINE ranks == {c.at : c \in todo}
<1>1. \A c \in todo : c.at \in Nat
  BY DEF PublisherInv, RoundOK
<1>2. \E r \in ranks : \A s \in ranks : r <= s
  <2>1. ranks \subseteq Nat /\ ranks # {}
    BY <1>1
  <2> HIDE DEF ranks
  <2> QED
    BY <2>1, LeastNumber
<1>3. \E c \in todo : \A x \in todo : c.at <= x.at
  BY <1>2
<1>4. First \in todo
  BY <1>3 DEF First
<1> HIDE DEF ranks
<1> QED
  BY <1>4 DEF PublisherInv, RoundOK

(* What a callback of d may do: replace its Forwarder by one that is right,  *)
(* take it out of the dictionary when it is idle, or leave it spoiled.      *)
LEMMA CallbackKeeps ==
  ASSUME PublisherInv, pc = "handle", UNCHANGED <<pc, fresh, world, present, left>>, upsets' \in 0..Upsets,
         todo' \subseteq todo,
         NEW d \in Devices, NEW g, FwOK(g), fw' = [fw EXCEPT ![d] = g],
         NEW q, q \subseteq queue[d], queue' = [queue EXCEPT ![d] = q], ~g.server => q = {},
         published' \subseteq published, published \ {d} \subseteq published', d \notin published' => g = Idle,
         spoiled' \subseteq published', spoiled' \subseteq spoiled \union {d},
         d \in spoiled' => ~g.alive /\ \A c \in todo' : c.d # d,
         \A c \in todo' : c.d = d /\ c.k = "socket_read" => g.net2ser < Full
  PROVE  PublisherInv'
<1>1. fw' \in [Devices -> Forwarders] /\ fw'[d] = g /\ \A x \in Devices \ {d} : fw'[x] = fw[x]
  BY DEF PublisherInv, ForwardersOK, FwOK
<1>2. queue' \in [Devices -> SUBSET Clients] /\ queue'[d] = q /\ \A x \in Devices \ {d} : queue'[x] = queue[x]
  BY DEF PublisherInv, WorldOK
<1>3. WorldOK'
  BY <1>2 DEF PublisherInv, WorldOK
<1>4. ForwardersOK'
  <2>1. ASSUME NEW x \in Devices
        PROVE  /\ FwOK(fw'[x]) /\ (x \notin published' => fw'[x] = Idle)
               /\ (x \in spoiled' => ~fw'[x].alive) /\ (~fw'[x].server => queue'[x] = {})
    <3>1. CASE x = d
      BY <1>1, <1>2, <3>1
    <3>2. CASE x # d
      BY <1>1, <1>2, <3>2 DEF PublisherInv, ForwardersOK
    <3> QED
      BY <3>1, <3>2
  <2> QED
    BY <1>1, <2>1 DEF PublisherInv, ForwardersOK
<1>5. LoopOK'
  BY DEF PublisherInv, LoopOK
<1>6. RoundOK'
  <2> SUFFICES ASSUME NEW c \in todo'
               PROVE  /\ c.d \in Devices \ spoiled' /\ c.k \in Callback /\ c.at \in Nat
                      /\ c.k = "socket_read" => fw'[c.d].net2ser < Full
                      /\ \A x \in todo' : x.d = c.d /\ x.k = c.k => x = c
    BY DEF RoundOK
  <2>1. /\ c.d \in Devices \ spoiled /\ c.k \in Callback /\ c.at \in Nat
        /\ c.k = "socket_read" => fw[c.d].net2ser < Full
        /\ \A x \in todo' : x.d = c.d /\ x.k = c.k => x = c
    BY DEF PublisherInv, RoundOK
  <2>2. CASE c.d = d
    BY <1>1, <2>1, <2>2
  <2>3. CASE c.d # d
    BY <1>1, <2>1, <2>3
  <2> QED
    BY <2>2, <2>3
<1> QED
  BY <1>3, <1>4, <1>5, <1>6 DEF PublisherInv

(* The common case: the Forwarder stays in the dictionary, its buffer to the *)
(* device does not grow, and the server is what it was.                     *)
LEMMA CallbackStays ==
  ASSUME PublisherInv, pc = "handle", todo # {}, UNCHANGED <<pc, fresh, world, present, left>>, upsets' \in 0..Upsets,
         Returns \/ EndsRound, Stays,
         NEW d \in Devices, d = First.d, NEW g, FwOK(g), fw' = [fw EXCEPT ![d] = g],
         g.server = fw[d].server, g.net2ser <= fw[d].net2ser, d \notin published => g = Idle
  PROVE  PublisherInv'
<1>1. d \notin spoiled
  BY FirstOK
<1>2. queue' = [queue EXCEPT ![d] = queue[d]] /\ published' = published /\ spoiled' = spoiled
  BY DEF Stays, PublisherInv, WorldOK
<1>3. todo' \subseteq todo
  BY DEF Returns, EndsRound
<1>4. ~g.server => queue[d] = {}
  BY DEF PublisherInv, ForwardersOK
<1>5. \A c \in todo' : c.d = d /\ c.k = "socket_read" => g.net2ser < Full
  <2>1. g.net2ser \in Nat /\ fw[d].net2ser \in Nat /\ Full \in Nat
    BY Numbers DEF FwOK, PublisherInv, ForwardersOK, Forwarders
  <2> QED
    BY <1>3, <2>1 DEF PublisherInv, RoundOK
<1>6. /\ published' \subseteq published /\ published \ {d} \subseteq published'
      /\ d \notin published' => g = Idle
      /\ spoiled' \subseteq published' /\ spoiled' \subseteq spoiled \union {d} /\ d \notin spoiled'
  BY <1>1, <1>2 DEF PublisherInv, ForwardersOK
<1> DEFINE q == queue[d]
<1>7. q \subseteq queue[d] /\ queue' = [queue EXCEPT ![d] = q] /\ (~g.server => q = {})
  BY <1>2, <1>4
<1> HIDE DEF q
<1> QED
  BY <1>3, <1>5, <1>6, <1>7, CallbackKeeps

LEMMA DisconnectKeeps ==
  ASSUME PublisherInv, pc = "handle", todo # {}, UNCHANGED <<pc, fresh, world, present, left>>, upsets' \in 0..Upsets,
         HandleDisconnect(First.d)
  PROVE  PublisherInv'
<1> DEFINE d == First.d
           g == Disconnected(fw[d])
<1>1. d \in Devices
  BY FirstOK
<1>2. FwOK(fw[d]) /\ (d \notin published => fw[d] = Idle)
  BY <1>1 DEF PublisherInv, ForwardersOK
<1>3. FwOK(g) /\ g.server = fw[d].server /\ g.net2ser = fw[d].net2ser /\ (d \notin published => g = Idle)
  BY <1>2, DisconnectedOK
<1>4. fw' = [fw EXCEPT ![d] = g] /\ (Returns \/ EndsRound) /\ Stays
  BY DEF HandleDisconnect
<1>5. fw[d].net2ser \in Nat
  BY <1>2 DEF FwOK, Forwarders
<1> HIDE DEF g
<1>6. g.net2ser <= fw[d].net2ser
  BY <1>3, <1>5
<1> HIDE DEF d
<1> QED
  BY <1>1, <1>3, <1>4, <1>6, CallbackStays DEF d

LEMMA CloseKeeps ==
  ASSUME PublisherInv, pc = "handle", todo # {}, UNCHANGED <<pc, fresh, world, present, left>>, upsets' \in 0..Upsets,
         Close(First.d)
  PROVE  PublisherInv'
<1> DEFINE d == First.d
<1>1. d \in Devices \ spoiled
  BY FirstOK
<1>2. FwOK(fw[d]) /\ (d \notin published => fw[d] = Idle)
  BY <1>1 DEF PublisherInv, ForwardersOK
<1>3. queue' = [queue EXCEPT ![d] = {}]
  BY DEF Close
<1>4. CASE /\ fw[d].socket # NoClient /\ LinesRaise(fw[d])
           /\ fw' = [fw EXCEPT ![d] = Disconnected(Closing(fw[d]))]
           /\ spoiled' = spoiled \union {d} /\ EndsRound /\ UNCHANGED published
  <2> DEFINE g == Disconnected(Closing(fw[d]))
  <2>1. FwOK(g) /\ ~g.alive
    BY <1>2, ClosingOK, DisconnectedOK
  <2>2. d \in published
    BY <1>2, <1>4, IdleOK
  <2>3. todo' = {} /\ fw' = [fw EXCEPT ![d] = g]
    BY <1>4 DEF EndsRound
  <2> DEFINE q == {}
  <2>4. q \subseteq queue[d] /\ queue' = [queue EXCEPT ![d] = q] /\ (~g.server => q = {})
    BY <1>3
  <2> HIDE DEF g, d, q
  <2>5. /\ published' \subseteq published /\ published \ {d} \subseteq published' /\ d \in published'
        /\ spoiled' \subseteq published' /\ spoiled' \subseteq spoiled \union {d} /\ todo' \subseteq todo
    BY <1>4, <2>2, <2>3 DEF PublisherInv, ForwardersOK
  <2> QED
    BY <1>1, <2>1, <2>3, <2>4, <2>5, CallbackKeeps
<1>5. CASE Closed(d) /\ Returns /\ UNCHANGED spoiled
  <2>1. fw' = [fw EXCEPT ![d] = Idle] /\ published' = published \ {d} /\ todo' \subseteq todo
    BY <1>5 DEF Closed, Returns
  <2> DEFINE g == Idle
             q == {}
  <2>2. FwOK(g) /\ fw' = [fw EXCEPT ![d] = g] /\ (d \notin published' => g = Idle)
    BY <2>1, IdleOK
  <2>3. \A c \in todo' : c.d = d /\ c.k = "socket_read" => g.net2ser < Full
    BY IdleOK, Numbers
  <2>4. q \subseteq queue[d] /\ queue' = [queue EXCEPT ![d] = q] /\ (~g.server => q = {})
    BY <1>3
  <2> HIDE DEF d, g, q
  <2>5. /\ published' \subseteq published /\ published \ {d} \subseteq published'
        /\ spoiled' \subseteq published' /\ spoiled' \subseteq spoiled \union {d} /\ d \notin spoiled'
    BY <1>1, <1>5, <2>1 DEF PublisherInv, ForwardersOK
  <2> QED
    BY <1>1, <2>1, <2>2, <2>3, <2>4, <2>5, CallbackKeeps
<1> QED
  BY <1>4, <1>5 DEF Close

LEMMA SerialReadKeeps ==
  ASSUME PublisherInv, pc = "handle", todo # {}, UNCHANGED <<pc, fresh, world, present, left, upsets>>,
         HandleSerialRead(First.d) \/ HandleSerialWrite(First.d)
  PROVE  PublisherInv'
<1> DEFINE d == First.d
<1>1. d \in Devices /\ upsets' \in 0..Upsets
  BY FirstOK DEF PublisherInv, WorldOK
<1>2. FwOK(fw[d]) /\ fw[d] \in Forwarders /\ (d \notin published => fw[d] = Idle)
  BY <1>1 DEF PublisherInv, ForwardersOK
<1>3. CASE Close(d)
  <2> HIDE DEF d
  <2> QED
    BY <1>1, <1>3, CloseKeeps DEF d
<1>4. CASE /\ ~Dead(fw[d]) /\ Returns /\ Stays
           /\ \/ fw' = [fw EXCEPT ![d].ser2net = fw[d].ser2net \/ fw[d].socket # NoClient]
              \/ \E n \in 0..(Full - 1) : n < fw[d].net2ser /\ fw' = [fw EXCEPT ![d].net2ser = n]
  <2>1. d \in published
    BY <1>2, <1>4, IdleOK DEF Dead
  <2>2. ASSUME fw' = [fw EXCEPT ![d].ser2net = fw[d].ser2net \/ fw[d].socket # NoClient]
        PROVE  PublisherInv'
    <3> DEFINE g == [fw[d] EXCEPT !.ser2net = fw[d].ser2net \/ fw[d].socket # NoClient]
    <3>1. FwOK(g) /\ g.server = fw[d].server /\ g.net2ser = fw[d].net2ser
      BY <1>2 DEF FwOK, Clean, Forwarders
    <3>2. fw' = [fw EXCEPT ![d] = g] /\ fw[d].net2ser \in Nat
      BY <1>2, <2>2 DEF Forwarders
    <3> HIDE DEF g
    <3>3. g.net2ser <= fw[d].net2ser
      BY <3>1, <3>2
    <3> HIDE DEF d
    <3> QED
      BY <1>1, <1>4, <2>1, <3>1, <3>2, <3>3, CallbackStays DEF d
  <2>3. ASSUME NEW n \in 0..(Full - 1), n < fw[d].net2ser, fw' = [fw EXCEPT ![d].net2ser = n]
        PROVE  PublisherInv'
    <3> DEFINE g == [fw[d] EXCEPT !.net2ser = n]
    <3>1. n \in 0..Full /\ n <= fw[d].net2ser
      BY <1>2, <2>3, Numbers DEF Forwarders
    <3>2. FwOK(g) /\ g.server = fw[d].server /\ g.net2ser = n
      BY <1>2, <3>1 DEF FwOK, Clean, Forwarders
    <3>3. fw' = [fw EXCEPT ![d] = g]
      BY <1>2, <2>3 DEF Forwarders
    <3> HIDE DEF g
    <3>4. g.net2ser <= fw[d].net2ser
      BY <3>1, <3>2
    <3> HIDE DEF d
    <3> QED
      BY <1>1, <1>4, <2>1, <3>2, <3>3, <3>4, CallbackStays DEF d
  <2> QED
    BY <1>4, <2>2, <2>3
<1> QED
  BY <1>3, <1>4 DEF HandleSerialRead, HandleSerialWrite

LEMMA SocketReadKeeps ==
  ASSUME PublisherInv, pc = "handle", todo # {}, UNCHANGED <<pc, fresh, world, present, left>>,
         First.k = "socket_read", HandleSocketRead(First.d)
  PROVE  PublisherInv'
<1> DEFINE d == First.d
<1>1. d \in Devices /\ d \notin spoiled
  BY FirstOK
<1>2. FwOK(fw[d]) /\ fw[d] \in Forwarders /\ (d \notin published => fw[d] = Idle)
  BY <1>1 DEF PublisherInv, ForwardersOK
<1>3. CASE HandleDisconnect(d) /\ UNCHANGED upsets
  <2> HIDE DEF d
  <2>1. upsets' \in 0..Upsets
    BY <1>3 DEF PublisherInv, WorldOK
  <2> QED
    BY <1>1, <1>3, <2>1, DisconnectKeeps DEF d
<1>4. CASE EndsRound /\ UNCHANGED fw /\ Stays /\ upsets' \in 0..Upsets
  <2> HIDE DEF d
  <2> DEFINE g == fw[d]
  <2>1. fw' = [fw EXCEPT ![d] = g] /\ g.net2ser <= fw[d].net2ser
    BY <1>2, <1>4 DEF PublisherInv, ForwardersOK, Forwarders
  <2>2. FwOK(g) /\ g.server = fw[d].server /\ (d \notin published => g = Idle)
    BY <1>2
  <2> HIDE DEF g
  <2> QED
    BY <1>1, <1>4, <2>1, <2>2, CallbackStays DEF d
<1>5. CASE fw[d].socket # NoClient /\ SocketData(d) /\ UNCHANGED upsets
  <2>1. PICK c \in BOOLEAN : fw' = [fw EXCEPT ![d].net2ser = fw[d].net2ser + 1, ![d].changed = fw[d].changed \/ c]
    BY <1>5 DEF SocketData
  <2>2. /\ todo' = todo \ {First} /\ d \in published
        /\ UNCHANGED <<published, spoiled, queue, upsets>>
    BY <1>2, <1>5, IdleOK DEF SocketData, Returns, Stays
  <2> DEFINE g == [fw[d] EXCEPT !.net2ser = fw[d].net2ser + 1, !.changed = fw[d].changed \/ c]
  <2>3. fw[d].net2ser + 1 \in 0..Full
    BY <1>2, FirstOK, Numbers DEF Forwarders
  <2>4. FwOK(g) /\ g.server = fw[d].server
    BY <1>2, <1>5, <2>3 DEF FwOK, Clean, Forwarders
  <2>5. fw' = [fw EXCEPT ![d] = g]
    BY <1>2, <2>1 DEF Forwarders
  <2>6. \A x \in todo' : ~(x.d = d /\ x.k = "socket_read")
    BY <2>2, FirstOK
  <2> HIDE DEF g, d
  <2> DEFINE q == queue[d]
  <2>7. q \subseteq queue[d] /\ queue' = [queue EXCEPT ![d] = q] /\ (~g.server => q = {}) /\ upsets' \in 0..Upsets
    BY <1>1, <2>2, <2>4 DEF PublisherInv, WorldOK, ForwardersOK
  <2> HIDE DEF q
  <2>8. /\ published' \subseteq published /\ published \ {d} \subseteq published' /\ d \in published'
        /\ spoiled' \subseteq published' /\ spoiled' \subseteq spoiled \union {d} /\ d \notin spoiled'
        /\ todo' \subseteq todo
    BY <1>1, <2>2 DEF PublisherInv, ForwardersOK
  <2> QED
    BY <1>1, <2>4, <2>5, <2>6, <2>7, <2>8, CallbackKeeps
<1>6. upsets \in 0..Upsets /\ (upsets < Upsets => upsets + 1 \in 0..Upsets)
  BY Numbers DEF PublisherInv, WorldOK
<1> QED
  BY <1>3, <1>4, <1>5, <1>6 DEF HandleSocketRead

LEMMA SocketWriteKeeps ==
  ASSUME PublisherInv, pc = "handle", todo # {}, UNCHANGED <<pc, fresh, world, present, left, upsets>>,
         HandleSocketWrite(First.d)
  PROVE  PublisherInv'
<1> DEFINE d == First.d
<1>1. d \in Devices /\ upsets' \in 0..Upsets
  BY FirstOK DEF PublisherInv, WorldOK
<1>2. FwOK(fw[d]) /\ fw[d] \in Forwarders /\ (d \notin published => fw[d] = Idle)
  BY <1>1 DEF PublisherInv, ForwardersOK
<1>3. CASE HandleDisconnect(d)
  <2> HIDE DEF d
  <2> QED
    BY <1>1, <1>3, DisconnectKeeps DEF d
<1>4. CASE EndsRound /\ UNCHANGED fw /\ Stays
  <2> HIDE DEF d
  <2> DEFINE g == fw[d]
  <2>1. fw' = [fw EXCEPT ![d] = g] /\ g.net2ser <= fw[d].net2ser
    BY <1>2, <1>4 DEF PublisherInv, ForwardersOK, Forwarders
  <2>2. FwOK(g) /\ g.server = fw[d].server /\ (d \notin published => g = Idle)
    BY <1>2
  <2> HIDE DEF g
  <2> QED
    BY <1>1, <1>4, <2>1, <2>2, CallbackStays DEF d
<1>5. ASSUME NEW rest \in {FALSE, fw[d].ser2net}, fw[d].socket # NoClient, fw' = [fw EXCEPT ![d].ser2net = rest],
             Returns, Stays
      PROVE  PublisherInv'
  <2> DEFINE g == [fw[d] EXCEPT !.ser2net = rest]
  <2>1. FwOK(g) /\ g.server = fw[d].server /\ g.net2ser = fw[d].net2ser
    BY <1>2, <1>5 DEF FwOK, Clean, Forwarders
  <2>2. fw' = [fw EXCEPT ![d] = g] /\ fw[d].net2ser \in Nat /\ d \in published
    BY <1>2, <1>5, IdleOK DEF Forwarders
  <2> HIDE DEF g
  <2>3. g.net2ser <= fw[d].net2ser
    BY <2>1, <2>2
  <2> HIDE DEF d
  <2> QED
    BY <1>1, <1>5, <2>1, <2>2, <2>3, CallbackStays DEF d
<1> QED
  BY <1>3, <1>4, <1>5 DEF HandleSocketWrite

LEMMA ConnectKeeps ==
  ASSUME PublisherInv, pc = "handle", todo # {}, UNCHANGED <<pc, fresh, world, present, left, upsets>>,
         HandleConnect(First.d)
  PROVE  PublisherInv'
<1> DEFINE d == First.d
<1>1. d \in Devices /\ d \notin spoiled /\ upsets' \in 0..Upsets
  BY FirstOK DEF PublisherInv, WorldOK
<1>2. FwOK(fw[d]) /\ fw[d] \in Forwarders /\ (d \notin published => fw[d] = Idle) /\ fw \in [Devices -> Forwarders]
  BY <1>1 DEF PublisherInv, ForwardersOK
<1>3. UNCHANGED <<published, forwarding, spoiled>>
  BY DEF HandleConnect
<1>4. CASE queue[d] = {} /\ EndsRound /\ UNCHANGED <<fw, queue>>
  <2> HIDE DEF d
  <2> DEFINE g == fw[d]
  <2>1. fw' = [fw EXCEPT ![d] = g] /\ g.net2ser <= fw[d].net2ser
    BY <1>2, <1>4 DEF Forwarders
  <2>2. FwOK(g) /\ g.server = fw[d].server /\ (d \notin published => g = Idle) /\ Stays
    BY <1>2, <1>3, <1>4 DEF Stays
  <2> HIDE DEF g
  <2> QED
    BY <1>1, <1>4, <2>1, <2>2, CallbackStays DEF d
<1>5. ASSUME NEW c \in queue[d], queue' = [queue EXCEPT ![d] = queue[d] \ {c}],
             NEW g, FwOK(g), fw' = [fw EXCEPT ![d] = g], g.server = fw[d].server, g.net2ser = fw[d].net2ser,
             Returns \/ EndsRound
      PROVE  PublisherInv'
  <2>1. fw[d].server /\ d \in published
    BY <1>1, <1>2, <1>5, IdleOK DEF PublisherInv, ForwardersOK
  <2> DEFINE q == queue[d] \ {c}
  <2>2. q \subseteq queue[d] /\ queue' = [queue EXCEPT ![d] = q] /\ (~g.server => q = {})
    BY <1>5, <2>1
  <2>3. todo' \subseteq todo
    BY <1>5 DEF Returns, EndsRound
  <2>4. \A x \in todo' : x.d = d /\ x.k = "socket_read" => g.net2ser < Full
    BY <1>5, <2>3 DEF PublisherInv, RoundOK
  <2> HIDE DEF q, d
  <2>5. /\ published' \subseteq published /\ published \ {d} \subseteq published' /\ d \in published'
        /\ spoiled' \subseteq published' /\ spoiled' \subseteq spoiled \union {d} /\ d \notin spoiled'
    BY <1>1, <1>3, <2>1 DEF PublisherInv, ForwardersOK
  <2> QED
    BY <1>1, <1>5, <2>2, <2>3, <2>4, <2>5, CallbackKeeps
<1>6. CASE queue[d] # {}
  <2>1. PICK c \in queue[d] :
          /\ queue' = [queue EXCEPT ![d] = queue[d] \ {c}]
          /\ \/ Returns /\ UNCHANGED fw
             \/ EndsRound /\ fw' = [fw EXCEPT ![d].socket = c, ![d].rts = TRUE]
                /\ fw[d].socket = NoClient /\ LinesRaise(fw[d])
             \/ Returns /\ fw' = [fw EXCEPT ![d] = Accepted(fw[d], c)] /\ fw[d].socket = NoClient
    <3>1. PICK c \in queue[d] :
            /\ queue' = [queue EXCEPT ![d] = queue[d] \ {c}]
            /\ IF fw[d].socket # NoClient THEN Returns /\ UNCHANGED fw
               ELSE IF LinesRaise(fw[d]) THEN EndsRound /\ fw' = [fw EXCEPT ![d].socket = c, ![d].rts = TRUE]
               ELSE Returns /\ fw' = [fw EXCEPT ![d] = Accepted(fw[d], c)]
      BY <1>6 DEF HandleConnect
    <3> QED
      BY <3>1
  <2>2. c \in Clients /\ c # NoClient
    BY <1>1, Numbers DEF PublisherInv, WorldOK
  <2>3. CASE Returns /\ UNCHANGED fw
    <3> HIDE DEF d
    <3> DEFINE g == fw[d]
    <3>1. FwOK(g) /\ fw' = [fw EXCEPT ![d] = g] /\ g.server = fw[d].server /\ g.net2ser = fw[d].net2ser
      BY <1>2, <2>3
    <3> HIDE DEF g
    <3> QED
      BY <1>5, <2>1, <2>3, <3>1
  <2>4. CASE EndsRound /\ fw' = [fw EXCEPT ![d].socket = c, ![d].rts = TRUE]
    <3> DEFINE g == [fw[d] EXCEPT !.socket = c, !.rts = TRUE]
    <3>1. FwOK(g) /\ g.server = fw[d].server /\ g.net2ser = fw[d].net2ser
      BY <1>2, <2>2 DEF FwOK, Clean, Forwarders
    <3>2. fw' = [fw EXCEPT ![d] = g]
      BY <1>2, <2>4 DEF Forwarders
    <3> HIDE DEF g, d
    <3> QED
      BY <1>5, <2>1, <2>4, <3>1, <3>2
  <2>5. CASE Returns /\ fw' = [fw EXCEPT ![d] = Accepted(fw[d], c)]
    <3> DEFINE g == Accepted(fw[d], c)
    <3>1. FwOK(g) /\ g.server = fw[d].server /\ g.net2ser = fw[d].net2ser
      BY <1>2, <2>2 DEF FwOK, Clean, Forwarders, Accepted
    <3> HIDE DEF g, d
    <3> QED
      BY <1>5, <2>1, <2>5, <3>1 DEF g
  <2> QED
    BY <2>1, <2>3, <2>4, <2>5
<1> QED
  BY <1>4, <1>6 DEF HandleConnect
-----------------------------------------------------------------------------
LEMMA PublisherInvNext == PublisherInv /\ [PublisherNext]_publisherVars => PublisherInv'
<1> SUFFICES ASSUME PublisherInv, [PublisherNext]_publisherVars PROVE PublisherInv'
  OBVIOUS
<1>1. CASE UNCHANGED publisherVars
  BY <1>1, PublisherInvStutter DEF publisherVars, loop, env
<1>2. CASE World
  BY <1>2, PublisherUnplug, PublisherQuiet DEF World
<1>3. CASE \E c \in Clients \union {NoClient} : Collect(c)
  BY <1>3, PublisherQuiet
<1>4. CASE NoCheckYet \/ CheckDevices \/ PublishNext \/ Published \/ Select \/ RoundEnds
  BY <1>4, PublisherQuiet, PublisherCheck, PublisherPublish, PublisherSelect
<1>5. CASE SerialRead \/ SerialWrite \/ SerialError \/ SocketError \/ SocketWrite \/ ServerRead
  <2>1. pc = "handle" /\ todo # {} /\ UNCHANGED <<pc, fresh, world, present, left, upsets>>
    BY <1>5 DEF SerialRead, SerialWrite, SerialError, SocketError, SocketWrite, ServerRead, Turn
  <2>2. upsets' \in 0..Upsets
    BY <2>1 DEF PublisherInv, WorldOK
  <2>3. \/ HandleSerialRead(First.d) \/ HandleSerialWrite(First.d) \/ Close(First.d)
        \/ HandleDisconnect(First.d) \/ HandleSocketWrite(First.d) \/ HandleConnect(First.d)
    BY <1>5 DEF SerialRead, SerialWrite, SerialError, SocketError, SocketWrite, ServerRead, TurnOf
  <2> QED
    BY <2>1, <2>2, <2>3, SerialReadKeeps, CloseKeeps, DisconnectKeeps, SocketWriteKeeps, ConnectKeeps
<1>6. CASE SocketRead
  <2>1. /\ pc = "handle" /\ todo # {} /\ First.k = "socket_read" /\ HandleSocketRead(First.d)
        /\ UNCHANGED <<pc, fresh, world, present, left>>
    BY <1>6 DEF SocketRead, Turn, TurnOf
  <2> QED
    BY <2>1, SocketReadKeeps
<1> QED
  BY <1>1, <1>2, <1>3, <1>4, <1>5, <1>6 DEF PublisherNext, MainLoop

LEMMA PublisherInvariant == PublisherSpec => []PublisherInv
BY PublisherInvInit, PublisherInvNext, PTL DEF PublisherSpec

(* The loop variable is a Forwarder of the dictionary or none of them.       *)
PublisherRef == publisher \in published \union {0}

LEMMA LastOK ==
  ASSUME published \subseteq Devices, published # {}, NEW place \in [Devices -> Devices]
  PROVE  Last(place) \in published
<1> DEFINE ranks == {N - place[d] : d \in published}
<1>1. \A d \in published : place[d] \in 1..N /\ N \in Nat
  BY Numbers DEF Devices
<1>2. ranks \subseteq Nat /\ ranks # {}
  BY <1>1
<1>3. \E r \in ranks : \A q \in ranks : r <= q
  <2> HIDE DEF ranks
  <2> QED
    BY <1>2, LeastNumber
<1>4. PICK d \in published : \A e \in published : N - place[d] <= N - place[e]
  BY <1>3
<1>5. \A e \in published : place[e] <= place[d]
  BY <1>1, <1>4
<1> QED
  BY <1>5 DEF Last

LEMMA LoopVariable == PublisherInv /\ PublisherRef /\ [PublisherNext]_publisherVars => PublisherRef'
<1> SUFFICES ASSUME PublisherInv, PublisherRef, [PublisherNext]_publisherVars PROVE PublisherRef'
  OBVIOUS
<1>1. CASE UNCHANGED <<published, publisher>>
  BY <1>1 DEF PublisherRef
<1>2. CASE CheckDevices
  BY <1>2 DEF CheckDevices, Forget, PublisherRef
<1>3. CASE PublishNext
  BY <1>3 DEF PublishNext, Publish, PublishRaises, forwarding, PublisherRef
<1>4. CASE Select
  <2>1. UNCHANGED published /\ \E place \in Bijection(Devices, Devices) : Iterated(place)
    BY <1>4 DEF Select
  <2>2. PICK place \in [Devices -> Devices] : Iterated(place)
    BY <2>1 DEF Bijection, Injection
  <2>3. CASE published = {}
    BY <2>1, <2>2, <2>3 DEF Iterated, forwarding, PublisherRef
  <2>4. CASE published # {}
    <3>1. published \subseteq Devices
      BY DEF PublisherInv, ForwardersOK
    <3> QED
      BY <2>1, <2>2, <2>4, <3>1, LastOK DEF Iterated, PublisherRef
  <2> QED
    BY <2>3, <2>4
<1>5. ASSUME NEW d, Close(d) PROVE PublisherRef'
  BY <1>5 DEF Close, Closed, PublisherRef
<1>6. ASSUME Stays PROVE PublisherRef'
  BY <1>6 DEF Stays, forwarding, PublisherRef
<1>7. CASE SerialRead \/ SerialWrite \/ SerialError
  BY <1>5, <1>6, <1>7 DEF SerialRead, SerialWrite, SerialError, HandleSerialRead, HandleSerialWrite
<1>8. CASE SocketRead \/ SocketWrite \/ SocketError
  BY <1>6, <1>8 DEF SocketRead, SocketWrite, SocketError, HandleSocketRead, HandleSocketWrite,
                    HandleDisconnect, SocketData
<1>9. CASE ServerRead
  BY <1>1, <1>9 DEF ServerRead, HandleConnect, forwarding
<1>10. CASE NoCheckYet \/ Published \/ RoundEnds \/ World \/ \E c \in Clients \union {NoClient} : Collect(c)
  BY <1>1, <1>10 DEF NoCheckYet, Published, RoundEnds, World, UnplugDevice, PlugDevice, Connect,
                     ClientLeaves, Collect, forwarding
<1>11. CASE UNCHANGED publisherVars
  BY <1>1, <1>11 DEF publisherVars, forwarding
<1> QED
  BY <1>2, <1>3, <1>4, <1>7, <1>8, <1>9, <1>10, <1>11 DEF PublisherNext, MainLoop

LEMMA LoopVariableOK == PublisherSpec => []PublisherRef
<1>1. PublisherInit => PublisherRef
  BY DEF PublisherInit, PublisherRef
<1> QED
  BY <1>1, PublisherInvariant, LoopVariable, PTL DEF PublisherSpec

(* Whatever the clients, the devices and the exceptions do, and in whatever  *)
(* order the callbacks of a round run: a Forwarder that waits for a client   *)
(* has its original settings and RTS off, and nothing waits to be sent to    *)
(* the client that it accepts.                                              *)
THEOREM NextClientStartsAnew == PublisherSpec => StartsAnew
<1>1. PublisherInv /\ PublisherRef => PublisherTypeOK
  <2> SUFFICES ASSUME PublisherInv, PublisherRef PROVE PublisherTypeOK
    OBVIOUS
  <2>1. \A c \in todo : c.d \in Devices /\ c.k \in Callback
    BY DEF PublisherInv, RoundOK
  <2>2. ASSUME NEW d \in Devices
        PROVE  /\ fw[d].socket \in Clients \union {NoClient} /\ fw[d].net \in 0..N /\ fw[d].net2ser \in 0..Full
               /\ fw[d].ser2net \in BOOLEAN /\ queue[d] \subseteq Clients
    BY DEF PublisherInv, WorldOK, ForwardersOK, Forwarders
  <2> QED
    BY <2>1, <2>2 DEF PublisherTypeOK, PublisherRef, PublisherInv, WorldOK, ForwardersOK, LoopOK
<1>2. PublisherInv => \A d \in published :
                        fw[d].alive /\ fw[d].socket = NoClient => ~fw[d].changed /\ ~fw[d].rts
  BY DEF PublisherInv, ForwardersOK, FwOK, Clean
<1>3. PublisherInv =>
        [\A d \in Devices : fw[d].socket = NoClient /\ fw'[d].socket # NoClient => ~fw[d].ser2net]_publisherVars
  BY DEF PublisherInv, ForwardersOK, FwOK, Clean
<1> QED
  BY <1>1, <1>2, <1>3, PublisherInvariant, LoopVariableOK, PTL DEF StartsAnew
=============================================================================

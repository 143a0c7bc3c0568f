----------------------------- MODULE PortPublisher -----------------------------
(***************************************************************************)
(* The port publisher, examples/port_publisher.py: one process that looks   *)
(* for devices every 5 seconds, has a Forwarder for each (serial port, TCP  *)
(* server, zeroconf service, at most one client), and calls the Forwarders' *)
(* callbacks after each select().  A callback belongs to the moment the maps*)
(* were filled; what earlier callbacks of the round did is what it finds.   *)
(* An exception that leaves a callback ends the round.                      *)
(*                                                                          *)
(* A Forwarder that is taken out of published is an orphan until Python     *)
(* collects it; only then its destructor closes it.  That cannot be while   *)
(* the variable of the main loop's for statement refers to it, which keeps  *)
(* its value as long as nothing is published.  Devices are numbers, and so  *)
(* are TCP ports; a world says what devices there are and who calls which.  *)
(* Bounds: Burst events of a select() that need not be there, Full          *)
(* levels of the buffer to the device, Upsets times that the zeroconf       *)
(* service, or PortManager given a client's data, raises.                   *)
(***************************************************************************)
EXTENDS Integers, FiniteSets, Functions

CONSTANTS N, Clients, NoClient, Worlds, Burst, Full, Upsets
ASSUME PublisherAssumption ==
  /\ N \in Nat \ {0} /\ Burst \in Nat /\ Full \in Nat \ {0} /\ Upsets \in Nat
  /\ NoClient \notin Clients
Devices == 1..N
ASSUME WorldsAssumption == Worlds \subseteq [devices : SUBSET Devices, calls : SUBSET (Clients \X Devices)]

VARIABLES
  world,
  present,   \* the devices that are plugged in
  published, \* the devices with a Forwarder in the dictionary
  fw,        \* and what it is
  publisher, \* the device whose Forwarder the loop variable is, 0 for none
  orphans,   \* what the Forwarders hold that are in no dictionary
  spoiled,   \* devices whose Forwarder was left by an exception in open or close
  pc, fresh, \* the main loop; the devices it is about to publish
  todo,      \* the callbacks of the present round, each with its place in it
  queue,     \* clients that wait to be accepted
  left,      \* clients that have closed their end
  upsets

env == <<world, present, queue, left>>
loop == <<pc, fresh, todo>>
forwarding == <<publisher, orphans>>
publisherVars == <<published, fw, forwarding, spoiled, loop, env, upsets>>

Idle == [alive |-> FALSE, serial |-> FALSE, gone |-> FALSE, server |-> FALSE,
         net |-> 0, socket |-> NoClient, rfc |-> FALSE, rts |-> FALSE, changed |-> FALSE,
         net2ser |-> 0, ser2net |-> FALSE]

PublisherInit ==
  /\ world \in Worlds /\ present \in SUBSET world.devices
  /\ published = {} /\ fw = [d \in Devices |-> Idle] /\ spoiled = {}
  /\ publisher = 0 /\ orphans = {}
  /\ pc = "check" /\ fresh = {} /\ todo = {}
  /\ queue = [d \in Devices |-> {}] /\ left = {} /\ upsets = 0
-----------------------------------------------------------------------------
(* The world: devices are plugged and unplugged, clients come and go.       *)
UnplugDevice(d) ==
  /\ d \in present /\ present' = present \ {d}
  /\ fw' = [fw EXCEPT ![d].gone = @ \/ fw[d].serial]
  /\ UNCHANGED <<published, forwarding, spoiled, loop, world, queue, left, upsets>>
PlugDevice(d) ==
  /\ d \in world.devices \ present /\ present' = present \union {d}
  /\ UNCHANGED <<published, fw, forwarding, spoiled, loop, world, queue, left, upsets>>

Busy(c) == \/ \E d \in Devices : c = fw[d].socket \/ c \in queue[d]
           \/ \E o \in orphans : o.socket = c
Connect(c, d) ==
  /\ <<c, d>> \in world.calls /\ fw[d].server /\ ~Busy(c)
  /\ queue' = [queue EXCEPT ![d] = @ \union {c}] /\ left' = left \ {c}
  /\ UNCHANGED <<world, present, published, fw, forwarding, spoiled, loop, upsets>>
ClientLeaves(c) ==
  /\ \E d \in Devices : c = fw[d].socket
  /\ c \notin left /\ left' = left \union {c}
  /\ UNCHANGED <<world, present, queue, published, fw, forwarding, spoiled, loop, upsets>>
-----------------------------------------------------------------------------
(* The search for devices.  A device that went before its Forwarder noticed *)
(* is taken out without close(); a new one gets the first free TCP port.    *)
NoCheckYet ==
  /\ pc = "check" /\ pc' = "select"
  /\ UNCHANGED <<published, fw, forwarding, spoiled, fresh, todo, env, upsets>>

Held(d) == [net |-> fw[d].net, server |-> fw[d].server, socket |-> fw[d].socket,
            kept |-> publisher = d]
Missing == published \ present
Forget(gone) ==
  /\ orphans' = orphans \union {Held(d) : d \in gone}
  /\ publisher' = IF publisher \in gone THEN 0 ELSE publisher
  /\ fw' = [d \in Devices |-> IF d \in gone THEN Idle ELSE fw[d]]
  /\ queue' = [d \in Devices |-> IF d \in gone THEN {} ELSE queue[d]]
  /\ published' = published \ gone /\ spoiled' = spoiled \ gone

CheckDevices ==
  /\ pc = "check" /\ pc' = "publish"
  /\ Forget(Missing)
  /\ fresh' = present \ published
  /\ UNCHANGED <<todo, world, present, left, upsets>>

Collect(c) ==
  /\ \E o \in orphans : o.socket = c /\ ~o.kept /\ orphans' = orphans \ {o}
  /\ UNCHANGED <<published, fw, publisher, spoiled, loop, env, upsets>>

FreeNet == CHOOSE p \in 1..N : /\ p \notin {fw[d].net : d \in published}
                               /\ \A q \in 1..(p - 1) : q \in {fw[d].net : d \in published}
Taken(p) == \E o \in orphans : o.server /\ o.net = p

(* open: it goes on after an error, announces what it has closed, and the   *)
(* Forwarder, that nobody knows, is collected at once and closed again; an  *)
(* exception of the zeroconf service leaves it half open.                   *)
Opened == [Idle EXCEPT !.alive = TRUE, !.serial = TRUE, !.server = TRUE, !.net = FreeNet]
Publish(d) ==
  /\ IF d \in present /\ ~Taken(FreeNet)
     THEN fw' = [fw EXCEPT ![d] = Opened] /\ published' = published \union {d}
     ELSE UNCHANGED <<published, fw>>
  /\ fresh' = fresh \ {d}
  /\ UNCHANGED <<pc, spoiled, upsets>>
PublishRaises(d) ==
  /\ d \in present /\ ~Taken(FreeNet)
  /\ upsets < Upsets /\ upsets' = upsets + 1
  /\ fw' = [fw EXCEPT ![d] = [Opened EXCEPT !.alive = FALSE]]
  /\ published' = published \union {d} /\ spoiled' = spoiled \union {d}
  /\ fresh' = {} /\ pc' = "check"
PublishNext ==
  /\ pc = "publish" /\ fresh # {}
  /\ LET d == CHOOSE x \in fresh : \A y \in fresh : x <= y IN Publish(d) \/ PublishRaises(d)
  /\ UNCHANGED <<forwarding, todo, env>>
Published ==
  /\ pc = "publish" /\ fresh = {} /\ pc' = "select"
  /\ UNCHANGED <<published, fw, forwarding, spoiled, fresh, todo, env, upsets>>
-----------------------------------------------------------------------------
(* select: the maps of update_select_maps, and what is ready of them.       *)
Order == <<"serial_read", "socket_read", "connect", "serial_write", "socket_write",
           "serial_error", "socket_error">>
Callback == {Order[p] : p \in 1..7}
InMaps(d) ==
  LET f == fw[d] IN
  IF ~f.alive THEN {} ELSE
    {"serial_read", "serial_error", "connect"}
      \union (IF f.net2ser > 0 THEN {"serial_write"} ELSE {})
      \union (IF f.socket # NoClient
              THEN {"socket_error"}
                     \union (IF f.net2ser < Full THEN {"socket_read"} ELSE {})
                     \union (IF f.ser2net THEN {"socket_write"} ELSE {})
              ELSE {})
Sure(d) == {k \in InMaps(d) :
              \/ k = "serial_read" /\ fw[d].gone
              \/ k = "socket_read" /\ fw[d].socket \in left
              \/ k = "connect" /\ queue[d] # {}}
Unsure(d) == {k \in InMaps(d) \ Sure(d) : k # "connect" /\ (k = "serial_error" => fw[d].gone)}

(* Readers first, then writers, then errors; as the maps were filled, which *)
(* for several devices is the order of the dictionary, here any.            *)
Rank(k, d, place) ==
  LET p == CHOOSE n \in 1..7 : Order[n] = k
      phase == IF p < 4 THEN 0 ELSE IF p < 6 THEN 1 ELSE 2
  IN (phase * N + place[d]) * 8 + p
Callbacks(kinds) == UNION {{<<k, d>> : k \in kinds[d]} : d \in published}

(* The loop variable is the last Forwarder of the dictionary from now on.    *)
Last(place) == CHOOSE d \in published : \A e \in published : place[e] <= place[d]
Iterated(place) ==
  IF published = {} THEN UNCHANGED forwarding
  ELSE publisher' = Last(place) /\ orphans' = {[o EXCEPT !.kept = FALSE] : o \in orphans}

Select ==
  /\ pc = "select" /\ pc' = "handle"
  /\ \E S \in SUBSET Callbacks([d \in published |-> Unsure(d)]), place \in Bijection(Devices, Devices) :
       /\ Cardinality(S) <= Burst
       /\ Iterated(place)
       /\ todo' = {[k |-> c[1], d |-> c[2], at |-> Rank(c[1], c[2], place)]
                     : c \in S \union Callbacks([d \in published |-> Sure(d)])}
  /\ fw' = [d \in Devices |-> IF d \in published /\ fw[d].alive /\ fw[d].socket = NoClient
                              THEN [fw[d] EXCEPT !.ser2net = FALSE] ELSE fw[d]]
  /\ UNCHANGED <<published, spoiled, fresh, env, upsets>>

RoundEnds ==
  /\ pc = "handle" /\ todo = {} /\ pc' = "check"
  /\ UNCHANGED <<published, fw, forwarding, spoiled, fresh, todo, env, upsets>>
-----------------------------------------------------------------------------
(* What callbacks do.  The control lines of a device that is gone raise, and*)
(* so does apply_settings if there is anything to restore.                  *)
First == CHOOSE c \in todo : \A x \in todo : c.at <= x.at
Stays == UNCHANGED <<published, forwarding, spoiled, queue>>
Returns == todo' = todo \ {First}
EndsRound == todo' = {}
LinesRaise(f) == f.serial /\ f.gone

RestoredKeepingBuffer(f) ==  \* a mutation of Restored: the buffer is not cleared
  [f EXCEPT !.rts = FALSE, !.changed = FALSE, !.rfc = FALSE, !.socket = NoClient]
Restored(f) == [f EXCEPT !.rts = FALSE, !.changed = FALSE, !.rfc = FALSE, !.ser2net = FALSE, !.socket = NoClient]
Disconnected(f) == IF LinesRaise(f) /\ f.changed THEN [f EXCEPT !.rts = FALSE] ELSE Restored(f)

HandleDisconnect(d) ==
  /\ fw' = [fw EXCEPT ![d] = Disconnected(@)]
  /\ IF LinesRaise(fw[d]) THEN EndsRound ELSE Returns
  /\ Stays

(* close: handle_disconnect may raise on the way, and then the serial port  *)
(* stays open and the Forwarder in the dictionary.                          *)
Closing(f) == [f EXCEPT !.alive = FALSE, !.server = FALSE]
ClosedSilently(d) ==  \* a mutation of Closed: the callback of close is not called
  /\ fw' = [fw EXCEPT ![d] = Idle] /\ UNCHANGED <<published, publisher>>
Closed(d) ==
  /\ fw' = [fw EXCEPT ![d] = Idle] /\ published' = published \ {d}
  /\ publisher' = IF publisher = d THEN 0 ELSE publisher
Close(d) ==
  LET f == fw[d] IN
  /\ IF f.socket # NoClient /\ LinesRaise(f)
     THEN /\ fw' = [fw EXCEPT ![d] = Disconnected(Closing(f))]
          /\ spoiled' = spoiled \union {d}
          /\ EndsRound /\ UNCHANGED <<published, publisher>>
     ELSE Closed(d) /\ Returns /\ UNCHANGED spoiled
  /\ queue' = [queue EXCEPT ![d] = {}]
  /\ UNCHANGED orphans

DeadWhenClosed(f) == ~f.serial  \* a mutation of Dead: an error of read is passed over
Dead(f) == f.gone \/ ~f.serial

HandleSerialRead(d) ==
  LET f == fw[d] IN
  IF Dead(f) THEN Close(d)
  ELSE /\ fw' = [fw EXCEPT ![d].ser2net = @ \/ f.socket # NoClient]
       /\ Returns /\ Stays
HandleSerialWrite(d) ==
  IF Dead(fw[d]) THEN Close(d)
  ELSE /\ \E n \in 0..(Full - 1) : n < fw[d].net2ser /\ fw' = [fw EXCEPT ![d].net2ser = n]
       /\ Returns /\ Stays

(* Data may change settings; a device that is gone refuses them, which is   *)
(* taken for an error of the socket.                                        *)
SocketData(d) ==
  /\ \E c \in IF fw[d].rfc THEN BOOLEAN ELSE {FALSE} :
       fw' = [fw EXCEPT ![d].net2ser = @ + 1, ![d].changed = @ \/ c]
  /\ Returns /\ Stays
HandleSocketRead(d) ==
  LET f == fw[d] IN
  \/ /\ f.socket = NoClient
     /\ EndsRound /\ UNCHANGED fw /\ Stays /\ UNCHANGED upsets
  \/ /\ f.socket \in left \/ (f.socket # NoClient /\ f.rfc /\ Dead(f))
     /\ HandleDisconnect(d) /\ UNCHANGED upsets
  \/ /\ f.socket \notin left \union {NoClient}
     /\ SocketData(d) /\ UNCHANGED upsets
  \/ /\ f.socket \notin left \union {NoClient} /\ f.rfc /\ upsets < Upsets
     /\ upsets' = upsets + 1
     /\ EndsRound /\ UNCHANGED fw /\ Stays
HandleSocketWrite(d) ==
  LET f == fw[d] IN
  IF f.socket = NoClient THEN EndsRound /\ UNCHANGED fw /\ Stays
  ELSE \/ f.socket \in left /\ HandleDisconnect(d)
       \/ /\ \E rest \in {FALSE, f.ser2net} : fw' = [fw EXCEPT ![d].ser2net = rest]
          /\ Returns /\ Stays

Accepted(f, c) == [f EXCEPT !.socket = c, !.rts = TRUE, !.rfc = TRUE, !.ser2net = TRUE]
HandleConnect(d) ==
  LET f == fw[d] IN
  /\ UNCHANGED <<published, forwarding, spoiled>>
  /\ IF queue[d] = {} THEN EndsRound /\ UNCHANGED <<fw, queue>>
     ELSE \E c \in queue[d] :
       /\ queue' = [queue EXCEPT ![d] = @ \ {c}]
       /\ IF f.socket # NoClient THEN Returns /\ UNCHANGED fw
          ELSE IF LinesRaise(f) THEN EndsRound /\ fw' = [fw EXCEPT ![d].socket = c, ![d].rts = TRUE]
          ELSE Returns /\ fw' = [fw EXCEPT ![d] = Accepted(f, c)]

Turn(k) ==
  /\ pc = "handle" /\ todo # {} /\ First.k = k
  /\ UNCHANGED <<pc, fresh, world, present, left>>
TurnOf == First.d

SerialRead == Turn("serial_read") /\ HandleSerialRead(TurnOf) /\ UNCHANGED upsets
SerialWrite == Turn("serial_write") /\ HandleSerialWrite(TurnOf) /\ UNCHANGED upsets
SerialError == Turn("serial_error") /\ Close(TurnOf) /\ UNCHANGED upsets
SocketRead == Turn("socket_read") /\ HandleSocketRead(TurnOf)
SocketWrite == Turn("socket_write") /\ HandleSocketWrite(TurnOf) /\ UNCHANGED upsets
SocketError == Turn("socket_error") /\ HandleDisconnect(TurnOf) /\ UNCHANGED upsets
ServerRead == Turn("connect") /\ HandleConnect(TurnOf) /\ UNCHANGED upsets
-----------------------------------------------------------------------------
World == \E d \in Devices : UnplugDevice(d) \/ PlugDevice(d) \/ \E c \in Clients : Connect(c, d) \/ ClientLeaves(c)
MainLoop ==
  \/ NoCheckYet \/ CheckDevices \/ PublishNext \/ Published \/ Select \/ RoundEnds
  \/ SerialRead \/ SerialWrite \/ SerialError \/ SocketRead \/ SocketWrite \/ SocketError \/ ServerRead
PublisherNext == World \/ MainLoop \/ \E c \in Clients \union {NoClient} : Collect(c)

PublisherSpec == PublisherInit /\ [][PublisherNext]_publisherVars
(* The loop goes on, its time for a check comes, and Python collects what   *)
(* nothing refers to.                                                       *)
PublisherFairSpec == PublisherSpec /\ WF_publisherVars(MainLoop) /\ SF_publisherVars(CheckDevices)
            /\ \A c \in Clients \union {NoClient} : WF_publisherVars(Collect(c))
-----------------------------------------------------------------------------
PublisherTypeOK ==
  /\ world \in Worlds /\ present \subseteq world.devices
  /\ published \subseteq Devices /\ spoiled \subseteq published
  /\ publisher \in published \union {0}
  /\ fresh \subseteq Devices /\ pc \in {"check", "publish", "select", "handle"}
  /\ \A c \in todo : c.d \in Devices /\ c.k \in Callback
  /\ \A d \in Devices : /\ fw[d].socket \in Clients \union {NoClient}
                        /\ fw[d].net \in 0..N /\ fw[d].net2ser \in 0..Full
                        /\ fw[d].ser2net \in BOOLEAN
                        /\ queue[d] \subseteq Clients
  /\ left \subseteq Clients /\ upsets \in 0..Upsets

(* The next client has nothing of the last one, though the one may go and   *)
(* the other come in the same round: a port that waits has its original     *)
(* settings, and RTS is off, however the last client went; and nothing that *)
(* was read from the device, or said by PortManager, waits to be sent when a*)
(* client is accepted.  With the types.                                     *)
StartsAnew ==
  /\ []PublisherTypeOK
  /\ [](\A d \in published :
          fw[d].alive /\ fw[d].socket = NoClient => ~fw[d].changed /\ ~fw[d].rts)
  /\ [][\A d \in Devices :
          fw[d].socket = NoClient /\ fw'[d].socket # NoClient => ~fw[d].ser2net]_publisherVars

(* When no more devices are plugged and unplugged, all that are there are   *)
(* served in the end, by Forwarders that are open on them, unless an        *)
(* exception has left the Forwarder's open() or close(), or there is none   *)
(* but an orphan on the first TCP port, which the loop variable keeps.      *)
Serves(d) == d \in published /\ fw[d].alive /\ fw[d].server /\ ~fw[d].gone
OnlyAnOrphan == published = {} /\ \E o \in orphans : o.kept /\ o.server /\ o.net = 1
PluggedIsServed ==
  <>[][present' = present]_present =>
    <>[](OnlyAnOrphan \/ \A d \in present : Serves(d) \/ d \in spoiled)

(* A client is not left with a connection that leads nowhere: when its      *)
(* device is gone the connection is closed, by close(), or by the destructor*)
(* of a Forwarder that was taken out of the dictionary; unless an exception *)
(* left close(), or that Forwarder was the last and the loop variable keeps *)
(* it, while no other is published.                                         *)
LostClientsAreTold ==
  \A c \in Clients :
    []<>(/\ \A d \in Devices : fw[d].socket = c => d \in spoiled \/ ~fw[d].gone
         /\ \A o \in orphans : o.socket = c => o.kept /\ published = {})
=============================================================================

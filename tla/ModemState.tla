------------------------------ MODULE ModemState ------------------------------
(***************************************************************************)
(* The modem state of an RFC 2217 connection (serial/rfc2217.py): the       *)
(* server's PortManager.check_modem_lines, which compares the control lines *)
(* with what it has saved and notifies the client, and the client's cache   *)
(* behind cts, dsr, ri and cd with its optional polling.                    *)
(*                                                                         *)
(* check_modem_lines is called by the thread that filters the client's data *)
(* (an option was agreed, the client polls) and periodically by the user's  *)
(* program: by a thread of its own in examples/rfc2217_server.py, or from   *)
(* the same loop.  It takes no lock, so its reads and writes of             *)
(* last_modemstate are steps of their own.                                  *)
(***************************************************************************)
EXTENDS Naturals, Sequences

CONSTANTS
  Lines,        \* control lines that can change (CTS, DSR, RI, CD)
  Mask,         \* modemstate_mask: its level and its delta bits.  255 unless a
                \* foreign client sent SET_MODEMSTATE_MASK before
  MaxChanges,   \* bound on changes of the lines
  MaxInFlight   \* bound on the messages in one direction of the connection

FullMask == [level |-> Lines, delta |-> Lines]

ASSUME ModemAssumption ==
  /\ Mask \in [level : SUBSET Lines, delta : SUBSET Lines]
  /\ MaxChanges \in Nat /\ MaxInFlight \in Nat \ {0}

(* Python's None, or a value: a set of at most one element. *)
None == {}
Some(v) == {v}
Maybe(S) == {None} \cup {Some(v) : v \in S}

Threads == {"poller", "filter"}
NoCheck == [pc |-> "idle", forced |-> FALSE, level |-> {}, delta |-> {}]

VARIABLES
  twoThreads,  \* the program checks the lines from a thread of its own
  lines,       \* the lines that are raised
  changes,
  last,        \* last_modemstate
  isClient,    \* _client_is_rfc2217
  check,       \* each thread's call of check_modem_lines
  sent,        \* history: the last notification, before masking
  toClient, toServer,
  cache,       \* the client's _modemstate
  caching,     \* its reader has stored a value and not yet restarted the timeout
  fresh,       \* _modemstate_timeout has not expired
  user         \* where the client's get_modem_state() is

server == <<twoThreads, last, isClient, check, sent>>
client == <<cache, caching, fresh, user>>
vars == <<lines, changes, server, toClient, toServer, client>>

Init ==
  /\ twoThreads \in BOOLEAN
  /\ lines \in SUBSET Lines
  /\ changes = 0
  /\ last = None
  /\ isClient = FALSE
  /\ check = [t \in Threads |-> NoCheck]
  /\ sent = None
  /\ toClient = <<>> /\ toServer = <<>>
  /\ cache = None
  /\ caching = FALSE
  /\ fresh = FALSE
  /\ user = "idle"

(* The other end of the cable changes one line. *)
LineChange ==
  /\ changes < MaxChanges
  /\ \E l \in Lines : lines' = IF l \in lines THEN lines \ {l} ELSE lines \cup {l}
  /\ changes' = changes + 1
  /\ UNCHANGED <<server, toClient, toServer, client>>
-----------------------------------------------------------------------------
(* A thread enters check_modem_lines and reads the lines.  A program that   *)
(* calls it from one loop only never has two calls at once.                 *)
Enter(t, forced) ==
  /\ check[t] = NoCheck
  /\ ~twoThreads => \A u \in Threads : check[u] = NoCheck
  /\ check' = [check EXCEPT ![t] =
                 [pc |-> "deltas", forced |-> forced, level |-> lines, delta |-> {}]]

Poll ==
  /\ Enter("poller", FALSE)
  /\ UNCHANGED <<lines, changes, twoThreads, last, isClient, sent,
                 toClient, toServer, client>>

(* The client agreed to one of the two COM-PORT options: _client_ok.  This  *)
(* happens while the options are negotiated, before the client asks for     *)
(* anything, so once is enough here.                                        *)
ClientOk ==
  /\ ~isClient
  /\ isClient' = TRUE
  /\ Enter("filter", TRUE)
  /\ UNCHANGED <<lines, changes, twoThreads, last, sent,
                 toClient, toServer, client>>

(* The client's NOTIFY_MODEMSTATE request reaches the filter. *)
Asked ==
  /\ toServer # <<>>
  /\ toServer' = Tail(toServer)
  /\ Enter("filter", TRUE)
  /\ UNCHANGED <<lines, changes, twoThreads, last, isClient, sent,
                 toClient, client>>

Differ(a, b) == (a \ b) \cup (b \ a)
Saved == UNION last  \* last_modemstate or 0

Deltas(t) ==
  /\ check[t].pc = "deltas"
  /\ check' = [check EXCEPT ![t].delta = Differ(@, Differ(check[t].level, Saved)),
                            ![t].pc = "test"]
  /\ UNCHANGED <<lines, changes, twoThreads, last, isClient, sent,
                 toClient, toServer, client>>

Masked(c) == [level |-> c.level \cap Mask.level, delta |-> c.delta \cap Mask.delta]

(* modemstate, with its delta bits, against the saved value, without them. *)
Changed(c) == c.delta # {} \/ Some(c.level) # last

(* A mutation of Notifies: a poll is answered only if there is news. *)
NotifiesChangesOnly(c) ==
  isClient /\ Masked(c) # [level |-> {}, delta |-> {}] /\ Changed(c)

(* A mutation of Notifies: the dropping of the last line is not told. *)
NotifiesRaised(c) ==
  \/ isClient /\ Masked(c).level # {}
  \/ c.forced

Notifies(c) ==
  \/ isClient /\ Masked(c) # [level |-> {}, delta |-> {}]
  \/ c.forced

Test(t) ==
  LET c == check[t]
      then == IF Changed(c) \/ c.forced
              THEN [c EXCEPT !.pc = IF Notifies(c) THEN "send" ELSE "save"]
              ELSE NoCheck
  IN /\ c.pc = "test"
     /\ check' = [check EXCEPT ![t] = then]
     /\ UNCHANGED <<lines, changes, twoThreads, last, isClient, sent,
                    toClient, toServer, client>>

(* SERVER_NOTIFY_MODEMSTATE.  The socket blocks when too much is under way. *)
Send(t) ==
  /\ check[t].pc = "send"
  /\ Len(toClient) < MaxInFlight
  /\ toClient' = Append(toClient, Masked(check[t]))
  /\ sent' = Some([level |-> check[t].level, delta |-> check[t].delta])
  /\ check' = [check EXCEPT ![t].pc = "save"]
  /\ UNCHANGED <<lines, changes, twoThreads, last, isClient, toServer, client>>

(* A mutation of Save: the value saved is the lines' at the time of saving. *)
SaveLater(t) ==
  /\ check[t].pc = "save"
  /\ last' = Some(lines)
  /\ check' = [check EXCEPT ![t] = NoCheck]
  /\ UNCHANGED <<lines, changes, twoThreads, isClient, sent,
                 toClient, toServer, client>>

(* A mutation of Save: an answer to a poll is not remembered. *)
SaveUnlessForced(t) ==
  /\ check[t].pc = "save"
  /\ last' = IF check[t].forced THEN last ELSE Some(check[t].level)
  /\ check' = [check EXCEPT ![t] = NoCheck]
  /\ UNCHANGED <<lines, changes, twoThreads, isClient, sent,
                 toClient, toServer, client>>

(* last_modemstate = modemstate & 0xf0 *)
Save(t) ==
  /\ check[t].pc = "save"
  /\ last' = Some(check[t].level)
  /\ check' = [check EXCEPT ![t] = NoCheck]
  /\ UNCHANGED <<lines, changes, twoThreads, isClient, sent,
                 toClient, toServer, client>>

CheckStep(t) == Deltas(t) \/ Test(t) \/ Send(t) \/ Save(t)
-----------------------------------------------------------------------------
(* A mutation of Cache: the timeout is restarted before the value is there. *)
CacheAfterRestart ==
  /\ toClient # <<>> /\ ~caching
  /\ fresh' = TRUE
  /\ caching' = TRUE
  /\ UNCHANGED <<lines, changes, server, toClient, toServer, cache, user>>

(* The client's reader thread stores a notified state ...                   *)
Cache ==
  /\ toClient # <<>> /\ ~caching
  /\ cache' = Some(Head(toClient).level)
  /\ caching' = TRUE
  /\ toClient' = Tail(toClient)
  /\ UNCHANGED <<lines, changes, server, toServer, fresh, user>>

(* ... and then restarts the timeout, which tells a waiting caller of it.   *)
Restart ==
  /\ caching
  /\ fresh' = TRUE
  /\ caching' = FALSE
  /\ UNCHANGED <<lines, changes, server, toClient, toServer, cache, user>>

(* 0.3 s have passed since the last notification. *)
Expire ==
  /\ fresh
  /\ fresh' = FALSE
  /\ UNCHANGED <<lines, changes, server, toClient, toServer, cache, caching, user>>

(* get_modem_state() asks when polling is on and the cache has grown old;   *)
(* otherwise it returns what is cached, and nothing changes.  The port is   *)
(* open, so the server knows its client by now (OpenedMeansAgreed in        *)
(* TelnetNegotiation).                                                      *)
Ask ==
  /\ isClient
  /\ user = "idle" /\ ~fresh
  /\ Len(toServer) < MaxInFlight
  /\ toServer' = Append(toServer, "NOTIFY_MODEMSTATE")
  /\ user' = "wait"
  /\ UNCHANGED <<lines, changes, server, toClient, cache, caching, fresh>>

(* The wait ends when the timeout is found restarted. *)
Answered ==
  /\ user = "wait" /\ fresh
  /\ user' = "answered"
  /\ UNCHANGED <<lines, changes, server, toClient, toServer, cache, caching, fresh>>

(* The answered poll returns the cached value; so does one that failed, or  *)
(* it raises when there is none.                                            *)
Return ==
  /\ user = "answered"
  /\ user' = "idle"
  /\ UNCHANGED <<lines, changes, server, toClient, toServer, cache, caching, fresh>>

TimedOut ==
  /\ user = "wait"
  /\ user' = "idle"
  /\ UNCHANGED <<lines, changes, server, toClient, toServer, cache, caching, fresh>>

Next ==
  \/ LineChange \/ Poll \/ ClientOk \/ Asked
  \/ \E t \in Threads : CheckStep(t)
  \/ Cache \/ Restart \/ Expire
  \/ Ask \/ Answered \/ Return \/ TimedOut

(* The server's program keeps checking, every thread that can run runs, and *)
(* TCP delivers.  The lines, the timeouts and the user's calls are free.    *)
Fairness ==
  /\ SF_vars(Poll) /\ SF_vars(Asked)
  /\ \A t \in Threads : WF_vars(CheckStep(t))
  /\ WF_vars(Cache) /\ WF_vars(Restart)

Spec == Init /\ [][Next]_vars
FairSpec == Spec /\ Fairness
-----------------------------------------------------------------------------
Notification == [level : SUBSET Lines, delta : SUBSET Lines]
Check == [pc : {"idle", "deltas", "test", "send", "save"}, forced : BOOLEAN,
          level : SUBSET Lines, delta : SUBSET Lines]

(* Types; a thread outside check_modem_lines carries nothing over to its    *)
(* next call.                                                               *)
TypeOK ==
  /\ twoThreads \in BOOLEAN /\ isClient \in BOOLEAN
  /\ lines \in SUBSET Lines /\ changes \in 0 .. MaxChanges
  /\ last \in Maybe(SUBSET Lines)
  /\ check \in [Threads -> Check]
  /\ \A t \in Threads : check[t].pc = "idle" => check[t] = NoCheck
  /\ sent \in Maybe(Notification)
  /\ toClient \in Seq(Notification) /\ Len(toClient) <= MaxInFlight
  /\ toServer \in Seq({"NOTIFY_MODEMSTATE"}) /\ Len(toServer) <= MaxInFlight
  /\ cache \in Maybe(SUBSET Lines)
  /\ caching \in BOOLEAN /\ fresh \in BOOLEAN
  /\ user \in {"idle", "wait", "answered"}

AtRest == \A t \in Threads : check[t] = NoCheck
Watching == isClient /\ Mask = FullMask

(* The docstring of check_modem_lines: it compares with "the last value     *)
(* sent to remote".  Once the client is known, the value saved is the last  *)
(* one notified whenever no call is under way.                              *)
ComparesWithLastSent ==
  AtRest /\ Watching => \A n \in sent : last = Some(n.level)

(* So it is when the program makes all its calls from one thread. *)
OneThreadComparesWithLastSent == ~twoThreads => ComparesWithLastSent

(* The change bits of an unmasked notification tell what happened since     *)
(* the notification before: a server with one thread never reports a change *)
(* twice or leaves one out, through all forced and periodic checks.         *)
DeltasTellChanges ==
  [][~twoThreads /\ Watching /\ sent' # sent =>
        \A old \in sent, new \in sent' : new.delta = Differ(new.level, old.level)]_vars

(* get_modem_state() takes a running timeout for a sign that a value        *)
(* arrived: it never finds the cache empty after a poll that was answered;   *)
(* with the types.                                                          *)
AnswerIsThere == TypeOK /\ (user = "answered" => cache # None)

(* With one thread a change is never lost for good: once the lines stay as  *)
(* they are, the client that has not restricted its mask ends up with them, *)
(* without asking.                                                          *)
ClientCatchesUp == <>[](~twoThreads /\ Watching => cache = Some(lines))

(* Also where two threads race in check_modem_lines, a client that keeps    *)
(* polling ends up with the true state: the poll heals what the race lost.  *)
PollingHeals ==
  []<><<Ask>>_vars => <>[](Mask = FullMask => cache = Some(lines))
=============================================================================

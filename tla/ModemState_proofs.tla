--------------------------- MODULE ModemState_proofs ---------------------------
(***************************************************************************)
(* Proofs about ModemState, for any lines, masks and bounds: an answered    *)
(* poll finds a value in the client's cache, and a server whose checks run  *)
(* in one thread compares with, and reports changes since, what it sent     *)
(* last.                                                                    *)
(***************************************************************************)
EXTENDS ModemState, SequenceTheorems, TLAPS

USE DEF None, Some

Scalars ==
  /\ twoThreads \in BOOLEAN /\ isClient \in BOOLEAN
  /\ caching \in BOOLEAN /\ fresh \in BOOLEAN
  /\ user \in {"idle", "wait", "answered"}
Values ==
  /\ lines \in SUBSET Lines /\ changes \in 0 .. MaxChanges
  /\ last \in Maybe(SUBSET Lines)
  /\ cache \in Maybe(SUBSET Lines)
  /\ sent \in Maybe(Notification)
Checks ==
  /\ check \in [Threads -> Check]
  /\ \A t \in Threads : check[t].pc = "idle" => check[t] = NoCheck
Wires ==
  /\ toClient \in Seq(Notification) /\ Len(toClient) <= MaxInFlight
  /\ toServer \in Seq({"NOTIFY_MODEMSTATE"}) /\ Len(toServer) <= MaxInFlight

LEMMA TypeParts == TypeOK <=> Scalars /\ Values /\ Checks /\ Wires
BY DEF TypeOK, Scalars, Values, Checks, Wires

(* Whoever restarts the timeout has stored a value before, and nothing      *)
(* empties the cache again.                                                 *)
CacheInv ==
  /\ TypeOK
  /\ caching \/ fresh \/ user = "answered" => cache # None

(* What a step does to one thread's check.                                  *)
LEMMA EnterTypes ==
  ASSUME TypeOK, NEW t \in Threads, NEW f \in BOOLEAN, Enter(t, f)
  PROVE  Checks'
<1>1. [pc |-> "deltas", forced |-> f, level |-> lines, delta |-> {}] \in Check
  BY DEF TypeOK, Check
<1> QED
  BY <1>1 DEF Enter, TypeOK, Checks

LEMMA MaskedTypes ==
  ASSUME NEW c \in Check
  PROVE  Masked(c) \in Notification
BY DEF Check, Masked, Notification

LEMMA CheckStepTypes ==
  ASSUME TypeOK, NEW t \in Threads, CheckStep(t)
  PROVE  TypeOK'
<1> DEFINE c == check[t]
<1>1. c \in Check /\ NoCheck \in Check
  BY DEF TypeOK, Check, NoCheck
<1>2. CASE Deltas(t)
  <2>1. UNION last \in SUBSET Lines
    BY DEF TypeOK, Maybe
  <2>2. Differ(c.delta, Differ(c.level, Saved)) \in SUBSET Lines
    BY <1>1, <2>1 DEF Differ, Saved, Check
  <2>3. [c EXCEPT !.delta = Differ(@, Differ(c.level, Saved)), !.pc = "test"] \in Check
    BY <1>1, <2>2 DEF Check
  <2>4. check' = [check EXCEPT ![t] = [c EXCEPT !.delta = Differ(@, Differ(c.level, Saved)), !.pc = "test"]]
    BY <1>2, <1>1 DEF Deltas, TypeOK, Check
  <2>5. Checks'
    BY <2>3, <2>4 DEF TypeOK, Checks
  <2> QED
    BY <1>2, <2>5 DEF Deltas, client, TypeOK, Checks
<1>3. CASE Test(t)
  <2>1. Checks'
    BY <1>1, <1>3 DEF Test, TypeOK, Checks, Check, NoCheck
  <2> QED
    BY <1>3, <2>1 DEF Test, client, TypeOK, Checks
<1>4. CASE Send(t)
  <2>1. Checks'
    BY <1>1, <1>4 DEF Send, TypeOK, Checks, Check
  <2>2. Masked(c) \in Notification /\ [level |-> c.level, delta |-> c.delta] \in Notification
    BY <1>1, MaskedTypes DEF Check, Notification
  <2>3. toClient' \in Seq(Notification) /\ Len(toClient') <= MaxInFlight
    BY <1>4, <2>2, ModemAssumption DEF Send, TypeOK, ModemAssumption
  <2>4. sent' \in Maybe(Notification)
    BY <1>4, <2>2 DEF Send, Maybe
  <2> QED
    BY <1>4, <2>1, <2>3, <2>4 DEF Send, client, TypeOK, Checks
<1>5. CASE Save(t)
  <2>1. Checks'
    BY <1>1, <1>5 DEF Save, TypeOK, Checks, Check, NoCheck
  <2>2. last' \in Maybe(SUBSET Lines)
    BY <1>1, <1>5 DEF Save, Maybe, Check
  <2> QED
    BY <1>5, <2>1, <2>2 DEF Save, client, TypeOK, Checks
<1> QED
  BY <1>2, <1>3, <1>4, <1>5 DEF CheckStep

LEMMA CacheInit == Init => CacheInv
<1> SUFFICES ASSUME Init PROVE CacheInv
  OBVIOUS
<1>1. NoCheck \in Check
  BY DEF NoCheck, Check
<1>2. None \in Maybe(SUBSET Lines) /\ None \in Maybe(Notification)
  BY DEF Maybe
<1>3. Values
  BY <1>2, ModemAssumption DEF Init, Values, ModemAssumption
<1>4. Checks /\ Wires
  BY <1>1, ModemAssumption DEF Init, Checks, Wires, ModemAssumption
<1> QED
  BY <1>3, <1>4, TypeParts DEF Init, CacheInv, Scalars

LEMMA CacheNext == CacheInv /\ [Next]_vars => CacheInv'
<1> SUFFICES ASSUME CacheInv, [Next]_vars PROVE CacheInv'
  OBVIOUS
<1> USE DEF server, client
<1> DEFINE Rest == (caching \/ fresh \/ user = "answered" => cache # None)'
<1>1. CASE UNCHANGED vars
  BY <1>1 DEF CacheInv, TypeOK, vars
<1>2. CASE LineChange
  <2>1. lines' \in SUBSET Lines
    BY <1>2 DEF CacheInv, TypeOK, LineChange
  <2>2. changes' \in 0 .. MaxChanges
    BY <1>2, ModemAssumption DEF CacheInv, TypeOK, LineChange, ModemAssumption
  <2> QED
    BY <1>2, <2>1, <2>2 DEF CacheInv, TypeOK, LineChange
<1>3. CASE Poll
  <2>1. Checks'
    BY <1>3, EnterTypes DEF CacheInv, Poll, Threads
  <2> QED
    BY <1>3, <2>1 DEF CacheInv, TypeOK, Checks, Poll
<1>4. CASE ClientOk
  <2>1. Checks'
    BY <1>4, EnterTypes DEF CacheInv, ClientOk, Threads
  <2> QED
    BY <1>4, <2>1 DEF CacheInv, TypeOK, Checks, ClientOk
<1>5. CASE Asked
  <2>1. Checks'
    BY <1>5, EnterTypes DEF CacheInv, Asked, Threads
  <2>2. toServer' \in Seq({"NOTIFY_MODEMSTATE"}) /\ Len(toServer') <= MaxInFlight
    BY <1>5, HeadTailProperties, ModemAssumption DEF CacheInv, TypeOK, Asked, ModemAssumption
  <2> QED
    BY <1>5, <2>1, <2>2 DEF CacheInv, TypeOK, Checks, Asked
<1>6. ASSUME NEW t \in Threads, CheckStep(t) PROVE CacheInv'
  BY <1>6, CheckStepTypes DEF CacheInv, CheckStep, Deltas, Test, Send, Save
<1>7. CASE Cache
  <2> DEFINE h == Head(toClient)
  <2>0. h \in Notification
    BY <1>7, HeadTailProperties DEF CacheInv, TypeOK, Cache
  <2>1. h.level \in SUBSET Lines
    BY <2>0 DEF Notification
  <2>2. toClient' \in Seq(Notification) /\ Len(toClient') <= MaxInFlight
    BY <1>7, HeadTailProperties, ModemAssumption DEF CacheInv, TypeOK, Cache, ModemAssumption
  <2>3. cache' \in Maybe(SUBSET Lines) /\ cache' # None
    BY <1>7, <2>1 DEF Cache, Maybe
  <2> QED
    BY <1>7, <2>2, <2>3 DEF CacheInv, TypeOK, Cache
<1>8. CASE Restart \/ Expire
  BY <1>8 DEF CacheInv, TypeOK, Restart, Expire
<1>9. CASE Ask
  BY <1>9, ModemAssumption DEF CacheInv, TypeOK, Ask, ModemAssumption
<1>10. CASE Answered \/ Return \/ TimedOut
  BY <1>10 DEF CacheInv, TypeOK, Answered, Return, TimedOut
<1> QED
  BY <1>1, <1>2, <1>3, <1>4, <1>5, <1>6, <1>7, <1>8, <1>9, <1>10 DEF Next

LEMMA CacheHolds == Spec => []CacheInv
BY CacheInit, CacheNext, PTL DEF Spec

(* get_modem_state() never finds the cache empty after an answered poll.     *)
THEOREM AnswerFound == Spec => []AnswerIsThere
<1>1. CacheInv => AnswerIsThere
  BY DEF CacheInv, AnswerIsThere
<1> QED
  BY <1>1, CacheHolds, PTL
-----------------------------------------------------------------------------
(* The calls of a program with one thread: there is one at a time, nothing *)
(* is asked or sent before the client is known, and the call has compared    *)
(* what it read with what is saved.                                         *)
OneCall ==
  /\ \A t, u \in Threads : check[t] # NoCheck /\ check[u] # NoCheck => t = u
  /\ ~isClient => /\ sent = None /\ toServer = <<>>
                  /\ \A t \in Threads : ~check[t].forced /\ check[t].pc # "send"
  /\ \A t \in Threads :
       /\ check[t].pc = "deltas" => check[t].delta = {}
       /\ check[t].pc \in {"test", "send"} => check[t].delta = Differ(check[t].level, Saved)

(* What is saved is what was sent last, and the call between its sending    *)
(* and its saving holds it.                                                 *)
SentIsSaved ==
  /\ (\A t \in Threads : check[t].pc # "save") => \A n \in sent : last = Some(n.level)
  /\ \A t \in Threads : check[t].pc = "save" => \A n \in sent : n.level = check[t].level

ModemInv == CacheInv /\ (~twoThreads /\ Mask = FullMask => OneCall /\ SentIsSaved)

LEMMA ModemInit == Init => ModemInv
BY CacheInit DEF Init, ModemInv, OneCall, SentIsSaved, NoCheck

LEMMA UnionOfOne == \A v : UNION {v} = v
OBVIOUS

(* The call of a program with one thread goes on; the other one is idle.    *)
LEMMA OneThreadSteps ==
  ASSUME TypeOK, TypeOK', OneCall, SentIsSaved, ~twoThreads, Mask = FullMask,
         NEW t \in Threads, CheckStep(t)
  PROVE  (OneCall /\ SentIsSaved)'
<1> DEFINE c == check[t]
<1>0. /\ c \in Check /\ check \in [Threads -> Check] /\ c # NoCheck
      /\ \A u \in Threads : u # t => check[u] = NoCheck
  BY DEF TypeOK, OneCall, CheckStep, Deltas, Test, Send, Save, NoCheck
<1>1. CASE Deltas(t)
  <2>1. c.delta = {} /\ c.pc = "deltas"
    BY <1>1 DEF OneCall, Deltas
  <2>2. \A D : Differ({}, D) = D
    BY DEF Differ
  <2>3. check'[t] = [c EXCEPT !.delta = Differ(c.level, Saved), !.pc = "test"]
    BY <1>0, <1>1, <2>1, <2>2 DEF Deltas, Check
  <2>4. \A u \in Threads : u # t => check'[u] = NoCheck
    BY <1>0, <1>1 DEF Deltas
  <2>5. /\ check'[t].pc = "test" /\ check'[t].forced = c.forced
        /\ check'[t].delta = Differ(check'[t].level, Saved)
    BY <1>0, <2>3 DEF Check
  <2>6. Saved' = Saved /\ UNCHANGED <<last, isClient, sent, toServer>>
    BY <1>1 DEF Deltas, Saved
  <2>7. OneCall'
    BY <2>4, <2>5, <2>6 DEF OneCall, NoCheck
  <2>8. SentIsSaved'
    BY <1>0, <2>1, <2>4, <2>5, <2>6 DEF SentIsSaved, NoCheck
  <2> QED
    BY <2>7, <2>8
<1>2. CASE Test(t)
  <2>1. c.pc = "test" /\ c.delta = Differ(c.level, Saved)
    BY <1>2 DEF OneCall, Test
  <2>2. \A n \in sent : last = Some(n.level)
    BY <1>0, <2>1 DEF SentIsSaved, NoCheck
  <2>3. \A u \in Threads : u # t => check'[u] = NoCheck
    BY <1>0, <1>2 DEF Test
  <2>4. Saved' = Saved /\ UNCHANGED <<last, isClient, sent, toServer>>
    BY <1>2 DEF Test, Saved
  <2>5. CASE ~(Changed(c) \/ c.forced)
    <3>1. check'[t] = NoCheck
      BY <1>0, <1>2, <2>5 DEF Test
    <3> QED
      BY <2>2, <2>3, <2>4, <3>1 DEF OneCall, SentIsSaved, NoCheck
  <2>6. CASE (Changed(c) \/ c.forced) /\ Notifies(c)
    <3>1. check'[t] = [c EXCEPT !.pc = "send"]
      BY <1>0, <1>2, <2>6 DEF Test
    <3>0. isClient
      BY <2>6 DEF OneCall, Notifies
    <3>2. /\ check'[t].pc = "send" /\ check'[t].forced = c.forced
          /\ check'[t].delta = c.delta /\ check'[t].level = c.level
      BY <1>0, <3>1 DEF Check
    <3> QED
      BY <2>1, <2>2, <2>3, <2>4, <3>0, <3>2 DEF OneCall, SentIsSaved, NoCheck
  <2>7. CASE (Changed(c) \/ c.forced) /\ ~Notifies(c)
    <3>1. check'[t] = [c EXCEPT !.pc = "save"]
      BY <1>0, <1>2, <2>7 DEF Test
    <3>2. check'[t].pc = "save" /\ check'[t].level = c.level /\ check'[t].forced = c.forced
      BY <1>0, <3>1 DEF Check
    <3>3. ASSUME NEW n \in sent PROVE n.level = c.level
      <4>1. isClient /\ ~c.forced /\ Changed(c)
        BY <2>7 DEF OneCall, Notifies
      <4>2. Masked(c) = [level |-> {}, delta |-> {}]
        BY <2>7, <4>1 DEF Notifies
      <4>3. c.level \cap Lines = {} /\ c.delta \cap Lines = {}
        BY <4>2 DEF Masked, FullMask
      <4>4. c.level = {} /\ c.delta = {}
        BY <1>0, <4>3 DEF Check
      <4>5. Saved = n.level
        BY <2>2, UnionOfOne DEF Saved
      <4>6. n.level = {}
        BY <2>1, <4>4, <4>5 DEF Differ
      <4> QED
        BY <4>4, <4>6
    <3>4. OneCall'
      BY <2>3, <2>4, <3>2 DEF OneCall, NoCheck
    <3> QED
      BY <2>3, <2>4, <3>2, <3>3, <3>4 DEF SentIsSaved, NoCheck
  <2> QED
    BY <2>5, <2>6, <2>7
<1>3. CASE Send(t)
  <2>1. check'[t] = [c EXCEPT !.pc = "save"] /\ c.pc = "send"
    BY <1>0, <1>3 DEF Send
  <2>2. check'[t].pc = "save" /\ check'[t].level = c.level /\ check'[t].forced = c.forced
    BY <1>0, <2>1 DEF Check
  <2>3. \A u \in Threads : u # t => check'[u] = NoCheck
    BY <1>0, <1>3 DEF Send
  <2>4. \A n \in sent' : n.level = c.level
    BY <1>3 DEF Send
  <2>5. isClient
    BY <1>3, <2>1 DEF OneCall
  <2> QED
    BY <1>3, <2>2, <2>3, <2>4, <2>5 DEF OneCall, SentIsSaved, NoCheck, Send
<1>4. CASE Save(t)
  <2>1. \A u \in Threads : check'[u] = NoCheck
    BY <1>0, <1>4 DEF Save
  <2>2. \A n \in sent' : last' = Some(n.level)
    BY <1>4 DEF Save, SentIsSaved
  <2> QED
    BY <1>4, <2>1, <2>2 DEF OneCall, SentIsSaved, NoCheck, Save
<1> QED
  BY <1>1, <1>2, <1>3, <1>4 DEF CheckStep

(* A call begins: the other thread has none.                                *)
LEMMA OneThreadEnters ==
  ASSUME TypeOK, OneCall, SentIsSaved, ~twoThreads,
         NEW t \in Threads, NEW f \in BOOLEAN, Enter(t, f),
         UNCHANGED <<last, sent>>, isClient => isClient',
         ~isClient' => ~f /\ toServer' = <<>>
  PROVE  (OneCall /\ SentIsSaved)'
<1>1. check'[t] = [pc |-> "deltas", forced |-> f, level |-> lines, delta |-> {}]
  BY DEF TypeOK, Enter
<1>2. \A u \in Threads : check[u] = NoCheck /\ (u # t => check'[u] = NoCheck)
  BY DEF TypeOK, Enter
<1> QED
  BY <1>1, <1>2 DEF OneCall, SentIsSaved, NoCheck

LEMMA ModemNext == ModemInv /\ [Next]_vars => ModemInv'
<1> SUFFICES ASSUME ModemInv, [Next]_vars PROVE ModemInv'
  OBVIOUS
<1>1. CacheInv'
  BY CacheNext DEF ModemInv
<1>2. twoThreads' = twoThreads
  BY DEF Next, vars, server, client, LineChange, Poll, ClientOk, Asked, CheckStep, Deltas, Test, Send,
         Save, Cache, Restart, Expire, Ask, Answered, Return, TimedOut
<1> SUFFICES ASSUME ~twoThreads, Mask = FullMask PROVE (OneCall /\ SentIsSaved)'
  BY <1>1, <1>2 DEF ModemInv
<1>3. TypeOK /\ TypeOK' /\ OneCall /\ SentIsSaved
  BY <1>1 DEF ModemInv, CacheInv
<1>4. CASE UNCHANGED <<check, last, sent, isClient, toServer>>
  BY <1>3, <1>4 DEF OneCall, SentIsSaved, Saved
<1>5. CASE Poll
  BY <1>3, <1>5, OneThreadEnters DEF Poll, Threads, client, OneCall
<1>6. CASE ClientOk
  BY <1>3, <1>6, OneThreadEnters DEF ClientOk, Threads, client
<1>7. CASE Asked
  <2>1. isClient
    BY <1>3, <1>7 DEF Asked, OneCall
  <2> QED
    BY <1>3, <1>7, <2>1, OneThreadEnters DEF Asked, Threads, client
<1>8. ASSUME NEW t \in Threads, CheckStep(t) PROVE (OneCall /\ SentIsSaved)'
  BY <1>3, <1>8, OneThreadSteps
<1>9. CASE Ask
  BY <1>3, <1>9 DEF Ask, OneCall, SentIsSaved, Saved, server
<1>10. CASE LineChange \/ Cache \/ Restart \/ Expire \/ Answered \/ Return \/ TimedOut
  BY <1>4, <1>10 DEF LineChange, Cache, Restart, Expire, Answered, Return, TimedOut, server, client
<1> QED
  BY <1>4, <1>5, <1>6, <1>7, <1>8, <1>9, <1>10 DEF Next, vars, server

LEMMA ModemHolds == Spec => []ModemInv
BY ModemInit, ModemNext, PTL DEF Spec

(* A server that checks its lines in one thread compares them with what it   *)
(* sent last, whatever is forced, polled or changed in between.              *)
THEOREM ComparedWithSent == Spec => []OneThreadComparesWithLastSent
<1>1. ModemInv => OneThreadComparesWithLastSent
  BY DEF ModemInv, OneThreadComparesWithLastSent, ComparesWithLastSent, AtRest, Watching,
         SentIsSaved, NoCheck
<1> QED
  BY <1>1, ModemHolds, PTL

(* The change bits of each notification of such a server are the difference *)
(* to the notification before.                                               *)
THEOREM ChangesTold == Spec => DeltasTellChanges
<1>1. ASSUME ModemInv, [Next]_vars
      PROVE  [~twoThreads /\ Watching /\ sent' # sent =>
                 \A old \in sent, new \in sent' : new.delta = Differ(new.level, old.level)]_vars
  <2> SUFFICES ASSUME Next, ~twoThreads, Mask = FullMask, sent' # sent,
                      NEW old \in sent, NEW new \in sent'
               PROVE  new.delta = Differ(new.level, old.level)
    BY <1>1 DEF Watching
  <2>1. PICK t \in Threads : Send(t)
    BY DEF Next, server, client, LineChange, Poll, ClientOk, Asked, CheckStep, Deltas, Test,
           Save, Cache, Restart, Expire, Ask, Answered, Return, TimedOut
  <2>2. check[t].pc = "send" /\ check[t].delta = Differ(check[t].level, Saved)
    BY <1>1, <2>1 DEF ModemInv, OneCall, Send
  <2>3. new.level = check[t].level /\ new.delta = check[t].delta
    BY <2>1 DEF Send
  <2>4. \A u \in Threads : check[u].pc # "save"
    BY <1>1, <2>2 DEF ModemInv, OneCall, NoCheck
  <2>5. last = {old.level}
    BY <1>1, <2>4 DEF ModemInv, SentIsSaved
  <2>6. Saved = old.level
    BY <2>5, UnionOfOne DEF Saved
  <2> QED
    BY <2>2, <2>3, <2>6
<1> QED
  BY <1>1, ModemHolds, PTL DEF Spec, DeltasTellChanges
=============================================================================

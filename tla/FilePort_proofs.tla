---------------------------- MODULE FilePort_proofs ----------------------------
(***************************************************************************)
(* Proofs about FilePort, for all classes of ports, every number and size   *)
(* of calls and every size of the output buffer.  FileInv says where a      *)
(* write is in its data, and what the driver and RTS have to do with it;    *)
(* BytesInv adds where the bytes of a read are, and the bounds of TypeOK.   *)
(***************************************************************************)
EXTENDS FilePort, SequenceTheorems, TLAPS

ReadAt == {"idle", "wait", "take", "submit", "pending", "byte"}
WriteAt == {"idle", "push", "select", "submit", "pending", "flush", "drained"}
Hows == {"ok", "raised", "cancelled", "none"}

(* The shape of the variables, without the bounds of TypeOK.                *)
Shapes ==
  /\ class \in Classes /\ direction \in {"read", "write"} /\ timeout \in Timeouts
  /\ rs485 \in BOOLEAN /\ rts \in BOOLEAN /\ gone \in BOOLEAN
  /\ room \in Int /\ room <= Room
  /\ written \in Nat /\ sent \in Seq(Nat)
  /\ fed \in Nat /\ input \in Seq(Nat)
  /\ rd \in [pc : ReadAt, size : Nat, data : Seq(Nat), late : BOOLEAN, bound : BOOLEAN, reset : BOOLEAN]
  /\ wr \in [pc : WriteAt, left : Seq(Nat), total : Nat, n : Nat, pushed : Nat, late : BOOLEAN]
  /\ result \in [how : Hows, count : Nat, pushed : Nat]

(* A call is of the behaviour's direction, at a place of its class.         *)
Places ==
  /\ rd.pc # "idle" => direction = "read"
  /\ rd.pc \in {"wait", "take"} => class \in Polling \cup {"vtime"}
  /\ wr.pc # "idle" => direction = "write"
  /\ rs485 => direction = "write"

(* The driver has taken the bytes up to here.                               *)
Taken == written - Len(wr.left) + (IF wr.pc = "select" THEN wr.n ELSE 0)

(* What is left of the data of a write are the last bytes of all.           *)
Progress ==
  /\ wr.pc \in {"push", "select", "submit", "pending"} =>
       /\ \A i \in 1 .. Len(wr.left) : wr.left[i] = written - Len(wr.left) + i
       /\ \A i \in 1 .. Len(sent) : sent[i] <= Taken
       /\ wr.pc = "select" => /\ wr.n \in 1 .. Len(wr.left) /\ wr.n <= wr.pushed
                              /\ timeout # "zero"
       /\ wr.pushed + Len(wr.left) = wr.total + (IF wr.pc = "select" THEN wr.n ELSE 0)
       /\ wr.pc = "push" /\ timeout = "zero" => wr.pushed = 0
       /\ wr.pc = "submit" => wr.pushed = 0
  /\ \A i \in 1 .. Len(sent) : sent[i] <= written

(* RTS of an RS485, at each place of a write.                               *)
Unsent == room < Room
Framed ==
  rs485 => /\ wr.pc # "idle" => rts
           /\ Unsent /\ ~gone => rts
           /\ wr.pc = "drained" => ~Unsent \/ gone
           /\ Idle /\ result.how # "raised" => ~rts

FileInv == Shapes /\ Places /\ Progress /\ WriteTellsWhatWasSent /\ Framed
-----------------------------------------------------------------------------
(* What a system call may take of two numbers of bytes.                     *)
LEMMA MinOfTwo ==
  ASSUME NEW a \in Int, NEW b \in Int
  PROVE  Min({a, b}) \in Int /\ Min({a, b}) <= a /\ Min({a, b}) <= b /\ Min({a, b}) \in {a, b}
<1>1. PICK m \in {a, b} : \A y \in {a, b} : m =< y
  <2>1. CASE a <= b
    BY <2>1
  <2>2. CASE ~(a <= b)
    BY <2>2
  <2> QED
    BY <2>1, <2>2
<1> QED
  BY <1>1 DEF Min

(* The first bytes of a sequence, and the rest of it.                       *)
LEMMA Cut ==
  ASSUME NEW s \in Seq(Nat), NEW n \in 0 .. Len(s)
  PROVE  /\ SubSeq(s, 1, n) \in Seq(Nat) /\ Len(SubSeq(s, 1, n)) = n
         /\ \A i \in 1 .. n : SubSeq(s, 1, n)[i] = s[i]
         /\ SubSeq(s, n + 1, Len(s)) \in Seq(Nat) /\ Len(SubSeq(s, n + 1, Len(s))) = Len(s) - n
         /\ \A i \in 1 .. Len(s) - n : SubSeq(s, n + 1, Len(s))[i] = s[n + i]
<1>1. \A i \in 1 .. Len(s) : s[i] \in Nat
  BY ElementOfSeq
<1>2. Len(s) \in Nat
  BY LenProperties
<1>3. \A i \in 1 .. n : s[i] \in Nat
  BY <1>1, <1>2
<1>4. \A i \in n + 1 .. Len(s) : s[i] \in Nat
  BY <1>1, <1>2
<1>5. /\ SubSeq(s, 1, n) \in Seq(Nat)
      /\ Len(SubSeq(s, 1, n)) = IF 1 <= n THEN n - 1 + 1 ELSE 0
      /\ \A i \in 1 .. n - 1 + 1 : SubSeq(s, 1, n)[i] = s[1 + i - 1]
  BY <1>3, <1>2, SubSeqProperties
<1>6. /\ SubSeq(s, n + 1, Len(s)) \in Seq(Nat)
      /\ Len(SubSeq(s, n + 1, Len(s))) = IF n + 1 <= Len(s) THEN Len(s) - (n + 1) + 1 ELSE 0
      /\ \A i \in 1 .. Len(s) - (n + 1) + 1 : SubSeq(s, n + 1, Len(s))[i] = s[n + 1 + i - 1]
  BY <1>4, <1>2, SubSeqProperties
<1> QED
  BY <1>5, <1>6, <1>2

(* What remains of data that ends at byte w ends there too.                 *)
LEMMA RestInPlace ==
  ASSUME NEW s \in Seq(Nat), NEW n \in 1 .. Len(s), NEW w \in Nat,
         \A i \in 1 .. Len(s) : s[i] = w - Len(s) + i
  PROVE  LET r == SubSeq(s, n + 1, Len(s)) IN
           /\ r \in Seq(Nat) /\ Len(r) = Len(s) - n
           /\ \A i \in 1 .. Len(r) : r[i] = w - Len(r) + i
<1> DEFINE r == SubSeq(s, n + 1, Len(s))
<1>1. Len(s) \in Nat /\ n \in 0 .. Len(s)
  BY LenProperties
<1>2. r \in Seq(Nat) /\ Len(r) = Len(s) - n /\ \A i \in 1 .. Len(s) - n : r[i] = s[n + i]
  BY <1>1, Cut
<1> HIDE DEF r
<1>3. \A i \in 1 .. Len(r) : r[i] = w - Len(r) + i
  BY <1>1, <1>2
<1> QED
  BY <1>2, <1>3 DEF r

(* Bytes that follow what was sent keep it in order.                        *)
LEMMA SentInOrder ==
  ASSUME NEW s \in Seq(Nat), Increasing(s), NEW k \in Int,
         \A i \in 1 .. Len(s) : s[i] <= k,
         NEW d \in Seq(Nat), \A i \in 1 .. Len(d) : d[i] = k + i
  PROVE  /\ s \o d \in Seq(Nat) /\ Increasing(s \o d)
         /\ \A i \in 1 .. Len(s \o d) : (s \o d)[i] <= k + Len(d)
<1>1. /\ s \o d \in Seq(Nat) /\ Len(s \o d) = Len(s) + Len(d)
      /\ \A i \in 1 .. Len(s) + Len(d) : (s \o d)[i] = IF i <= Len(s) THEN s[i] ELSE d[i - Len(s)]
  BY ConcatProperties
<1>2. Len(s) \in Nat /\ Len(d) \in Nat /\ DOMAIN s = 1 .. Len(s) /\ DOMAIN (s \o d) = 1 .. Len(s) + Len(d)
  BY <1>1, LenProperties
<1>3. \A i \in 1 .. Len(s) : s[i] \in Nat
  BY ElementOfSeq
<1>4. \A i \in 1 .. Len(s) + Len(d) : (s \o d)[i] = IF i <= Len(s) THEN s[i] ELSE k + (i - Len(s))
  BY <1>1, <1>2
<1>5. Increasing(s \o d)
  <2> SUFFICES ASSUME NEW i \in DOMAIN (s \o d), NEW j \in DOMAIN (s \o d), i < j
               PROVE  (s \o d)[i] < (s \o d)[j]
    BY DEF Increasing
  <2>1. i \in 1 .. Len(s) + Len(d) /\ j \in 1 .. Len(s) + Len(d)
    BY <1>2
  <2>2. CASE j <= Len(s)
    <3>1. i \in DOMAIN s /\ j \in DOMAIN s
      BY <1>2, <2>1, <2>2
    <3>2. s[i] < s[j]
      BY <3>1 DEF Increasing
    <3>3. (s \o d)[i] = s[i] /\ (s \o d)[j] = s[j]
      BY <1>2, <1>4, <2>1, <2>2
    <3> QED
      BY <3>2, <3>3
  <2>3. CASE i <= Len(s) /\ ~(j <= Len(s))
    <3>1. (s \o d)[i] = s[i] /\ (s \o d)[j] = k + (j - Len(s))
      BY <1>4, <2>1, <2>3
    <3>2. s[i] \in Nat /\ s[i] <= k
      BY <1>2, <1>3, <2>1, <2>3
    <3> QED
      BY <1>2, <2>1, <2>3, <3>1, <3>2
  <2>4. CASE ~(i <= Len(s))
    <3>1. ~(j <= Len(s))
      BY <1>2, <2>1, <2>4
    <3>2. (s \o d)[i] = k + (i - Len(s))
      BY <1>4, <2>1, <2>4
    <3>3. (s \o d)[j] = k + (j - Len(s))
      BY <1>4, <2>1, <3>1
    <3>4. k + (i - Len(s)) < k + (j - Len(s))
      BY <1>2, <2>1
    <3> QED
      BY <3>2, <3>3, <3>4
  <2> QED
    BY <2>2, <2>3, <2>4
<1>6. \A i \in 1 .. Len(s \o d) : (s \o d)[i] <= k + Len(d)
  BY <1>1, <1>2, <1>3, <1>4
<1> QED
  BY <1>1, <1>5, <1>6

LEMMA InvInit == Init => FileInv
<1> SUFFICES ASSUME Init PROVE FileInv
  OBVIOUS
<1>1. Shapes
  <2>1. Room \in Nat
    BY FileAssumption
  <2>2. rd \in [pc : ReadAt, size : Nat, data : Seq(Nat), late : BOOLEAN, bound : BOOLEAN, reset : BOOLEAN]
    BY DEF Init, NoRead, ReadAt
  <2>3. wr \in [pc : WriteAt, left : Seq(Nat), total : Nat, n : Nat, pushed : Nat, late : BOOLEAN]
    BY DEF Init, NoWrite, WriteAt
  <2>4. result \in [how : Hows, count : Nat, pushed : Nat]
    BY DEF Init, Result, Hows
  <2>5. {rs485, rts, gone} \subseteq BOOLEAN
    BY DEF Init
  <2>6. /\ class \in Classes /\ direction \in {"read", "write"} /\ timeout \in Timeouts
        /\ room \in Int /\ room <= Room /\ written \in Nat /\ sent \in Seq(Nat)
        /\ fed \in Nat /\ input \in Seq(Nat)
    BY <2>1 DEF Init
  <2> QED
    BY <2>2, <2>3, <2>4, <2>5, <2>6 DEF Shapes
<1>2. Places
  BY DEF Init, Places, NoRead, NoWrite
<1>3. Progress
  BY DEF Init, Progress, NoWrite
<1>4. WriteTellsWhatWasSent
  BY DEF Init, WriteTellsWhatWasSent, Increasing, Result
<1>5. Framed
  <2>1. ~Unsent
    BY FileAssumption DEF Init, Unsent
  <2>2. ~rts /\ wr.pc = "idle"
    BY DEF Init, NoWrite
  <2> QED
    BY <2>1, <2>2 DEF Framed
<1> QED
  BY <1>1, <1>2, <1>3, <1>4, <1>5 DEF FileInv
-----------------------------------------------------------------------------
Reads == [pc : ReadAt, size : Nat, data : Seq(Nat), late : BOOLEAN, bound : BOOLEAN, reset : BOOLEAN]
Writes == [pc : WriteAt, left : Seq(Nat), total : Nat, n : Nat, pushed : Nat, late : BOOLEAN]
Results == [how : Hows, count : Nat, pushed : Nat]

(* The steps of a read leave the output alone, and there is no RS485.       *)
LEMMA ReadKeeps ==
  ASSUME FileInv, direction = "read",
         UNCHANGED <<config, gone, rts, room, sent, written, wr>>,
         fed' \in Nat, input' \in Seq(Nat), rd' \in Reads, result' \in Results,
         rd'.pc \in {"wait", "take"} => class \in Polling \cup {"vtime"}
  PROVE  FileInv'
<1>1. Shapes'
  <2>1. {rs485', rts', gone'} \subseteq BOOLEAN
    BY DEF FileInv, Shapes, config
  <2> QED
    BY <2>1 DEF FileInv, Shapes, config, Reads, Results
<1>2. Places'
  BY DEF FileInv, Places, config
<1>3. Progress'
  BY DEF FileInv, Progress, Taken, config
<1>4. WriteTellsWhatWasSent'
  BY DEF FileInv, WriteTellsWhatWasSent, Increasing, config
<1>5. Framed'
  <2>1. ~rs485'
    BY DEF FileInv, Places, config
  <2> QED
    BY <2>1 DEF Framed
<1> QED
  BY <1>1, <1>2, <1>3, <1>4, <1>5 DEF FileInv

LEMMA OtherKeeps ==
  ASSUME FileInv, UNCHANGED <<config, gone, rts, room, sent, written, wr, rd, result>>,
         fed' \in Nat, input' \in Seq(Nat)
  PROVE  FileInv'
<1>1. Shapes' /\ Places' /\ Progress'
  BY DEF FileInv, Shapes, Places, Progress, Taken, config
<1>2. WriteTellsWhatWasSent'
  BY DEF FileInv, WriteTellsWhatWasSent, Increasing, config
<1>3. Framed'
  BY DEF FileInv, Framed, Idle, Unsent, config
<1> QED
  BY <1>1, <1>2, <1>3 DEF FileInv

(* The driver has not more room when it was given more.                     *)
LEMMA UnsentStays ==
  ASSUME room \in Int, room' \in Int, Room \in Nat, room' <= room
  PROVE  Unsent => Unsent'
BY DEF Unsent

(* A write ends with a count that tells no more than what was sent.         *)
LEMMA WriteEnds ==
  ASSUME FileInv, wr.pc \in WriteAt \ {"idle", "flush", "drained"},
         UNCHANGED <<config, gone, rts, rd, source, written>>,
         NEW how \in Hows, NEW count \in Nat, NEW pushed \in Nat,
         how = "ok" => count = pushed, how = "cancelled" => count <= pushed,
         EndWrite(how, count, pushed),
         sent' \in Seq(Nat), Increasing(sent'), \A i \in 1 .. Len(sent') : sent'[i] <= written,
         room' \in Int, room' <= room
  PROVE  FileInv'
<1>1. Room \in Nat
  BY FileAssumption
<1>2. /\ wr' \in Writes /\ wr'.pc \in {"idle", "flush"}
      /\ wr'.pc = "idle" => ~rs485 \/ how = "raised"
  <2>1. NoWrite \in Writes /\ [NoWrite EXCEPT !.pc = "flush"] \in Writes
    <3>1. NoWrite \in Writes
      BY DEF NoWrite, Writes, WriteAt
    <3>2. "flush" \in WriteAt
      BY DEF WriteAt
    <3> QED
      BY <3>1, <3>2 DEF Writes
  <2>2. NoWrite.pc = "idle" /\ [NoWrite EXCEPT !.pc = "flush"].pc = "flush"
    BY DEF NoWrite
  <2>3. CASE rs485 /\ how # "raised"
    <3>1. wr' = [NoWrite EXCEPT !.pc = "flush"]
      BY <2>3 DEF EndWrite
    <3> QED
      BY <2>1, <2>2, <3>1
  <2>4. CASE ~(rs485 /\ how # "raised")
    <3>1. wr' = NoWrite
      BY <2>4 DEF EndWrite
    <3> QED
      BY <2>1, <2>2, <2>4, <3>1
  <2> QED
    BY <2>3, <2>4
<1>3. /\ result' \in Results
      /\ how = "raised" => result'.how = "raised"
      /\ result'.how = "ok" => result'.count = result'.pushed
      /\ result'.how = "cancelled" => result'.count <= result'.pushed
  <2>1. CASE rs485 /\ how # "raised"
    BY <2>1 DEF EndWrite, Result, Results, Hows
  <2>2. CASE ~(rs485 /\ how # "raised")
    <3>1. result' = Result(how, count, pushed)
      BY <2>2 DEF EndWrite
    <3> QED
      BY <3>1 DEF Result, Results
  <2> QED
    BY <2>1, <2>2
<1>4. Shapes'
  <2>1. {rs485', rts', gone'} \subseteq BOOLEAN
    BY DEF FileInv, Shapes, config
  <2>2. /\ class' \in Classes /\ direction' \in {"read", "write"} /\ timeout' \in Timeouts
        /\ room' \in Int /\ room' <= Room /\ written' \in Nat /\ sent' \in Seq(Nat)
        /\ fed' \in Nat /\ input' \in Seq(Nat)
    BY <1>1 DEF FileInv, Shapes, config, source
  <2>3. rd' \in Reads
    BY DEF FileInv, Shapes, Reads
  <2> QED
    BY <1>2, <1>3, <2>1, <2>2, <2>3 DEF Shapes, Reads, Writes, Results
<1>5. Places'
  BY DEF FileInv, Places, config
<1>6. Progress'
  BY <1>2 DEF Progress
<1>7. WriteTellsWhatWasSent'
  BY <1>3 DEF WriteTellsWhatWasSent, Increasing
<1>8. Framed'
  <2>1. rs485 => rts
    BY DEF FileInv, Framed
  <2>2. wr'.pc # "drained" /\ (Idle' => wr'.pc = "idle")
    BY <1>2 DEF Idle
  <2> QED
    BY <1>2, <1>3, <2>1, <2>2 DEF Framed, config
<1> QED
  BY <1>4, <1>5, <1>6, <1>7, <1>8 DEF FileInv

(* A write goes on, further in its data.                                    *)
LEMMA WriteGoesOn ==
  ASSUME FileInv, wr.pc # "idle",
         UNCHANGED <<config, gone, rts, rd, source, written, result>>,
         wr' \in Writes, wr'.pc \in {"push", "select", "submit", "pending"},
         Progress', sent' \in Seq(Nat), Increasing(sent'), room' \in Int, room' <= room
  PROVE  FileInv'
<1>1. Room \in Nat
  BY FileAssumption
<1>2. Shapes'
  <2>1. {rs485', rts', gone'} \subseteq BOOLEAN
    BY DEF FileInv, Shapes, config
  <2>2. /\ class' \in Classes /\ direction' \in {"read", "write"} /\ timeout' \in Timeouts
        /\ room' \in Int /\ room' <= Room /\ written' \in Nat /\ sent' \in Seq(Nat)
        /\ fed' \in Nat /\ input' \in Seq(Nat)
    BY <1>1 DEF FileInv, Shapes, config, source
  <2>3. rd' \in Reads /\ result' \in Results
    BY DEF FileInv, Shapes, Reads, Results
  <2> QED
    BY <2>1, <2>2, <2>3 DEF Shapes, Reads, Writes, Results
<1>3. Places'
  BY DEF FileInv, Places, config
<1>4. WriteTellsWhatWasSent'
  BY DEF FileInv, WriteTellsWhatWasSent, Increasing, config
<1>5. Framed'
  <2>1. rs485 => rts
    BY DEF FileInv, Framed
  <2>2. wr'.pc # "drained" /\ ~Idle'
    BY DEF Idle
  <2> QED
    BY <2>1, <2>2 DEF Framed, config
<1> QED
  BY <1>2, <1>3, <1>4, <1>5 DEF FileInv
-----------------------------------------------------------------------------
(* The device and the time.                                                 *)
LEMMA DeviceKeeps ==
  ASSUME FileInv, Feed \/ Drain \/ Unplug \/ Expire \/ Reopen \/ ResetInput \/ Cancel
  PROVE  FileInv'
<1>5. CASE ResetInput
  <2>1. /\ UNCHANGED <<config, gone, rts, room, sent, written, wr, fed, result>>
        /\ direction = "read" /\ input' = <<>>
        /\ rd' = IF rd.pc = "take" THEN [rd EXCEPT !.reset = TRUE] ELSE rd
    BY <1>5 DEF ResetInput, device, output
  <2>2. rd \in Reads /\ [rd EXCEPT !.reset = TRUE] \in Reads
        /\ [rd EXCEPT !.reset = TRUE].pc = rd.pc
    BY DEF FileInv, Shapes, Reads
  <2>3. rd' \in Reads /\ rd'.pc = rd.pc
    BY <2>1, <2>2
  <2>4. result' \in Results /\ fed' \in Nat /\ input' \in Seq(Nat)
    BY <2>1 DEF FileInv, Shapes, Results
  <2> QED
    BY <2>1, <2>3, <2>4, ReadKeeps DEF FileInv, Places
<1>1. CASE Feed \/ Reopen \/ Cancel
  <2>1. UNCHANGED <<config, gone, rts, room, sent, written, wr, rd, result>>
    BY <1>1 DEF Feed, Reopen, Cancel, device, output, reading
  <2>2. fed' \in Nat /\ input' \in Seq(Nat)
    <3>1. fed \in Nat /\ input \in Seq(Nat)
      BY DEF FileInv, Shapes
    <3>2. CASE Feed
      <4>1. fed + 1 \in Nat
        BY <3>1
      <4>2. Append(input, fed + 1) \in Seq(Nat)
        BY <3>1, <4>1, AppendProperties
      <4> QED
        BY <3>2, <4>1, <4>2 DEF Feed
    <3>3. CASE Reopen
      <4>1. fed' = fed /\ input' = <<>>
        BY <3>3 DEF Reopen
      <4> QED
        BY <3>1, <4>1
    <3>4. CASE Cancel
      BY <3>1, <3>4 DEF Cancel, source
    <3> QED
      BY <1>1, <3>2, <3>3, <3>4
  <2> QED
    BY <2>1, <2>2, OtherKeeps
<1>2. CASE Drain
  <2>1. Room \in Nat /\ room \in Int
    BY FileAssumption DEF FileInv, Shapes
  <2>2. /\ room < Room /\ room' = room + 1
        /\ UNCHANGED <<config, gone, rts, source, sent, written, wr, rd, result>>
    BY <1>2 DEF Drain, device, reading
  <2>3. /\ UNCHANGED <<class, direction, timeout, rs485, gone, rts, input, fed>>
        /\ UNCHANGED <<sent, written, wr, rd, result>>
    BY <2>2 DEF config, source
  <2>4. Shapes'
    <3>1. room' \in Int /\ room' <= Room
      BY <2>1, <2>2
    <3> QED
      BY <2>3, <3>1 DEF FileInv, Shapes
  <2>5. Places'
    BY <2>3 DEF FileInv, Places
  <2>6. Progress'
    BY <2>3 DEF FileInv, Progress, Taken
  <2>7. WriteTellsWhatWasSent'
    BY <2>2 DEF FileInv, WriteTellsWhatWasSent, Increasing, config
  <2>8. Framed'
    <3>1. Unsent
      BY <2>2 DEF Unsent
    <3> QED
      BY <2>2, <3>1 DEF FileInv, Framed, Idle, config
  <2> QED
    BY <2>4, <2>5, <2>6, <2>7, <2>8 DEF FileInv
<1>3. CASE Unplug
  <2>1. gone' /\ gone' \in BOOLEAN
    BY <1>3 DEF Unplug
  <2>2. /\ UNCHANGED <<config, rts, room, sent, written, wr, rd, result>>
        /\ fed' \in Nat /\ input' \in Seq(Nat)
    BY <1>3 DEF Unplug, output, FileInv, Shapes
  <2>3. Shapes' /\ Places'
    BY <2>1, <2>2 DEF FileInv, Shapes, Places, config
  <2>4. Progress'
    BY <2>2 DEF FileInv, Progress, Taken, config
  <2>5. WriteTellsWhatWasSent'
    BY <2>2 DEF FileInv, WriteTellsWhatWasSent, Increasing, config
  <2>6. Framed'
    BY <2>1, <2>2 DEF FileInv, Framed, Idle, config
  <2> QED
    BY <2>3, <2>4, <2>5, <2>6 DEF FileInv
<1>4. CASE Expire
  <2>1. /\ UNCHANGED <<config, gone, rts, room, sent, written, result>>
        /\ fed' \in Nat /\ input' \in Seq(Nat)
    BY <1>4 DEF Expire, device, source, FileInv, Shapes
  <2>2. CASE rd.pc # "idle" /\ rd' = [rd EXCEPT !.late = TRUE] /\ wr' = wr
    <3>1. direction = "read"
      BY <2>2 DEF FileInv, Places
    <3>2. rd' \in Reads /\ rd'.pc = rd.pc /\ result' \in Results
      BY <2>1, <2>2 DEF FileInv, Shapes, Reads, Results
    <3> QED
      BY <2>1, <2>2, <3>1, <3>2, ReadKeeps DEF FileInv, Places
  <2>3. CASE wr.pc # "idle" /\ wr' = [wr EXCEPT !.late = TRUE] /\ rd' = rd
    <3>1. /\ wr' \in Writes /\ wr'.pc = wr.pc /\ wr'.left = wr.left /\ wr'.total = wr.total
          /\ wr'.n = wr.n /\ wr'.pushed = wr.pushed
      BY <2>3 DEF FileInv, Shapes, Writes
    <3>2. Shapes'
      BY <2>1, <2>3, <3>1 DEF FileInv, Shapes, Writes, config
    <3>3. Places' /\ Progress'
      BY <2>1, <2>3, <3>1 DEF FileInv, Places, Progress, Taken, config
    <3>4. WriteTellsWhatWasSent'
      BY <2>1 DEF FileInv, WriteTellsWhatWasSent, Increasing, config
    <3>5. Framed'
      BY <2>1, <2>3, <3>1 DEF FileInv, Framed, Idle, Unsent, config
    <3> QED
      BY <3>2, <3>3, <3>4, <3>5 DEF FileInv
  <2> QED
    BY <1>4, <2>2, <2>3 DEF Expire
<1> QED
  BY <1>1, <1>2, <1>3, <1>4, <1>5
-----------------------------------------------------------------------------
(* A read that returns, raises or goes on.                                  *)
AtHome(r) == r.pc \in {"wait", "take"} => class \in Polling \cup {"vtime"}
GoesOn == \E r \in Reads : Continue(r) /\ AtHome(r)
Returns == \E data \in Seq(Nat) : Return(data)

LEMMA ReadMoves ==
  ASSUME FileInv, rd.pc # "idle",
         UNCHANGED <<config, gone, rts, room, sent, written, wr, fed>>,
         input' \in Seq(Nat), Raise \/ Returns \/ GoesOn
  PROVE  FileInv'
<1>1. direction = "read" /\ fed \in Nat /\ result \in Results
  BY DEF FileInv, Places, Shapes, Results
<1>2. NoRead \in Reads /\ NoRead.pc = "idle"
  BY DEF NoRead, Reads, ReadAt
<1>3. /\ rd' \in Reads /\ result' \in Results
      /\ rd'.pc \in {"wait", "take"} => class \in Polling \cup {"vtime"}
  <2>1. CASE Raise
    BY <1>2, <2>1 DEF Raise, Result, Results, Hows
  <2>2. CASE Returns
    <3>1. PICK data \in Seq(Nat) : Return(data)
      BY <2>2 DEF Returns
    <3>2. Len(data) \in Nat
      BY LenProperties
    <3> QED
      BY <1>2, <3>1, <3>2 DEF Return, Result, Results, Hows
  <2>3. CASE GoesOn
    BY <1>1, <2>3 DEF GoesOn, Continue, AtHome
  <2> QED
    BY <2>1, <2>2, <2>3
<1> QED
  BY <1>1, <1>3, ReadKeeps

(* After a part of the data, in a class whose reads come in parts.          *)
LEMMA AfterTakeMoves ==
  ASSUME NEW r \in Reads, class \in Polling \cup {"vtime"}, AfterTake(r)
  PROVE  Returns \/ GoesOn
<1> DEFINE q == [r EXCEPT !.pc = IF class = "vtime" THEN "take" ELSE "wait"]
<1>1. r.data \in Seq(Nat) /\ q \in Reads
  BY DEF Reads, ReadAt
<1>2. Return(r.data) \/ Continue(q)
  BY DEF AfterTake
<1>3. AtHome(q)
  BY DEF AtHome
<1> QED
  BY <1>1, <1>2, <1>3 DEF Returns, GoesOn

(* The bytes that were taken, after those of the read so far.               *)
LEMMA ReadTakes ==
  ASSUME FileInv, NEW n \in 0 .. Len(input)
  PROVE  /\ [rd EXCEPT !.data = @ \o SubSeq(input, 1, n)] \in Reads
         /\ SubSeq(input, 1, n) \in Seq(Nat)
         /\ SubSeq(input, n + 1, Len(input)) \in Seq(Nat)
<1>1. input \in Seq(Nat) /\ rd \in Reads
  BY DEF FileInv, Shapes, Reads
<1>2. SubSeq(input, 1, n) \in Seq(Nat) /\ SubSeq(input, n + 1, Len(input)) \in Seq(Nat)
  BY <1>1, Cut
<1>3. rd.data \o SubSeq(input, 1, n) \in Seq(Nat)
  BY <1>1, <1>2, ConcatProperties DEF Reads
<1> QED
  BY <1>1, <1>2, <1>3 DEF Reads

LEMMA ReadStepKeeps ==
  ASSUME FileInv, ReadStep
  PROVE  FileInv'
<1>1. /\ rd \in Reads /\ rd.data \in Seq(Nat) /\ rd.size \in Nat /\ fed \in Nat
      /\ input \in Seq(Nat) /\ Len(input) \in Nat
  BY LenProperties DEF FileInv, Shapes, Reads
<1>2. \A at \in ReadAt, b \in BOOLEAN, n \in Nat :
        /\ [rd EXCEPT !.pc = at, !.bound = b, !.reset = FALSE] \in Reads
        /\ [rd EXCEPT !.pc = at, !.reset = FALSE] \in Reads
        /\ [rd EXCEPT !.pc = at, !.size = n] \in Reads
        /\ [rd EXCEPT !.pc = at] \in Reads
  BY <1>1 DEF Reads
<1>3. UNCHANGED <<config, gone, rts, room, sent, written, wr, fed>> /\ rd.pc # "idle"
  BY DEF ReadStep, WaitCancelled, WaitReady, WaitTimeout, Take, TakeNothing, TakeBlocked,
         ReadFile, ReadPending, ReadByte, NoByte, device, output, source
<1>4. rd.pc \in {"wait", "take"} => class \in Polling \cup {"vtime"}
  BY DEF FileInv, Places
<1>5. Returns \/ \A data \in Seq(Nat) : ~Return(data)
  BY DEF Returns
<1> DEFINE Moves == input' \in Seq(Nat) /\ (Raise \/ Returns \/ GoesOn)
<1>6. ASSUME WaitCancelled PROVE Moves
  BY <1>1, <1>5, <1>6 DEF WaitCancelled, source
<1>7. ASSUME WaitReady PROVE Moves
  <2>1. AtHome([rd EXCEPT !.pc = "take", !.bound = TRUE, !.reset = FALSE])
    BY <1>4, <1>7 DEF WaitReady, AtHome
  <2>2. [rd EXCEPT !.pc = "take", !.bound = TRUE, !.reset = FALSE] \in Reads
    BY <1>2 DEF ReadAt
  <2> QED
    BY <1>1, <1>7, <2>1, <2>2 DEF WaitReady, GoesOn, source
<1>8. ASSUME WaitTimeout PROVE Moves
  <2>1. AtHome([rd EXCEPT !.pc = "take", !.reset = FALSE])
    BY <1>4, <1>8 DEF WaitTimeout, AtHome
  <2>2. [rd EXCEPT !.pc = "take", !.reset = FALSE] \in Reads
    BY <1>2 DEF ReadAt
  <2> QED
    BY <1>1, <1>5, <1>8, <2>1, <2>2 DEF WaitTimeout, GoesOn, source
<1>9. ASSUME Take PROVE Moves
  <2>1. PICK n \in 1 .. Min({Wanted, Len(input)}) :
          /\ AfterTake([rd EXCEPT !.data = @ \o SubSeq(input, 1, n)])
          /\ input' = SubSeq(input, n + 1, Len(input))
    BY <1>9 DEF Take
  <2>2. Wanted \in Int /\ Len(input) \in Int
    BY <1>1, LenProperties DEF Wanted
  <2>3. n \in 0 .. Len(input)
    <3>1. Min({Wanted, Len(input)}) \in Int /\ Min({Wanted, Len(input)}) <= Len(input)
      BY <2>2, MinOfTwo
    <3>2. n \in Int /\ 1 <= n /\ n <= Min({Wanted, Len(input)})
      BY <3>1
    <3> QED
      BY <2>2, <3>1, <3>2
  <2> QED
    BY <1>4, <1>9, <2>1, <2>3, ReadTakes, AfterTakeMoves DEF Take
<1>10. ASSUME TakeNothing PROVE Moves
  <2>1. Raise \/ Return(rd.data) \/ AfterTake(rd)
    BY <1>4, <1>10 DEF TakeNothing, Polling
  <2> QED
    BY <1>1, <1>4, <1>5, <1>10, <2>1, AfterTakeMoves DEF TakeNothing, source
<1>11. ASSUME TakeBlocked PROVE Moves
  <2>1. Raise \/ Return(rd.data) \/ AfterTake(rd)
    BY <1>4, <1>11 DEF TakeBlocked, Polling
  <2> QED
    BY <1>1, <1>4, <1>5, <1>11, <2>1, AfterTakeMoves DEF TakeBlocked, source
<1>12. ASSUME ReadFile PROVE Moves
  <2> DEFINE n == IF timeout = "zero" THEN Min({rd.size, Len(input)}) ELSE rd.size
  <2>0. rd.size \in Int /\ Len(input) \in Int
    BY <1>1
  <2>1. n \in Nat
    <3>1. Min({rd.size, Len(input)}) \in {rd.size, Len(input)}
      BY <2>0, MinOfTwo
    <3> QED
      BY <1>1, <3>1
  <2>2. [rd EXCEPT !.pc = "pending", !.size = n] \in Reads
    BY <1>2, <2>1 DEF ReadAt
  <2>3. AtHome([rd EXCEPT !.pc = "pending", !.size = n])
    BY <1>1 DEF AtHome, Reads
  <2>4. Raise \/ Return(<<>>) \/ Continue([rd EXCEPT !.pc = "pending", !.size = n])
    BY <1>12 DEF ReadFile
  <2>5. <<>> \in Seq(Nat)
    OBVIOUS
  <2> QED
    BY <1>1, <1>5, <1>12, <2>2, <2>3, <2>4, <2>5 DEF ReadFile, GoesOn, source
<1>13. ASSUME ReadPending PROVE Moves
  <2>1. CASE Raise /\ input' = input
    BY <1>1, <2>1
  <2>2. CASE LET n == Min({rd.size, Len(input)}) IN
               /\ Return(SubSeq(input, 1, n))
               /\ input' = SubSeq(input, n + 1, Len(input))
    <3> DEFINE n == Min({rd.size, Len(input)})
    <3>1. n \in 0 .. Len(input)
      <4>1. rd.size \in Int /\ Len(input) \in Int
        BY <1>1
      <4>2. n \in {rd.size, Len(input)} /\ n <= Len(input)
        BY <4>1, MinOfTwo
      <4> QED
        BY <1>1, <4>2
    <3> HIDE DEF n
    <3>2. Return(SubSeq(input, 1, n)) /\ input' = SubSeq(input, n + 1, Len(input))
      BY <2>2 DEF n
    <3> QED
      BY <1>5, <3>1, <3>2, ReadTakes
  <2> QED
    BY <1>13, <2>1, <2>2 DEF ReadPending
<1>14. ASSUME ReadByte PROVE Moves
  <2>1. Head(input) \in Nat /\ Tail(input) \in Seq(Nat)
    BY <1>1, <1>14, HeadTailProperties DEF ReadByte
  <2> DEFINE data == Append(rd.data, Head(input))
  <2>2. data \in Seq(Nat)
    BY <1>1, <2>1, AppendProperties
  <2> HIDE DEF data
  <2>3. [rd EXCEPT !.data = data, !.late = FALSE] \in Reads
    BY <1>1, <2>2 DEF Reads
  <2>4. AtHome([rd EXCEPT !.data = data, !.late = FALSE])
    BY <1>1, <1>14 DEF AtHome, ReadByte, Reads
  <2>5. Return(data) \/ Continue([rd EXCEPT !.data = data, !.late = FALSE])
    BY <1>14 DEF ReadByte, data
  <2> QED
    BY <1>5, <1>14, <2>1, <2>2, <2>3, <2>4, <2>5 DEF ReadByte, GoesOn
<1>15. ASSUME NoByte PROVE Moves
  BY <1>1, <1>5, <1>15 DEF NoByte, source
<1>16. Moves
  BY <1>6, <1>7, <1>8, <1>9, <1>10, <1>11, <1>12, <1>13, <1>14, <1>15 DEF ReadStep
<1> QED
  BY <1>3, <1>16, ReadMoves
-----------------------------------------------------------------------------
LEMMA StartReadKeeps ==
  ASSUME FileInv, StartRead
  PROVE  FileInv'
<1>1. PICK n \in 1 .. MaxSize :
        rd' = [NoRead EXCEPT !.pc = CASE class \in Polling -> "wait"
                                      [] class = "vtime" -> "take"
                                      [] class \in Bytewise -> "byte"
                                      [] class = "overlapped" -> "submit",
                             !.size = n]
  BY DEF StartRead
<1> DEFINE at == CASE class \in Polling -> "wait"
                   [] class = "vtime" -> "take"
                   [] class \in Bytewise -> "byte"
                   [] class = "overlapped" -> "submit"
<1>2. at \in ReadAt /\ (at \in {"wait", "take"} => class \in Polling \cup {"vtime"})
  BY DEF FileInv, Shapes, Classes, Polling, Bytewise, ReadAt
<1>3. n \in Nat
  BY FileAssumption
<1> HIDE DEF at
<1>4. NoRead \in Reads
  BY DEF NoRead, Reads, ReadAt
<1>5. rd' \in Reads /\ rd'.pc = at
  BY <1>1, <1>2, <1>3, <1>4 DEF Reads, at
<1>6. direction = "read" /\ UNCHANGED <<config, gone, rts, room, sent, written, wr>>
  BY DEF StartRead, device, output
<1>7. fed' \in Nat /\ input' \in Seq(Nat) /\ result' \in Results
  BY DEF StartRead, source, FileInv, Shapes, Results
<1> QED
  BY <1>2, <1>5, <1>6, <1>7, ReadKeeps

LEMMA StartWriteKeeps ==
  ASSUME FileInv, StartWrite
  PROVE  FileInv'
<1> DEFINE at == CASE class \in Polling \cup {"vtime"} -> "push"
                   [] class = "overlapped" -> "submit"
                   [] class \in Bytewise -> "pending"
<1>1. PICK n \in 1 .. MaxSize :
        /\ wr' = [NoWrite EXCEPT !.pc = at, !.left = Numbered(written, n), !.total = n]
        /\ written' = written + n
  BY DEF StartWrite
<1>2. at \in {"push", "submit", "pending"}
  BY DEF FileInv, Shapes, Classes, Polling, Bytewise
<1> HIDE DEF at
<1>3. n \in Nat /\ written \in Nat
  BY FileAssumption DEF FileInv, Shapes
<1>4. /\ Numbered(written, n) \in Seq(Nat) /\ Len(Numbered(written, n)) = n
      /\ \A i \in 1 .. n : Numbered(written, n)[i] = written + i
  BY <1>3 DEF Numbered
<1>5. NoWrite \in Writes /\ NoWrite.pushed = 0
  BY DEF NoWrite, Writes, WriteAt
<1>6. /\ wr' \in Writes /\ wr'.pc = at /\ wr'.left = Numbered(written, n) /\ wr'.total = n
      /\ wr'.pushed = 0
  BY <1>1, <1>2, <1>3, <1>4, <1>5 DEF Writes, WriteAt
<1>7. /\ UNCHANGED <<config, gone, source, room, sent, rd, result>>
      /\ direction = "write" /\ Idle
  BY DEF StartWrite, reading
<1>8. rts' \in BOOLEAN /\ (rs485 => rts')
  BY DEF StartWrite, SwitchToSend, FileInv, Shapes
<1>9. Shapes'
  <2>1. {rs485', rts', gone'} \subseteq BOOLEAN
    BY <1>7, <1>8 DEF FileInv, Shapes, config
  <2>2. written' \in Nat
    BY <1>1, <1>3
  <2>3. /\ class' \in Classes /\ direction' \in {"read", "write"} /\ timeout' \in Timeouts
        /\ room' \in Int /\ room' <= Room /\ sent' \in Seq(Nat)
        /\ fed' \in Nat /\ input' \in Seq(Nat) /\ rd' \in Reads /\ result' \in Results
    BY <1>7 DEF FileInv, Shapes, config, source, Reads, Results
  <2> QED
    BY <1>6, <2>1, <2>2, <2>3 DEF Shapes, Reads, Writes, Results
<1>10. Places'
  BY <1>7 DEF FileInv, Places, config
<1>11. Progress'
  <2>1. written' \in Nat /\ written' - Len(wr'.left) = written
    BY <1>1, <1>3, <1>4, <1>6
  <2>2. \A i \in 1 .. Len(sent') : sent'[i] <= written
    BY <1>7 DEF FileInv, Progress
  <2>3. Taken' = written
    BY <1>2, <1>6, <2>1 DEF Taken
  <2>4. \A i \in 1 .. Len(sent') : sent'[i] <= written'
    <3>1. \A i \in 1 .. Len(sent') : sent'[i] \in Nat
      BY <1>7, ElementOfSeq DEF FileInv, Shapes
    <3> QED
      BY <1>1, <1>3, <2>2, <3>1
  <2>5. \A i \in 1 .. Len(wr'.left) : wr'.left[i] = written' - Len(wr'.left) + i
    BY <1>4, <1>6, <2>1
  <2> QED
    BY <1>2, <1>3, <1>4, <1>6, <2>2, <2>3, <2>4, <2>5 DEF Progress
<1>12. WriteTellsWhatWasSent'
  BY <1>7 DEF FileInv, WriteTellsWhatWasSent, Increasing, config
<1>13. Framed'
  <2>1. wr'.pc # "drained" /\ ~Idle'
    BY <1>2, <1>6 DEF Idle
  <2> QED
    BY <1>7, <1>8, <2>1 DEF Framed, config
<1> QED
  BY <1>9, <1>10, <1>11, <1>12, <1>13 DEF FileInv
-----------------------------------------------------------------------------
(* What the invariant says of a write under way.                            *)
LEMMA UnderWay ==
  ASSUME FileInv, wr.pc \in {"push", "select", "submit", "pending"}
  PROVE  /\ wr \in Writes /\ wr.left \in Seq(Nat) /\ Len(wr.left) \in Nat /\ wr.total \in Nat
         /\ wr.n \in Nat /\ wr.pushed \in Nat /\ room \in Int /\ written \in Nat
         /\ sent \in Seq(Nat) /\ Increasing(sent)
         /\ \A i \in 1 .. Len(sent) : sent[i] <= written
         /\ \A i \in 1 .. Len(wr.left) : wr.left[i] = written - Len(wr.left) + i
         /\ wr.pc # "select" => /\ \A i \in 1 .. Len(sent) : sent[i] <= written - Len(wr.left)
                                /\ wr.pushed + Len(wr.left) = wr.total
         /\ wr.pc = "select" =>
              /\ \A i \in 1 .. Len(sent) : sent[i] <= written - Len(wr.left) + wr.n
              /\ wr.pushed + Len(wr.left) = wr.total + wr.n
              /\ wr.n \in 1 .. Len(wr.left) /\ wr.n <= wr.pushed /\ timeout # "zero"
         /\ wr.pc = "push" /\ timeout = "zero" => wr.pushed = 0
         /\ wr.pc = "submit" => wr.pushed = 0
<1>1. /\ wr \in Writes /\ wr.left \in Seq(Nat) /\ wr.total \in Nat
      /\ wr.n \in Nat /\ wr.pushed \in Nat /\ room \in Int /\ written \in Nat /\ sent \in Seq(Nat)
  <2>1. wr \in Writes
    BY DEF FileInv, Shapes, Writes
  <2>2. room \in Int /\ written \in Nat /\ sent \in Seq(Nat)
    BY DEF FileInv, Shapes
  <2> QED
    BY <2>1, <2>2 DEF Writes
<1>2. Len(wr.left) \in Nat
  BY <1>1, LenProperties
<1>3. Increasing(sent)
  BY DEF FileInv, WriteTellsWhatWasSent
<1>4. /\ \A i \in 1 .. Len(sent) : sent[i] <= written
      /\ \A i \in 1 .. Len(wr.left) : wr.left[i] = written - Len(wr.left) + i
      /\ \A i \in 1 .. Len(sent) : sent[i] <= Taken
      /\ wr.pc = "push" /\ timeout = "zero" => wr.pushed = 0
      /\ wr.pc = "submit" => wr.pushed = 0
  BY DEF FileInv, Progress
<1>5. CASE wr.pc = "select"
  <2>1. /\ wr.pushed + Len(wr.left) = wr.total + wr.n
        /\ wr.n \in 1 .. Len(wr.left) /\ wr.n <= wr.pushed /\ timeout # "zero"
    BY <1>5 DEF FileInv, Progress
  <2>2. Taken = written - Len(wr.left) + wr.n
    BY <1>5 DEF Taken
  <2> QED
    BY <1>1, <1>2, <1>3, <1>4, <1>5, <2>1, <2>2
<1>6. CASE wr.pc # "select"
  <2>1. wr.pushed + Len(wr.left) = wr.total
    <3>1. wr.pushed + Len(wr.left) = wr.total + 0
      BY <1>6 DEF FileInv, Progress
    <3>2. wr.total \in Nat
      BY <1>1
    <3> QED
      BY <3>1, <3>2
  <2>2. Taken = written - Len(wr.left)
    BY <1>1, <1>2, <1>6 DEF Taken
  <2> QED
    BY <1>1, <1>2, <1>3, <1>4, <1>6, <2>1, <2>2
<1> QED
  BY <1>5, <1>6

(* A write that ends without sending more.                                  *)
LEMMA WriteEndsHere ==
  ASSUME FileInv, wr.pc \in {"push", "select", "submit", "pending"},
         UNCHANGED <<config, gone, rts, rd, source, written, sent, room>>,
         NEW how \in Hows, NEW count \in Nat, NEW pushed \in Nat,
         how = "ok" => count = pushed, how = "cancelled" => count <= pushed,
         EndWrite(how, count, pushed)
  PROVE  FileInv'
<1>1. wr.pc \in WriteAt \ {"idle", "flush", "drained"}
  BY DEF WriteAt
<1>2. /\ sent' \in Seq(Nat) /\ Increasing(sent') /\ \A i \in 1 .. Len(sent') : sent'[i] <= written
      /\ room' \in Int /\ room' <= room
  BY UnderWay
<1> QED
  BY <1>1, <1>2, WriteEnds

LEMMA PushKeeps ==
  ASSUME FileInv, Push
  PROVE  FileInv'
<1>1. /\ wr.pc = "push" /\ room > 0
      /\ UNCHANGED <<config, gone, rts, rd, source, written>>
  BY DEF Push, device, reading
<1>2. PICK n \in 1 .. Min({room, Len(wr.left)}) :
        LET w == [wr EXCEPT !.pc = "select", !.n = n, !.pushed = @ + n] IN
          /\ room' = room - n
          /\ sent' = sent \o SubSeq(wr.left, 1, n)
          /\ CASE timeout = "zero" -> EndWrite("ok", n, w.pushed)
               [] timeout = "finite" /\ wr.late -> EndWrite("raised", 0, w.pushed)
               [] OTHER -> GoOn(w)
  BY DEF Push
<1> DEFINE w == [wr EXCEPT !.pc = "select", !.n = n, !.pushed = @ + n]
           part == SubSeq(wr.left, 1, n)
           k == written - Len(wr.left)
<1>3. /\ wr \in Writes /\ wr.left \in Seq(Nat) /\ Len(wr.left) \in Nat /\ wr.total \in Nat
      /\ wr.pushed \in Nat /\ room \in Int /\ written \in Nat /\ sent \in Seq(Nat)
      /\ Increasing(sent) /\ \A i \in 1 .. Len(sent) : sent[i] <= k
      /\ \A i \in 1 .. Len(wr.left) : wr.left[i] = k + i
      /\ wr.pushed + Len(wr.left) = wr.total
      /\ timeout = "zero" => wr.pushed = 0
  BY <1>1, UnderWay
<1>k. k \in Int /\ k + Len(wr.left) = written
  BY <1>3
<1> HIDE DEF k
<1>4. n \in 1 .. Len(wr.left) /\ n \in Nat
  <2>1. Min({room, Len(wr.left)}) \in Int /\ Min({room, Len(wr.left)}) <= Len(wr.left)
    <3>1. Len(wr.left) \in Int
      BY <1>3
    <3> QED
      BY <1>3, <3>1, MinOfTwo
  <2> QED
    BY <1>3, <2>1
<1>5. w \in Writes /\ w.pc = "select" /\ w.n = n /\ w.pushed = wr.pushed + n
      /\ w.left = wr.left /\ w.total = wr.total
  <2>1. wr.pushed + n \in Nat /\ "select" \in WriteAt
    BY <1>3, <1>4 DEF WriteAt
  <2> QED
    BY <1>3, <1>4, <2>1 DEF Writes
<1>6. /\ room' = room - n /\ sent' = sent \o part
      /\ CASE timeout = "zero" -> EndWrite("ok", n, w.pushed)
           [] timeout = "finite" /\ wr.late -> EndWrite("raised", 0, w.pushed)
           [] OTHER -> GoOn(w)
  BY <1>2
<1> HIDE DEF w
<1>7. /\ part \in Seq(Nat) /\ Len(part) = n /\ \A i \in 1 .. Len(part) : part[i] = k + i
  <2>1. n \in 0 .. Len(wr.left)
    BY <1>3, <1>4
  <2>2. /\ part \in Seq(Nat) /\ Len(part) = n
        /\ \A i \in 1 .. n : part[i] = wr.left[i]
    BY <1>3, <2>1, Cut
  <2> QED
    BY <1>3, <1>4, <2>2
<1> HIDE DEF part
<1>8. /\ sent' \in Seq(Nat) /\ Increasing(sent')
      /\ \A i \in 1 .. Len(sent') : sent'[i] <= k + n
  BY <1>3, <1>k, <1>6, <1>7, SentInOrder
<1>9. /\ \A i \in 1 .. Len(sent') : sent'[i] \in Nat /\ sent'[i] <= written
      /\ room' \in Int /\ room' <= room
  <2>1. k + n <= written /\ k + n \in Int
    BY <1>3, <1>k, <1>4
  <2>2. \A i \in 1 .. Len(sent') : sent'[i] \in Nat
    BY <1>8, ElementOfSeq
  <2>3. room' \in Int /\ room' <= room
    BY <1>3, <1>4, <1>6
  <2>4. written \in Nat
    BY <1>3
  <2>5. \A i \in 1 .. Len(sent') : sent'[i] <= written
    BY <1>8, <2>1, <2>2, <2>4
  <2> QED
    BY <2>2, <2>3, <2>5
<1>10. wr.pc \in WriteAt \ {"idle", "flush", "drained"}
  BY <1>1 DEF WriteAt
<1>11. CASE timeout = "zero"
  <2>1. EndWrite("ok", n, n)
    BY <1>3, <1>4, <1>5, <1>6, <1>11
  <2>2. "ok" \in Hows
    BY DEF Hows
  <2> QED
    BY <1>1, <1>4, <1>8, <1>9, <1>10, <2>1, <2>2, WriteEnds
<1>12. CASE timeout # "zero" /\ timeout = "finite" /\ wr.late
  <2>1. EndWrite("raised", 0, w.pushed)
    BY <1>6, <1>12
  <2>2. "raised" \in Hows /\ w.pushed \in Nat
    BY <1>3, <1>4, <1>5 DEF Hows
  <2> QED
    BY <1>1, <1>8, <1>9, <1>10, <2>1, <2>2, WriteEnds
<1>13. CASE timeout # "zero" /\ ~(timeout = "finite" /\ wr.late)
  <2>1. wr' = w /\ UNCHANGED result
    BY <1>6, <1>13 DEF GoOn
  <2>2. Taken' = k + n
    BY <1>1, <1>3, <1>4, <1>5, <2>1 DEF Taken, k
  <2>3. timeout' # "zero"
    BY <1>1, <1>13 DEF config
  <2>4. Progress'
    <3>1. \A i \in 1 .. Len(wr'.left) : wr'.left[i] = written' - Len(wr'.left) + i
      BY <1>1, <1>3, <1>5, <2>1 DEF k
    <3>2. wr'.n \in 1 .. Len(wr'.left) /\ wr'.n <= wr'.pushed
      BY <1>3, <1>4, <1>5, <2>1
    <3>3. wr'.pushed + Len(wr'.left) = wr'.total + wr'.n
      <4>1. /\ wr'.pushed = w.pushed /\ wr'.left = w.left /\ wr'.total = w.total /\ wr'.n = w.n
        BY <2>1
      <4>2. w.pushed + Len(w.left) = w.total + w.n
        BY <1>3, <1>4, <1>5
      <4> QED
        BY <4>1, <4>2
    <3> QED
      BY <1>1, <1>5, <1>8, <1>9, <2>1, <2>2, <2>3, <3>1, <3>2, <3>3 DEF Progress
  <2> QED
    BY <1>1, <1>5, <1>8, <1>9, <2>1, <2>4, WriteGoesOn
<1> QED
  BY <1>11, <1>12, <1>13

(* Steps with which a write gives up: it raises.                            *)
LEMMA WriteRaisesKeeps ==
  ASSUME FileInv, PushBlocked \/ PushFails \/ SelectTimeout
  PROVE  FileInv'
<1>1. /\ wr.pc \in {"push", "select"} /\ EndWrite("raised", 0, wr.pushed)
      /\ UNCHANGED <<config, gone, rts, rd, source, written, sent, room>>
  BY DEF PushBlocked, PushFails, SelectTimeout, device, reading
<1>2. wr.pushed \in Nat /\ "raised" \in Hows
  BY <1>1, UnderWay DEF Hows
<1> QED
  BY <1>1, <1>2, WriteEndsHere

LEMMA SelectKeeps ==
  ASSUME FileInv, SelectCancelled \/ SelectReady
  PROVE  FileInv'
<1>1. /\ wr.pc = "select"
      /\ UNCHANGED <<config, gone, rts, rd, source, written, sent, room>>
  BY DEF SelectCancelled, SelectReady, device, reading
<1>2. /\ wr \in Writes /\ wr.left \in Seq(Nat) /\ Len(wr.left) \in Nat /\ wr.total \in Nat
      /\ wr.n \in Nat /\ wr.pushed \in Nat /\ room \in Int /\ written \in Nat /\ sent \in Seq(Nat)
      /\ Increasing(sent) /\ \A i \in 1 .. Len(sent) : sent[i] <= written
      /\ \A i \in 1 .. Len(sent) : sent[i] <= written - Len(wr.left) + wr.n
      /\ \A i \in 1 .. Len(wr.left) : wr.left[i] = written - Len(wr.left) + i
      /\ wr.pushed + Len(wr.left) = wr.total + wr.n
      /\ wr.n \in 1 .. Len(wr.left) /\ wr.n <= wr.pushed /\ timeout # "zero"
  BY <1>1, UnderWay
<1>a. /\ wr.pushed \in Nat /\ Len(wr.left) \in Nat /\ wr.n \in Nat /\ wr.total \in Nat
      /\ wr.pushed + Len(wr.left) = wr.total + wr.n /\ wr.n <= Len(wr.left) /\ wr.n <= wr.pushed
  BY <1>2
<1>3. {"ok", "raised", "cancelled"} \subseteq Hows
  BY DEF Hows
<1>4. CASE SelectCancelled
  <2>1. EndWrite("cancelled", wr.total - Len(wr.left), wr.pushed)
    BY <1>4 DEF SelectCancelled
  <2>2. wr.total - Len(wr.left) \in Nat /\ wr.total - Len(wr.left) <= wr.pushed
    <3>1. wr.total - Len(wr.left) = wr.pushed - wr.n
      BY <1>a
    <3>2. wr.pushed - wr.n \in Nat /\ wr.pushed - wr.n <= wr.pushed
      BY <1>a
    <3> QED
      BY <3>1, <3>2
  <2> QED
    BY <1>1, <1>2, <1>3, <2>1, <2>2, WriteEndsHere
<1>5. CASE SelectReady
  <2>1. CASE EndWrite("raised", 0, wr.pushed)
    BY <1>1, <1>2, <1>3, <2>1, WriteEndsHere
  <2>2. CASE wr.n >= Len(wr.left) /\ EndWrite("ok", wr.total, wr.pushed)
    <3>1. wr.total = wr.pushed
      BY <1>a, <2>2
    <3> QED
      BY <1>1, <1>2, <1>3, <2>2, <3>1, WriteEndsHere
  <2>3. CASE GoOn([wr EXCEPT !.pc = "push", !.left = Rest(wr)])
    <3>1. /\ Rest(wr) \in Seq(Nat) /\ Len(Rest(wr)) = Len(wr.left) - wr.n
          /\ \A i \in 1 .. Len(Rest(wr)) : Rest(wr)[i] = written - Len(Rest(wr)) + i
      BY <1>2, RestInPlace DEF Rest
    <3>2. wr' = [wr EXCEPT !.pc = "push", !.left = Rest(wr)] /\ UNCHANGED result
      BY <2>3 DEF GoOn
    <3>3. /\ wr' \in Writes /\ wr'.pc = "push" /\ wr'.left = Rest(wr) /\ wr'.pushed = wr.pushed
          /\ wr'.total = wr.total
      BY <1>2, <3>1, <3>2 DEF Writes, WriteAt
    <3>4. Taken' = written - Len(Rest(wr))
      <4>1. Taken' = written - Len(Rest(wr)) + 0
        BY <1>1, <3>3 DEF Taken
      <4>2. written \in Nat /\ Len(Rest(wr)) \in Nat
        BY <1>2, <3>1, LenProperties
      <4> QED
        BY <4>1, <4>2
    <3>5. Taken' = written - Len(wr.left) + wr.n
      BY <1>2, <3>1, <3>4
    <3>6. Progress'
      <4>1. wr'.pushed + Len(wr'.left) = wr'.total
        <5>1. wr.pushed + (Len(wr.left) - wr.n) = wr.total
          BY <1>a
        <5> QED
          BY <3>1, <3>3, <5>1
      <4>2. \A i \in 1 .. Len(wr'.left) : wr'.left[i] = written' - Len(wr'.left) + i
        BY <1>1, <3>1, <3>3
      <4>3. \A i \in 1 .. Len(sent') : sent'[i] <= Taken' /\ sent'[i] <= written'
        BY <1>1, <1>2, <3>5
      <4>4. timeout' # "zero"
        BY <1>1, <1>2 DEF config
      <4>5. wr'.pushed + Len(wr'.left) = wr'.total + 0
        BY <1>a, <3>3, <4>1
      <4> QED
        BY <3>3, <4>2, <4>3, <4>4, <4>5 DEF Progress
    <3>7. /\ sent' \in Seq(Nat) /\ Increasing(sent') /\ room' \in Int /\ room' <= room
      BY <1>1, <1>2
    <3> QED
      BY <1>1, <3>2, <3>3, <3>6, <3>7, WriteGoesOn
  <2> QED
    BY <1>5, <2>1, <2>2, <2>3 DEF SelectReady
<1> QED
  BY <1>4, <1>5

LEMMA WriteFileKeeps ==
  ASSUME FileInv, WriteFile
  PROVE  FileInv'
<1>1. /\ wr.pc = "submit"
      /\ UNCHANGED <<config, gone, rts, rd, source, written>>
  BY DEF WriteFile, device, reading
<1>2. /\ wr \in Writes /\ wr.left \in Seq(Nat) /\ Len(wr.left) \in Nat /\ wr.total \in Nat
      /\ room \in Int /\ written \in Nat /\ sent \in Seq(Nat) /\ Increasing(sent)
      /\ \A i \in 1 .. Len(sent) : sent[i] <= written /\ sent[i] <= written - Len(wr.left)
      /\ \A i \in 1 .. Len(wr.left) : wr.left[i] = written - Len(wr.left) + i
      /\ wr.pushed = 0 /\ wr.pushed + Len(wr.left) = wr.total
  BY <1>1, UnderWay
<1>3. {"ok", "raised", "cancelled"} \subseteq Hows /\ wr.pc \in WriteAt \ {"idle", "flush", "drained"}
  BY <1>1 DEF Hows, WriteAt
<1>4. \/ EndWrite("raised", 0, 0) /\ UNCHANGED <<room, sent>>
      \/ /\ EndWrite("ok", wr.total, wr.total)
         /\ sent' = sent \o wr.left
         /\ room' = room - wr.total
      \/ EndWrite("ok", 0, 0) /\ UNCHANGED <<room, sent>>
      \/ GoOn([wr EXCEPT !.pc = "pending"]) /\ UNCHANGED <<room, sent>>
  BY DEF WriteFile
<1>5. CASE \E how \in {"raised", "ok"} : EndWrite(how, 0, 0) /\ UNCHANGED <<room, sent>>
  BY <1>1, <1>3, <1>5, WriteEndsHere
<1>6. CASE /\ EndWrite("ok", wr.total, wr.total)
           /\ sent' = sent \o wr.left
           /\ room' = room - wr.total
  <2> DEFINE k == written - Len(wr.left)
  <2>1. k \in Int /\ k + Len(wr.left) = written
    BY <1>2
  <2>2. /\ \A i \in 1 .. Len(sent) : sent[i] <= k
        /\ \A i \in 1 .. Len(wr.left) : wr.left[i] = k + i
    BY <1>2
  <2> HIDE DEF k
  <2>3. /\ sent' \in Seq(Nat) /\ Increasing(sent')
        /\ \A i \in 1 .. Len(sent') : sent'[i] <= written
    BY <1>2, <1>6, <2>1, <2>2, SentInOrder
  <2>4. room' \in Int /\ room' <= room
    BY <1>2, <1>6
  <2> QED
    BY <1>1, <1>2, <1>3, <1>6, <2>3, <2>4, WriteEnds
<1>7. CASE GoOn([wr EXCEPT !.pc = "pending"]) /\ UNCHANGED <<room, sent>>
  <2>1. wr' = [wr EXCEPT !.pc = "pending"] /\ UNCHANGED <<result, room, sent>>
    BY <1>7 DEF GoOn
  <2>2. /\ wr' \in Writes /\ wr'.pc = "pending" /\ wr'.left = wr.left /\ wr'.total = wr.total
        /\ wr'.pushed = wr.pushed
    BY <1>2, <2>1 DEF Writes, WriteAt
  <2>3. Progress'
    BY <1>1, <2>1, <2>2 DEF FileInv, Progress, Taken, config
  <2>4. sent' \in Seq(Nat) /\ Increasing(sent') /\ room' \in Int /\ room' <= room
    BY <1>2, <2>1
  <2> QED
    BY <1>1, <2>1, <2>2, <2>3, <2>4, WriteGoesOn
<1> QED
  BY <1>4, <1>5, <1>6, <1>7

LEMMA TransferKeeps ==
  ASSUME FileInv, Transfer
  PROVE  FileInv'
<1>1. /\ wr.pc = "pending" /\ wr.left # <<>>
      /\ room' = room - 1
      /\ sent' = Append(sent, Head(wr.left))
      /\ wr' = [wr EXCEPT !.left = Tail(@), !.pushed = @ + 1]
      /\ UNCHANGED <<config, gone, rts, rd, source, written, result>>
  BY DEF Transfer, device, reading
<1>2. /\ wr \in Writes /\ wr.left \in Seq(Nat) /\ Len(wr.left) \in Nat /\ wr.total \in Nat
      /\ wr.pushed \in Nat /\ room \in Int /\ written \in Nat
      /\ sent \in Seq(Nat) /\ Increasing(sent)
      /\ \A i \in 1 .. Len(sent) : sent[i] <= written /\ sent[i] <= written - Len(wr.left)
      /\ \A i \in 1 .. Len(wr.left) : wr.left[i] = written - Len(wr.left) + i
      /\ wr.pushed + Len(wr.left) = wr.total
  BY <1>1, UnderWay
<1>3. Len(wr.left) \in Nat \ {0}
  BY <1>1, <1>2, EmptySeq
<1> DEFINE k == written - Len(wr.left)
           rest == Tail(wr.left)
<1>4. k \in Int /\ k + 1 <= written /\ written \in Nat
  BY <1>2, <1>3
<1>5. /\ \A i \in 1 .. Len(sent) : sent[i] <= k
      /\ \A i \in 1 .. Len(wr.left) : wr.left[i] = k + i
  BY <1>2
<1>6. /\ rest \in Seq(Nat) /\ Len(rest) = Len(wr.left) - 1
      /\ \A i \in 1 .. Len(rest) : rest[i] = wr.left[i + 1]
      /\ Head(wr.left) \in Nat /\ Head(wr.left) = wr.left[1]
  <2>1. /\ Head(wr.left) \in Nat /\ rest \in Seq(Nat) /\ Len(rest) = Len(wr.left) - 1
        /\ \A i \in 1 .. Len(rest) : rest[i] = wr.left[i + 1]
    <3>1. wr.left \in Seq(Nat) /\ wr.left # <<>>
      BY <1>1, <1>2
    <3> QED
      BY <3>1, HeadTailProperties
  <2>2. Head(wr.left) = wr.left[1]
    OBVIOUS
  <2> QED
    BY <2>1, <2>2
<1>7. written - Len(rest) = k + 1
  <2>1. written - (Len(wr.left) - 1) = written - Len(wr.left) + 1
    BY <1>3, <1>4
  <2> QED
    BY <1>6, <2>1
<1> HIDE DEF k, rest
<1>8. \A i \in 1 .. Len(rest) : rest[i] = (k + 1) + i
  BY <1>3, <1>4, <1>5, <1>6
<1>9. /\ sent' \in Seq(Nat) /\ Increasing(sent')
      /\ \A i \in 1 .. Len(sent') : sent'[i] <= k + 1
  <2> DEFINE d == <<Head(wr.left)>>
  <2>1. sent' = sent \o d
    BY <1>1, <1>2, <1>6, AppendIsConcat
  <2>2. Head(wr.left) = k + 1
    BY <1>3, <1>5, <1>6
  <2>3. d \in Seq(Nat) /\ Len(d) = 1 /\ \A i \in 1 .. Len(d) : d[i] = k + i
    BY <1>6, <2>2
  <2> HIDE DEF d
  <2> QED
    BY <1>2, <1>4, <1>5, <2>1, <2>3, SentInOrder
<1>10. /\ wr' \in Writes /\ wr'.pc = "pending" /\ wr'.left = rest /\ wr'.total = wr.total
       /\ wr'.pushed = wr.pushed + 1
  <2>1. wr.pushed + 1 \in Nat /\ rest \in Seq(Nat) /\ rest = Tail(wr.left)
    BY <1>2, <1>6 DEF rest
  <2>2. wr' = [wr EXCEPT !.left = rest, !.pushed = wr.pushed + 1]
    BY <1>1, <2>1
  <2> QED
    BY <1>1, <1>2, <2>1, <2>2 DEF Writes
<1>11. Progress'
  <2>1. Taken' = k + 1
    <3>1. Taken' = written - Len(rest) + 0
      BY <1>1, <1>10 DEF Taken
    <3> QED
      BY <1>4, <1>7, <3>1
  <2>2. \A i \in 1 .. Len(wr'.left) : wr'.left[i] = written' - Len(wr'.left) + i
    BY <1>1, <1>7, <1>8, <1>10
  <2>3. \A i \in 1 .. Len(sent') : sent'[i] <= written'
    <3>1. \A i \in 1 .. Len(sent') : sent'[i] \in Nat
      BY <1>9, ElementOfSeq
    <3> QED
      BY <1>1, <1>4, <1>9, <3>1
  <2>4. wr'.pushed + Len(wr'.left) = wr'.total
    <3>1. wr.pushed \in Nat /\ Len(wr.left) \in Nat /\ wr.pushed + Len(wr.left) = wr.total
      BY <1>2
    <3> QED
      <4>1. wr.pushed + 1 + (Len(wr.left) - 1) = wr.total
        BY <3>1
      <4> QED
        BY <1>6, <1>10, <4>1
  <2>5. wr'.total \in Nat
    BY <1>2, <1>10
  <2> QED
    BY <1>9, <1>10, <2>1, <2>2, <2>3, <2>4, <2>5 DEF Progress
<1>12. room' \in Int /\ room' <= room
  BY <1>1, <1>2
<1> QED
  BY <1>1, <1>9, <1>10, <1>11, <1>12, WriteGoesOn

LEMMA WritePendingKeeps ==
  ASSUME FileInv, WritePending
  PROVE  FileInv'
<1>1. /\ wr.pc = "pending"
      /\ UNCHANGED <<config, gone, rts, rd, source, written, sent, room>>
  BY DEF WritePending, device, reading
<1>2. /\ wr.pushed \in Nat /\ wr.total \in Nat /\ wr.left \in Seq(Nat)
      /\ wr.pushed + Len(wr.left) = wr.total
  BY <1>1, UnderWay
<1>3. {"ok", "raised", "cancelled"} \subseteq Hows
  BY DEF Hows
<1>4. CASE wr.left = <<>> /\ EndWrite("ok", wr.total, wr.pushed)
  <2>1. Len(wr.left) = 0
    BY <1>4
  <2>2. wr.total = wr.pushed
    BY <1>2, <2>1
  <2> QED
    BY <1>1, <1>2, <1>3, <1>4, <2>2, WriteEndsHere
<1>5. CASE EndWrite("raised", 0, wr.pushed)
  BY <1>1, <1>2, <1>3, <1>5, WriteEndsHere
<1>6. CASE EndWrite("cancelled", wr.pushed, wr.pushed)
  BY <1>1, <1>2, <1>3, <1>6, WriteEndsHere
<1> QED
  BY <1>4, <1>5, <1>6 DEF WritePending

(* The end of a write of an RS485: flush(), and RTS back.                   *)
LEMMA Rs485Keeps ==
  ASSUME FileInv, Flush \/ SwitchToReceive
  PROVE  FileInv'
<1>1. /\ wr.pc \in {"flush", "drained"}
      /\ UNCHANGED <<config, gone, source, room, sent, rd, written>>
      /\ wr'.pc \in {"idle", "drained"}
  BY DEF Flush, SwitchToReceive, device, reading, NoWrite, FileInv, Shapes
<1>2. wr' \in Writes
  <2>1. NoWrite \in Writes
    BY DEF NoWrite, Writes, WriteAt
  <2>2. [wr EXCEPT !.pc = "drained"] \in Writes
    BY DEF FileInv, Shapes, Writes, WriteAt
  <2> QED
    BY <2>1, <2>2 DEF Flush, SwitchToReceive
<1>3. /\ result' \in Results
      /\ \/ result' = result
         \/ result'.how = "raised"
  <2>1. result \in Results /\ Result("raised", 0, result.pushed) \in Results
    BY DEF FileInv, Shapes, Results, Result, Hows
  <2>2. Result("raised", 0, result.pushed).how = "raised"
    BY DEF Result
  <2> QED
    BY <2>1, <2>2 DEF Flush, SwitchToReceive
<1>4. rts' \in BOOLEAN
  BY DEF Flush, SwitchToReceive, device, FileInv, Shapes
<1>5. Shapes'
  <2>1. {rs485', rts', gone'} \subseteq BOOLEAN
    BY <1>1, <1>4 DEF FileInv, Shapes, config
  <2>2. /\ class' \in Classes /\ direction' \in {"read", "write"} /\ timeout' \in Timeouts
        /\ room' \in Int /\ room' <= Room /\ written' \in Nat /\ sent' \in Seq(Nat)
        /\ fed' \in Nat /\ input' \in Seq(Nat) /\ rd' \in Reads
    BY <1>1 DEF FileInv, Shapes, config, source, Reads
  <2> QED
    BY <1>2, <1>3, <2>1, <2>2 DEF Shapes, Reads, Writes, Results
<1>6. Places'
  BY <1>1 DEF FileInv, Places, config
<1>7. Progress'
  BY <1>1 DEF FileInv, Progress
<1>8. WriteTellsWhatWasSent'
  BY <1>1, <1>3 DEF FileInv, WriteTellsWhatWasSent, Increasing, config
<1>9. Framed'
  <2>1. CASE Flush
    <3>1. gone => wr'.pc = "idle" /\ result'.how = "raised"
      BY <2>1 DEF Flush, NoWrite, Result
    <3>2. rts' = rts
      BY <2>1 DEF Flush, device
    <3>3. ~gone => ~Unsent /\ wr'.pc = "drained"
      <4>1. ~gone => room = Room
        BY <2>1 DEF Flush
      <4>2. Room \in Nat
        BY FileAssumption
      <4>3. ~gone => wr'.pc = "drained"
        BY <2>1 DEF Flush, FileInv, Shapes
      <4> QED
        BY <4>1, <4>2, <4>3 DEF Unsent
    <3>4. wr.pc # "idle"
      BY <1>1
    <3> QED
      BY <1>1, <3>1, <3>2, <3>3, <3>4 DEF FileInv, Framed, Unsent, Idle, config
  <2>2. CASE SwitchToReceive
    <3>1. wr.pc = "drained" /\ wr'.pc = "idle" /\ ~rts'
      BY <2>2 DEF SwitchToReceive, NoWrite
    <3> QED
      BY <1>1, <3>1 DEF FileInv, Framed, Unsent, Idle, config
  <2> QED
    BY <2>1, <2>2
<1> QED
  BY <1>5, <1>6, <1>7, <1>8, <1>9 DEF FileInv
-----------------------------------------------------------------------------
LEMMA InvStep == FileInv /\ [Next]_vars => FileInv'
<1> SUFFICES ASSUME FileInv, [Next]_vars PROVE FileInv'
  OBVIOUS
<1>1. CASE Feed \/ Drain \/ Unplug \/ Expire \/ Reopen \/ ResetInput \/ Cancel
  BY <1>1, DeviceKeeps
<1>2. CASE StartRead \/ ReadStep
  BY <1>2, StartReadKeeps, ReadStepKeeps
<1>3. CASE StartWrite
  BY <1>3, StartWriteKeeps
<1>4. CASE Push \/ PushBlocked \/ PushFails \/ SelectTimeout \/ SelectCancelled \/ SelectReady
  BY <1>4, PushKeeps, WriteRaisesKeeps, SelectKeeps
<1>5. CASE WriteFile \/ Transfer \/ WritePending
  BY <1>5, WriteFileKeeps, TransferKeeps, WritePendingKeeps
<1>6. CASE Flush \/ SwitchToReceive
  BY <1>6, Rs485Keeps
<1>7. CASE UNCHANGED vars
  <2>1. UNCHANGED <<config, gone, rts, room, sent, written, wr, rd, result>>
    BY <1>7 DEF vars, device, output, reading
  <2>2. fed' \in Nat /\ input' \in Seq(Nat)
    BY <1>7 DEF vars, source, FileInv, Shapes
  <2> QED
    BY <2>1, <2>2, OtherKeeps
<1> QED
  BY <1>1, <1>2, <1>3, <1>4, <1>5, <1>6, <1>7 DEF Next, WriteStep

LEMMA Invariance == Spec => []FileInv
BY InvInit, InvStep, PTL DEF Spec

(* No byte reaches the device twice or before an earlier one, and what      *)
(* write() returns is at most what the device took, for writes and output   *)
(* buffers of any size.                                                     *)
THEOREM WritesAreTrue == Spec => []WriteTellsWhatWasSent
<1>1. FileInv => WriteTellsWhatWasSent
  BY DEF FileInv
<1> QED
  BY <1>1, Invariance, PTL

(* RTS of an RS485 covers all that the driver has to send, and goes back    *)
(* unless the write raised.                                                 *)
THEOREM RtsCoversData == Spec => []RtsFollowsData
<1>1. FileInv => RtsFollowsData
  BY DEF FileInv, Framed, Unsent, RtsFollowsData
<1> QED
  BY <1>1, Invariance, PTL

(* select() told the truth: what a read is about to take is there, or the   *)
(* device is away, or the input was emptied in between.                     *)
Ready ==
  rd.pc = "take" /\ class \in {"select", "socket"} => gone \/ input # <<>> \/ rd.reset

LEMMA ReadyInit == Init => Ready
BY DEF Init, Ready, NoRead

LEMMA ReadyNext == FileInv /\ Ready /\ [Next]_vars => Ready'
<1> SUFFICES ASSUME FileInv, Ready, [Next]_vars PROVE Ready'
  OBVIOUS
<1>1. rd \in Reads
  BY DEF FileInv, Shapes, Reads
<1>2. CASE UNCHANGED <<config, gone, input, rd>>
  BY <1>2 DEF Ready, config
<1>3. CASE Cancel \/ Drain \/ StartWrite \/ WriteStep \/ UNCHANGED vars
  <2>1. CASE Cancel \/ Drain \/ StartWrite \/ UNCHANGED vars
    BY <1>2, <2>1 DEF Cancel, Drain, StartWrite, vars, device, source, reading
  <2>2. CASE WriteStep
    <3>1. UNCHANGED <<config, gone, source, reading>>
      BY <2>2 DEF WriteStep, Push, PushBlocked, PushFails, SelectCancelled, SelectReady,
           SelectTimeout, WriteFile, Transfer, WritePending, Flush, SwitchToReceive, device
    <3> QED
      BY <1>2, <3>1 DEF source, reading
  <2> QED
    BY <1>3, <2>1, <2>2
<1>4. CASE Feed
  <2>1. input' # <<>>
    BY <1>4 DEF Feed, FileInv, Shapes
  <2> QED
    BY <2>1 DEF Ready
<1>5. CASE Unplug
  BY <1>5 DEF Unplug, Ready
<1>6. CASE Expire
  <2>1. /\ UNCHANGED <<config, gone, input>>
        /\ rd' = rd \/ rd' = [rd EXCEPT !.late = TRUE]
    BY <1>6 DEF Expire, device, source
  <2>2. rd'.pc = rd.pc /\ rd'.reset = rd.reset
    BY <1>1, <2>1 DEF Reads
  <2> QED
    BY <2>1, <2>2 DEF Ready, config
<1>7. CASE Reopen
  BY <1>7 DEF Reopen, Idle, Ready
<1>8. CASE ResetInput
  <2>1. rd.pc = "take" => rd'.reset
    BY <1>1, <1>8 DEF ResetInput, Reads
  <2>2. rd.pc # "take" => rd'.pc # "take"
    BY <1>8 DEF ResetInput
  <2> QED
    BY <2>1, <2>2 DEF Ready
<1>9. CASE StartRead
  <2>1. PICK n \in 1 .. MaxSize :
          rd' = [NoRead EXCEPT !.pc = CASE class \in Polling -> "wait"
                                        [] class = "vtime" -> "take"
                                        [] class \in Bytewise -> "byte"
                                        [] class = "overlapped" -> "submit",
                               !.size = n]
    BY <1>9 DEF StartRead
  <2>2. class' = class
    BY <1>9 DEF StartRead, config
  <2>3. class \in {"select", "socket"} => rd'.pc = "wait"
    BY <2>1 DEF NoRead, Polling, Bytewise
  <2> QED
    BY <2>2, <2>3 DEF Ready
<1>10. CASE ReadStep
  <2> SUFFICES ASSUME class \in {"select", "socket"}, ~gone, rd'.pc = "take" PROVE input' # <<>>
    <3>1. class' = class /\ gone' = gone
      BY <1>10 DEF ReadStep, WaitCancelled, WaitReady, WaitTimeout, Take, TakeNothing, TakeBlocked,
                   ReadFile, ReadPending, ReadByte, NoByte, config, device
    <3> QED
      BY <3>1 DEF Ready
  <2>1. ~Raise /\ \A d : ~Return(d)
    BY DEF Raise, Return, NoRead
  <2>2. \A r \in Reads : ~AfterTake(r)
    <3> SUFFICES ASSUME NEW r \in Reads, AfterTake(r) PROVE FALSE
      OBVIOUS
    <3>1. Continue([r EXCEPT !.pc = IF class = "vtime" THEN "take" ELSE "wait"])
      BY <2>1 DEF AfterTake
    <3>2. rd' = [r EXCEPT !.pc = "wait"]
      BY <3>1 DEF Continue
    <3> QED
      BY <3>2 DEF Reads
  <2>3. CASE WaitReady
    <3>1. input # <<>> /\ input' = input
      BY <2>3 DEF WaitReady, Readable, source
    <3> QED
      BY <3>1
  <2>4. ~WaitCancelled /\ ~WaitTimeout /\ ~TakeNothing
    BY <2>1 DEF WaitCancelled, WaitTimeout, TakeNothing
  <2>5. ~TakeBlocked
    BY <1>1, <2>1, <2>2 DEF TakeBlocked
  <2>6. ~Take
    <3> SUFFICES ASSUME Take PROVE FALSE
      OBVIOUS
    <3>1. PICK n \in 1 .. Min({Wanted, Len(input)}) :
            AfterTake([rd EXCEPT !.data = @ \o SubSeq(input, 1, n)])
      BY DEF Take
    <3>2. Wanted \in Int /\ Len(input) \in Int /\ Len(input) \in Nat
      BY <1>1, LenProperties DEF Wanted, Reads, FileInv, Shapes
    <3>3. Min({Wanted, Len(input)}) \in Int /\ Min({Wanted, Len(input)}) <= Len(input)
      BY <3>2, MinOfTwo
    <3>4. n \in 0 .. Len(input)
      BY <3>2, <3>3
    <3> QED
      BY <2>2, <3>1, <3>4, ReadTakes
  <2>7. rd.pc \notin {"submit", "pending", "byte"} \/ rd'.pc # "take"
    <3>1. \A n : [rd EXCEPT !.pc = "pending", !.size = n].pc # "take"
      BY <1>1 DEF Reads
    <3>2. \A d : [rd EXCEPT !.data = d, !.late = FALSE].pc = rd.pc
      BY <1>1 DEF Reads
    <3>3. ~ReadFile
      BY <2>1, <3>1 DEF ReadFile, Continue
    <3>4. ~ReadPending /\ ~NoByte
      BY <2>1 DEF ReadPending, NoByte
    <3>5. ~ReadByte
      BY <2>1, <3>2 DEF ReadByte, Continue
    <3> QED
      BY <1>10, <2>4, <2>5, <2>6, <3>3, <3>4, <3>5 DEF ReadStep, WaitReady
  <2>8. ~ReadFile /\ ~ReadPending /\ ~ReadByte /\ ~NoByte
    BY <2>7 DEF ReadFile, ReadPending, ReadByte, NoByte
  <2> QED
    BY <1>10, <2>3, <2>4, <2>5, <2>6, <2>8 DEF ReadStep
<1> QED
  BY <1>3, <1>4, <1>5, <1>6, <1>7, <1>8, <1>9, <1>10 DEF Next

(* A read that ends with an exception has lost its device, or its input was *)
(* emptied under it on a serial port, in all classes but PosixPollSerial.   *)
THEOREM ReadsRaiseForCause == Spec => RaisesForCause
<1> DEFINE Fails == class # "poll" /\ rd.pc # "idle" /\ rd'.pc = "idle" /\ result'.how = "raised"
           Cause == gone \/ (class = "select" /\ rd.reset)
<1>1. FileInv /\ Ready /\ [Next]_vars => [Fails => Cause]_vars
  <2> SUFFICES ASSUME FileInv, Ready, Next, Fails PROVE Cause
    OBVIOUS
  <2>1. rd \in Reads
    BY DEF FileInv, Shapes, Reads
  <2>2. rd.pc = "take" => class \in {"select", "socket", "vtime"}
    BY DEF FileInv, Places, Polling
  <2>3. \A data : ~Return(data)
    BY DEF Return, Result
  <2>4. \A r : Continue(r) => r.pc = "idle"
    BY DEF Continue
  <2>5. \A r \in Reads : ~AfterTake(r)
    <3> SUFFICES ASSUME NEW r \in Reads, AfterTake(r) PROVE FALSE
      OBVIOUS
    <3>1. Continue([r EXCEPT !.pc = IF class = "vtime" THEN "take" ELSE "wait"])
      BY <2>3 DEF AfterTake
    <3>2. [r EXCEPT !.pc = IF class = "vtime" THEN "take" ELSE "wait"].pc # "idle"
      BY DEF Reads
    <3> QED
      BY <2>4, <3>1, <3>2
  <2>6. CASE ReadStep
    <3>1. ~WaitCancelled
      BY <2>3 DEF WaitCancelled
    <3>2. ~WaitReady
      <4>1. [rd EXCEPT !.pc = "take", !.bound = TRUE, !.reset = FALSE].pc # "idle"
        BY <2>1 DEF Reads
      <4> QED
        BY <2>4, <4>1 DEF WaitReady
    <3>3. ~WaitTimeout
      BY <2>3 DEF WaitTimeout
    <3>4. ~Take
      <4> SUFFICES ASSUME Take PROVE FALSE
        OBVIOUS
      <4>1. PICK n \in 1 .. Min({Wanted, Len(input)}) :
              AfterTake([rd EXCEPT !.data = @ \o SubSeq(input, 1, n)])
        BY DEF Take
      <4>2. Wanted \in Int /\ Len(input) \in Int /\ Len(input) \in Nat
        BY <2>1, LenProperties DEF Wanted, Reads, FileInv, Shapes
      <4>3. Min({Wanted, Len(input)}) \in Int /\ Min({Wanted, Len(input)}) <= Len(input)
        BY <4>2, MinOfTwo
      <4>4. n \in 0 .. Len(input)
        BY <4>2, <4>3
      <4> QED
        BY <2>5, <4>1, <4>4, ReadTakes
    <3>5. TakeNothing => gone
      BY DEF TakeNothing
    <3>6. TakeBlocked => Cause
      <4> SUFFICES ASSUME TakeBlocked PROVE Cause
        OBVIOUS
      <4>1. rd.pc = "take" /\ input = <<>> /\ class = "select"
        BY <2>1, <2>2, <2>3, <2>5 DEF TakeBlocked
      <4> QED
        BY <4>1 DEF Ready
    <3>7. ReadFile => gone
      <4>1. \A n : [rd EXCEPT !.pc = "pending", !.size = n].pc # "idle"
        BY <2>1 DEF Reads
      <4> QED
        BY <2>3, <2>4, <4>1 DEF ReadFile
    <3>8. ReadPending => gone
      BY <2>3 DEF ReadPending
    <3>9. ~ReadByte
      <4>1. \A data : [rd EXCEPT !.data = data, !.late = FALSE].pc = rd.pc
        BY <2>1 DEF Reads
      <4> QED
        BY <2>3, <2>4, <4>1 DEF ReadByte
    <3>10. NoByte => gone
      BY <2>3 DEF NoByte
    <3> QED
      BY <2>6, <3>1, <3>2, <3>3, <3>4, <3>5, <3>6, <3>7, <3>8, <3>9, <3>10 DEF ReadStep
  <2>7. ~StartRead
    BY DEF StartRead, Idle
  <2>8. ~Expire
    <3>1. [rd EXCEPT !.late = TRUE].pc = rd.pc
      BY <2>1 DEF Reads
    <3> QED
      BY <3>1 DEF Expire
  <2>9. rd' # rd
    OBVIOUS
  <2>10. ~(Feed \/ Drain \/ Unplug \/ Reopen \/ Cancel \/ StartWrite \/ WriteStep)
    BY <2>9 DEF Feed, Drain, Unplug, Reopen, Cancel, StartWrite, WriteStep, Push,
         PushBlocked, PushFails, SelectCancelled, SelectReady, SelectTimeout, WriteFile, Transfer,
         WritePending, Flush, SwitchToReceive, reading
  <2>11. ~ResetInput
    <3>1. [rd EXCEPT !.reset = TRUE].pc = rd.pc
      BY <2>1 DEF Reads
    <3> QED
      BY <3>1 DEF ResetInput
  <2> QED
    BY <2>6, <2>7, <2>8, <2>10, <2>11 DEF Next
<1>2. Spec => []Ready
  BY ReadyInit, ReadyNext, Invariance, PTL DEF Spec
<1> QED
  BY <1>1, <1>2, Invariance, PTL DEF Spec, RaisesForCause
-----------------------------------------------------------------------------
(* What is left out of the middle leaves the rest in order.                 *)
LEMMA Dropped ==
  ASSUME NEW s \in Seq(Nat), NEW d \in Seq(Nat), NEW t \in Seq(Nat), NEW S,
         Increasing((s \o d) \o t),
         \A i \in 1 .. Len((s \o d) \o t) : ((s \o d) \o t)[i] \in S
  PROVE  /\ s \o t \in Seq(Nat) /\ Increasing(s \o t)
         /\ \A i \in 1 .. Len(s \o t) : (s \o t)[i] \in S
<1> DEFINE all == (s \o d) \o t
           at(i) == IF i <= Len(s) THEN i ELSE i + Len(d)
<1>1. Len(s) \in Nat /\ Len(d) \in Nat /\ Len(t) \in Nat
  BY LenProperties
<1>2. /\ s \o d \in Seq(Nat) /\ Len(s \o d) = Len(s) + Len(d)
      /\ \A i \in 1 .. Len(s) + Len(d) : (s \o d)[i] = IF i <= Len(s) THEN s[i] ELSE d[i - Len(s)]
  BY ConcatProperties
<1>3. /\ all \in Seq(Nat) /\ Len(all) = Len(s) + Len(d) + Len(t)
      /\ \A i \in 1 .. Len(s) + Len(d) + Len(t) :
           all[i] = IF i <= Len(s) + Len(d) THEN (s \o d)[i] ELSE t[i - (Len(s) + Len(d))]
  BY <1>2, ConcatProperties
<1>4. /\ s \o t \in Seq(Nat) /\ Len(s \o t) = Len(s) + Len(t)
      /\ \A i \in 1 .. Len(s) + Len(t) : (s \o t)[i] = IF i <= Len(s) THEN s[i] ELSE t[i - Len(s)]
  BY ConcatProperties
<1>5. /\ DOMAIN all = 1 .. Len(s) + Len(d) + Len(t)
      /\ DOMAIN (s \o t) = 1 .. Len(s) + Len(t)
  BY <1>3, <1>4, LenProperties
<1>6. ASSUME NEW i \in 1 .. Len(s) + Len(t)
      PROVE  at(i) \in 1 .. Len(s) + Len(d) + Len(t) /\ (s \o t)[i] = all[at(i)]
  <2>1. CASE i <= Len(s)
    BY <1>1, <1>2, <1>3, <1>4, <2>1
  <2>2. CASE ~(i <= Len(s))
    <3>1. /\ i + Len(d) \in 1 .. Len(s) + Len(d) + Len(t) /\ ~(i + Len(d) <= Len(s) + Len(d))
          /\ i + Len(d) - (Len(s) + Len(d)) = i - Len(s)
      BY <1>1, <2>2
    <3>2. all[i + Len(d)] = t[i - Len(s)]
      BY <1>3, <3>1
    <3>3. (s \o t)[i] = t[i - Len(s)]
      BY <1>4, <2>2
    <3> QED
      BY <2>2, <3>1, <3>2, <3>3
  <2> QED
    BY <2>1, <2>2
<1>7. \A i, j \in 1 .. Len(s) + Len(t) : i < j => at(i) < at(j)
  BY <1>1
<1>8. Increasing(all) /\ \A i \in 1 .. Len(s) + Len(d) + Len(t) : all[i] \in S
  BY <1>3
<1> HIDE DEF all, at
<1>9. Increasing(s \o t)
  <2> SUFFICES ASSUME NEW i \in 1 .. Len(s) + Len(t), NEW j \in 1 .. Len(s) + Len(t), i < j
               PROVE  (s \o t)[i] < (s \o t)[j]
    BY <1>5 DEF Increasing
  <2>1. all[at(i)] < all[at(j)]
    BY <1>5, <1>6, <1>7, <1>8 DEF Increasing
  <2> QED
    BY <1>6, <2>1
<1>10. \A i \in 1 .. Len(s \o t) : (s \o t)[i] \in S
  BY <1>4, <1>6, <1>8
<1> QED
  BY <1>4, <1>9, <1>10

LEMMA InNumbers ==
  ASSUME NEW k \in Nat
  PROVE  /\ Numbered(0, k) \in Seq(Nat) /\ Len(Numbered(0, k)) = k
         /\ \A i \in 1 .. k : Numbered(0, k)[i] = i
<1>1. Numbered(0, k) = [i \in 1 .. k |-> i]
  BY DEF Numbered
<1> QED
  BY <1>1

(* The byte that arrives follows the one before.                            *)
LEMMA Follows ==
  ASSUME NEW s \in Seq(Nat), NEW k \in Nat, Increasing(s), \A i \in 1 .. Len(s) : s[i] \in 1 .. k
  PROVE  /\ Append(s, k + 1) \in Seq(Nat) /\ Increasing(Append(s, k + 1))
         /\ \A i \in 1 .. Len(Append(s, k + 1)) : Append(s, k + 1)[i] \in 1 .. k + 1
         /\ s = Numbered(0, k) => Append(s, k + 1) = Numbered(0, k + 1)
<1> DEFINE e == Append(s, k + 1)
           d == <<k + 1>>
<1>1. k + 1 \in Nat
  OBVIOUS
<1>2. /\ e \in Seq(Nat) /\ Len(e) = Len(s) + 1
      /\ \A i \in 1 .. Len(s) : e[i] = s[i]
      /\ e[Len(s) + 1] = k + 1
  BY <1>1, AppendProperties
<1>3. Len(s) \in Nat /\ DOMAIN s = 1 .. Len(s) /\ DOMAIN e = 1 .. Len(s) + 1
  BY <1>2, LenProperties
<1>4. e = s \o d
  BY <1>1, AppendIsConcat
<1>5. d \in Seq(Nat) /\ Len(d) = 1 /\ \A i \in 1 .. Len(d) : d[i] = k + i
  BY <1>1
<1> HIDE DEF d, e
<1>6. Increasing(e)
  <2>1. k \in Int /\ \A i \in 1 .. Len(s) : s[i] <= k
    OBVIOUS
  <2>2. Increasing(s \o d)
    BY <1>5, <2>1, SentInOrder
  <2> QED
    BY <1>4, <2>2
<1>7. \A i \in 1 .. Len(e) : e[i] \in 1 .. k + 1
  <2> SUFFICES ASSUME NEW i \in 1 .. Len(e) PROVE e[i] \in 1 .. k + 1
    OBVIOUS
  <2>1. i \in 1 .. Len(s) \/ i = Len(s) + 1
    BY <1>2, <1>3
  <2> QED
    BY <1>2, <2>1
<1>8. ASSUME s = Numbered(0, k) PROVE e = Numbered(0, k + 1)
  <2>1. Len(s) = k /\ \A i \in 1 .. k : s[i] = i
    BY <1>8, InNumbers
  <2>2. Len(e) = k + 1 /\ \A i \in 1 .. k + 1 : e[i] = i
    <3>1. \A i \in 1 .. k + 1 : i \in 1 .. k \/ i = k + 1
      OBVIOUS
    <3> QED
      BY <1>2, <2>1, <3>1
  <2> DEFINE q == Numbered(0, k + 1)
  <2>4. q \in Seq(Nat) /\ Len(q) = k + 1 /\ \A i \in 1 .. k + 1 : q[i] = i
    BY <1>1, InNumbers
  <2> HIDE DEF q
  <2>5. e = q
    BY <1>2, <2>2, <2>4, SeqEqual
  <2> QED
    BY <2>5 DEF q
<1> QED
  BY <1>2, <1>6, <1>7, <1>8 DEF e

(* Bytes that go from the input to the read, or from there to the caller,   *)
(* are the same bytes in the same order.                                    *)
Parts(a, d, i) == (a \o d) \o i

LEMMA MovedToRead ==
  ASSUME NEW S, NEW a \in Seq(S), NEW d \in Seq(S), NEW m \in Seq(S), NEW r \in Seq(S)
  PROVE  d \o m \in Seq(S) /\ Parts(a, d \o m, r) = Parts(a, d, m \o r)
<1> DEFINE ad == a \o d
           dm == d \o m
<1>1. ad \in Seq(S) /\ dm \in Seq(S)
  BY ConcatProperties
<1>2. ad \o m = a \o dm
  BY ConcatAssociative
<1> HIDE DEF ad, dm
<1>3. ASSUME NEW x \in Seq(S) PROVE (x \o m) \o r = x \o (m \o r)
  BY ConcatAssociative, SMTT(30)
<1> QED
  BY <1>1, <1>2, <1>3 DEF Parts, ad, dm

LEMMA MovedToCaller ==
  ASSUME NEW a \in Seq(Nat), NEW d \in Seq(Nat), NEW r
  PROVE  a \o d \in Seq(Nat) /\ Parts(a \o d, <<>>, r) = Parts(a, d, r)
<1> DEFINE ad == a \o d
<1>1. ad \in Seq(Nat)
  BY ConcatProperties
<1> HIDE DEF ad
<1>2. ad \o <<>> = ad
  BY <1>1, ConcatEmptySeq
<1> QED
  BY <1>1, <1>2 DEF Parts, ad
-----------------------------------------------------------------------------
(* The bounds of the counters and of what the last call returned.  A pipe   *)
(* has at most a byte for each cancel_read; an overlapped call is cancelled *)
(* or is not.                                                               *)
Counters ==
  /\ fed <= MaxFed /\ calls \in Nat /\ calls <= MaxCalls
  /\ cancels \in Nat /\ cancels <= MaxCancels
  /\ tokens \in Nat /\ (class = "overlapped" => tokens <= 1) /\ (class # "overlapped" => tokens <= cancels)
  /\ result.count <= MaxSize /\ result.pushed <= MaxSize

(* Those of the writes: room is negative for data only that the system      *)
(* keeps in place of the driver, and these were given to writes before.     *)
Bounded ==
  /\ written <= MaxSize * calls
  /\ wr.total <= MaxSize /\ wr.total <= written /\ wr.n <= MaxSize /\ wr.pushed <= MaxSize
  /\ wr.pc \in {"idle", "flush", "drained"} => wr.left = <<>>
  /\ room >= wr.total - written
  /\ \A i \in 1 .. Len(sent) : sent[i] >= 1

LEMMA Sizes == /\ MaxSize \in Nat /\ MaxCalls \in Nat /\ MaxFed \in Nat /\ MaxCancels \in Nat /\ Room \in Nat
               /\ 1 <= MaxCancels
BY FileAssumption

LEMMA BoundsInit == Init => Counters /\ Bounded
<1> SUFFICES ASSUME Init PROVE Counters /\ Bounded
  OBVIOUS
<1>1. /\ fed = 0 /\ calls = 0 /\ cancels = 0 /\ tokens = 0 /\ written = 0 /\ room = Room /\ sent = <<>>
      /\ result.count = 0 /\ result.pushed = 0
      /\ wr.total = 0 /\ wr.n = 0 /\ wr.pushed = 0 /\ wr.left = <<>>
  BY DEF Init, Result, NoWrite
<1>2. Counters
  BY <1>1, Sizes DEF Counters
<1>3. Bounded
  <2>1. MaxSize * 0 = 0
    BY Sizes
  <2> QED
    BY <1>1, <2>1, Sizes DEF Bounded
<1> QED
  BY <1>2, <1>3

(* What the types say of the numbers.                                       *)
LEMMA Numbers ==
  ASSUME FileInv
  PROVE  /\ fed \in Nat /\ written \in Nat /\ room \in Int /\ sent \in Seq(Nat) /\ input \in Seq(Nat)
         /\ wr.total \in Nat /\ wr.n \in Nat /\ wr.pushed \in Nat /\ wr.left \in Seq(Nat)
         /\ result.count \in Nat /\ result.pushed \in Nat
         /\ rd.size \in Nat /\ rd.data \in Seq(Nat)
<1>1. rd \in Reads /\ wr \in Writes /\ result \in Results
  BY DEF FileInv, Shapes, Reads, Writes, Results
<1>2. fed \in Nat /\ written \in Nat /\ room \in Int /\ sent \in Seq(Nat) /\ input \in Seq(Nat)
  BY DEF FileInv, Shapes
<1> QED
  BY <1>1, <1>2 DEF Reads, Writes, Results

(* A step of a call that takes tokens, if any, and leaves a result.         *)
LEMMA CountersStay ==
  ASSUME FileInv, Counters, UNCHANGED <<class, fed, calls, cancels>>,
         tokens' \in Nat, tokens' <= tokens,
         UNCHANGED result \/ (result'.count <= MaxSize /\ result'.pushed <= MaxSize)
  PROVE  Counters'
<1>1. tokens \in Nat /\ cancels \in Nat
  BY DEF Counters
<1> QED
  BY <1>1 DEF Counters

LEMMA BoundedStays ==
  ASSUME FileInv, Bounded, UNCHANGED <<written, calls, sent, wr>>, room' \in Int, room' >= room
  PROVE  Bounded'
<1>1. room \in Int /\ wr.total \in Nat /\ written \in Nat
  BY Numbers
<1>2. room' >= wr'.total - written'
  <2>1. room >= wr.total - written
    BY DEF Bounded
  <2> QED
    BY <1>1, <2>1
<1> QED
  BY <1>2 DEF Bounded

(* A write under way has no more left than it was given.                    *)
LEMMA LeftOver ==
  ASSUME FileInv, Bounded, wr.pc \in {"push", "select", "submit", "pending"}
  PROVE  /\ Len(wr.left) \in Nat /\ Len(wr.left) <= wr.total /\ wr.pushed <= wr.total
         /\ Len(wr.left) <= written
         /\ \A i \in 1 .. Len(wr.left) : wr.left[i] >= 1
         /\ wr.total <= MaxSize
<1>1. /\ Len(wr.left) \in Nat /\ wr.total \in Nat /\ wr.n \in Nat /\ wr.pushed \in Nat /\ written \in Nat
  BY UnderWay
<1>2. Len(wr.left) <= wr.total /\ wr.pushed <= wr.total
  <2>1. CASE wr.pc = "select"
    <3>1. /\ wr.pushed + Len(wr.left) = wr.total + wr.n
          /\ wr.n \in 1 .. Len(wr.left) /\ wr.n <= wr.pushed
      BY <2>1, UnderWay
    <3> QED
      BY <1>1, <3>1
  <2>2. CASE wr.pc # "select"
    <3>1. wr.pushed + Len(wr.left) = wr.total
      BY <2>2, UnderWay
    <3> QED
      BY <1>1, <3>1
  <2> QED
    BY <2>1, <2>2
<1>3. wr.total <= written /\ wr.total <= MaxSize
  BY DEF Bounded
<1>4. Len(wr.left) <= written
  BY <1>1, <1>2, <1>3
<1>5. \A i \in 1 .. Len(wr.left) : wr.left[i] = written - Len(wr.left) + i
  BY UnderWay
<1>6. \A i \in 1 .. Len(wr.left) : wr.left[i] >= 1
  <2> SUFFICES ASSUME NEW i \in 1 .. Len(wr.left) PROVE wr.left[i] >= 1
    OBVIOUS
  <2>1. wr.left[i] = written - Len(wr.left) + i
    BY <1>5
  <2>2. i \in Int /\ i >= 1 /\ Len(wr.left) \in Int /\ written \in Int /\ Len(wr.left) <= written
    BY <1>1, <1>4
  <2>3. written - Len(wr.left) + i >= 1
    BY <2>2
  <2> QED
    BY <2>1, <2>3
<1> QED
  BY <1>1, <1>2, <1>3, <1>4, <1>6

(* A write that ends.                                                       *)
LEMMA BoundedEnds ==
  ASSUME FileInv, Bounded, UNCHANGED <<written, calls>>,
         NEW how, NEW count \in Nat, NEW pushed \in Nat, EndWrite(how, count, pushed),
         count <= MaxSize, pushed <= MaxSize,
         room' \in Int, room' >= -written, \A i \in 1 .. Len(sent') : sent'[i] >= 1
  PROVE  Bounded' /\ result'.count <= MaxSize /\ result'.pushed <= MaxSize
<1>1. /\ wr'.left = <<>> /\ wr'.total = 0 /\ wr'.n = 0 /\ wr'.pushed = 0
  BY DEF EndWrite, NoWrite
<1>2. result'.count \in {count, 0} /\ result'.pushed = pushed
  BY DEF EndWrite, Result
<1>3. written \in Nat /\ written <= MaxSize * calls
  BY Numbers DEF Bounded
<1>4. 0 <= MaxSize /\ 0 <= written /\ room' >= 0 - written
  BY <1>3, Sizes
<1>5. Bounded'
  BY <1>1, <1>3, <1>4 DEF Bounded
<1> QED
  BY <1>2, <1>4, <1>5

LEMMA BoundedEndsHere ==
  ASSUME FileInv, Bounded, UNCHANGED <<written, calls, room, sent>>,
         NEW how, NEW count \in Nat, NEW pushed \in Nat, EndWrite(how, count, pushed),
         count <= MaxSize, pushed <= MaxSize
  PROVE  Bounded' /\ result'.count <= MaxSize /\ result'.pushed <= MaxSize
<1>1. room' \in Int /\ room' >= -written /\ \A i \in 1 .. Len(sent') : sent'[i] >= 1
  <2>1. room \in Int /\ written \in Nat /\ wr.total \in Nat
    BY Numbers
  <2>2. room >= wr.total - written /\ \A i \in 1 .. Len(sent) : sent[i] >= 1
    BY DEF Bounded
  <2>3. room >= -written
    BY <2>1, <2>2
  <2> QED
    BY <2>1, <2>2, <2>3
<1> QED
  BY <1>1, BoundedEnds

(* Bytes of a write go to the device.                                       *)
LEMMA SentAreBytes ==
  ASSUME NEW s \in Seq(Nat), \A i \in 1 .. Len(s) : s[i] >= 1,
         NEW d \in Seq(Nat), \A i \in 1 .. Len(d) : d[i] >= 1
  PROVE  \A i \in 1 .. Len(s \o d) : (s \o d)[i] >= 1
<1>1. Len(s) \in Nat /\ Len(d) \in Nat
  BY LenProperties
<1>2. /\ Len(s \o d) = Len(s) + Len(d)
      /\ \A i \in 1 .. Len(s) + Len(d) : (s \o d)[i] = IF i <= Len(s) THEN s[i] ELSE d[i - Len(s)]
  BY ConcatProperties
<1> SUFFICES ASSUME NEW i \in 1 .. Len(s \o d) PROVE (s \o d)[i] >= 1
  OBVIOUS
<1>3. CASE i <= Len(s)
  <2>1. i \in 1 .. Len(s) /\ (s \o d)[i] = s[i]
    BY <1>1, <1>2, <1>3
  <2> QED
    BY <2>1
<1>4. CASE ~(i <= Len(s))
  <2>1. i - Len(s) \in 1 .. Len(d) /\ (s \o d)[i] = d[i - Len(s)]
    BY <1>1, <1>2, <1>4
  <2> QED
    BY <2>1
<1> QED
  BY <1>3, <1>4

LEMMA PushBounds ==
  ASSUME FileInv, Counters, Bounded, Push
  PROVE  Counters' /\ Bounded'
<1>1. /\ wr.pc = "push" /\ room > 0
      /\ UNCHANGED <<class, fed, calls, cancels, tokens, written>>
  BY DEF Push, config, source, pipe
<1>2. PICK n \in 1 .. Min({room, Len(wr.left)}) :
        LET w == [wr EXCEPT !.pc = "select", !.n = n, !.pushed = @ + n] IN
          /\ room' = room - n
          /\ sent' = sent \o SubSeq(wr.left, 1, n)
          /\ CASE timeout = "zero" -> EndWrite("ok", n, w.pushed)
               [] timeout = "finite" /\ wr.late -> EndWrite("raised", 0, w.pushed)
               [] OTHER -> GoOn(w)
  BY DEF Push
<1> DEFINE w == [wr EXCEPT !.pc = "select", !.n = n, !.pushed = @ + n]
           part == SubSeq(wr.left, 1, n)
<1>3. /\ Len(wr.left) \in Nat /\ Len(wr.left) <= wr.total /\ wr.pushed <= wr.total
      /\ \A i \in 1 .. Len(wr.left) : wr.left[i] >= 1
      /\ wr.total <= MaxSize
  BY <1>1, LeftOver
<1>4. /\ wr \in Writes /\ wr.left \in Seq(Nat) /\ wr.total \in Nat /\ wr.pushed \in Nat
      /\ wr.pushed + Len(wr.left) = wr.total
      /\ room \in Int /\ written \in Nat /\ sent \in Seq(Nat)
  BY <1>1, UnderWay
<1>5. n \in Nat /\ n <= room /\ n <= Len(wr.left)
  <2>1. Len(wr.left) \in Int
    BY <1>3
  <2>2. /\ Min({room, Len(wr.left)}) \in Int /\ Min({room, Len(wr.left)}) <= room
        /\ Min({room, Len(wr.left)}) <= Len(wr.left)
    BY <1>4, <2>1, MinOfTwo
  <2> QED
    BY <1>3, <1>4, <2>2
<1>6. w \in Writes /\ w.pc = "select" /\ w.n = n /\ w.pushed = wr.pushed + n /\ w.total = wr.total
  <2>1. wr.pushed + n \in Nat /\ "select" \in WriteAt
    BY <1>4, <1>5 DEF WriteAt
  <2> QED
    BY <1>4, <1>5, <2>1 DEF Writes
<1>7. /\ room' = room - n /\ sent' = sent \o part
      /\ \/ EndWrite("ok", n, w.pushed)
         \/ EndWrite("raised", 0, w.pushed)
         \/ GoOn(w)
  BY <1>2
<1> HIDE DEF w
<1>8. part \in Seq(Nat) /\ \A i \in 1 .. Len(part) : part[i] >= 1
  <2>1. n \in 0 .. Len(wr.left)
    BY <1>3, <1>5
  <2>2. part \in Seq(Nat) /\ Len(part) = n /\ \A i \in 1 .. n : part[i] = wr.left[i]
    BY <1>4, <2>1, Cut
  <2> QED
    BY <1>3, <1>5, <2>2
<1> HIDE DEF part
<1>9. \A i \in 1 .. Len(sent') : sent'[i] >= 1
  <2>1. \A i \in 1 .. Len(sent) : sent[i] >= 1
    BY DEF Bounded
  <2> QED
    BY <1>4, <1>7, <1>8, <2>1, SentAreBytes
<1>10. /\ room' \in Int /\ room' >= -written /\ room' >= wr.total - written
       /\ wr.pushed + n <= MaxSize /\ n <= MaxSize
  <2>1. wr.total <= written
    BY DEF Bounded
  <2>2. /\ Len(wr.left) \in Nat /\ wr.total \in Nat /\ wr.pushed \in Nat /\ room \in Int /\ written \in Nat
        /\ wr.pushed + Len(wr.left) = wr.total /\ wr.total <= MaxSize /\ MaxSize \in Nat
    BY <1>3, <1>4, Sizes
  <2>3. wr.pushed + n <= MaxSize /\ n <= MaxSize
    BY <1>5, <2>2
  <2>4. room - n >= 0 /\ room - n \in Int /\ 0 >= wr.total - written /\ 0 >= -written
    BY <1>5, <2>1, <2>2
  <2>5. room - n >= wr.total - written /\ room - n >= -written
    BY <2>2, <2>4
  <2> QED
    BY <1>7, <2>3, <2>4, <2>5
<1>11. w.pushed \in Nat /\ w.pushed <= MaxSize
  <2>1. wr.pushed + n \in Nat
    BY <1>4, <1>5
  <2> QED
    BY <1>6, <1>10, <2>1
<1>12. CASE EndWrite("ok", n, w.pushed)
  BY <1>1, <1>5, <1>9, <1>10, <1>11, <1>12, BoundedEnds, CountersStay DEF Counters
<1>13. CASE EndWrite("raised", 0, w.pushed)
  BY <1>1, <1>9, <1>10, <1>11, <1>13, Sizes, BoundedEnds, CountersStay DEF Counters
<1>14. CASE GoOn(w)
  <2>1. wr' = w /\ UNCHANGED result
    BY <1>14 DEF GoOn
  <2>2. Counters'
    BY <1>1, <2>1, CountersStay DEF Counters
  <2>3. Bounded'
    BY <1>1, <1>3, <1>6, <1>9, <1>10, <1>11, <2>1 DEF Bounded
  <2> QED
    BY <2>2, <2>3
<1> QED
  BY <1>7, <1>12, <1>13, <1>14

LEMMA SelectBounds ==
  ASSUME FileInv, Counters, Bounded,
         PushBlocked \/ PushFails \/ SelectTimeout \/ SelectCancelled \/ SelectReady
  PROVE  Counters' /\ Bounded'
<1>1. /\ wr.pc \in {"push", "select"}
      /\ UNCHANGED <<class, fed, calls, cancels, written, room, sent>>
  BY DEF PushBlocked, PushFails, SelectTimeout, SelectCancelled, SelectReady, config, source, pipe
<1>2. /\ Len(wr.left) \in Nat /\ Len(wr.left) <= wr.total /\ wr.pushed <= wr.total /\ wr.total <= MaxSize
  BY <1>1, LeftOver
<1>3. wr.pushed \in Nat /\ wr.total \in Nat /\ wr.pushed <= MaxSize /\ 0 <= MaxSize
      /\ wr.total - Len(wr.left) \in Nat /\ wr.total - Len(wr.left) <= MaxSize
  <2>1. wr.pushed \in Nat /\ wr.total \in Nat /\ MaxSize \in Nat
    BY Numbers, Sizes
  <2> QED
    BY <1>2, <2>1
<1>4. tokens' \in Nat /\ tokens' <= tokens
  <2>1. tokens \in Nat
    BY DEF Counters
  <2> QED
    BY <2>1 DEF PushBlocked, PushFails, SelectTimeout, SelectCancelled, SelectReady, pipe
<1>5. \/ EndWrite("raised", 0, wr.pushed)
      \/ EndWrite("cancelled", wr.total - Len(wr.left), wr.pushed)
      \/ EndWrite("ok", wr.total, wr.pushed)
      \/ SelectReady /\ GoOn([wr EXCEPT !.pc = "push", !.left = Rest(wr)])
  BY DEF PushBlocked, PushFails, SelectTimeout, SelectCancelled, SelectReady
<1>6. CASE EndWrite("raised", 0, wr.pushed)
  BY <1>1, <1>3, <1>4, <1>6, BoundedEndsHere, CountersStay
<1>7. CASE EndWrite("cancelled", wr.total - Len(wr.left), wr.pushed)
  BY <1>1, <1>3, <1>4, <1>7, BoundedEndsHere, CountersStay
<1>8. CASE EndWrite("ok", wr.total, wr.pushed)
  BY <1>1, <1>2, <1>3, <1>4, <1>8, BoundedEndsHere, CountersStay
<1>9. CASE SelectReady /\ GoOn([wr EXCEPT !.pc = "push", !.left = Rest(wr)])
  <2>1. wr' = [wr EXCEPT !.pc = "push", !.left = Rest(wr)] /\ UNCHANGED result
    BY <1>9 DEF GoOn
  <2>2. /\ wr'.pc = "push" /\ wr'.total = wr.total /\ wr'.n = wr.n /\ wr'.pushed = wr.pushed
    <3>1. wr \in Writes
      BY <1>1, UnderWay
    <3> QED
      BY <2>1, <3>1 DEF Writes
  <2>3. Counters'
    BY <1>1, <1>4, <2>1, CountersStay
  <2>4. Bounded'
    BY <1>1, <2>2 DEF Bounded
  <2> QED
    BY <2>3, <2>4
<1> QED
  BY <1>5, <1>6, <1>7, <1>8, <1>9

LEMMA OverlappedBounds ==
  ASSUME FileInv, Counters, Bounded, WriteFile \/ WritePending
  PROVE  Counters' /\ Bounded'
<1>1. /\ wr.pc \in {"submit", "pending"}
      /\ UNCHANGED <<class, fed, calls, cancels, written>>
  BY DEF WriteFile, WritePending, config, source, pipe
<1>2. /\ Len(wr.left) \in Nat /\ Len(wr.left) <= wr.total /\ wr.pushed <= wr.total /\ wr.total <= MaxSize
      /\ \A i \in 1 .. Len(wr.left) : wr.left[i] >= 1
  BY <1>1, LeftOver
<1>3. /\ wr.pushed \in Nat /\ wr.total \in Nat /\ wr.pushed <= MaxSize /\ 0 <= MaxSize /\ MaxSize \in Nat
      /\ room \in Int /\ written \in Nat /\ sent \in Seq(Nat) /\ wr.left \in Seq(Nat)
  BY <1>2, Numbers, Sizes
<1>4. tokens' \in Nat /\ tokens' <= tokens
  <2>1. tokens \in Nat
    BY DEF Counters
  <2> QED
    BY <2>1 DEF WriteFile, WritePending, pipe
<1>5. \/ UNCHANGED <<room, sent>> /\ \E how \in Hows, count \in {0, wr.total, wr.pushed}, pushed \in {0, wr.pushed} :
                                       EndWrite(how, count, pushed)
      \/ /\ EndWrite("ok", wr.total, wr.total)
         /\ sent' = sent \o wr.left
         /\ room' = room - wr.total
      \/ GoOn([wr EXCEPT !.pc = "pending"]) /\ UNCHANGED <<room, sent>>
  BY DEF WriteFile, WritePending, Hows
<1>6. CASE UNCHANGED <<room, sent>> /\ \E how \in Hows, count \in {0, wr.total, wr.pushed}, pushed \in {0, wr.pushed} :
                                         EndWrite(how, count, pushed)
  <2>1. PICK how \in Hows, count \in {0, wr.total, wr.pushed}, pushed \in {0, wr.pushed} :
          EndWrite(how, count, pushed)
    BY <1>6
  <2>2. count \in Nat /\ pushed \in Nat /\ count <= MaxSize /\ pushed <= MaxSize
    BY <1>2, <1>3
  <2>3. Bounded' /\ result'.count <= MaxSize /\ result'.pushed <= MaxSize
    BY <1>1, <1>6, <2>1, <2>2, BoundedEndsHere
  <2> QED
    BY <1>1, <1>4, <2>3, CountersStay
<1>7. CASE /\ EndWrite("ok", wr.total, wr.total)
           /\ sent' = sent \o wr.left
           /\ room' = room - wr.total
  <2>1. \A i \in 1 .. Len(sent') : sent'[i] >= 1
    <3>1. \A i \in 1 .. Len(sent) : sent[i] >= 1
      BY DEF Bounded
    <3> QED
      BY <1>2, <1>3, <1>7, <3>1, SentAreBytes
  <2>2. room' \in Int /\ room' >= -written
    <3>1. room >= wr.total - written
      BY DEF Bounded
    <3> QED
      BY <1>3, <1>7, <3>1
  <2>3. Bounded' /\ result'.count <= MaxSize /\ result'.pushed <= MaxSize
    BY <1>1, <1>2, <1>3, <1>7, <2>1, <2>2, BoundedEnds
  <2> QED
    BY <1>1, <1>4, <2>3, CountersStay
<1>8. CASE GoOn([wr EXCEPT !.pc = "pending"]) /\ UNCHANGED <<room, sent>>
  <2>1. wr' = [wr EXCEPT !.pc = "pending"] /\ UNCHANGED result
    BY <1>8 DEF GoOn
  <2>2. /\ wr'.pc = "pending" /\ wr'.total = wr.total /\ wr'.n = wr.n /\ wr'.pushed = wr.pushed
    <3>1. wr \in Writes
      BY <1>1, UnderWay
    <3> QED
      BY <2>1, <3>1 DEF Writes
  <2>3. Bounded'
    BY <1>1, <1>8, <2>2 DEF Bounded
  <2> QED
    BY <1>1, <1>4, <2>1, <2>3, CountersStay
<1> QED
  BY <1>5, <1>6, <1>7, <1>8

LEMMA TransferBounds ==
  ASSUME FileInv, Counters, Bounded, Transfer
  PROVE  Counters' /\ Bounded'
<1>1. /\ wr.pc = "pending" /\ room > 0 /\ wr.left # <<>>
      /\ room' = room - 1
      /\ sent' = Append(sent, Head(wr.left))
      /\ wr' = [wr EXCEPT !.left = Tail(@), !.pushed = @ + 1]
      /\ UNCHANGED <<class, fed, calls, cancels, tokens, written, result>>
  BY DEF Transfer, config, source, pipe
<1>2. /\ Len(wr.left) \in Nat /\ \A i \in 1 .. Len(wr.left) : wr.left[i] >= 1
      /\ wr.total <= MaxSize
  BY <1>1, LeftOver
<1>3. /\ wr \in Writes /\ wr.left \in Seq(Nat) /\ sent \in Seq(Nat)
  BY <1>1, UnderWay
<1>4. /\ room \in Int /\ written \in Nat /\ wr.total \in Nat /\ wr.pushed \in Nat /\ wr.n \in Nat
      /\ wr.pushed + Len(wr.left) = wr.total
  BY <1>1, UnderWay
<1>5. Len(wr.left) \in Nat \ {0} /\ Head(wr.left) = wr.left[1] /\ Head(wr.left) \in Nat
      /\ Tail(wr.left) \in Seq(Nat)
  BY <1>1, <1>2, <1>3, EmptySeq, HeadTailProperties
<1>6. \A i \in 1 .. Len(sent') : sent'[i] >= 1
  <2> DEFINE d == <<Head(wr.left)>>
  <2>1. sent' = sent \o d
    BY <1>1, <1>3, <1>5, AppendIsConcat
  <2>2. Head(wr.left) >= 1
    BY <1>2, <1>5
  <2>3. d \in Seq(Nat) /\ \A i \in 1 .. Len(d) : d[i] >= 1
    BY <1>5, <2>2
  <2> HIDE DEF d
  <2>4. \A i \in 1 .. Len(sent) : sent[i] >= 1
    BY DEF Bounded
  <2> QED
    BY <1>3, <2>1, <2>3, <2>4, SentAreBytes
<1>7. /\ wr'.pc = "pending" /\ wr'.total = wr.total /\ wr'.n = wr.n /\ wr'.pushed = wr.pushed + 1
  BY <1>1, <1>3 DEF Writes
<1>8. wr.pushed + 1 <= MaxSize
  <2>1. Len(wr.left) \in Nat /\ Len(wr.left) >= 1 /\ MaxSize \in Nat
    BY <1>5, Sizes
  <2> QED
    BY <1>2, <1>4, <2>1
<1>9. room' >= wr.total - written
  <2>1. wr.total <= written
    BY DEF Bounded
  <2> QED
    BY <1>1, <1>4, <2>1
<1>10. Bounded'
  BY <1>1, <1>6, <1>7, <1>8, <1>9 DEF Bounded
<1>11. Counters'
  BY <1>1, CountersStay DEF Counters
<1> QED
  BY <1>10, <1>11

LEMMA CallsGrow ==
  ASSUME Counters, Bounded, written \in Nat, calls < MaxCalls, calls' = calls + 1, NEW n \in 0 .. MaxSize
  PROVE  /\ calls' \in Nat /\ calls' <= MaxCalls
         /\ written + n <= MaxSize * calls'
<1>1. calls \in Nat /\ MaxCalls \in Nat /\ MaxSize \in Nat
  BY Sizes DEF Counters
<1> DEFINE p == MaxSize * calls
<1>2. MaxSize * (calls + 1) = p + MaxSize
  BY <1>1
<1>3. p \in Int
  BY <1>1
<1>4. written <= p
  BY DEF Bounded
<1> HIDE DEF p
<1>5. written + n <= p + MaxSize
  BY <1>1, <1>3, <1>4
<1> QED
  BY <1>1, <1>2, <1>5

LEMMA StartBounds ==
  ASSUME FileInv, Counters, Bounded, StartRead \/ StartWrite
  PROVE  Counters' /\ Bounded'
<1>1. /\ calls < MaxCalls /\ calls' = calls + 1
      /\ UNCHANGED <<class, fed, cancels, tokens, result, room, sent>>
  BY DEF StartRead, StartWrite, config, source, pipe, output
<1>2. /\ MaxSize \in Nat /\ written \in Nat /\ room \in Int /\ wr.total \in Nat
  BY Numbers, Sizes
<1>3. Counters'
  <2>1. calls' \in Nat /\ calls' <= MaxCalls
    BY <1>1, <1>2, CallsGrow
  <2> QED
    BY <1>1, <2>1 DEF Counters
<1>4. CASE StartRead
  <2>1. UNCHANGED <<written, wr>>
    BY <1>4 DEF StartRead, output
  <2>3. written <= MaxSize * calls'
    <3>1. written + 0 <= MaxSize * calls'
      BY <1>1, <1>2, CallsGrow
    <3> QED
      BY <1>2, <3>1
  <2> QED
    BY <1>1, <1>3, <2>1, <2>3 DEF Bounded
<1>5. CASE StartWrite
  <2> DEFINE at == CASE class \in Polling \cup {"vtime"} -> "push"
                     [] class = "overlapped" -> "submit"
                     [] class \in Bytewise -> "pending"
  <2>1. PICK n \in 1 .. MaxSize :
          /\ wr' = [NoWrite EXCEPT !.pc = at, !.left = Numbered(written, n), !.total = n]
          /\ written' = written + n
    BY <1>5 DEF StartWrite
  <2>2. at \in {"push", "submit", "pending"}
    BY DEF FileInv, Shapes, Classes, Polling, Bytewise
  <2> HIDE DEF at
  <2>3. wr'.pc = at /\ wr'.total = n /\ wr'.n = 0 /\ wr'.pushed = 0
    BY <2>1 DEF NoWrite
  <2>4. n \in Nat /\ n <= MaxSize /\ n <= written + n
    BY <1>2
  <2>5. written + n <= MaxSize * calls'
    BY <1>1, <1>2, CallsGrow
  <2>6. room >= n - (written + n)
    <3>1. room >= wr.total - written
      BY DEF Bounded
    <3> QED
      BY <1>2, <2>4, <3>1
  <2>7. \A i \in 1 .. Len(sent) : sent[i] >= 1
    BY DEF Bounded
  <2>8. wr'.pc \notin {"idle", "flush", "drained"}
    BY <2>2, <2>3
  <2>9. wr'.total <= MaxSize /\ wr'.total <= written' /\ wr'.n <= MaxSize /\ wr'.pushed <= MaxSize
    BY <1>2, <2>1, <2>3, <2>4
  <2> QED
    BY <1>1, <1>3, <2>1, <2>3, <2>5, <2>6, <2>7, <2>8, <2>9 DEF Bounded
<1> QED
  BY <1>4, <1>5

(* The end of a write of an RS485, the device, the time and other threads.  *)
LEMMA OtherBounds ==
  ASSUME FileInv, Counters, Bounded,
         Flush \/ SwitchToReceive \/ Feed \/ Drain \/ Unplug \/ Expire \/ Reopen \/ ResetInput \/ Cancel
  PROVE  Counters' /\ Bounded'
<1>n. /\ fed \in Nat /\ room \in Int /\ tokens \in Nat /\ cancels \in Nat /\ calls \in Nat
      /\ written \in Nat /\ MaxSize \in Nat /\ wr \in Writes /\ wr.total \in Nat
  BY Numbers, Sizes DEF Counters, FileInv, Shapes, Writes
<1>1. CASE Flush \/ SwitchToReceive
  <2>1. /\ UNCHANGED <<class, fed, calls, cancels, tokens, written, room, sent>>
        /\ wr.pc \in {"flush", "drained"}
    BY <1>1 DEF Flush, SwitchToReceive, config, source, pipe
  <2>2. wr' = NoWrite \/ wr' = [wr EXCEPT !.pc = "drained"]
    BY <1>1 DEF Flush, SwitchToReceive
  <2>3. result'.count <= MaxSize /\ result'.pushed <= MaxSize
    <3>1. result.count <= MaxSize /\ result.pushed <= MaxSize
      BY DEF Counters
    <3>2. result' = result \/ result' = Result("raised", 0, result.pushed)
      BY <1>1 DEF Flush, SwitchToReceive
    <3> QED
      BY <1>n, <3>1, <3>2 DEF Result
  <2>4. Counters'
    BY <1>n, <2>1, <2>3, CountersStay
  <2>5. /\ wr'.left = <<>> /\ wr'.total <= wr.total /\ wr'.total \in Nat
        /\ wr'.n <= MaxSize /\ wr'.pushed <= MaxSize
    <3>1. wr.left = <<>> /\ wr.n <= MaxSize /\ wr.pushed <= MaxSize
      BY <2>1 DEF Bounded
    <3>2. CASE wr' = NoWrite
      BY <1>n, <3>2 DEF NoWrite
    <3>3. CASE wr' = [wr EXCEPT !.pc = "drained"]
      BY <1>n, <3>1, <3>3 DEF Writes
    <3> QED
      BY <2>2, <3>2, <3>3
  <2>6. wr'.total <= MaxSize /\ wr'.total <= written /\ room >= wr'.total - written
    <3>1. wr.total <= MaxSize /\ wr.total <= written /\ room >= wr.total - written
      BY DEF Bounded
    <3> QED
      BY <1>n, <2>5, <3>1
  <2>7. Bounded'
    BY <2>1, <2>5, <2>6 DEF Bounded
  <2> QED
    BY <2>4, <2>7
<1>2. CASE Feed
  <2>1. /\ fed < MaxFed /\ fed' = fed + 1
        /\ UNCHANGED <<class, calls, cancels, tokens, written, room, sent, wr, result>>
    BY <1>2 DEF Feed, config, output, pipe
  <2>2. fed' <= MaxFed
    BY <1>n, <2>1, Sizes
  <2> QED
    BY <2>1, <2>2 DEF Counters, Bounded
<1>3. CASE Drain
  <2>1. /\ room' = room + 1
        /\ UNCHANGED <<class, fed, calls, cancels, tokens, written, sent, wr, result>>
    BY <1>3 DEF Drain, config, source, pipe
  <2>2. room' \in Int /\ room' >= room
    BY <1>n, <2>1
  <2>3. Counters'
    BY <1>n, <2>1, CountersStay
  <2> QED
    BY <2>1, <2>2, <2>3, BoundedStays
<1>4. CASE Unplug
  <2>1. UNCHANGED <<class, fed, calls, cancels, tokens, written, room, sent, wr, result>>
    BY <1>4 DEF Unplug, config, output, pipe
  <2> QED
    BY <2>1 DEF Counters, Bounded
<1>5. CASE Expire
  <2>1. /\ UNCHANGED <<class, fed, calls, cancels, tokens, written, room, sent, result>>
        /\ wr' = wr \/ wr' = [wr EXCEPT !.late = TRUE]
    BY <1>5 DEF Expire, config, source, pipe
  <2>2. /\ wr'.pc = wr.pc /\ wr'.left = wr.left /\ wr'.total = wr.total /\ wr'.n = wr.n
        /\ wr'.pushed = wr.pushed
    BY <1>n, <2>1 DEF Writes
  <2> QED
    BY <2>1, <2>2 DEF Counters, Bounded
<1>6. CASE Reopen \/ ResetInput \/ Cancel
  <2>1. UNCHANGED <<class, fed, calls, written, room, sent, wr, result>>
    BY <1>6 DEF Reopen, ResetInput, Cancel, config, source, output
  <2>2. /\ cancels' \in Nat /\ cancels' <= MaxCancels
        /\ tokens' \in Nat /\ (class = "overlapped" => tokens' <= 1)
        /\ (class # "overlapped" => tokens' <= cancels')
    <3>1. /\ cancels <= MaxCancels /\ (class = "overlapped" => tokens <= 1)
          /\ (class # "overlapped" => tokens <= cancels)
      BY DEF Counters
    <3>2. CASE Reopen
      <4>1. tokens' = 0 /\ cancels' = cancels
        BY <3>2 DEF Reopen
      <4> QED
        BY <1>n, <3>1, <4>1
    <3>3. CASE ResetInput
      <4>1. cancels' = cancels /\ tokens' = IF class = "overlapped" /\ Pending THEN 1 ELSE tokens
        BY <3>3 DEF ResetInput
      <4> QED
        BY <1>n, <3>1, <4>1
    <3>4. CASE Cancel
      <4>1. /\ cancels < MaxCancels /\ cancels' = cancels + 1
            /\ class # "overlapped" => tokens' = tokens + 1
            /\ class = "overlapped" => tokens' \in {1, tokens}
        BY <3>4 DEF Cancel, CancelToken
      <4> QED
        BY <1>n, <3>1, <4>1, Sizes
    <3> QED
      BY <1>6, <3>2, <3>3, <3>4
  <2> QED
    BY <2>1, <2>2 DEF Counters, Bounded
<1> QED
  BY <1>1, <1>2, <1>3, <1>4, <1>5, <1>6
-----------------------------------------------------------------------------
(* All bytes that are not lost, in the order of their way: what reads have  *)
(* returned, what the read under way has, and the input buffer.             *)
Arrived == Parts(returned, rd.data, input)
InShape(r) ==
  /\ r.pc \in {"idle", "submit", "pending"} => r.data = <<>>
  /\ r.pc = "byte" => Len(r.data) < r.size

Kept ==
  /\ returned \in Seq(Nat)
  /\ rd.size <= MaxSize /\ Len(rd.data) <= rd.size /\ InShape(rd)
  /\ Increasing(Arrived)
  /\ \A i \in 1 .. Len(Arrived) : Arrived[i] \in 1 .. fed
  /\ ~discarded => Arrived = Numbered(0, fed)

(* A step of a read takes the first bytes of the input, if any, and gives   *)
(* them to the read or, with what it has, to the caller; or it raises.      *)
Carries(m) ==
  /\ input' \in Seq(Nat) /\ input = m \o input'
  /\ \/ Return(rd.data \o m) /\ Len(rd.data \o m) <= rd.size
     \/ \E r \in Reads : /\ Continue(r) /\ r.data = rd.data \o m
                         /\ r.size <= rd.size /\ Len(r.data) <= r.size /\ InShape(r)
     \/ Raise /\ m = <<>>

LEMMA KeptInit == Init => Kept
<1> SUFFICES ASSUME Init PROVE Kept
  OBVIOUS
<1>1. returned = <<>> /\ rd = NoRead /\ input = <<>> /\ fed = 0 /\ NoRead.data = <<>> /\ NoRead.size = 0
  BY DEF Init, NoRead
<1>2. Arrived = <<>>
  BY <1>1 DEF Arrived, Parts
<1>3. Increasing(<<>>) /\ Len(<<>>) = 0
  BY DEF Increasing
<1>4. Numbered(0, 0) = <<>>
  <2>1. Numbered(0, 0) \in Seq(Nat) /\ Len(Numbered(0, 0)) = 0
    BY InNumbers
  <2> QED
    BY <2>1, EmptySeq
<1>5. InShape(rd) /\ 0 <= MaxSize /\ returned \in Seq(Nat)
  <2>1. rd.pc = "idle" /\ rd.data = <<>>
    BY <1>1 DEF NoRead
  <2> QED
    BY <1>1, <2>1, Sizes DEF InShape
<1> QED
  BY <1>1, <1>2, <1>3, <1>4, <1>5 DEF Kept

(* The same bytes in other places.                                          *)
LEMMA KeptMoves ==
  ASSUME Kept, UNCHANGED <<fed, discarded>>, Arrived' = Arrived,
         returned' \in Seq(Nat), rd'.size <= MaxSize, Len(rd'.data) <= rd'.size, InShape(rd')
  PROVE  Kept'
BY DEF Kept, InShape

(* Bytes of the read, or of the input, are dropped.                         *)
LEMMA KeptDrops ==
  ASSUME FileInv, Kept, fed' = fed, discarded',
         NEW s \in Seq(Nat), NEW d \in Seq(Nat), NEW t \in Seq(Nat),
         Arrived = (s \o d) \o t, Arrived' = s \o t,
         returned' \in Seq(Nat), rd'.size <= MaxSize, Len(rd'.data) <= rd'.size, InShape(rd')
  PROVE  Kept'
<1> DEFINE now == (s \o d) \o t
           then == s \o t
<1>1. Increasing(now) /\ \A i \in 1 .. Len(now) : now[i] \in 1 .. fed
  BY DEF Kept
<1>2. Increasing(then) /\ \A i \in 1 .. Len(then) : then[i] \in 1 .. fed
  BY <1>1, Dropped
<1> HIDE DEF now, then
<1>3. Arrived' = then
  BY DEF then
<1> QED
  BY <1>2, <1>3 DEF Kept, InShape

LEMMA CarriesKeeps ==
  ASSUME FileInv, Kept, fed' = fed, NEW m \in Seq(Nat), Carries(m)
  PROVE  /\ Kept'
         /\ UNCHANGED result \/ (result'.count <= MaxSize /\ result'.pushed <= MaxSize)
<1>1. /\ rd \in Reads /\ rd.data \in Seq(Nat) /\ input \in Seq(Nat) /\ rd.size \in Nat
      /\ returned \in Seq(Nat) /\ MaxSize \in Nat
  BY Numbers, Sizes DEF Kept, FileInv, Shapes, Reads
<1>2. input' \in Seq(Nat) /\ input = m \o input'
  BY DEF Carries
<1> DEFINE dm == rd.data \o m
<1>3. /\ dm \in Seq(Nat) /\ returned \o dm \in Seq(Nat)
      /\ Parts(returned, dm, input') = Arrived
      /\ Parts(returned \o dm, <<>>, input') = Arrived
  <2>1. dm \in Seq(Nat) /\ Parts(returned, dm, input') = Arrived
    BY <1>1, <1>2, MovedToRead DEF Arrived
  <2> HIDE DEF dm
  <2> QED
    BY <1>1, <2>1, MovedToCaller
<1>4. rd.size <= MaxSize
  BY DEF Kept
<1>5. /\ NoRead.data = <<>> /\ NoRead.size = 0 /\ Len(NoRead.data) <= 0 /\ 0 <= MaxSize /\ InShape(NoRead)
  BY <1>1 DEF NoRead, InShape
<1> HIDE DEF dm
<1>6. CASE Return(rd.data \o m) /\ Len(rd.data \o m) <= rd.size
  <2>1. returned' = returned \o dm /\ rd' = NoRead /\ result' = Result("ok", Len(dm), 0) /\ UNCHANGED discarded
    BY <1>6 DEF Return, dm
  <2>2. Arrived' = Parts(returned \o dm, <<>>, input')
    BY <1>5, <2>1 DEF Arrived
  <2>3. Kept'
    BY <1>3, <1>5, <2>1, <2>2, KeptMoves
  <2>4. Len(dm) <= MaxSize
    <3>1. Len(dm) \in Nat /\ Len(dm) <= rd.size
      BY <1>3, <1>6, LenProperties DEF dm
    <3> QED
      BY <1>1, <1>4, <3>1
  <2>5. result'.count = Len(dm) /\ result'.pushed = 0
    BY <2>1 DEF Result
  <2> QED
    BY <1>5, <2>3, <2>4, <2>5
<1>7. CASE \E r \in Reads : /\ Continue(r) /\ r.data = rd.data \o m
                            /\ r.size <= rd.size /\ Len(r.data) <= r.size /\ InShape(r)
  <2>1. PICK r \in Reads : /\ Continue(r) /\ r.data = dm
                           /\ r.size <= rd.size /\ Len(r.data) <= r.size /\ InShape(r)
    BY <1>7 DEF dm
  <2>2. rd' = r /\ UNCHANGED <<returned, discarded, result>>
    BY <2>1 DEF Continue
  <2>3. Arrived' = Parts(returned, dm, input')
    BY <2>1, <2>2 DEF Arrived
  <2>4. r.size <= MaxSize
    <3>1. r.size \in Nat
      BY <2>1 DEF Reads
    <3> QED
      BY <1>1, <1>4, <2>1, <3>1
  <2>5. Kept'
    BY <1>1, <1>3, <2>1, <2>2, <2>3, <2>4, KeptMoves
  <2> QED
    BY <2>2, <2>5
<1>8. CASE Raise /\ m = <<>>
  <2>1. /\ discarded' = (discarded \/ rd.data # <<>>)
        /\ rd' = NoRead /\ result' = Result("raised", 0, 0) /\ returned' = returned
    BY <1>8 DEF Raise
  <2>2. input' = input
    BY <1>2, <1>8, ConcatEmptySeq
  <2>3. Arrived' = returned \o input
    <3>1. returned \o <<>> = returned
      BY <1>1, ConcatEmptySeq
    <3> QED
      BY <1>5, <2>1, <2>2, <3>1 DEF Arrived, Parts
  <2>4. Kept'
    <3>1. CASE discarded'
      <4>1. Arrived = (returned \o rd.data) \o input
        BY DEF Arrived, Parts
      <4> QED
        BY <1>1, <1>5, <2>1, <2>3, <3>1, <4>1, KeptDrops
    <3>2. CASE ~discarded'
      <4>1. rd.data = <<>> /\ ~discarded
        BY <2>1, <3>2
      <4>2. returned \o rd.data = returned
        BY <1>1, <4>1, ConcatEmptySeq
      <4>3. Arrived' = Arrived
        BY <2>3, <4>2 DEF Arrived, Parts
      <4> QED
        BY <1>1, <1>5, <2>1, <4>3, <4>1, <3>2 DEF Kept, InShape
    <3> QED
      BY <3>1, <3>2
  <2>5. result'.count = 0 /\ result'.pushed = 0
    BY <2>1 DEF Result
  <2> QED
    BY <1>5, <2>4, <2>5
<1> QED
  BY <1>6, <1>7, <1>8 DEF Carries

(* A step that takes nothing.                                               *)
LEMMA CarriesNothing ==
  ASSUME FileInv, Kept, UNCHANGED input,
         \/ Return(rd.data) \/ Raise
         \/ \E r \in Reads : /\ Continue(r) /\ r.data = rd.data
                             /\ r.size <= rd.size /\ Len(r.data) <= r.size /\ InShape(r)
  PROVE  Carries(<<>>)
<1>1. /\ rd.data \in Seq(Nat) /\ input \in Seq(Nat) /\ Len(rd.data) <= rd.size
  BY Numbers DEF Kept
<1>2. rd.data \o <<>> = rd.data /\ <<>> \o input = input
  BY <1>1, ConcatEmptySeq
<1> QED
  BY <1>1, <1>2 DEF Carries

(* The end of the loop's body, with the first bytes of the input, if any.   *)
LEMMA AfterTakeCarries ==
  ASSUME FileInv, Kept, NEW m \in Seq(Nat), NEW r \in Reads, AfterTake(r),
         r.data = rd.data \o m, Len(rd.data \o m) <= rd.size, r.size = rd.size,
         input' \in Seq(Nat), input = m \o input'
  PROVE  Carries(m)
<1> DEFINE q == [r EXCEPT !.pc = IF class = "vtime" THEN "take" ELSE "wait"]
<1>1. q \in Reads /\ q.data = r.data /\ q.size = r.size /\ q.pc \in {"take", "wait"}
  BY DEF Reads, ReadAt
<1>2. Return(r.data) \/ Continue(q)
  BY DEF AfterTake
<1>3. rd.size \in Nat
  BY Numbers
<1> HIDE DEF q
<1>4. InShape(q)
  BY <1>1 DEF InShape
<1>5. CASE Return(r.data)
  BY <1>5 DEF Carries
<1>6. CASE Continue(q)
  <2>1. q.size <= rd.size /\ Len(q.data) <= q.size /\ q.data = rd.data \o m
    BY <1>1, <1>3
  <2>2. \E x \in Reads : /\ Continue(x) /\ x.data = rd.data \o m
                         /\ x.size <= rd.size /\ Len(x.data) <= x.size /\ InShape(x)
    BY <1>1, <1>4, <1>6, <2>1
  <2> QED
    BY <2>2 DEF Carries
<1> QED
  BY <1>2, <1>5, <1>6

(* The first bytes of the input are what a system call gives.               *)
LEMMA TakesFirst ==
  ASSUME NEW s \in Seq(Nat), NEW n \in 0 .. Len(s)
  PROVE  /\ SubSeq(s, 1, n) \in Seq(Nat) /\ SubSeq(s, n + 1, Len(s)) \in Seq(Nat)
         /\ Len(SubSeq(s, 1, n)) = n
         /\ s = SubSeq(s, 1, n) \o SubSeq(s, n + 1, Len(s))
<1> DEFINE f == SubSeq(s, 1, n)
           t == SubSeq(s, n + 1, Len(s))
<1>1. Len(s) \in Nat
  BY LenProperties
<1>2. /\ f \in Seq(Nat) /\ Len(f) = n /\ \A i \in 1 .. n : f[i] = s[i]
      /\ t \in Seq(Nat) /\ Len(t) = Len(s) - n
      /\ \A i \in 1 .. Len(s) - n : t[i] = s[n + i]
  BY Cut
<1> HIDE DEF f, t
<1>3. /\ f \o t \in Seq(Nat) /\ Len(f \o t) = Len(f) + Len(t)
      /\ \A i \in 1 .. Len(f) + Len(t) : (f \o t)[i] = IF i <= Len(f) THEN f[i] ELSE t[i - Len(f)]
  BY <1>2, ConcatProperties
<1>4. Len(f \o t) = Len(s) /\ \A i \in 1 .. Len(s) : s[i] = (f \o t)[i]
  <2>1. Len(f \o t) = Len(s)
    BY <1>1, <1>2, <1>3
  <2>2. ASSUME NEW i \in 1 .. Len(s) PROVE s[i] = (f \o t)[i]
    <3>1. CASE i <= n
      BY <1>1, <1>2, <1>3, <3>1
    <3>2. CASE ~(i <= n)
      <4>1. i - n \in 1 .. Len(s) - n /\ n + (i - n) = i /\ i \in 1 .. Len(f) + Len(t)
        BY <1>1, <1>2, <3>2
      <4>2. t[i - n] = s[i]
        BY <1>2, <4>1
      <4> QED
        BY <1>2, <1>3, <3>2, <4>1, <4>2
    <3> QED
      BY <3>1, <3>2
  <2> QED
    BY <2>1, <2>2
<1>5. s = f \o t
  BY <1>3, <1>4, SeqEqual
<1> QED
  BY <1>2, <1>5 DEF f, t

LEMMA WaitCarries ==
  ASSUME FileInv, Kept, WaitCancelled \/ WaitReady \/ WaitTimeout \/ TakeNothing \/ TakeBlocked \/ NoByte
  PROVE  Carries(<<>>)
<1>1. /\ rd \in Reads /\ rd.data \in Seq(Nat) /\ rd.size \in Nat /\ Len(rd.data) <= rd.size
      /\ input' = input /\ input \in Seq(Nat)
  BY Numbers DEF Kept, FileInv, Shapes, Reads, WaitCancelled, WaitReady, WaitTimeout, TakeNothing,
                 TakeBlocked, NoByte, source
<1>2. rd.data \o <<>> = rd.data /\ <<>> \o input = input
  BY <1>1, ConcatEmptySeq
<1>3. rd.pc = "take" => class \in Polling \cup {"vtime"}
  BY DEF FileInv, Places
<1>4. \/ Return(rd.data) \/ Raise \/ AfterTake(rd)
      \/ \E b \in BOOLEAN : Continue([rd EXCEPT !.pc = "take", !.bound = b, !.reset = FALSE])
  <2>1. CASE WaitCancelled \/ NoByte
    BY <2>1 DEF WaitCancelled, NoByte
  <2>2. CASE WaitReady
    BY <2>2 DEF WaitReady
  <2>3. CASE WaitTimeout
    <3>1. /\ [rd EXCEPT !.pc = "take", !.reset = FALSE]
               = [rd EXCEPT !.pc = "take", !.bound = rd.bound, !.reset = FALSE]
          /\ rd.bound \in BOOLEAN
      BY <1>1 DEF Reads
    <3>2. Return(rd.data) \/ Raise \/ Continue([rd EXCEPT !.pc = "take", !.reset = FALSE])
      BY <2>3 DEF WaitTimeout
    <3>3. CASE Continue([rd EXCEPT !.pc = "take", !.reset = FALSE])
      <4>1. Continue([rd EXCEPT !.pc = "take", !.bound = rd.bound, !.reset = FALSE])
        BY <3>1, <3>3
      <4> QED
        BY <3>1, <4>1
    <3> QED
      BY <3>2, <3>3
  <2>4. CASE TakeNothing
    BY <1>3, <2>4 DEF TakeNothing, Polling
  <2>5. CASE TakeBlocked
    BY <1>3, <2>5 DEF TakeBlocked, Polling
  <2> QED
    BY <2>1, <2>2, <2>3, <2>4, <2>5
<1>5. CASE Return(rd.data) \/ Raise
  BY <1>1, <1>5, CarriesNothing
<1>6. CASE AfterTake(rd)
  <2> DEFINE m == <<>>
  <2>1. /\ m \in Seq(Nat) /\ rd.data = rd.data \o m /\ Len(rd.data \o m) <= rd.size
        /\ input' \in Seq(Nat) /\ input = m \o input'
    BY <1>1, <1>2
  <2> HIDE DEF m
  <2>2. Carries(m)
    BY <1>1, <1>6, <2>1, AfterTakeCarries
  <2> QED
    BY <2>2 DEF m
<1>7. CASE \E b \in BOOLEAN : Continue([rd EXCEPT !.pc = "take", !.bound = b, !.reset = FALSE])
  <2>1. PICK b \in BOOLEAN : Continue([rd EXCEPT !.pc = "take", !.bound = b, !.reset = FALSE])
    BY <1>7
  <2> DEFINE r == [rd EXCEPT !.pc = "take", !.bound = b, !.reset = FALSE]
  <2>2. r \in Reads /\ r.pc = "take" /\ r.data = rd.data /\ r.size = rd.size
    BY <1>1 DEF Reads, ReadAt
  <2>3. Continue(r)
    BY <2>1
  <2> HIDE DEF r
  <2>4. InShape(r) /\ r.size <= rd.size /\ Len(r.data) <= r.size
    BY <1>1, <2>2 DEF InShape
  <2> QED
    BY <1>1, <2>2, <2>3, <2>4, CarriesNothing
<1> QED
  BY <1>4, <1>5, <1>6, <1>7

LEMMA TakeCarries ==
  ASSUME FileInv, Kept, Take
  PROVE  \E m \in Seq(Nat) : Carries(m)
<1>1. PICK n \in 1 .. Min({Wanted, Len(input)}) :
        /\ AfterTake([rd EXCEPT !.data = @ \o SubSeq(input, 1, n)])
        /\ input' = SubSeq(input, n + 1, Len(input))
  BY DEF Take
<1>2. /\ rd \in Reads /\ rd.data \in Seq(Nat) /\ Len(rd.data) \in Nat /\ rd.size \in Nat
      /\ input \in Seq(Nat) /\ Len(input) \in Nat
  BY Numbers, LenProperties DEF FileInv, Shapes, Reads
<1>3. n \in 0 .. Len(input) /\ Len(rd.data) + n <= rd.size
  <2>1. Wanted \in Int /\ Len(input) \in Int
    BY <1>2 DEF Wanted
  <2>2. /\ Min({Wanted, Len(input)}) \in Int /\ Min({Wanted, Len(input)}) <= Len(input)
        /\ Min({Wanted, Len(input)}) <= Wanted
    BY <2>1, MinOfTwo
  <2>3. n \in Int /\ 1 <= n /\ n <= Len(input) /\ n <= Wanted
    BY <2>1, <2>2
  <2> QED
    BY <1>2, <2>3 DEF Wanted
<1> DEFINE m == SubSeq(input, 1, n)
           r == [rd EXCEPT !.data = @ \o m]
<1>4. m \in Seq(Nat) /\ Len(m) = n /\ input' \in Seq(Nat) /\ input = m \o input'
  BY <1>1, <1>2, <1>3, TakesFirst
<1>5. AfterTake(r)
  BY <1>1
<1> HIDE DEF m
<1>6. rd.data \o m \in Seq(Nat) /\ Len(rd.data \o m) = Len(rd.data) + n
  BY <1>2, <1>4, ConcatProperties
<1>7. r \in Reads /\ r.data = rd.data \o m /\ r.size = rd.size
  BY <1>2, <1>6 DEF Reads
<1> HIDE DEF r
<1>8. Carries(m)
  BY <1>3, <1>4, <1>5, <1>6, <1>7, AfterTakeCarries
<1> QED
  BY <1>4, <1>8

LEMMA OverlappedCarries ==
  ASSUME FileInv, Kept, ReadFile \/ ReadPending
  PROVE  \E m \in Seq(Nat) : Carries(m)
<1>1. /\ rd \in Reads /\ rd.size \in Nat /\ input \in Seq(Nat) /\ Len(input) \in Nat
      /\ <<>> \in Seq(Nat)
  BY Numbers, LenProperties DEF FileInv, Shapes, Reads
<1>2. rd.data = <<>>
  BY DEF Kept, InShape, ReadFile, ReadPending
<1>s. /\ Min({rd.size, Len(input)}) \in Nat /\ Min({rd.size, Len(input)}) <= rd.size
      /\ Min({rd.size, Len(input)}) \in 0 .. Len(input)
  <2>1. rd.size \in Int /\ Len(input) \in Int
    BY <1>1
  <2>2. /\ Min({rd.size, Len(input)}) <= rd.size /\ Min({rd.size, Len(input)}) <= Len(input)
        /\ Min({rd.size, Len(input)}) \in {rd.size, Len(input)}
    BY <2>1, MinOfTwo
  <2> QED
    BY <1>1, <2>2
<1>3. CASE ReadFile
  <2> DEFINE n == IF timeout = "zero" THEN Min({rd.size, Len(input)}) ELSE rd.size
             r == [rd EXCEPT !.pc = "pending", !.size = n]
  <2>1. n \in Nat /\ n <= rd.size
    BY <1>1, <1>s
  <2>2. Raise \/ Return(<<>>) \/ Continue(r)
    BY <1>3 DEF ReadFile
  <2>3. input' = input
    BY <1>3 DEF ReadFile, source
  <2> HIDE DEF n
  <2>4. r \in Reads /\ r.data = <<>> /\ r.size = n /\ r.pc = "pending"
    BY <1>1, <1>2, <2>1 DEF Reads, ReadAt
  <2> HIDE DEF r
  <2>5. InShape(r) /\ Len(r.data) <= r.size
    BY <2>1, <2>4 DEF InShape
  <2>6. Carries(<<>>)
    BY <1>2, <2>1, <2>2, <2>3, <2>4, <2>5, CarriesNothing
  <2> QED
    BY <1>1, <2>6
<1>4. CASE ReadPending /\ UNCHANGED input /\ Raise
  BY <1>1, <1>4, CarriesNothing
<1>5. CASE LET n == Min({rd.size, Len(input)}) IN
             /\ Return(SubSeq(input, 1, n))
             /\ input' = SubSeq(input, n + 1, Len(input))
  <2> DEFINE n == Min({rd.size, Len(input)})
             m == SubSeq(input, 1, n)
  <2>1. n \in 0 .. Len(input) /\ n <= rd.size
    BY <1>s
  <2>2. Return(m) /\ input' = SubSeq(input, n + 1, Len(input))
    BY <1>5
  <2> HIDE DEF n
  <2>3. m \in Seq(Nat) /\ Len(m) = n /\ input' \in Seq(Nat) /\ input = m \o input'
    BY <1>1, <2>1, <2>2, TakesFirst
  <2> HIDE DEF m
  <2>4. rd.data \o m = m
    BY <1>2, <2>3, ConcatEmptySeq
  <2>5. Carries(m)
    BY <2>1, <2>2, <2>3, <2>4 DEF Carries
  <2> QED
    BY <2>3, <2>5
<1> QED
  BY <1>3, <1>4, <1>5 DEF ReadPending

LEMMA FirstOfAll ==
  ASSUME NEW s \in Seq(Nat), NEW one \in Seq(Nat), NEW t \in Seq(Nat), Len(s) \in Nat \ {0},
         Len(one) = 1, one[1] = s[1], Len(t) = Len(s) - 1,
         \A i \in 1 .. Len(t) : t[i] = s[i + 1]
  PROVE  s = one \o t
<1>1. /\ one \o t \in Seq(Nat) /\ Len(one \o t) = Len(one) + Len(t)
      /\ \A i \in 1 .. Len(one) + Len(t) : (one \o t)[i] = IF i <= Len(one) THEN one[i] ELSE t[i - Len(one)]
  BY ConcatProperties
<1>2. Len(one \o t) = Len(s)
  BY <1>1
<1>3. ASSUME NEW i \in 1 .. Len(s) PROVE s[i] = (one \o t)[i]
  <2>1. CASE i = 1
    BY <1>1, <2>1
  <2>2. CASE i # 1
    <3>1. i - 1 \in 1 .. Len(t) /\ (i - 1) + 1 = i /\ i \in 1 .. Len(one) + Len(t) /\ ~(i <= 1)
      BY <2>2
    <3> QED
      BY <1>1, <3>1
  <2> QED
    BY <2>1, <2>2
<1> QED
  BY <1>1, <1>2, <1>3, SeqEqual

LEMMA ByteCarries ==
  ASSUME FileInv, Kept, ReadByte
  PROVE  \E m \in Seq(Nat) : Carries(m)
<1>1. /\ rd \in Reads /\ rd.data \in Seq(Nat) /\ rd.size \in Nat /\ rd.pc = "byte"
      /\ input \in Seq(Nat) /\ input # <<>> /\ Len(rd.data) \in Nat /\ Len(rd.data) <= rd.size
  BY Numbers, LenProperties DEF Kept, FileInv, Shapes, Reads, ReadByte
<1>2. /\ Head(input) \in Nat /\ Tail(input) \in Seq(Nat) /\ input = <<Head(input)>> \o Tail(input)
  <2>1. input \in Seq(Nat) /\ input # <<>>
    BY <1>1
  <2>2. Head(input) \in Nat /\ Tail(input) \in Seq(Nat) /\ Len(Tail(input)) = Len(input) - 1
        /\ \A i \in 1 .. Len(Tail(input)) : Tail(input)[i] = input[i + 1]
    BY <2>1, HeadTailProperties
  <2>3. Len(input) \in Nat \ {0} /\ Head(input) = input[1]
    BY <2>1, EmptySeq, LenProperties
  <2> DEFINE h == Head(input)
             t == Tail(input)
             one == <<h>>
  <2>4. one \in Seq(Nat) /\ Len(one) = 1 /\ one[1] = h
    BY <2>2
  <2>5. t \in Seq(Nat) /\ Len(t) = Len(input) - 1 /\ h = input[1] /\ \A i \in 1 .. Len(t) : t[i] = input[i + 1]
    BY <2>2, <2>3
  <2> HIDE DEF h, t, one
  <2>8. input = one \o t
    BY <2>1, <2>3, <2>4, <2>5, FirstOfAll
  <2> QED
    BY <2>2, <2>8 DEF one, h, t
<1> DEFINE m == <<Head(input)>>
           data == Append(rd.data, Head(input))
           r == [rd EXCEPT !.data = data, !.late = FALSE]
<1>3. m \in Seq(Nat) /\ data = rd.data \o m /\ Len(data) = Len(rd.data) + 1 /\ data \in Seq(Nat)
  BY <1>1, <1>2, AppendIsConcat, AppendProperties
<1>4. input' \in Seq(Nat) /\ input = m \o input'
  BY <1>2 DEF ReadByte
<1>5. \/ Len(data) = rd.size /\ Return(data)
      \/ Len(data) # rd.size /\ Continue(r)
  BY DEF ReadByte
<1> HIDE DEF m, data
<1>6. r \in Reads /\ r.data = data /\ r.size = rd.size /\ r.pc = "byte"
  BY <1>1, <1>3 DEF Reads
<1> HIDE DEF r
<1>7. CASE Len(data) = rd.size /\ Return(data)
  <2>1. Carries(m)
    BY <1>1, <1>3, <1>4, <1>7 DEF Carries
  <2> QED
    BY <1>3, <2>1
<1>8. CASE Len(data) # rd.size /\ Continue(r)
  <2>1. Len(data) <= rd.size
    <3>1. Len(rd.data) < rd.size
      BY <1>1 DEF Kept, InShape
    <3> QED
      BY <1>1, <1>3, <3>1
  <2>2. Len(data) < rd.size /\ InShape(r)
    <3>1. Len(data) < rd.size
      BY <1>1, <1>3, <1>8, <2>1
    <3> QED
      BY <1>6, <3>1 DEF InShape
  <2>3. r.size <= rd.size /\ Len(r.data) <= r.size /\ r.data = rd.data \o m
    BY <1>1, <1>3, <1>6, <2>1
  <2>4. \E x \in Reads : /\ Continue(x) /\ x.data = rd.data \o m
                         /\ x.size <= rd.size /\ Len(x.data) <= x.size /\ InShape(x)
    BY <1>6, <1>8, <2>2, <2>3
  <2>5. Carries(m)
    BY <1>4, <2>4 DEF Carries
  <2> QED
    BY <1>3, <2>5
<1> QED
  BY <1>5, <1>7, <1>8

LEMMA ReadBytes ==
  ASSUME FileInv, Kept, Counters, Bounded, ReadStep
  PROVE  Kept' /\ Counters' /\ Bounded'
<1>1. \E m \in Seq(Nat) : Carries(m)
  <2>1. <<>> \in Seq(Nat)
    OBVIOUS
  <2> QED
    BY <2>1, WaitCarries, TakeCarries, OverlappedCarries, ByteCarries DEF ReadStep
<1>2. /\ UNCHANGED <<class, fed, calls, cancels, written, room, sent, wr>>
      /\ tokens' \in {tokens, 0}
  BY DEF ReadStep, WaitCancelled, WaitReady, WaitTimeout, Take, TakeNothing, TakeBlocked,
         ReadFile, ReadPending, ReadByte, NoByte, config, output, source, pipe
<1>3. /\ Kept'
      /\ UNCHANGED result \/ (result'.count <= MaxSize /\ result'.pushed <= MaxSize)
  BY <1>1, <1>2, CarriesKeeps
<1>4. tokens' \in Nat /\ tokens' <= tokens
  BY <1>2 DEF Counters
<1>5. Counters'
  BY <1>2, <1>3, <1>4, CountersStay
<1>6. Bounded'
  BY <1>2 DEF Bounded
<1> QED
  BY <1>3, <1>5, <1>6

(* The input buffer is emptied.                                             *)
LEMMA ResetKeeps ==
  ASSUME FileInv, Kept, UNCHANGED <<fed, returned>>, input' = <<>>, discarded',
         rd'.pc = rd.pc, rd'.data = rd.data, rd'.size = rd.size
  PROVE  Kept'
<1> DEFINE s == returned \o rd.data
<1>1. /\ returned \in Seq(Nat) /\ rd.data \in Seq(Nat) /\ input \in Seq(Nat) /\ <<>> \in Seq(Nat)
      /\ rd.size <= MaxSize /\ Len(rd.data) <= rd.size /\ InShape(rd)
  BY Numbers DEF Kept
<1>2. s \in Seq(Nat)
  BY <1>1, ConcatProperties
<1>3. Arrived = s \o input /\ Arrived' = s \o <<>>
  BY DEF Arrived, Parts
<1> HIDE DEF s
<1>4. s \o input \in Seq(Nat) /\ (s \o input) \o <<>> = s \o input
  <2> DEFINE q == s \o input
  <2>1. q \in Seq(Nat)
    BY <1>1, <1>2, ConcatProperties
  <2> HIDE DEF q
  <2>2. q \o <<>> = q
    BY <2>1, ConcatEmptySeq
  <2> QED
    BY <2>1, <2>2 DEF q
<1>5. Arrived = (s \o input) \o <<>>
  BY <1>3, <1>4
<1> DEFINE e == <<>>
<1>6. e \in Seq(Nat) /\ Arrived = (s \o input) \o e /\ Arrived' = s \o e
  BY <1>1, <1>3, <1>5
<1> HIDE DEF e
<1>7. InShape(rd')
  BY <1>1 DEF InShape
<1> QED
  BY <1>1, <1>2, <1>6, <1>7, KeptDrops

LEMMA AppendedLast ==
  ASSUME NEW s \in Seq(Nat), NEW i \in Seq(Nat), NEW e \in Nat
  PROVE  s \o Append(i, e) = Append(s \o i, e)
<1> DEFINE ie == Append(i, e)
           si == s \o i
<1>1. /\ ie \in Seq(Nat) /\ Len(ie) = Len(i) + 1
      /\ \A j \in 1 .. Len(i) : ie[j] = i[j]
      /\ ie[Len(i) + 1] = e
  BY AppendProperties
<1>2. /\ si \in Seq(Nat) /\ Len(si) = Len(s) + Len(i)
      /\ \A j \in 1 .. Len(s) + Len(i) : si[j] = IF j <= Len(s) THEN s[j] ELSE i[j - Len(s)]
  BY ConcatProperties
<1> HIDE DEF ie, si
<1>3. Len(s) \in Nat /\ Len(i) \in Nat
  BY LenProperties
<1> DEFINE l == s \o ie
           r == Append(si, e)
<1>4. /\ l \in Seq(Nat) /\ Len(l) = Len(s) + Len(ie)
      /\ \A j \in 1 .. Len(s) + Len(ie) : l[j] = IF j <= Len(s) THEN s[j] ELSE ie[j - Len(s)]
  BY <1>1, ConcatProperties
<1>5. /\ r \in Seq(Nat) /\ Len(r) = Len(si) + 1
      /\ \A j \in 1 .. Len(si) : r[j] = si[j]
      /\ r[Len(si) + 1] = e
  BY <1>2, AppendProperties
<1> HIDE DEF l, r
<1>6. Len(l) = Len(s) + Len(i) + 1 /\ Len(r) = Len(l)
  BY <1>1, <1>2, <1>3, <1>4, <1>5
<1>7. ASSUME NEW j \in 1 .. Len(l) PROVE l[j] = r[j]
  <2>1. j \in 1 .. Len(s) + Len(i) + 1 /\ j \in 1 .. Len(s) + Len(ie)
    BY <1>1, <1>3, <1>6
  <2>2. CASE j <= Len(s)
    <3>1. l[j] = s[j]
      BY <1>4, <2>1, <2>2
    <3>2. j \in 1 .. Len(s) + Len(i)
      BY <1>3, <2>1, <2>2
    <3>3. si[j] = s[j] /\ r[j] = si[j]
      BY <1>2, <1>5, <2>2, <3>2
    <3> QED
      BY <3>1, <3>3
  <2>3. CASE ~(j <= Len(s)) /\ j <= Len(s) + Len(i)
    <3>1. j - Len(s) \in 1 .. Len(i) /\ j \in 1 .. Len(s) + Len(i) /\ ~(j <= Len(s))
      BY <1>3, <2>1, <2>3
    <3>2. l[j] = i[j - Len(s)]
      BY <1>1, <1>4, <2>1, <3>1
    <3> QED
      BY <1>2, <1>5, <3>1, <3>2
  <2>4. CASE j = Len(s) + Len(i) + 1
    <3>1. j - Len(s) = Len(i) + 1 /\ ~(j <= Len(s)) /\ j = Len(si) + 1
      BY <1>2, <1>3, <2>4
    <3> QED
      BY <1>1, <1>4, <1>5, <2>1, <3>1
  <2> QED
    BY <1>3, <2>1, <2>2, <2>3, <2>4
<1>8. l = r
  BY <1>4, <1>5, <1>6, <1>7, SeqEqual
<1> QED
  BY <1>8 DEF l, r, ie, si

LEMMA FeedKeeps ==
  ASSUME FileInv, Kept, Feed
  PROVE  Kept'
<1>1. /\ fed' = fed + 1 /\ input' = Append(input, fed + 1)
      /\ UNCHANGED <<returned, rd, discarded>>
  BY DEF Feed, reading
<1>2. /\ returned \in Seq(Nat) /\ rd.data \in Seq(Nat) /\ input \in Seq(Nat) /\ fed \in Nat
      /\ rd.size <= MaxSize /\ Len(rd.data) <= rd.size /\ InShape(rd)
      /\ Increasing(Arrived) /\ \A i \in 1 .. Len(Arrived) : Arrived[i] \in 1 .. fed
      /\ ~discarded => Arrived = Numbered(0, fed)
  BY Numbers DEF Kept
<1> DEFINE s == returned \o rd.data
           e == fed + 1
<1>3. s \in Seq(Nat) /\ e \in Nat
  BY <1>2, ConcatProperties
<1>4. Arrived = s \o input /\ Arrived' = s \o Append(input, e)
  BY <1>1 DEF Arrived, Parts
<1> HIDE DEF s, e
<1>7. Arrived \in Seq(Nat)
  BY <1>2, <1>3, <1>4, ConcatProperties
<1>9. s \o Append(input, e) = Append(s \o input, e)
  BY <1>2, <1>3, AppendedLast
<1>10. Arrived' = Append(Arrived, fed + 1)
  BY <1>4, <1>9 DEF e
<1> DEFINE now == Arrived
           next == Append(now, fed + 1)
<1>11. now \in Seq(Nat) /\ Increasing(now) /\ \A i \in 1 .. Len(now) : now[i] \in 1 .. fed
  BY <1>2, <1>7
<1> HIDE DEF now
<1>12. /\ Increasing(next) /\ \A i \in 1 .. Len(next) : next[i] \in 1 .. fed + 1
       /\ now = Numbered(0, fed) => next = Numbered(0, fed + 1)
  BY <1>2, <1>11, Follows
<1> HIDE DEF next
<1>13. Arrived' = next
  BY <1>10 DEF next, now
<1>14. ~discarded => next = Numbered(0, fed + 1)
  BY <1>2, <1>12 DEF now
<1>15. InShape(rd')
  BY <1>1, <1>2 DEF InShape
<1>16. Kept'
  BY <1>1, <1>2, <1>12, <1>13, <1>14, <1>15 DEF Kept
<1> QED
  BY <1>16

(* The steps that are not of a read.                                        *)
LEMMA OtherBytes ==
  ASSUME FileInv, Kept, Next, ~ReadStep, ~Feed
  PROVE  Kept'
<1>1. /\ rd \in Reads /\ rd.data \in Seq(Nat) /\ rd.size \in Nat /\ returned \in Seq(Nat)
      /\ rd.size <= MaxSize /\ Len(rd.data) <= rd.size /\ InShape(rd)
  BY Numbers DEF Kept, FileInv, Shapes, Reads
<1>2. CASE Reopen
  <2>1. UNCHANGED <<fed, returned, rd>> /\ input' = <<>> /\ discarded'
    BY <1>2 DEF Reopen
  <2> QED
    BY <2>1, ResetKeeps
<1>7. CASE ResetInput
  <2>1. UNCHANGED <<fed, returned>> /\ input' = <<>> /\ discarded'
    BY <1>7 DEF ResetInput
  <2>2. rd'.pc = rd.pc /\ rd'.data = rd.data /\ rd'.size = rd.size
    BY <1>1, <1>7 DEF ResetInput, Reads
  <2> QED
    BY <2>1, <2>2, ResetKeeps
<1>3. CASE Unplug
  <2>1. UNCHANGED <<fed, returned, rd>>
    BY <1>3 DEF Unplug
  <2>2. PICK keep \in BOOLEAN : /\ input' = IF keep THEN input ELSE <<>>
                                /\ discarded' = (discarded \/ ~keep)
    BY <1>3 DEF Unplug
  <2>3. CASE keep
    <3>1. input' = input /\ (discarded' <=> discarded)
      BY <2>2, <2>3
    <3>2. Arrived' = Arrived
      BY <2>1, <3>1 DEF Arrived
    <3> QED
      BY <2>1, <3>1, <3>2 DEF Kept, InShape
  <2>4. CASE ~keep
    <3>1. input' = <<>> /\ discarded'
      BY <2>2, <2>4
    <3> QED
      BY <2>1, <3>1, ResetKeeps
  <2> QED
    BY <2>3, <2>4
<1>4. CASE Expire
  <2>1. UNCHANGED <<fed, input, returned, discarded>> /\ (rd' = rd \/ rd' = [rd EXCEPT !.late = TRUE])
    BY <1>4 DEF Expire, source
  <2>2. rd'.pc = rd.pc /\ rd'.data = rd.data /\ rd'.size = rd.size
    BY <1>1, <2>1 DEF Reads
  <2>3. Arrived' = Arrived /\ InShape(rd')
    BY <1>1, <2>1, <2>2 DEF Arrived, InShape
  <2> QED
    BY <1>1, <2>1, <2>2, <2>3, KeptMoves
<1>5. CASE StartRead
  <2>1. UNCHANGED <<fed, input, returned, discarded>> /\ rd.pc = "idle"
    BY <1>5 DEF StartRead, source, Idle
  <2> DEFINE at == CASE class \in Polling -> "wait"
                     [] class = "vtime" -> "take"
                     [] class \in Bytewise -> "byte"
                     [] class = "overlapped" -> "submit"
  <2>2. PICK n \in 1 .. MaxSize : rd' = [NoRead EXCEPT !.pc = at, !.size = n]
    BY <1>5 DEF StartRead
  <2> HIDE DEF at
  <2>3. rd'.data = <<>> /\ rd'.size = n
    BY <2>2 DEF NoRead
  <2>4. n \in Nat /\ n <= MaxSize /\ 0 < n /\ Len(<<>>) = 0
    BY Sizes
  <2>5. InShape(rd') /\ Len(rd'.data) <= rd'.size /\ rd'.size <= MaxSize
    BY <2>3, <2>4 DEF InShape
  <2>6. rd.data = <<>>
    BY <1>1, <2>1 DEF InShape
  <2>7. Arrived' = Arrived
    BY <2>1, <2>3, <2>6 DEF Arrived
  <2> QED
    BY <1>1, <2>1, <2>5, <2>7, KeptMoves
<1>6. CASE Drain \/ Cancel \/ StartWrite \/ WriteStep
  <2>1. UNCHANGED <<fed, input, returned, discarded, rd>>
    BY <1>6 DEF Drain, Cancel, StartWrite, WriteStep, Push, PushBlocked, PushFails, SelectCancelled,
         SelectReady, SelectTimeout, WriteFile, Transfer, WritePending, Flush, SwitchToReceive,
         source, reading
  <2>2. Arrived' = Arrived /\ InShape(rd')
    BY <1>1, <2>1 DEF Arrived, InShape
  <2> QED
    BY <1>1, <2>1, <2>2, KeptMoves
<1> QED
  BY <1>2, <1>3, <1>4, <1>5, <1>6, <1>7 DEF Next
-----------------------------------------------------------------------------
(* A sequence of numbers of which each is in a set is one over the set.     *)
LEMMA InSet ==
  ASSUME NEW s \in Seq(Nat), NEW S, \A i \in 1 .. Len(s) : s[i] \in S
  PROVE  s \in Seq(S)
<1>1. Len(s) \in Nat /\ DOMAIN s = 1 .. Len(s)
  BY LenProperties
<1>2. s \in [1 .. Len(s) -> Nat]
  BY LenProperties
<1>3. s \in [1 .. Len(s) -> S]
  BY <1>2
<1> QED
  BY <1>1, <1>3, SeqDef

LEMMA Halves ==
  ASSUME NEW s \in Seq(Nat), NEW t \in Seq(Nat), NEW S,
         \A j \in 1 .. Len(s \o t) : (s \o t)[j] \in S
  PROVE  /\ \A j \in 1 .. Len(s) : s[j] \in S
         /\ \A j \in 1 .. Len(t) : t[j] \in S
<1> DEFINE st == s \o t
<1>1. /\ Len(st) = Len(s) + Len(t)
      /\ \A j \in 1 .. Len(s) + Len(t) : st[j] = IF j <= Len(s) THEN s[j] ELSE t[j - Len(s)]
  BY ConcatProperties
<1>2. \A j \in 1 .. Len(st) : st[j] \in S
  OBVIOUS
<1> HIDE DEF st
<1>3. Len(s) \in Nat /\ Len(t) \in Nat
  BY LenProperties
<1>4. ASSUME NEW j \in 1 .. Len(s) PROVE s[j] \in S
  <2>1. j \in 1 .. Len(s) + Len(t) /\ j \in 1 .. Len(st) /\ j <= Len(s)
    BY <1>1, <1>3
  <2>2. st[j] = s[j]
    BY <1>1, <2>1
  <2> QED
    BY <1>2, <2>1, <2>2
<1>5. ASSUME NEW j \in 1 .. Len(t) PROVE t[j] \in S
  <2> DEFINE k == Len(s) + j
  <2>1. k \in 1 .. Len(s) + Len(t) /\ k \in 1 .. Len(st) /\ ~(k <= Len(s)) /\ k - Len(s) = j
    BY <1>1, <1>3
  <2> HIDE DEF k
  <2>2. st[k] = t[k - Len(s)]
    BY <1>1, <2>1
  <2>3. st[k] = t[j]
    BY <2>1, <2>2
  <2> QED
    BY <1>2, <2>1, <2>3
<1> QED
  BY <1>4, <1>5

(* What is on the way is in one of three places.                            *)
LEMMA PartsInSet ==
  ASSUME NEW a \in Seq(Nat), NEW d \in Seq(Nat), NEW i \in Seq(Nat), NEW S,
         \A j \in 1 .. Len(Parts(a, d, i)) : Parts(a, d, i)[j] \in S
  PROVE  a \in Seq(S) /\ d \in Seq(S) /\ i \in Seq(S)
<1> DEFINE ad == a \o d
<1>1. ad \in Seq(Nat)
  BY ConcatProperties
<1>2. \A j \in 1 .. Len(ad \o i) : (ad \o i)[j] \in S
  BY DEF Parts
<1> HIDE DEF ad
<1>3. (\A j \in 1 .. Len(ad) : ad[j] \in S) /\ (\A j \in 1 .. Len(i) : i[j] \in S)
  BY <1>1, <1>2, Halves
<1>4. \A j \in 1 .. Len(a \o d) : (a \o d)[j] \in S
  BY <1>3 DEF ad
<1>5. (\A j \in 1 .. Len(a) : a[j] \in S) /\ (\A j \in 1 .. Len(d) : d[j] \in S)
  BY <1>4, Halves
<1> QED
  BY <1>3, <1>5, InSet

BytesInv == FileInv /\ Counters /\ Bounded /\ Kept /\ discarded \in BOOLEAN

LEMMA BytesInvInit == Init => BytesInv
<1>1. Init => discarded \in BOOLEAN
  BY DEF Init
<1> QED
  BY <1>1, InvInit, BoundsInit, KeptInit DEF BytesInv

LEMMA BytesInvStep == BytesInv /\ [Next]_vars => BytesInv'
<1> SUFFICES ASSUME BytesInv, [Next]_vars PROVE BytesInv'
  OBVIOUS
<1>1. FileInv /\ Counters /\ Bounded /\ Kept /\ discarded \in BOOLEAN
  BY DEF BytesInv
<1>2. FileInv'
  BY <1>1, InvStep
<1>3. CASE Next
  <2>1. Counters' /\ Bounded'
    <3>1. CASE ReadStep
      BY <1>1, <3>1, ReadBytes
    <3>2. CASE StartRead \/ StartWrite
      BY <1>1, <3>2, StartBounds
    <3>3. CASE WriteStep /\ ~Flush /\ ~SwitchToReceive
      BY <1>1, <3>3, PushBounds, SelectBounds, OverlappedBounds, TransferBounds DEF WriteStep
    <3>4. CASE \/ Flush \/ SwitchToReceive \/ Feed \/ Drain \/ Unplug \/ Expire \/ Reopen
               \/ ResetInput \/ Cancel
      BY <1>1, <3>4, OtherBounds
    <3> QED
      BY <1>3, <3>1, <3>2, <3>3, <3>4 DEF Next
  <2>2. Kept'
    BY <1>1, <1>3, ReadBytes, FeedKeeps, OtherBytes
  <2>3. discarded' \in BOOLEAN
    <3>1. discarded' = discarded \/ discarded' \in {TRUE, FALSE}
      <4>1. CASE ReadStep
        <5>1. PICK m \in Seq(Nat) : Carries(m)
          <6>1. <<>> \in Seq(Nat)
            OBVIOUS
          <6> QED
            BY <1>1, <4>1, <6>1, WaitCarries, TakeCarries, OverlappedCarries, ByteCarries DEF ReadStep
        <5> QED
          BY <5>1 DEF Carries, Return, Raise, Continue
      <4>2. CASE Unplug \/ Reopen \/ ResetInput
        BY <4>2 DEF Unplug, Reopen, ResetInput
      <4>3. CASE Feed \/ Drain \/ Expire \/ Cancel \/ StartRead \/ StartWrite \/ WriteStep
        BY <4>3 DEF Feed, Drain, Expire, Cancel, StartRead, StartWrite, WriteStep, Push, PushBlocked,
             PushFails, SelectCancelled, SelectReady, SelectTimeout, WriteFile, Transfer,
             WritePending, Flush, SwitchToReceive, reading
      <4> QED
        BY <1>3, <4>1, <4>2, <4>3 DEF Next
    <3> QED
      BY <1>1, <3>1
  <2> QED
    BY <1>2, <2>1, <2>2, <2>3 DEF BytesInv
<1>4. CASE UNCHANGED vars
  <2>1. UNCHANGED <<class, fed, calls, cancels, tokens, written, room, sent, wr, result, returned, rd,
                    input, discarded>>
    BY <1>4 DEF vars, config, source, output, pipe, reading
  <2>2. Counters' /\ Bounded'
    BY <1>1, <2>1 DEF Counters, Bounded
  <2>3. Kept'
    BY <1>1, <2>1 DEF Kept, Arrived, Parts, InShape
  <2> QED
    BY <1>1, <1>2, <2>1, <2>2, <2>3 DEF BytesInv
<1> QED
  BY <1>3, <1>4
-----------------------------------------------------------------------------
(* The data of a write and what was sent are of the bytes that all writes   *)
(* together can have.                                                       *)
LEMMA WrittenInBounds ==
  ASSUME BytesInv
  PROVE  /\ written <= MaxSize * MaxCalls /\ MaxSize * MaxCalls \in Nat
         /\ room \in -(MaxSize * MaxCalls) .. Room
         /\ \A i \in 1 .. Len(sent) : sent[i] \in Written
         /\ \A i \in 1 .. Len(wr.left) : wr.left[i] \in Written
<1> DEFINE most == MaxSize * MaxCalls
           now == MaxSize * calls
<1>1. /\ MaxSize \in Nat /\ MaxCalls \in Nat /\ Room \in Nat /\ calls \in Nat /\ calls <= MaxCalls
  BY Sizes DEF BytesInv, Counters
<1>2. /\ written \in Nat /\ room \in Int /\ room <= Room /\ sent \in Seq(Nat) /\ wr.left \in Seq(Nat)
      /\ wr.total \in Nat
  BY Numbers DEF BytesInv, FileInv, Shapes
<1>3. most \in Nat /\ now <= most /\ now \in Nat
  <2>1. PICK k \in Nat : MaxCalls = calls + k
    <3>1. MaxCalls - calls \in Nat /\ MaxCalls = calls + (MaxCalls - calls)
      BY <1>1
    <3> QED
      BY <3>1
  <2>2. MaxSize * (calls + k) = MaxSize * calls + MaxSize * k
    BY <1>1, <2>1
  <2>3. MaxSize * k \in Nat /\ MaxSize * calls \in Nat
    BY <1>1, <2>1
  <2> QED
    BY <2>1, <2>2, <2>3
<1>4. written <= now /\ room >= wr.total - written
  BY DEF BytesInv, Bounded
<1>5. /\ \A i \in 1 .. Len(sent) : sent[i] >= 1
      /\ \A i \in 1 .. Len(sent) : sent[i] <= written
  BY DEF BytesInv, Bounded, FileInv, Progress
<1>6. Written = 1 .. most
  BY DEF Written
<1> HIDE DEF most, now
<1>7. written <= most /\ room \in -most .. Room
  BY <1>1, <1>2, <1>3, <1>4
<1>8. ASSUME NEW i \in 1 .. Len(sent) PROVE sent[i] \in 1 .. most
  <2>1. sent[i] \in Nat /\ sent[i] >= 1 /\ sent[i] <= written
    BY <1>2, <1>5
  <2> QED
    BY <1>2, <1>3, <1>7, <2>1
<1>9. ASSUME NEW i \in 1 .. Len(wr.left) PROVE wr.left[i] \in 1 .. most
  <2>1. CASE wr.pc \in {"push", "select", "submit", "pending"}
    <3>1. Len(wr.left) \in Nat /\ Len(wr.left) <= written /\ wr.left[i] >= 1
      BY <2>1, LeftOver DEF BytesInv
    <3>2. wr.left[i] = written - Len(wr.left) + i
      BY <2>1 DEF BytesInv, FileInv, Progress
    <3> DEFINE v == wr.left[i]
               l == Len(wr.left)
    <3>3. l \in Nat /\ l <= written /\ v >= 1 /\ v = written - l + i /\ i \in 1 .. l
      BY <3>1, <3>2
    <3> HIDE DEF v, l
    <3>4. v \in 1 .. most
      BY <1>2, <1>3, <1>7, <3>3
    <3> QED
      BY <3>4 DEF v
  <2>2. CASE wr.pc \in {"idle", "flush", "drained"}
    <3>1. wr.left = <<>>
      BY <2>2 DEF BytesInv, Bounded
    <3>2. Len(<<>>) = 0
      OBVIOUS
    <3> QED
      BY <3>1, <3>2
  <2>3. wr.pc \in WriteAt
    BY DEF BytesInv, FileInv, Shapes
  <2> QED
    BY <2>1, <2>2, <2>3 DEF WriteAt
<1> QED
  BY <1>3, <1>6, <1>7, <1>8, <1>9 DEF most

LEMMA BytesInvTypes == BytesInv => TypeOK
<1> SUFFICES ASSUME BytesInv PROVE TypeOK
  OBVIOUS
<1>1. /\ FileInv /\ Counters /\ Bounded /\ Kept /\ discarded \in BOOLEAN
  BY DEF BytesInv
<1>2. /\ rd \in Reads /\ wr \in Writes /\ result \in Results
      /\ class \in Classes /\ direction \in {"read", "write"} /\ timeout \in Timeouts
      /\ rs485 \in BOOLEAN /\ rts \in BOOLEAN /\ gone \in BOOLEAN
  BY <1>1 DEF FileInv, Shapes, Reads, Writes, Results
<1>3. /\ fed \in Nat /\ input \in Seq(Nat) /\ returned \in Seq(Nat) /\ rd.data \in Seq(Nat)
      /\ sent \in Seq(Nat) /\ wr.left \in Seq(Nat) /\ rd.size \in Nat /\ wr.total \in Nat
      /\ wr.n \in Nat /\ wr.pushed \in Nat /\ result.count \in Nat /\ result.pushed \in Nat
  BY <1>1, Numbers DEF Kept
<1>4. input \in Seq(Bytes) /\ returned \in Seq(Bytes) /\ rd.data \in Seq(Bytes)
  <2>1. 1 .. fed \subseteq Bytes
    BY <1>1, <1>3, Sizes DEF Bytes, Counters
  <2>2. \A i \in 1 .. Len(Arrived) : Arrived[i] \in Bytes
    BY <1>1, <2>1 DEF Kept
  <2>3. \A i \in 1 .. Len(Parts(returned, rd.data, input)) : Parts(returned, rd.data, input)[i] \in Bytes
    BY <2>2 DEF Arrived
  <2> QED
    BY <1>3, <2>3, PartsInSet
<1>5. sent \in Seq(Written) /\ wr.left \in Seq(Written) /\ room \in -(MaxSize * MaxCalls) .. Room
  BY <1>3, WrittenInBounds, InSet
<1>6. /\ fed \in 0 .. MaxFed /\ tokens \in 0 .. MaxCancels /\ cancels \in 0 .. MaxCancels
      /\ calls \in 0 .. MaxCalls
  <2>1. tokens \in Nat /\ tokens <= MaxCancels
    BY <1>1, Sizes DEF Counters
  <2> QED
    BY <1>1, <1>3, <2>1, Sizes DEF Counters
<1>7. /\ rd.size \in 0 .. MaxSize /\ Len(rd.data) <= rd.size
  BY <1>1, <1>3, Sizes DEF Kept
<1>8. /\ wr.total \in 0 .. MaxSize /\ wr.n \in 0 .. MaxSize /\ wr.pushed \in 0 .. MaxSize
  BY <1>1, <1>3, Sizes DEF Bounded
<1>9. /\ result.count \in 0 .. MaxSize /\ result.pushed \in 0 .. MaxSize
  BY <1>1, <1>3, Sizes DEF Counters
<1>10. rd \in [pc : {"idle", "wait", "take", "submit", "pending", "byte"}, size : 0 .. MaxSize,
               data : Seq(Bytes), late : BOOLEAN, bound : BOOLEAN, reset : BOOLEAN]
  BY <1>2, <1>4, <1>7 DEF Reads, ReadAt
<1>11. wr \in [pc : {"idle", "push", "select", "submit", "pending", "flush", "drained"},
               left : Seq(Written), total : 0 .. MaxSize,
               n : 0 .. MaxSize, pushed : 0 .. MaxSize, late : BOOLEAN]
  BY <1>2, <1>5, <1>8 DEF Writes, WriteAt
<1>12. result \in [how : {"ok", "raised", "cancelled", "none"}, count : 0 .. MaxSize,
                   pushed : 0 .. MaxSize]
  BY <1>2, <1>9 DEF Results, Hows
<1> QED
  BY <1>1, <1>2, <1>4, <1>5, <1>6, <1>7, <1>10, <1>11, <1>12 DEF TypeOK

(* BytesKept: through timeouts, cancelled reads and bytes in the pipe from  *)
(* a cancel_read before, every byte is returned once and in order or is     *)
(* still there, and no read has more than it was asked for.                 *)
THEOREM NoByteIsLost == Spec => []BytesKept
<1>1. Init => BytesInv
  BY BytesInvInit
<1>2. BytesInv /\ [Next]_vars => BytesInv'
  BY BytesInvStep
<1>3. BytesInv => BytesKept
  BY BytesInvTypes DEF BytesKept, BytesInv, Kept, Arrived, Parts
<1> QED
  BY <1>1, <1>2, <1>3, PTL DEF Spec
=============================================================================

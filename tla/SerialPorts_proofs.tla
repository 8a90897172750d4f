------------------------- MODULE SerialPorts_proofs -------------------------
(***************************************************************************)
(* Theorems about SerialPorts, for every buffer size, frame and line       *)
(* length, and whatever the other stations, the terminal and the program   *)
(* do when: frames are returned whole, and lines are run as they were      *)
(* sent.                                                                   *)
(*                                                                         *)
(* The two ports have no variable in common, so each has its own invariant *)
(* and its own step: BusNext is what a step of the whole does to the RS485 *)
(* port, ConsoleNext what it does to the console.                          *)
(***************************************************************************)
EXTENDS SerialPorts, DivMod, SequenceTheorems, TLAPS

-----------------------------------------------------------------------------
(* The invariants of the two ports, and what a step does to each.          *)

BusOK == (bus.n = 0 => bus.len = 0) /\ received <= bus.n

\* While RS485_Receive_Data waits, a byte of a frame shows in the count, in the
\* data register, or the frame is spoilt.
ReaderOK ==
  /\ txen <=> reader.pc \in {"send", "cleared"}
  /\ reader.pc \in {"len", "clear"} => reader.out # <<>>
  /\ reader.pc = "wait" =>
       /\ reader.rxlen <= Len(rx)
       /\ reader.waited => \/ reader.rxlen < Len(rx) \/ dr2 # {}
                           \/ ragged /\ rx # <<>>

\* What has been received of the frame on the bus is its beginning; or it is over
\* and has been returned.
Aligned ==
  \/ rx = Frame(bus.n, bus.sent) /\ dr2 = {}
  \/ bus.sent > 0 /\ rx = Frame(bus.n, bus.sent - 1) /\ dr2 = {<<bus.n, bus.sent>>}
  \/ rx = <<>> /\ dr2 = {} /\ bus.sent = bus.len

\* The reader has found the end of the frame, and the frame is a new one.
FrameInv ==
  ~ragged =>
    /\ Aligned
    /\ rx # <<>> \/ dr2 # {} \/ bus.sent < bus.len => received < bus.n
    /\ reader.pc \in {"len", "clear"} => rx = reader.out /\ dr2 = {} /\ bus.sent = bus.len
    /\ reader.pc = "clear" => reader.len = Len(rx)

BusInv == Rs485TypeOK /\ BusOK /\ ReaderOK /\ FrameInv

\* What the ring buffer keeps of the first k bytes of line n: the bytes after the
\* last wrap.
TailOf(n, k) == [j \in 1..(k % RecLen) |-> ByteAt(n, k - (k % RecLen) + j)]

SentOK == sent \in Nat /\ (lines # <<>> => sent <= Size(lines[Len(lines)]))

\* The complete line, if it found the receiver at rest, is there as it was sent.
DoneOK ==
  /\ ended \in 1..Len(lines)
  /\ lines[ended].ready => buf = TailOf(ended, lines[ended].len)

\* A byte in the data register belongs to a line that did not find the receiver
\* at rest.
PortInv ==
  /\ busy => sta = "done"
  /\ \A b \in dr1 : b.n \in 1..Len(lines) /\ ~lines[b.n].ready
  /\ sta = "done" => DoneOK

\* The line that is being sent, if it found the receiver at rest.
LineInv ==
  lines # <<>> /\ lines[Len(lines)].ready =>
    /\ dr1 = {}
    /\ sent <= lines[Len(lines)].len => sta = "open" /\ buf = TailOf(Len(lines), sent)
    /\ sent = lines[Len(lines)].len + 1 /\ lines[Len(lines)].ends = "crlf" =>
         sta = "cr" /\ buf = TailOf(Len(lines), lines[Len(lines)].len)

ConsoleInv == Usart1TypeOK /\ SentOK /\ PortInv /\ LineInv

BusNext ==
  \/ \E n \in FrameLen : FrameBegins(n)
  \/ FrameGoesOn(busy) \/ Pending2
  \/ dr2 = {} /\ Program
  \/ UNCHANGED rs485vars

ConsoleNext ==
  \/ \E n \in LineLen, e \in Endings : LineBegins(n, e)
  \/ LineGoesOn \/ Pending1 \/ ScanBegins \/ ScanEnds
  \/ UNCHANGED usart1vars

LEMMA BusOfNext == [Next]_vars => BusNext
  BY DEF vars, Next, Console, Bus, Thread, BusNext

LEMMA ConsoleOfNext == [Next]_vars => ConsoleNext
  BY DEF vars, Next, Console, Bus, Thread, ConsoleNext

-----------------------------------------------------------------------------
(* Lemmas about frames.                                                    *)

LEMMA FrameBytes ==
  ASSUME NEW n \in Nat, NEW k \in Nat
  PROVE  /\ Frame(n, k) \in Seq(Nat \X Nat) /\ Len(Frame(n, k)) = k
         /\ Frame(n, k) = <<>> <=> k = 0
         /\ k > 0 => Frame(n, k)[1] = <<n, 1>>
<1>1. Frame(n, k) \in [1..k -> Nat \X Nat]
  BY DEF Frame
<1>2. Frame(n, k) \in Seq(Nat \X Nat)
  BY <1>1, SeqDef
<1>3. Len(Frame(n, k)) = k
  BY <1>1, <1>2, LenProperties
<1>4. k > 0 => Frame(n, k)[1] = <<n, 1>>
  BY DEF Frame
<1>. QED
  BY <1>2, <1>3, <1>4, EmptySeq

LEMMA FrameGrows ==
  ASSUME NEW n \in Nat, NEW k \in Nat
  PROVE  Append(Frame(n, k), <<n, k + 1>>) = Frame(n, k + 1)
<1> DEFINE S == Nat \X Nat
           s == Frame(n, k)
           t == Frame(n, k + 1)
           e == <<n, k + 1>>
<1>0. k + 1 \in Nat
  OBVIOUS
<1>1. s \in Seq(S) /\ Len(s) = k
  BY FrameBytes
<1>2. t \in Seq(S) /\ Len(t) = k + 1
  BY <1>0, FrameBytes
<1>3. e \in S
  BY <1>0
<1>4. /\ Append(s, e) \in Seq(S) /\ Len(Append(s, e)) = k + 1
      /\ \A j \in 1..k : Append(s, e)[j] = s[j]
      /\ Append(s, e)[k + 1] = e
  <2> HIDE DEF S, s, e
  <2>. QED
    BY <1>1, <1>3, AppendProperties
<1>5. (\A j \in 1..k : s[j] = t[j]) /\ t[k + 1] = e
  BY DEF Frame
<1>6. \A j \in 1..(k + 1) : Append(s, e)[j] = t[j]
  <2> HIDE DEF S, s, t, e
  <2>. QED
    BY <1>4, <1>5
<1> HIDE DEF S, s, t, e
<1>7. Append(s, e) = t
  BY <1>2, <1>4, <1>6, SeqEqual
<1>. QED
  BY <1>7 DEF s, t, e

\* USART2_IRQHandler stores a byte where there is room.
LEMMA TakeBytes ==
  ASSUME NEW b \in Byte2, rx \in Seq(Byte2), Len(rx) \in 0..BufSize,
         ragged \in BOOLEAN, Take(b)
  PROVE  /\ rx' \in Seq(Byte2) /\ Len(rx') \in 0..BufSize /\ Len(rx) <= Len(rx')
         /\ rx' # <<>> /\ ragged' \in BOOLEAN
         /\ ~ragged' => ~ragged /\ rx' = Append(rx, b) /\ Len(rx') = Len(rx) + 1
<1>0. BufSize \in Nat /\ BufSize > 0
  BY Rs485Assumption
<1>1. CASE Len(rx) < BufSize
  <2>1. rx' = Append(rx, b)
    BY <1>1 DEF Take
  <2>2. rx' \in Seq(Byte2) /\ rx' # <<>> /\ Len(rx') = Len(rx) + 1
    BY <2>1, AppendProperties
  <2>3. ragged' \in BOOLEAN /\ (~ragged' => ~ragged)
    BY DEF Take
  <2>. QED
    BY <1>0, <1>1, <2>1, <2>2, <2>3
<1>2. CASE Len(rx) = BufSize
  <2>1. rx' = rx
    BY <1>0, <1>2 DEF Take
  <2>2. ragged'
    BY <1>2 DEF Take
  <2>3. ragged' \in BOOLEAN
    BY DEF Take
  <2>. QED
    BY <1>0, <1>2, <2>1, <2>2, <2>3, EmptySeq
<1>. QED
  BY <1>0, <1>1, <1>2

-----------------------------------------------------------------------------
(* The RS485 port.                                                         *)

\* The facts about data that the steps below keep using.
LEMMA BusFacts ==
  ASSUME Rs485TypeOK
  PROVE  /\ BufSize \in Nat /\ BufSize > 0 /\ MaxFrames \in Nat
         /\ rx \in Seq(Byte2) /\ Len(rx) \in 0..BufSize
         /\ bus.n \in 0..MaxFrames /\ bus.len \in Nat /\ bus.sent \in Nat
         /\ bus.sent <= bus.len
         /\ ragged \in BOOLEAN /\ reader \in ReaderType
<1>1. \A k \in {0} \cup FrameLen : k \in Nat
  BY Rs485Assumption
<1>2. bus \in [n : 0..MaxFrames, len : {0} \cup FrameLen, sent : Nat]
  BY DEF Rs485TypeOK
<1>3. bus.n \in 0..MaxFrames /\ bus.len \in {0} \cup FrameLen /\ bus.sent \in Nat
  BY <1>2
<1>4. bus.len \in Nat
  BY <1>1, <1>3
<1>. QED
  BY <1>3, <1>4, Rs485Assumption DEF Rs485TypeOK

\* The byte that comes next, and what it makes of the bus.
LEMMA NextByte ==
  ASSUME Rs485TypeOK, BusOK, FrameGoesOn(busy)
  PROVE  /\ bus.n > 0 /\ bus.sent < bus.len
         /\ <<bus.n, bus.sent + 1>> \in Byte2
         /\ bus' \in [n : 0..MaxFrames, len : {0} \cup FrameLen, sent : Nat]
         /\ bus'.n = bus.n /\ bus'.len = bus.len /\ bus'.sent = bus.sent + 1
         /\ reader' \in ReaderType
         /\ reader'.pc = reader.pc /\ reader'.rxlen = reader.rxlen
         /\ reader'.out = reader.out /\ reader'.len = reader.len
         /\ reader.pc # "wait" => reader'.waited = reader.waited
<1>1. bus.sent < bus.len /\ bus' = [bus EXCEPT !.sent = @ + 1]
      /\ reader' = [reader EXCEPT !.waited = (@ \/ reader.pc = "wait")]
  BY DEF FrameGoesOn
<1>2. bus.n \in 1..MaxFrames /\ bus.sent + 1 \in Nat
  BY <1>1, BusFacts DEF BusOK
<1>3. bus \in [n : 0..MaxFrames, len : {0} \cup FrameLen, sent : Nat]
  BY DEF Rs485TypeOK
<1>4. /\ bus' \in [n : 0..MaxFrames, len : {0} \cup FrameLen, sent : Nat]
      /\ bus'.n = bus.n /\ bus'.len = bus.len /\ bus'.sent = bus.sent + 1
  BY <1>1, <1>2, <1>3
<1>5. reader \in ReaderType
  BY BusFacts
<1>6. /\ reader' \in ReaderType
      /\ reader'.pc = reader.pc /\ reader'.rxlen = reader.rxlen
      /\ reader'.out = reader.out /\ reader'.len = reader.len
  BY <1>1, <1>5 DEF ReaderType
<1>7. reader.pc # "wait" => reader'.waited = reader.waited
  BY <1>1, <1>5 DEF ReaderType
<1>. QED
  BY <1>1, <1>2, <1>4, <1>6, <1>7 DEF Byte2

\* What the program has been given, if it is a frame, is one that was on the bus.
LEMMA ReturnedFrame ==
  ASSUME Rs485TypeOK, ReaderOK, reader.pc = "clear", IsFrame(reader)
  PROVE  reader.out[1][1] \in 1..bus.n
<1>1. reader.out # <<>> /\ reader.len = Len(reader.out) /\ reader.len \in Nat
  BY BusFacts DEF IsFrame, ReaderOK, ReaderType
<1>2. PICK f \in 1..bus.n : reader.out = Frame(f, reader.len)
  BY DEF IsFrame
<1>3. f \in Nat
  BY <1>2, BusFacts
<1>4. reader.len > 0
  BY <1>1, <1>2, <1>3, FrameBytes
<1>5. reader.out[1] = <<f, 1>>
  BY <1>1, <1>2, <1>3, <1>4, FrameBytes
<1>. QED
  BY <1>2, <1>5

LEMMA BusTypeStep ==
  ASSUME Rs485TypeOK, BusOK, ReaderOK, BusNext
  PROVE  Rs485TypeOK'
<1>0. /\ rx \in Seq(Byte2) /\ Len(rx) \in 0..BufSize /\ dr2 \subseteq Byte2
      /\ \A b1, b2 \in dr2 : b1 = b2
      /\ txen \in BOOLEAN /\ ragged \in BOOLEAN /\ received \in 0..MaxFrames
      /\ bus \in [n : 0..MaxFrames, len : {0} \cup FrameLen, sent : Nat]
      /\ bus.sent <= bus.len /\ reader \in ReaderType
  BY DEF Rs485TypeOK
<1>e. <<>> \in Seq(Byte2) /\ Len(<<>>) = 0 /\ 0 \in 0..BufSize
  BY BusFacts, EmptySeq
<1>c. NoCall \in ReaderType
  BY <1>e DEF NoCall, ReaderType
<1>1. ASSUME NEW n \in FrameLen, FrameBegins(n) PROVE Rs485TypeOK'
  <2>1. /\ bus' = [n |-> bus.n + 1, len |-> n, sent |-> 0] /\ bus.n < MaxFrames
        /\ UNCHANGED <<rx, dr2, txen, reader, received>>
    BY <1>1 DEF FrameBegins
  <2>2. ragged' \in BOOLEAN
    BY <1>1 DEF FrameBegins
  <2>3. bus.n + 1 \in 0..MaxFrames /\ n \in Nat
    BY <2>1, BusFacts, Rs485Assumption
  <2>4. bus' \in [n : 0..MaxFrames, len : {0} \cup FrameLen, sent : Nat]
        /\ bus'.sent <= bus'.len
    BY <2>1, <2>3
  <2>. QED
    BY <1>0, <2>1, <2>2, <2>4 DEF Rs485TypeOK
<1>2. CASE FrameGoesOn(busy)
  <2> DEFINE b == <<bus.n, bus.sent + 1>>
  <2>1. /\ b \in Byte2 /\ reader' \in ReaderType
        /\ bus' \in [n : 0..MaxFrames, len : {0} \cup FrameLen, sent : Nat]
        /\ bus'.sent <= bus'.len
    BY <1>2, NextByte, BusFacts
  <2>2. UNCHANGED <<txen, received>>
    BY <1>2 DEF FrameGoesOn
  <2>3. \/ ragged' = TRUE /\ UNCHANGED <<rx, dr2>>
        \/ dr2' = {b} /\ UNCHANGED <<rx, ragged>>
        \/ Take(b) /\ UNCHANGED dr2
    BY <1>2 DEF FrameGoesOn
  <2> HIDE DEF b
  <2>4. rx' \in Seq(Byte2) /\ Len(rx') \in 0..BufSize
    BY <1>0, <2>1, <2>3, TakeBytes
  <2>5. dr2' \subseteq Byte2 /\ \A b1, b2 \in dr2' : b1 = b2
    BY <1>0, <2>1, <2>3
  <2>6. ragged' \in BOOLEAN
    BY <1>0, <2>1, <2>3, TakeBytes
  <2>. QED
    BY <1>0, <2>1, <2>2, <2>4, <2>5, <2>6 DEF Rs485TypeOK
<1>3. CASE Pending2
  <2>1. PICK b \in dr2 : Take(b)
    BY <1>3 DEF Pending2
  <2>2. dr2' = {} /\ UNCHANGED <<txen, bus, reader, received>>
    BY <1>3 DEF Pending2
  <2>3. rx' \in Seq(Byte2) /\ Len(rx') \in 0..BufSize /\ ragged' \in BOOLEAN
    BY <1>0, <2>1, TakeBytes
  <2>. QED
    BY <1>0, <2>2, <2>3 DEF Rs485TypeOK
<1>4. CASE ReadCount
  <2>1. /\ reader' = [NoCall EXCEPT !.pc = "wait", !.rxlen = Len(rx)]
        /\ UNCHANGED <<rx, dr2, txen, bus, ragged, received>>
    BY <1>4 DEF ReadCount
  <2>2. reader' \in ReaderType
    BY <1>0, <1>c, <2>1 DEF ReaderType
  <2>. QED
    BY <1>0, <2>1, <2>2 DEF Rs485TypeOK
<1>5. CASE Waited
  <2>1. /\ UNCHANGED <<rx, dr2, txen, bus, ragged, received>>
        /\ \/ reader' = NoCall
           \/ /\ reader.rxlen = Len(rx)
              /\ reader' = [reader EXCEPT !.pc = "len", !.waited = FALSE,
                                          !.out = SubSeq(rx, 1, reader.rxlen)]
    BY <1>5 DEF Waited
  <2>2. reader.rxlen = Len(rx) => SubSeq(rx, 1, reader.rxlen) = rx
    BY <1>0, SubSeqFull
  <2>3. reader' \in ReaderType
    <3>1. CASE reader' = NoCall
      BY <1>c, <3>1
    <3>2. CASE reader' # NoCall
      <4>1. reader' = [reader EXCEPT !.pc = "len", !.waited = FALSE, !.out = rx]
        BY <2>1, <2>2, <3>2
      <4>. QED
        BY <1>0, <4>1 DEF ReaderType
    <3>. QED
      BY <3>1, <3>2
  <2>. QED
    BY <1>0, <2>1, <2>3 DEF Rs485TypeOK
<1>6. CASE TakeLen
  <2>1. /\ reader' = [reader EXCEPT !.pc = "clear", !.len = Len(rx)]
        /\ UNCHANGED <<rx, dr2, txen, bus, ragged, received>>
    BY <1>6 DEF TakeLen
  <2>2. reader' \in ReaderType
    BY <1>0, <2>1 DEF ReaderType
  <2>. QED
    BY <1>0, <2>1, <2>2 DEF Rs485TypeOK
<1>7. CASE ClearCount
  <2>1. /\ rx' = <<>> /\ reader' = NoCall /\ UNCHANGED <<dr2, txen, bus, ragged>>
        /\ received' = IF IsFrame(reader) THEN reader.out[1][1] ELSE received
        /\ reader.pc = "clear"
    BY <1>7 DEF ClearCount
  <2>2. IsFrame(reader) => reader.out[1][1] \in 1..bus.n
    BY <2>1, ReturnedFrame
  <2>3. received' \in 0..MaxFrames
    BY <1>0, <2>1, <2>2, BusFacts
  <2>. QED
    BY <1>0, <1>e, <1>c, <2>1, <2>3 DEF Rs485TypeOK
<1>8. CASE SendBegins
  <2>1. /\ txen' = TRUE /\ reader' = [NoCall EXCEPT !.pc = "send"]
        /\ UNCHANGED <<rx, dr2, bus, ragged, received>>
    BY <1>8 DEF SendBegins
  <2>2. reader' \in ReaderType
    BY <1>c, <2>1 DEF ReaderType
  <2>. QED
    BY <1>0, <2>1, <2>2 DEF Rs485TypeOK
<1>9. CASE SendEnds
  <2>1. /\ rx' = <<>> /\ reader' = [reader EXCEPT !.pc = "cleared"]
        /\ UNCHANGED <<dr2, txen, bus, received>>
    BY <1>9 DEF SendEnds
  <2>2. ragged' \in BOOLEAN
    BY <1>9 DEF SendEnds
  <2>3. reader' \in ReaderType
    BY <1>0, <2>1 DEF ReaderType
  <2>. QED
    BY <1>0, <1>e, <2>1, <2>2, <2>3 DEF Rs485TypeOK
<1>10. CASE ReceiverOn
  <2>1. /\ txen' = FALSE /\ reader' = NoCall
        /\ UNCHANGED <<rx, dr2, bus, ragged, received>>
    BY <1>10 DEF ReceiverOn
  <2>. QED
    BY <1>0, <1>c, <2>1 DEF Rs485TypeOK
<1>11. CASE UNCHANGED rs485vars
  BY <1>0, <1>11 DEF rs485vars, Rs485TypeOK
<1>. QED
  BY <1>1, <1>2, <1>3, <1>4, <1>5, <1>6, <1>7, <1>8, <1>9, <1>10, <1>11
     DEF BusNext, Program

LEMMA BusOKStep ==
  ASSUME Rs485TypeOK, BusOK, ReaderOK, BusNext
  PROVE  BusOK'
<1>0. bus.n \in Nat /\ received \in Nat /\ received <= bus.n /\ (bus.n = 0 => bus.len = 0)
  BY BusFacts DEF BusOK, Rs485TypeOK
<1>1. ASSUME NEW n \in FrameLen, FrameBegins(n) PROVE BusOK'
  <2>1. bus'.n = bus.n + 1 /\ received' = received
    BY <1>1 DEF FrameBegins
  <2>. QED
    BY <1>0, <2>1 DEF BusOK
<1>2. CASE FrameGoesOn(busy)
  <2>1. bus'.n = bus.n /\ bus'.len = bus.len
    BY <1>2, NextByte
  <2>2. received' = received
    BY <1>2 DEF FrameGoesOn
  <2>. QED
    BY <1>0, <2>1, <2>2 DEF BusOK
<1>3. CASE ClearCount
  <2>1. /\ reader.pc = "clear" /\ bus' = bus
        /\ received' = IF IsFrame(reader) THEN reader.out[1][1] ELSE received
    BY <1>3 DEF ClearCount
  <2>2. IsFrame(reader) => reader.out[1][1] \in 1..bus.n
    BY <2>1, ReturnedFrame
  <2>3. received' <= bus.n
    BY <1>0, <2>1, <2>2
  <2>. QED
    BY <1>0, <2>1, <2>3 DEF BusOK
<1>4. ASSUME \/ Pending2 \/ UNCHANGED rs485vars
             \/ ReadCount \/ Waited \/ TakeLen \/ SendBegins \/ SendEnds \/ ReceiverOn
      PROVE  BusOK'
  <2>1. bus' = bus /\ received' = received
    BY <1>4 DEF Pending2, rs485vars, ReadCount, Waited, TakeLen, SendBegins, SendEnds, ReceiverOn
  <2>. QED
    BY <2>1 DEF BusOK
<1>. QED
  BY <1>1, <1>2, <1>3, <1>4 DEF BusNext, Program

\* The wait of RS485_Receive_Data when USART2_IRQHandler takes a byte.
LEMMA TakenWhileWaiting ==
  ASSUME Rs485TypeOK, ReaderOK, NEW b \in Byte2, Take(b), reader.pc = "wait"
  PROVE  /\ reader.rxlen <= Len(rx')
         /\ reader.rxlen < Len(rx') \/ (ragged' /\ rx' # <<>>)
<1>1. /\ rx \in Seq(Byte2) /\ Len(rx) \in 0..BufSize /\ ragged \in BOOLEAN
      /\ reader.rxlen \in Nat /\ BufSize \in Nat
  BY BusFacts DEF ReaderType
<1>2. reader.rxlen <= Len(rx)
  BY DEF ReaderOK
<1>3. /\ rx' \in Seq(Byte2) /\ Len(rx') \in 0..BufSize /\ Len(rx) <= Len(rx')
      /\ rx' # <<>> /\ ragged' \in BOOLEAN
      /\ ~ragged' => Len(rx') = Len(rx) + 1
  BY <1>1, TakeBytes
<1>4. Len(rx) \in Nat /\ Len(rx') \in Nat
  BY <1>1, <1>3
<1>5. reader.rxlen <= Len(rx')
  BY <1>1, <1>2, <1>3, <1>4
<1>6. CASE ragged'
  BY <1>3, <1>5, <1>6
<1>7. CASE ~ragged'
  <2>1. Len(rx') = Len(rx) + 1
    BY <1>3, <1>7
  <2>2. reader.rxlen < Len(rx')
    BY <1>1, <1>2, <1>4, <2>1
  <2>. QED
    BY <1>5, <2>2
<1>. QED
  BY <1>6, <1>7

LEMMA ReaderStep ==
  ASSUME Rs485TypeOK, BusOK, ReaderOK, BusNext
  PROVE  ReaderOK'
<1>0. /\ txen <=> reader.pc \in {"send", "cleared"}
      /\ reader.pc \in {"len", "clear"} => reader.out # <<>>
      /\ reader \in ReaderType /\ dr2 \subseteq Byte2
  BY BusFacts DEF ReaderOK, Rs485TypeOK
<1>c. NoCall.pc = "out" /\ NoCall.waited = FALSE
  BY DEF NoCall
<1>1. ASSUME NEW n \in FrameLen, FrameBegins(n) PROVE ReaderOK'
  <2>1. UNCHANGED <<rx, dr2, txen, reader>> /\ (rx # <<>> => ragged')
    BY <1>1 DEF FrameBegins
  <2>. QED
    BY <2>1 DEF ReaderOK
<1>2. CASE FrameGoesOn(busy)
  <2> DEFINE b == <<bus.n, bus.sent + 1>>
  <2>1. /\ b \in Byte2 /\ reader'.pc = reader.pc /\ reader'.rxlen = reader.rxlen
        /\ reader'.out = reader.out
    BY <1>2, NextByte
  <2>2. txen' = txen
    BY <1>2 DEF FrameGoesOn
  <2>3. ASSUME reader.pc = "wait"
        PROVE  \/ UNCHANGED rx /\ dr2' # {}
               \/ Take(b) /\ UNCHANGED dr2
    <3>1. ~txen
      BY <1>0, <2>3
    <3>. QED
      BY <1>2, <3>1 DEF FrameGoesOn
  <2>4. ASSUME reader.pc = "wait"
        PROVE  /\ reader.rxlen <= Len(rx')
               /\ \/ reader.rxlen < Len(rx') \/ dr2' # {}
                  \/ ragged' /\ rx' # <<>>
    <3>1. CASE UNCHANGED rx /\ dr2' # {}
      BY <2>4, <3>1 DEF ReaderOK
    <3>2. CASE Take(b) /\ UNCHANGED dr2
      <4> HIDE DEF b
      <4>. QED
        BY <2>1, <2>4, <3>2, TakenWhileWaiting
    <3>. QED
      BY <2>3, <2>4, <3>1, <3>2
  <2>. QED
    BY <1>0, <2>1, <2>2, <2>4 DEF ReaderOK
<1>3. CASE Pending2
  <2>1. UNCHANGED <<txen, reader>>
    BY <1>3 DEF Pending2
  <2>2. PICK b \in dr2 : Take(b)
    BY <1>3 DEF Pending2
  <2>3. reader.pc = "wait" => /\ reader.rxlen <= Len(rx')
                              /\ reader.rxlen < Len(rx') \/ (ragged' /\ rx' # <<>>)
    BY <1>0, <2>2, TakenWhileWaiting
  <2>. QED
    BY <1>0, <2>1, <2>3 DEF ReaderOK
<1>4. CASE ReadCount
  <2>1. /\ reader' = [NoCall EXCEPT !.pc = "wait", !.rxlen = Len(rx)]
        /\ UNCHANGED <<rx, txen>> /\ reader.pc = "out"
    BY <1>4 DEF ReadCount
  <2>2. reader'.pc = "wait" /\ reader'.rxlen = Len(rx) /\ ~reader'.waited
    BY <2>1 DEF NoCall
  <2>3. reader'.rxlen <= Len(rx')
    BY <2>1, <2>2, BusFacts
  <2>. QED
    BY <1>0, <2>1, <2>2, <2>3 DEF ReaderOK
<1>5. CASE Waited
  <2>1. txen' = txen /\ reader.pc = "wait"
    BY <1>5 DEF Waited
  <2>2. CASE reader' = NoCall
    BY <1>0, <1>c, <2>1, <2>2 DEF ReaderOK
  <2>3. CASE reader' # NoCall
    <3>1. /\ reader.rxlen = Len(rx) /\ Len(rx) > 0
          /\ reader' = [reader EXCEPT !.pc = "len", !.waited = FALSE,
                                      !.out = SubSeq(rx, 1, reader.rxlen)]
      BY <1>5, <2>3 DEF Waited
    <3>2. reader'.pc = "len" /\ reader'.out = SubSeq(rx, 1, reader.rxlen)
      BY <1>0, <3>1 DEF ReaderType
    <3>3. SubSeq(rx, 1, reader.rxlen) = rx /\ rx # <<>>
      BY <3>1, BusFacts, SubSeqFull, EmptySeq
    <3>. QED
      BY <1>0, <2>1, <3>2, <3>3 DEF ReaderOK
  <2>. QED
    BY <2>2, <2>3
<1>6. CASE TakeLen
  <2>1. /\ reader' = [reader EXCEPT !.pc = "clear", !.len = Len(rx)]
        /\ txen' = txen /\ reader.pc = "len"
    BY <1>6 DEF TakeLen
  <2>2. reader'.pc = "clear" /\ reader'.out = reader.out
    BY <1>0, <2>1 DEF ReaderType
  <2>. QED
    BY <1>0, <2>1, <2>2 DEF ReaderOK
<1>7. CASE ClearCount
  <2>1. reader' = NoCall /\ txen' = txen /\ reader.pc = "clear"
    BY <1>7 DEF ClearCount
  <2>. QED
    BY <1>0, <1>c, <2>1 DEF ReaderOK
<1>8. CASE SendBegins
  <2>1. txen' = TRUE /\ reader' = [NoCall EXCEPT !.pc = "send"]
    BY <1>8 DEF SendBegins
  <2>2. reader'.pc = "send"
    BY <2>1 DEF NoCall
  <2>. QED
    BY <2>1, <2>2 DEF ReaderOK
<1>9. CASE SendEnds
  <2>1. txen' = txen /\ reader.pc = "send" /\ reader' = [reader EXCEPT !.pc = "cleared"]
    BY <1>9 DEF SendEnds
  <2>2. reader'.pc = "cleared"
    BY <1>0, <2>1 DEF ReaderType
  <2>. QED
    BY <1>0, <2>1, <2>2 DEF ReaderOK
<1>10. CASE ReceiverOn
  <2>1. txen' = FALSE /\ reader' = NoCall
    BY <1>10 DEF ReceiverOn
  <2>. QED
    BY <1>c, <2>1 DEF ReaderOK
<1>11. CASE UNCHANGED rs485vars
  BY <1>11 DEF rs485vars, ReaderOK
<1>. QED
  BY <1>1, <1>2, <1>3, <1>4, <1>5, <1>6, <1>7, <1>8, <1>9, <1>10, <1>11
     DEF BusNext, Program

LEMMA FrameStep ==
  ASSUME Rs485TypeOK, BusOK, ReaderOK, FrameInv, BusNext
  PROVE  FrameInv'
<1>0. /\ rx \in Seq(Byte2) /\ Len(rx) \in 0..BufSize /\ ragged \in BOOLEAN
      /\ bus.n \in Nat /\ bus.sent \in Nat /\ bus.len \in Nat
      /\ received \in Nat /\ received <= bus.n
      /\ reader \in ReaderType /\ dr2 \subseteq Byte2
  BY BusFacts DEF BusOK, Rs485TypeOK
<1>c. NoCall.pc = "out"
  BY DEF NoCall
<1>1. ASSUME NEW n \in FrameLen, FrameBegins(n), ~ragged' PROVE FrameInv'
  <2>1. /\ bus' = [n |-> bus.n + 1, len |-> n, sent |-> 0]
        /\ UNCHANGED <<rx, dr2, reader, received>>
    BY <1>1 DEF FrameBegins
  <2>2. rx = <<>> /\ dr2 = {} /\ ~(reader.pc \in {"len", "clear"})
    BY <1>1 DEF FrameBegins
  <2>3. bus'.n = bus.n + 1 /\ bus'.sent = 0
    BY <2>1
  <2> DEFINE n1 == bus.n + 1
  <2>5. received' < bus'.n /\ n1 \in Nat
    BY <1>0, <2>1, <2>3
  <2> HIDE DEF n1
  <2>6. Frame(n1, 0) = <<>>
    BY <2>5, FrameBytes
  <2>4. Frame(bus'.n, bus'.sent) = <<>>
    BY <2>3, <2>6 DEF n1
  <2>. QED
    BY <2>1, <2>2, <2>4, <2>5 DEF FrameInv, Aligned
<1>2. ASSUME FrameGoesOn(busy), ~ragged' PROVE FrameInv'
  <2> DEFINE b == <<bus.n, bus.sent + 1>>
  <2>1. /\ bus.sent < bus.len /\ b \in Byte2
        /\ bus'.n = bus.n /\ bus'.len = bus.len /\ bus'.sent = bus.sent + 1
        /\ reader'.pc = reader.pc
    BY <1>2, NextByte
  <2>2. /\ received' = received
        /\ \/ dr2 = {} /\ dr2' = {b} /\ UNCHANGED <<rx, ragged>>
           \/ dr2 = {} /\ dr2' = {} /\ Take(b)
    BY <1>2 DEF FrameGoesOn
  <2> HIDE DEF b
  <2>3. ~ragged
    BY <1>0, <1>2, <2>1, <2>2, TakeBytes
  <2>4. bus.sent # bus.len
    BY <1>0, <2>1
  <2>5. rx = Frame(bus.n, bus.sent) /\ received < bus.n /\ ~(reader.pc \in {"len", "clear"})
    <3>1. dr2 = {}
      BY <2>2
    <3>. QED
      BY <2>1, <2>3, <2>4, <3>1 DEF FrameInv, Aligned
  <2>6. Append(rx, b) = Frame(bus'.n, bus'.sent)
    BY <1>0, <2>1, <2>5, FrameGrows DEF b
  <2>7. bus'.sent > 0 /\ bus'.sent - 1 = bus.sent
    BY <1>0, <2>1
  <2>8. Aligned'
    <3>1. CASE dr2' = {b} /\ UNCHANGED rx
      BY <2>1, <2>5, <2>7, <3>1 DEF Aligned, b
    <3>2. CASE dr2' = {} /\ Take(b)
      <4>1. rx' = Append(rx, b)
        BY <1>0, <1>2, <2>1, <3>2, TakeBytes
      <4>. QED
        BY <2>6, <3>2, <4>1 DEF Aligned
    <3>. QED
      BY <2>2, <3>1, <3>2
  <2>. QED
    BY <2>1, <2>2, <2>5, <2>8 DEF FrameInv
<1>3. ASSUME Pending2, ~ragged' PROVE FrameInv'
  <2>1. dr2' = {} /\ UNCHANGED <<bus, reader, received>>
    BY <1>3 DEF Pending2
  <2>2. PICK b \in dr2 : Take(b)
    BY <1>3 DEF Pending2
  <2>3. ~ragged /\ rx' = Append(rx, b)
    BY <1>0, <1>3, <2>2, TakeBytes
  <2>4. /\ bus.sent > 0 /\ rx = Frame(bus.n, bus.sent - 1) /\ b = <<bus.n, bus.sent>>
        /\ received < bus.n /\ ~(reader.pc \in {"len", "clear"})
    BY <2>2, <2>3 DEF FrameInv, Aligned
  <2>5. bus.sent - 1 \in Nat /\ (bus.sent - 1) + 1 = bus.sent
    BY <1>0, <2>4
  <2>6. rx' = Frame(bus.n, bus.sent)
    BY <1>0, <2>3, <2>4, <2>5, FrameGrows
  <2>. QED
    BY <2>1, <2>4, <2>6 DEF FrameInv, Aligned
<1>4. ASSUME ReadCount, ~ragged' PROVE FrameInv'
  <2>1. reader'.pc = "wait" /\ UNCHANGED <<rx, dr2, bus, ragged, received>>
    BY <1>4 DEF ReadCount, NoCall
  <2>. QED
    BY <2>1 DEF FrameInv, Aligned
<1>5. ASSUME Waited, dr2 = {}, ~ragged' PROVE FrameInv'
  <2>1. UNCHANGED <<rx, dr2, bus, ragged, received>> /\ reader.pc = "wait"
    BY <1>5 DEF Waited
  <2>2. CASE reader' = NoCall
    BY <1>5, <1>c, <2>1, <2>2 DEF FrameInv, Aligned
  <2>3. CASE reader' # NoCall
    <3>1. /\ reader.rxlen = Len(rx) /\ Len(rx) > 0
          /\ reader' = [reader EXCEPT !.pc = "len", !.waited = FALSE,
                                      !.out = SubSeq(rx, 1, reader.rxlen)]
      BY <1>5, <2>3 DEF Waited
    <3>2. reader'.pc = "len" /\ reader'.out = rx
      BY <1>0, <3>1, SubSeqFull DEF ReaderType
    <3>3. ~(reader.rxlen < Len(rx))
      BY <1>0, <3>1
    <3>4. bus.sent = bus.len
      BY <1>5, <2>1, <3>3 DEF ReaderOK, Waited
    <3>. QED
      BY <1>5, <2>1, <3>2, <3>4 DEF FrameInv, Aligned
  <2>. QED
    BY <2>2, <2>3
<1>6. ASSUME TakeLen, dr2 = {}, ~ragged' PROVE FrameInv'
  <2>1. /\ reader' = [reader EXCEPT !.pc = "clear", !.len = Len(rx)] /\ reader.pc = "len"
        /\ UNCHANGED <<rx, dr2, bus, ragged, received>>
    BY <1>6 DEF TakeLen
  <2>2. reader'.pc = "clear" /\ reader'.out = reader.out /\ reader'.len = Len(rx)
    BY <1>0, <2>1 DEF ReaderType
  <2>. QED
    BY <1>6, <2>1, <2>2 DEF FrameInv, Aligned
<1>7. ASSUME ClearCount, dr2 = {}, ~ragged' PROVE FrameInv'
  <2>1. /\ rx' = <<>> /\ reader' = NoCall /\ UNCHANGED <<dr2, bus, ragged>>
        /\ reader.pc = "clear"
    BY <1>7 DEF ClearCount
  <2>2. bus.sent = bus.len
    BY <1>7, <2>1 DEF FrameInv
  <2>3. ~(bus.sent < bus.len)
    BY <1>0, <2>2
  <2>. QED
    BY <1>7, <1>c, <2>1, <2>2, <2>3 DEF FrameInv, Aligned
<1>8. ASSUME SendBegins, ~ragged' PROVE FrameInv'
  <2>1. reader'.pc = "send" /\ UNCHANGED <<rx, dr2, bus, ragged, received>>
    BY <1>8 DEF SendBegins, NoCall
  <2>. QED
    BY <2>1 DEF FrameInv, Aligned
<1>9. ASSUME SendEnds, ~ragged' PROVE FrameInv'
  <2>1. ~ragged /\ UNCHANGED <<rx, dr2, bus, received>>
        /\ reader' = [reader EXCEPT !.pc = "cleared"]
    BY <1>9 DEF SendEnds
  <2>2. reader'.pc = "cleared"
    BY <1>0, <2>1 DEF ReaderType
  <2>. QED
    BY <2>1, <2>2 DEF FrameInv, Aligned
<1>10. ASSUME ReceiverOn, ~ragged' PROVE FrameInv'
  <2>1. reader' = NoCall /\ UNCHANGED <<rx, dr2, bus, ragged, received>>
    BY <1>10 DEF ReceiverOn
  <2>. QED
    BY <1>c, <2>1 DEF FrameInv, Aligned
<1>11. CASE UNCHANGED rs485vars
  BY <1>11 DEF rs485vars, FrameInv, Aligned
<1>12. CASE ragged'
  BY <1>12 DEF FrameInv
<1>. QED
  BY <1>1, <1>2, <1>3, <1>4, <1>5, <1>6, <1>7, <1>8, <1>9, <1>10, <1>11, <1>12
     DEF BusNext, Program

LEMMA BusInvInit == Init => BusInv
<1>1. BufSize \in Nat /\ MaxFrames \in Nat /\ <<>> \in Seq(Byte2) /\ Len(<<>>) = 0
  BY Rs485Assumption, EmptySeq
<1>2. NoCall \in ReaderType /\ NoCall.pc = "out"
  BY <1>1 DEF NoCall, ReaderType
<1>3. Frame(0, 0) = <<>>
  BY FrameBytes
<1> SUFFICES ASSUME Init PROVE BusInv
  OBVIOUS
<1>4. /\ rx = <<>> /\ dr2 = {} /\ txen = FALSE
      /\ bus = [n |-> 0, len |-> 0, sent |-> 0]
      /\ reader = NoCall /\ ragged = FALSE /\ received = 0
  BY DEF Init, Rs485Init
<1>5. bus \in [n : 0..MaxFrames, len : {0} \cup FrameLen, sent : Nat]
      /\ bus.sent <= bus.len /\ bus.n = 0 /\ bus.len = 0 /\ bus.sent = 0
  BY <1>1, <1>4
<1>6. Rs485TypeOK
  <2>1. /\ rx \in Seq(Byte2) /\ Len(rx) \in 0..BufSize /\ received \in 0..MaxFrames
        /\ reader \in ReaderType
    BY <1>1, <1>2, <1>4
  <2>2. dr2 \subseteq Byte2 /\ (\A b1, b2 \in dr2 : b1 = b2)
        /\ txen \in BOOLEAN /\ ragged \in BOOLEAN
    BY <1>4
  <2>. QED
    BY <1>5, <2>1, <2>2 DEF Rs485TypeOK
<1>7. BusOK /\ ReaderOK
  BY <1>2, <1>4, <1>5 DEF BusOK, ReaderOK
<1>8. FrameInv
  BY <1>2, <1>3, <1>4, <1>5 DEF FrameInv, Aligned
<1>. QED
  BY <1>6, <1>7, <1>8 DEF BusInv

LEMMA BusInvStep == BusInv /\ [Next]_vars => BusInv'
  BY BusOfNext, BusTypeStep, BusOKStep, ReaderStep, FrameStep DEF BusInv

LEMMA BusInvariant == Spec => []BusInv
  BY BusInvInit, BusInvStep, PTL DEF Spec

\* RS485_Receive_Data ends with a whole frame, and a new one.
LEMMA WholeFrame ==
  ASSUME BusInv, reader.pc = "clear", ~ragged
  PROVE  IsFrame(reader) /\ reader.out[1][1] > received
<1>1. /\ rx = reader.out /\ dr2 = {} /\ reader.len = Len(rx) /\ Aligned
      /\ reader.out # <<>> /\ bus.n \in Nat /\ bus.sent \in Nat /\ bus.len \in Nat
      /\ bus.sent <= bus.len /\ received \in Nat
  BY BusFacts DEF BusInv, FrameInv, ReaderOK, Rs485TypeOK
<1>2. received < bus.n
  BY <1>1 DEF BusInv, FrameInv
<1>3. rx = Frame(bus.n, bus.sent)
  BY <1>1 DEF Aligned
<1> DEFINE f == Frame(bus.n, bus.sent)
<1>f. Len(f) = bus.sent /\ (f = <<>> <=> bus.sent = 0) /\ (bus.sent > 0 => f[1] = <<bus.n, 1>>)
  BY <1>1, FrameBytes
<1> HIDE DEF f
<1>g. rx = f
  BY <1>3 DEF f
<1>4. reader.len = bus.sent /\ bus.sent > 0
  BY <1>1, <1>f, <1>g
<1>5. reader.out[1] = <<bus.n, 1>>
  BY <1>1, <1>f, <1>g, <1>4
<1>6. bus.n \in 1..bus.n
  BY <1>1, <1>2
<1>7. reader.out = Frame(bus.n, reader.len)
  BY <1>1, <1>3, <1>4
<1>8. IsFrame(reader)
  BY <1>1, <1>6, <1>7 DEF IsFrame
<1>. QED
  BY <1>1, <1>2, <1>5, <1>8

-----------------------------------------------------------------------------
(* Lemmas about lines.                                                     *)

\* What is known of a line and of the bytes the terminal sends of it.
LEMMA LineFacts ==
  ASSUME Usart1TypeOK, NEW n \in 1..Len(lines)
  PROVE  /\ n \in 1..MaxLines /\ lines[n] \in Line
         /\ lines[n].len \in Nat /\ lines[n].ready \in BOOLEAN
         /\ \A i \in Nat : ByteAt(n, i) \in Byte1
<1>1. lines \in Seq(Line) /\ Len(lines) <= MaxLines /\ MaxLines \in Nat
      /\ \A l \in LineLen : l \in Nat
  BY Usart1Assumption DEF Usart1TypeOK
<1>2. lines[n] \in Line
  BY <1>1, ElementOfSeq
<1>3. lines[n].len \in LineLen /\ lines[n].ready \in BOOLEAN
  BY <1>2 DEF Line
<1>4. lines[n].len \in Nat
  BY <1>1, <1>3
<1>5. Len(lines) \in Nat
  BY <1>1, LenProperties
<1>6. n \in 1..MaxLines
  BY <1>1, <1>5
<1>7. ASSUME NEW i \in Nat PROVE ByteAt(n, i) \in Byte1
  <2> DEFINE is == CASE i <= lines[n].len -> "text"
                     [] i = lines[n].len + 1 /\ lines[n].ends # "lf" -> "cr"
                     [] OTHER -> "lf"
  <2>1. is \in {"text", "cr", "lf"}
    OBVIOUS
  <2>2. ByteAt(n, i) = [n |-> n, pos |-> i, is |-> is]
    BY DEF ByteAt
  <2> HIDE DEF is
  <2>. QED
    BY <1>6, <2>1, <2>2 DEF Byte1
<1>. QED
  BY <1>2, <1>3, <1>4, <1>6, <1>7

\* The line that is being sent.
LEMMA LastLine ==
  ASSUME Usart1TypeOK, SentOK, lines # <<>>
  PROVE  /\ Len(lines) \in Nat /\ Len(lines) \in 1..Len(lines) /\ sent \in Nat
         /\ LET l == lines[Len(lines)]
            IN  /\ l.len \in Nat
                /\ l.ends = "crlf" => sent <= l.len + 2 /\ (AllSent <=> sent = l.len + 2)
                /\ l.ends # "crlf" => sent <= l.len + 1 /\ (AllSent <=> sent = l.len + 1)
<1>1. lines \in Seq(Line)
  BY DEF Usart1TypeOK
<1>2. Len(lines) \in Nat /\ Len(lines) # 0
  BY <1>1, LenProperties, EmptySeq
<1>3. Len(lines) \in 1..Len(lines)
  BY <1>2
<1>4. lines[Len(lines)].len \in Nat
  BY <1>3, LineFacts
<1>5. sent \in Nat /\ sent <= Size(lines[Len(lines)])
      /\ (AllSent <=> sent = Size(lines[Len(lines)]))
  BY DEF SentOK, AllSent
<1>. QED
  BY <1>2, <1>3, <1>4, <1>5 DEF Size

\* A new line leaves the others as they are.
LEMMA AppendLine ==
  ASSUME Usart1TypeOK, NEW l \in Line, lines' = Append(lines, l)
  PROVE  /\ lines' \in Seq(Line) /\ lines' # <<>> /\ Len(lines') = Len(lines) + 1
         /\ Len(lines) \in Nat /\ lines'[Len(lines')] = l
         /\ \A n \in 1..Len(lines) : n \in 1..Len(lines') /\ lines'[n] = lines[n]
<1>1. lines \in Seq(Line)
  BY DEF Usart1TypeOK
<1>2. Len(lines) \in Nat
  BY <1>1, LenProperties
<1>. QED
  BY <1>1, <1>2, AppendProperties

LEMMA SameTail ==
  ASSUME NEW n, NEW k, lines'[n] = lines[n]
  PROVE  TailOf(n, k)' = TailOf(n, k)
  BY DEF TailOf, ByteAt

\* What is complete after a step, given what the step does to its line and buffer.
LEMMA DoneKept ==
  ASSUME NEW m, m = ended', m \in 1..Len(lines'), lines'[m] = lines[m],
         lines[m].ready => buf' = TailOf(m, lines[m].len)
  PROVE  DoneOK'
  BY DEF DoneOK, TailOf, ByteAt

\* One byte more in the buffer, or a wrap.
LEMMA TailGrows ==
  ASSUME Usart1TypeOK, NEW n \in 1..Len(lines), NEW k \in Nat
  PROVE  /\ TailOf(n, 0) = <<>>
         /\ TailOf(n, k + 1) = IF Len(TailOf(n, k)) + 1 > RecLen - 1 THEN <<>>
                               ELSE Append(TailOf(n, k), ByteAt(n, k + 1))
<1> DEFINE r == k % RecLen
           s == TailOf(n, k)
           t == TailOf(n, k + 1)
           e == ByteAt(n, k + 1)
<1>0. RecLen \in Nat \ {0} /\ k + 1 \in Nat
  BY Usart1Assumption
<1>1. r \in Nat /\ r < RecLen /\ k - r \in Nat
  <2>1. r \in Nat /\ r < RecLen /\ (k \div RecLen) \in Nat /\ k = RecLen * (k \div RecLen) + r
    BY <1>0, DivModFacts
  <2>2. RecLen * (k \div RecLen) \in Nat
    BY <1>0, <2>1
  <2>. QED
    BY <2>1, <2>2
<1>2. (k + 1) % RecLen = IF r + 1 = RecLen THEN 0 ELSE r + 1
  BY <1>0, ModNext
<1>3. s \in Seq(Byte1) /\ Len(s) = r /\ \A j \in 1..r : s[j] = ByteAt(n, k - r + j)
  <2>1. \A j \in 1..r : k - r + j \in Nat
    BY <1>1
  <2>2. s = [j \in 1..r |-> ByteAt(n, k - r + j)]
    BY DEF TailOf
  <2>3. s \in [1..r -> Byte1]
    BY <2>1, <2>2, LineFacts
  <2>4. s \in Seq(Byte1)
    BY <1>1, <2>3, SeqDef
  <2>. QED
    BY <1>1, <2>2, <2>3, <2>4, LenProperties
<1>4. e \in Byte1
  BY <1>0, LineFacts
<1> DEFINE Grows == t = IF Len(s) + 1 > RecLen - 1 THEN <<>> ELSE Append(s, e)
<1>5. ASSUME r + 1 = RecLen PROVE Grows
  <2>1. t = <<>>
    <3>1. (k + 1) % RecLen = 0
      BY <1>2, <1>5
    <3>2. t = [j \in 1..0 |-> ByteAt(n, (k + 1) - 0 + j)]
      BY <3>1 DEF TailOf
    <3>3. 1..0 = {}
      OBVIOUS
    <3>4. \A f : f = [j \in {} |-> ByteAt(n, (k + 1) - 0 + j)] => f = <<>>
      OBVIOUS
    <3>. QED
      BY <3>2, <3>3, <3>4
  <2>2. Len(s) + 1 > RecLen - 1
    BY <1>0, <1>1, <1>3, <1>5
  <2>. QED
    BY <2>1, <2>2
<1>6. ASSUME r + 1 # RecLen PROVE Grows
  <2>1. (k + 1) % RecLen = r + 1 /\ (k + 1) - (r + 1) = k - r
    BY <1>1, <1>2, <1>6
  <2>2. t = [j \in 1..(r + 1) |-> ByteAt(n, k - r + j)]
    BY <2>1 DEF TailOf
  <2>3. \A j \in 1..(r + 1) : k - r + j \in Nat
    BY <1>1
  <2>4. t \in [1..(r + 1) -> Byte1]
    BY <2>2, <2>3, LineFacts
  <2>5. r + 1 \in Nat
    BY <1>1
  <2>6. t \in Seq(Byte1)
    BY <2>4, <2>5, SeqDef
  <2>7. Len(t) = r + 1
    BY <2>4, <2>5, <2>6, LenProperties
  <2>8. k - r + (r + 1) = k + 1 /\ r + 1 \in 1..(r + 1) /\ \A j \in 1..r : j \in 1..(r + 1)
    BY <1>1
  <2>9. (\A j \in 1..r : t[j] = ByteAt(n, k - r + j)) /\ t[r + 1] = e
    BY <2>2, <2>8
  <2>10. ~(Len(s) + 1 > RecLen - 1)
    BY <1>0, <1>1, <1>3, <1>6
  <2> HIDE DEF r, s, t, e
  <2>11. /\ Append(s, e) \in Seq(Byte1) /\ Len(Append(s, e)) = r + 1
         /\ (\A j \in 1..r : Append(s, e)[j] = s[j]) /\ Append(s, e)[r + 1] = e
    BY <1>3, <1>4, AppendProperties
  <2>12. \A j \in 1..(r + 1) : Append(s, e)[j] = t[j]
    BY <1>1, <1>3, <2>9, <2>11
  <2>13. Append(s, e) = t
    BY <2>6, <2>7, <2>11, <2>12, SeqEqual
  <2>. QED
    BY <2>10, <2>13
<1>7. TailOf(n, 0) = <<>>
  <2>1. 0 % RecLen = 0
    BY <1>0
  <2>2. TailOf(n, 0) = [j \in 1..0 |-> ByteAt(n, 0 - 0 + j)]
    BY <2>1 DEF TailOf
  <2>3. 1..0 = {}
    OBVIOUS
  <2>4. \A f : f = [j \in {} |-> ByteAt(n, 0 - 0 + j)] => f = <<>>
    OBVIOUS
  <2>. QED
    BY <2>2, <2>3, <2>4
<1>. QED
  BY <1>5, <1>6, <1>7

-----------------------------------------------------------------------------
(* The console.                                                            *)

\* USART1_IRQHandler keeps the types.
LEMMA HandleType ==
  ASSUME Usart1TypeOK, NEW b \in Byte1, Handle(b)
  PROVE  /\ sta' \in {"open", "cr", "done"} /\ buf' \in Seq(Byte1) /\ Len(buf') < RecLen
         /\ ended' \in 0..MaxLines
<1>0. /\ sta \in {"open", "cr", "done"} /\ buf \in Seq(Byte1) /\ Len(buf) < RecLen
      /\ ended \in 0..MaxLines /\ RecLen \in Nat \ {0} /\ MaxLines \in Nat
  BY Usart1Assumption DEF Usart1TypeOK
<1>1. sta' \in {"open", "cr", "done"}
  BY <1>0 DEF Handle
<1>2. <<>> \in Seq(Byte1) /\ Len(<<>>) < RecLen
  BY <1>0, EmptySeq
<1>3. buf' \in {<<>>, buf} \/ (buf' = Append(buf, b) /\ ~(Len(buf) + 1 > RecLen - 1))
  BY DEF Handle
<1>4. Append(buf, b) \in Seq(Byte1) /\ Len(Append(buf, b)) = Len(buf) + 1 /\ Len(buf) \in Nat
  BY <1>0, AppendProperties, LenProperties
<1>5. buf' \in Seq(Byte1) /\ Len(buf') < RecLen
  <2>1. CASE buf' \in {<<>>, buf}
    BY <1>0, <1>2, <2>1
  <2>2. CASE buf' = Append(buf, b) /\ ~(Len(buf) + 1 > RecLen - 1)
    <3>1. Len(buf) + 1 < RecLen
      BY <1>0, <1>4, <2>2
    <3>. QED
      BY <1>4, <2>2, <3>1
  <2>. QED
    BY <1>3, <2>1, <2>2
<1>6. b.n \in 0..MaxLines
  BY <1>0 DEF Byte1
<1>7. ended' \in 0..MaxLines
  BY <1>0, <1>6 DEF Handle
<1>. QED
  BY <1>1, <1>5, <1>7

\* The byte that comes next is one of the line that is being sent.
LEMMA NextOfLine ==
  ASSUME Usart1TypeOK, SentOK, LineGoesOn
  PROVE  /\ lines # <<>> /\ sent + 1 \in Nat
         /\ ByteAt(Len(lines), sent + 1) \in Byte1
         /\ ByteAt(Len(lines), sent + 1).n = Len(lines)
<1>1. lines # <<>>
  BY DEF LineGoesOn, AllSent
<1>2. Len(lines) \in 1..Len(lines) /\ sent + 1 \in Nat
  BY <1>1, LastLine
<1>3. ByteAt(Len(lines), sent + 1) \in Byte1
  BY <1>2, LineFacts
<1>. QED
  BY <1>1, <1>2, <1>3 DEF ByteAt

LEMMA ConsoleTypeStep ==
  ASSUME Usart1TypeOK, SentOK, PortInv, ConsoleNext
  PROVE  Usart1TypeOK'
<1>0. /\ sta \in {"open", "cr", "done"} /\ busy \in BOOLEAN
      /\ buf \in Seq(Byte1) /\ Len(buf) < RecLen
      /\ \A b1, b2 \in dr1 : b1 = b2 /\ b1 \in Byte1
      /\ lines \in Seq(Line) /\ Len(lines) <= MaxLines /\ Len(lines) \in Nat
      /\ ended \in 0..MaxLines /\ ran \subseteq 1..MaxLines
      /\ RecLen \in Nat \ {0} /\ MaxLines \in Nat
  BY Usart1Assumption, LenProperties DEF Usart1TypeOK
<1>1. ASSUME NEW n \in LineLen, NEW e \in Endings, LineBegins(n, e) PROVE Usart1TypeOK'
  <2> DEFINE l == [len |-> n, ends |-> e, ready |-> sta = "open" /\ buf = <<>> /\ dr1 = {}]
  <2>1. /\ lines' = Append(lines, l) /\ Len(lines) < MaxLines
        /\ UNCHANGED <<sta, buf, dr1, busy, ended, ran>>
    BY <1>1 DEF LineBegins
  <2>2. (sta = "open" /\ buf = <<>> /\ dr1 = {}) \in BOOLEAN
    OBVIOUS
  <2>3. l \in Line
    BY <2>2 DEF Line
  <2> HIDE DEF l
  <2>4. lines' \in Seq(Line) /\ Len(lines') = Len(lines) + 1
    BY <2>1, <2>3, AppendLine
  <2>5. Len(lines') <= MaxLines
    BY <1>0, <2>1, <2>4
  <2>. QED
    BY <1>0, <2>1, <2>4, <2>5 DEF Usart1TypeOK
<1>2. CASE LineGoesOn
  <2> DEFINE b == ByteAt(Len(lines), sent + 1)
  <2>1. b \in Byte1
    BY <1>2, NextOfLine
  <2>2. UNCHANGED <<lines, busy, ran>>
    BY <1>2 DEF LineGoesOn
  <2>3. \/ dr1' = (IF dr1 = {} THEN {b} ELSE dr1) /\ UNCHANGED <<sta, buf, ended>>
        \/ Handle(b) /\ UNCHANGED dr1
    BY <1>2 DEF LineGoesOn
  <2> HIDE DEF b
  <2>4. \A b1, b2 \in dr1' : b1 = b2 /\ b1 \in Byte1
    BY <1>0, <2>1, <2>3
  <2>5. /\ sta' \in {"open", "cr", "done"} /\ buf' \in Seq(Byte1) /\ Len(buf') < RecLen
        /\ ended' \in 0..MaxLines
    BY <1>0, <2>1, <2>3, HandleType
  <2>. QED
    BY <1>0, <2>2, <2>4, <2>5 DEF Usart1TypeOK
<1>3. CASE Pending1
  <2>1. UNCHANGED <<lines, busy, ran>> /\ dr1' = {}
    BY <1>3 DEF Pending1
  <2>2. PICK b \in dr1 : Handle(b)
    BY <1>3 DEF Pending1
  <2>3. b \in Byte1
    BY <1>0
  <2>4. /\ sta' \in {"open", "cr", "done"} /\ buf' \in Seq(Byte1) /\ Len(buf') < RecLen
        /\ ended' \in 0..MaxLines
    BY <2>2, <2>3, HandleType
  <2>. QED
    BY <1>0, <2>1, <2>4 DEF Usart1TypeOK
<1>4. CASE ScanBegins
  <2>1. /\ sta = "done" /\ busy' = TRUE /\ ran' = ran \cup {ended}
        /\ UNCHANGED <<sta, buf, dr1, lines, ended>>
    BY <1>4 DEF ScanBegins
  <2>2. ended \in 1..MaxLines
    BY <1>0, <2>1 DEF PortInv, DoneOK
  <2>. QED
    BY <1>0, <2>1, <2>2 DEF Usart1TypeOK
<1>5. CASE ScanEnds
  <2>1. busy' = FALSE /\ sta' = "open" /\ buf' = <<>> /\ UNCHANGED <<dr1, lines, ended, ran>>
    BY <1>5 DEF ScanEnds
  <2>2. buf' \in Seq(Byte1) /\ Len(buf') < RecLen
    BY <1>0, <2>1, EmptySeq
  <2>. QED
    BY <1>0, <2>1, <2>2 DEF Usart1TypeOK
<1>6. CASE UNCHANGED usart1vars
  BY <1>0, <1>6 DEF usart1vars, Usart1TypeOK
<1>. QED
  BY <1>1, <1>2, <1>3, <1>4, <1>5, <1>6 DEF ConsoleNext

LEMMA SentStep ==
  ASSUME Usart1TypeOK, SentOK, ConsoleNext
  PROVE  SentOK'
<1>1. ASSUME NEW n \in LineLen, NEW e \in Endings, LineBegins(n, e) PROVE SentOK'
  <2> DEFINE l == [len |-> n, ends |-> e, ready |-> sta = "open" /\ buf = <<>> /\ dr1 = {}]
  <2>1. lines' = Append(lines, l) /\ sent' = 0
    BY <1>1 DEF LineBegins
  <2>2. (sta = "open" /\ buf = <<>> /\ dr1 = {}) \in BOOLEAN
    OBVIOUS
  <2>3. l \in Line /\ l.len = n
    BY <2>2 DEF Line
  <2> HIDE DEF l
  <2>4. lines'[Len(lines')] = l
    BY <2>1, <2>3, AppendLine
  <2>5. n \in Nat
    BY Usart1Assumption
  <2>6. 0 <= Size(l)
    BY <2>3, <2>5 DEF Size
  <2>. QED
    BY <2>1, <2>4, <2>6 DEF SentOK
<1>2. CASE LineGoesOn
  <2> DEFINE l == lines[Len(lines)]
  <2>1. /\ lines # <<>> /\ ~AllSent /\ sent' = sent + 1 /\ lines' = lines
    BY <1>2 DEF LineGoesOn, AllSent
  <2>2. /\ l.len \in Nat /\ sent \in Nat /\ sent <= Size(l) /\ sent # Size(l)
    BY <2>1, LastLine DEF SentOK, AllSent
  <2>3. Size(l) \in Nat
    BY <2>2 DEF Size
  <2>4. sent + 1 \in Nat /\ sent + 1 <= Size(l)
    BY <2>2, <2>3
  <2>. QED
    BY <2>1, <2>4 DEF SentOK
<1>3. ASSUME Pending1 \/ ScanBegins \/ ScanEnds \/ UNCHANGED usart1vars PROVE SentOK'
  <2>1. sent' = sent /\ lines' = lines
    BY <1>3 DEF Pending1, ScanBegins, ScanEnds, usart1vars
  <2>. QED
    BY <2>1 DEF SentOK
<1>. QED
  BY <1>1, <1>2, <1>3 DEF ConsoleNext

\* A command is not run while a line is being sent that found the receiver at rest.
LEMMA RestIsNotDone ==
  ASSUME Usart1TypeOK, SentOK, PortInv, LineInv,
         lines # <<>>, lines[Len(lines)].ready, ~AllSent
  PROVE  /\ sta # "done" /\ ~busy /\ dr1 = {}
         /\ \/ sent <= lines[Len(lines)].len
            \/ lines[Len(lines)].ends = "crlf" /\ sent = lines[Len(lines)].len + 1
<1> DEFINE l == lines[Len(lines)]
<1>1. l.len \in Nat /\ sent \in Nat
  BY LastLine
<1>2. l.ends = "crlf" => sent <= l.len + 2 /\ sent # l.len + 2
  BY LastLine
<1>3. l.ends # "crlf" => sent <= l.len + 1 /\ sent # l.len + 1
  BY LastLine
<1>4. \/ sent <= l.len
      \/ l.ends = "crlf" /\ sent = l.len + 1
  BY <1>1, <1>2, <1>3
<1>5. sta # "done" /\ dr1 = {}
  BY <1>4 DEF LineInv
<1>6. ~busy
  BY <1>5 DEF PortInv
<1>. QED
  BY <1>4, <1>5, <1>6

LEMMA PortStep ==
  ASSUME Usart1TypeOK, SentOK, PortInv, LineInv, ConsoleNext
  PROVE  PortInv'
<1>0. /\ busy \in BOOLEAN /\ sta \in {"open", "cr", "done"}
      /\ busy => sta = "done"
      /\ \A b \in dr1 : b.n \in 1..Len(lines) /\ ~lines[b.n].ready
      /\ sta = "done" => /\ ended \in 1..Len(lines)
                         /\ lines[ended].ready => buf = TailOf(ended, lines[ended].len)
  BY DEF PortInv, DoneOK, Usart1TypeOK
<1>1. ASSUME NEW n \in LineLen, NEW e \in Endings, LineBegins(n, e) PROVE PortInv'
  <2> DEFINE l == [len |-> n, ends |-> e, ready |-> sta = "open" /\ buf = <<>> /\ dr1 = {}]
  <2>1. lines' = Append(lines, l) /\ UNCHANGED <<sta, buf, dr1, busy, ended>>
    BY <1>1 DEF LineBegins
  <2>2. (sta = "open" /\ buf = <<>> /\ dr1 = {}) \in BOOLEAN
    OBVIOUS
  <2>3. l \in Line
    BY <2>2 DEF Line
  <2> HIDE DEF l
  <2>4. \A k \in 1..Len(lines) : k \in 1..Len(lines') /\ lines'[k] = lines[k]
    BY <2>1, <2>3, AppendLine
  <2>5. ASSUME NEW b \in dr1 PROVE b.n \in 1..Len(lines') /\ ~lines'[b.n].ready
    BY <1>0, <2>4, <2>5
  <2>6. ASSUME sta = "done" PROVE DoneOK'
    <3>1. ended \in 1..Len(lines') /\ lines'[ended] = lines[ended]
      BY <1>0, <2>4, <2>6
    <3>. QED
      BY <1>0, <2>1, <2>6, <3>1, DoneKept
  <2>. QED
    BY <1>0, <2>1, <2>5, <2>6 DEF PortInv
<1>2. CASE LineGoesOn
  <2> DEFINE n == Len(lines)
             b == ByteAt(n, sent + 1)
  <2>1. /\ lines # <<>> /\ n \in 1..n /\ b.n = n /\ ~AllSent /\ lines' = lines
        /\ busy' = busy
    BY <1>2, NextOfLine, LastLine DEF LineGoesOn
  <2>2. CASE busy /\ dr1' = (IF dr1 = {} THEN {b} ELSE dr1) /\ UNCHANGED <<sta, buf, ended>>
    <3>1. ~lines[n].ready
      BY <2>1, <2>2, RestIsNotDone
    <3> HIDE DEF b
    <3>2. \A c \in dr1' : c.n \in 1..Len(lines) /\ ~lines[c.n].ready
      BY <1>0, <2>1, <2>2, <3>1
    <3>3. sta' = "done" => DoneOK'
      BY <1>0, <2>1, <2>2, DoneKept
    <3>. QED
      BY <1>0, <2>1, <2>2, <3>2, <3>3 DEF PortInv
  <2>3. CASE ~busy /\ dr1 = {} /\ Handle(b) /\ UNCHANGED dr1
    <3>1. ASSUME sta' = "done"
          PROVE  /\ ended' \in 1..Len(lines)
                 /\ lines[ended'].ready => buf' = TailOf(ended', lines[ended'].len)
      <4>1. CASE sta = "done"
        <5>1. ended' = ended /\ buf' = buf
          BY <2>3, <4>1 DEF Handle
        <5>. QED
          BY <1>0, <4>1, <5>1
      <4>2. CASE sta # "done"
        <5>1. sta = "cr" /\ b.is = "lf" /\ ended' = b.n /\ buf' = buf
          <6> HIDE DEF b
          <6>. QED
            BY <1>0, <2>3, <3>1, <4>2 DEF Handle
        <5>2. ASSUME lines[n].ready PROVE buf = TailOf(n, lines[n].len)
          <6>1. \/ sent <= lines[n].len
                \/ lines[n].ends = "crlf" /\ sent = lines[n].len + 1
            BY <2>1, <5>2, RestIsNotDone
          <6>. QED
            BY <2>1, <5>1, <5>2, <6>1 DEF LineInv
        <5>. QED
          BY <2>1, <5>1, <5>2
      <4>. QED
        BY <4>1, <4>2
    <3>2. sta' = "done" => DoneOK'
      BY <2>1, <3>1, DoneKept
    <3>. QED
      BY <2>1, <2>3, <3>2 DEF PortInv
  <2>. QED
    BY <1>2, <2>2, <2>3 DEF LineGoesOn
<1>3. CASE Pending1
  <2>1. UNCHANGED <<lines, busy>> /\ ~busy /\ dr1' = {}
    BY <1>3 DEF Pending1
  <2>2. PICK b \in dr1 : Handle(b)
    BY <1>3 DEF Pending1
  <2>3. b.n \in 1..Len(lines) /\ ~lines[b.n].ready
    BY <1>0
  <2>4. ASSUME sta' = "done"
        PROVE  /\ ended' \in 1..Len(lines)
               /\ lines[ended'].ready => buf' = TailOf(ended', lines[ended'].len)
    <3>1. CASE sta = "done"
      <4>1. ended' = ended /\ buf' = buf
        BY <2>2, <3>1 DEF Handle
      <4>. QED
        BY <1>0, <3>1, <4>1
    <3>2. CASE sta # "done"
      <4>1. ended' = b.n
        BY <1>0, <2>2, <2>4, <3>2 DEF Handle
      <4>. QED
        BY <2>3, <4>1
    <3>. QED
      BY <3>1, <3>2
  <2>5. sta' = "done" => DoneOK'
    BY <2>1, <2>4, DoneKept
  <2>. QED
    BY <2>1, <2>5 DEF PortInv
<1>4. CASE ScanBegins
  <2>1. sta = "done" /\ busy' = TRUE /\ UNCHANGED <<sta, buf, dr1, lines, ended>>
    BY <1>4 DEF ScanBegins
  <2>2. sta' = "done" => DoneOK'
    BY <1>0, <2>1, DoneKept
  <2>. QED
    BY <1>0, <2>1, <2>2 DEF PortInv
<1>5. CASE ScanEnds
  <2>1. busy' = FALSE /\ sta' = "open" /\ UNCHANGED <<dr1, lines>>
    BY <1>5 DEF ScanEnds
  <2>. QED
    BY <1>0, <2>1 DEF PortInv
<1>6. CASE UNCHANGED usart1vars
  <2>1. UNCHANGED <<sta, buf, dr1, lines, busy, ended>>
    BY <1>6 DEF usart1vars
  <2>2. sta' = "done" => DoneOK'
    BY <1>0, <2>1, DoneKept
  <2>. QED
    BY <1>0, <2>1, <2>2 DEF PortInv
<1>. QED
  BY <1>1, <1>2, <1>3, <1>4, <1>5, <1>6 DEF ConsoleNext

\* USART1_IRQHandler takes a byte of a line that found it at rest.
LEMMA LineTaken ==
  ASSUME Usart1TypeOK, SentOK, LineInv, lines # <<>>, lines[Len(lines)].ready,
         Handle(ByteAt(Len(lines), sent + 1)), lines' = lines, sent' = sent + 1, dr1' = {},
         \/ sent <= lines[Len(lines)].len
         \/ lines[Len(lines)].ends = "crlf" /\ sent = lines[Len(lines)].len + 1
  PROVE  LineInv'
<1> DEFINE n == Len(lines)
           l == lines[n]
           b == ByteAt(n, sent + 1)
<1>0. n \in 1..n /\ l.len \in Nat /\ sent \in Nat
  BY LastLine
<1>1. TailOf(n, sent') = IF Len(TailOf(n, sent)) + 1 > RecLen - 1 THEN <<>>
                         ELSE Append(TailOf(n, sent), b)
  BY <1>0, TailGrows
<1>2. ASSUME NEW k \in Nat PROVE TailOf(n, k)' = TailOf(n, k)
  BY SameTail
<1>3. CASE sent + 1 <= l.len
  <2>1. sta = "open" /\ buf = TailOf(n, sent)
    BY <1>0, <1>3 DEF LineInv
  <2>2. b.is = "text"
    BY <1>0, <1>3 DEF ByteAt
  <2> HIDE DEF b
  <2>3. sta' = "open" /\ buf' = IF Len(buf) + 1 > RecLen - 1 THEN <<>> ELSE Append(buf, b)
    BY <2>1, <2>2 DEF Handle, b
  <2>4. buf' = TailOf(n, sent')
    BY <1>1, <2>1, <2>3
  <2>5. sent' # l.len + 1
    BY <1>0, <1>3
  <2>6. buf' = [j \in 1..((sent + 1) % RecLen) |->
                  ByteAt(n, (sent + 1) - ((sent + 1) % RecLen) + j)]
    BY <2>4 DEF TailOf
  <2>. QED
    BY <2>3, <2>5, <2>6 DEF LineInv, TailOf, ByteAt
<1>4. CASE sent = l.len
  <2>1. sta = "open" /\ buf = TailOf(n, l.len)
    BY <1>0, <1>4 DEF LineInv
  <2>2. ~(sent' <= l.len)
    BY <1>0, <1>4
  <2>3. ASSUME l.ends = "crlf" PROVE sta' = "cr" /\ buf' = TailOf(n, l.len)
    <3>1. b.is = "cr"
      BY <1>0, <1>4, <2>3 DEF ByteAt
    <3> HIDE DEF b
    <3>. QED
      BY <2>1, <3>1 DEF Handle, b
  <2>4. l.ends = "crlf" => sta' = "cr" /\ buf' = TailOf(n, l.len)'
    BY <2>3, SameTail
  <2>. QED
    BY <2>2, <2>4 DEF LineInv
<1>5. CASE sent = l.len + 1
  <2>1. ~(sent' <= l.len) /\ sent' # l.len + 1
    BY <1>0, <1>5
  <2>. QED
    BY <2>1 DEF LineInv
<1>6. \/ sent + 1 <= l.len \/ sent = l.len \/ sent = l.len + 1
  BY <1>0
<1>. QED
  BY <1>3, <1>4, <1>5, <1>6

LEMMA LineStep ==
  ASSUME Usart1TypeOK, SentOK, PortInv, LineInv, ConsoleNext
  PROVE  LineInv'
<1>0. sta \in {"open", "cr", "done"} /\ busy \in BOOLEAN
  BY DEF Usart1TypeOK
<1>1. ASSUME NEW n \in LineLen, NEW e \in Endings, LineBegins(n, e) PROVE LineInv'
  <2> DEFINE r == sta = "open" /\ buf = <<>> /\ dr1 = {}
             l == [len |-> n, ends |-> e, ready |-> r]
  <2>1. lines' = Append(lines, l) /\ sent' = 0 /\ UNCHANGED <<sta, buf, dr1>>
    BY <1>1 DEF LineBegins
  <2>2. r \in BOOLEAN
    OBVIOUS
  <2>3. l \in Line /\ l.len = n /\ l.ready = r
    BY <2>2 DEF Line
  <2>4. n \in Nat
    BY Usart1Assumption
  <2>5. /\ Len(lines') \in 1..Len(lines') /\ lines'[Len(lines')] = l
        /\ Usart1TypeOK' /\ lines' # <<>>
    <3> HIDE DEF l
    <3>1. lines'[Len(lines')] = l /\ Len(lines') = Len(lines) + 1 /\ Len(lines) \in Nat
      BY <2>1, <2>3, AppendLine
    <3>2. Usart1TypeOK'
      BY <1>1, ConsoleTypeStep DEF ConsoleNext
    <3>3. lines' # <<>>
      BY <2>1, <2>3, AppendLine
    <3>. QED
      BY <3>1, <3>2, <3>3
  <2>6. CASE r
    <3>1. sent' # n + 1 /\ RecLen \in Nat \ {0}
      BY <2>1, <2>4, Usart1Assumption
    <3>2. TailOf(Len(lines), 0)' = <<>>
      <4>1. 0 % RecLen = 0
        BY <3>1
      <4>2. TailOf(Len(lines), 0)' = [j \in 1..0 |-> ByteAt(Len(lines), 0 - 0 + j)']
        BY <4>1 DEF TailOf
      <4>3. 1..0 = {}
        OBVIOUS
      <4>4. \A f : f = [j \in {} |-> ByteAt(Len(lines), 0 - 0 + j)'] => f = <<>>
        OBVIOUS
      <4>. QED
        BY <4>2, <4>3, <4>4
    <3> HIDE DEF l
    <3>. QED
      BY <2>1, <2>3, <2>5, <2>6, <3>1, <3>2 DEF LineInv
  <2>7. CASE ~r
    <3> HIDE DEF l, r
    <3>. QED
      BY <2>3, <2>5, <2>7 DEF LineInv
  <2>. QED
    BY <2>6, <2>7
<1>2. CASE LineGoesOn
  <2>1. lines # <<>> /\ ~AllSent /\ sent' = sent + 1 /\ lines' = lines
    BY <1>2 DEF LineGoesOn, AllSent
  <2>2. SUFFICES ASSUME lines[Len(lines)].ready PROVE LineInv'
    BY <2>1 DEF LineInv
  <2>3. /\ ~busy /\ dr1 = {}
        /\ \/ sent <= lines[Len(lines)].len
           \/ lines[Len(lines)].ends = "crlf" /\ sent = lines[Len(lines)].len + 1
    BY <2>1, <2>2, RestIsNotDone
  <2>4. Handle(ByteAt(Len(lines), sent + 1)) /\ dr1' = {}
    BY <1>2, <2>3 DEF LineGoesOn
  <2>. QED
    BY <2>1, <2>2, <2>3, <2>4, LineTaken
<1>3. CASE Pending1
  <2>1. UNCHANGED <<lines, sent>> /\ dr1 # {}
    BY <1>3 DEF Pending1
  <2>. QED
    BY <2>1 DEF LineInv
<1>4. CASE ScanBegins \/ UNCHANGED usart1vars
  <2>1. UNCHANGED <<sta, buf, dr1, lines, sent>>
    BY <1>4 DEF ScanBegins, usart1vars
  <2>. QED
    BY <2>1 DEF LineInv, TailOf, ByteAt
<1>5. CASE ScanEnds
  <2>1. UNCHANGED <<dr1, lines, sent>> /\ sta = "done"
    BY <1>5 DEF ScanEnds, PortInv
  <2>. QED
    BY <2>1 DEF LineInv
<1>. QED
  BY <1>1, <1>2, <1>3, <1>4, <1>5 DEF ConsoleNext

LEMMA ConsoleInvInit == Init => ConsoleInv
<1> SUFFICES ASSUME Init PROVE ConsoleInv
  OBVIOUS
<1>1. /\ sta = "open" /\ buf = <<>> /\ dr1 = {} /\ lines = <<>> /\ sent = 0
      /\ busy = FALSE /\ ended = 0 /\ ran = {}
  BY DEF Init, Usart1Init
<1>2. RecLen \in Nat \ {0} /\ MaxLines \in Nat
  BY Usart1Assumption
<1>3. buf \in Seq(Byte1) /\ Len(buf) < RecLen /\ lines \in Seq(Line) /\ Len(lines) <= MaxLines
  BY <1>1, <1>2, EmptySeq
<1>4. /\ sta \in {"open", "cr", "done"} /\ busy \in BOOLEAN
      /\ \A b1, b2 \in dr1 : b1 = b2 /\ b1 \in Byte1
  BY <1>1
<1>6. ended \in 0..MaxLines /\ ran \subseteq 1..MaxLines
  <2>1. 0 \in 0..MaxLines
    BY <1>2
  <2>. QED
    BY <1>1, <2>1
<1>5. Usart1TypeOK
  BY <1>3, <1>4, <1>6 DEF Usart1TypeOK
<1>. QED
  BY <1>1, <1>5 DEF ConsoleInv, SentOK, PortInv, LineInv

LEMMA ConsoleInvStep == ConsoleInv /\ [Next]_vars => ConsoleInv'
  BY ConsoleOfNext, ConsoleTypeStep, SentStep, PortStep, LineStep DEF ConsoleInv

LEMMA ConsoleInvariant == Spec => []ConsoleInv
  BY ConsoleInvInit, ConsoleInvStep, PTL DEF Spec

-----------------------------------------------------------------------------
(* The theorems.                                                           *)

\* The variables of both ports have their types; of the buffers, that
\* USART2_IRQHandler never writes behind RS485_RX_BUF, nor USART1_IRQHandler
\* behind USART_RX_BUF (SerialPorts!TypeOK).
THEOREM TypeCorrect == Spec => []TypeOK
<1>1. BusInv /\ ConsoleInv => TypeOK
  BY DEF BusInv, ConsoleInv, TypeOK
<1>. QED
  BY <1>1, BusInvariant, ConsoleInvariant, PTL

\* Whatever RS485_Receive_Data returns of a bus that nobody has spoilt is one
\* frame, whole and new (SerialPorts!FrameIsWhole).
THEOREM WholeFrames == Spec => FrameIsWhole
<1>1. BusInv /\ [Next]_vars =>
        [reader.pc = "clear" /\ reader'.pc = "out" /\ ~ragged =>
           IsFrame(reader) /\ reader.out[1][1] > received]_vars
  BY WholeFrame
<1>. QED
  BY <1>1, BusInvariant, PTL DEF Spec, FrameIsWhole

\* The command that usmart_scan runs is the line as it was sent, when the receiver
\* was at rest as it began; of a line that does not fit, what is left after the
\* wraps (SerialPorts!CommandIsTail).
THEOREM CommandsAsSent == Spec => CommandIsTail
<1>1. ASSUME ConsoleInv, [Next]_vars, busy', ~busy, lines[ended].ready
      PROVE  LET len == lines[ended].len
                 rest == len % RecLen
             IN buf = [j \in 1..rest |-> ByteAt(ended, len - rest + j)]
  <2>1. sta = "done"
    BY <1>1, ConsoleOfNext DEF ConsoleNext, LineBegins, LineGoesOn, Pending1, ScanBegins,
                               ScanEnds, usart1vars
  <2>2. buf = TailOf(ended, lines[ended].len)
    BY <1>1, <2>1 DEF ConsoleInv, PortInv, DoneOK
  <2>. QED
    BY <2>2 DEF TailOf
<1>2. ConsoleInv /\ [Next]_vars =>
        [busy' /\ ~busy /\ lines[ended].ready =>
           LET len == lines[ended].len
               rest == len % RecLen
           IN buf = [j \in 1..rest |-> ByteAt(ended, len - rest + j)]]_vars
  BY <1>1
<1>. QED
  BY <1>2, ConsoleInvariant, PTL DEF Spec, CommandIsTail
=============================================================================

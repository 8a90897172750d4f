------------------------------- MODULE Rs485 -------------------------------
(***************************************************************************)
(* The RS485 port (HARDWARE/RS485/rs485.c): USART2_IRQHandler collects     *)
(* bytes; the program asks for a frame with RS485_Receive_Data, which      *)
(* takes two equal counts 10 ms apart for the end of one, or sends one     *)
(* with RS485_Send_Data.  A byte is <<frame, position>>.  Whether the      *)
(* processor is in another handler of the same priority is the parameter   *)
(* blocked of the interrupt: the data register holds one byte, and what    *)
(* comes after it is lost.                                                 *)
(***************************************************************************)
EXTENDS Naturals, Sequences

CONSTANTS
  BufSize,    \* bytes of RS485_RX_BUF: 64
  FrameLen,   \* lengths of the frames that other stations send
  MaxFrames   \* bound: frames on the bus

ASSUME Rs485Assumption ==
  BufSize \in Nat \ {0} /\ FrameLen \subseteq Nat \ {0} /\ MaxFrames \in Nat

VARIABLES
  rx,        \* RS485_RX_BUF up to RS485_RX_CNT
  dr2,       \* the data register of USART2: at most one byte
  txen,      \* RS485_TX_EN: the receiver is off
  bus,       \* the frame on the bus: number, length, bytes sent
  reader,    \* the program's call in progress: see ReaderType
  ragged,    \* history: what is in rx is not one frame from its first byte on
  received   \* history: the last whole frame returned

rs485vars == <<rx, dr2, txen, bus, reader, ragged, received>>

Byte2 == (1..MaxFrames) \X Nat
ReaderType == [pc: {"out", "wait", "len", "clear", "send", "cleared"}, rxlen: 0..BufSize,
               waited: BOOLEAN, out: Seq(Byte2), len: 0..BufSize]
NoCall == [pc |-> "out", rxlen |-> 0, waited |-> FALSE, out |-> <<>>, len |-> 0]

Frame(f, n) == [i \in 1..n |-> <<f, i>>]

Rs485Init ==
  /\ rx = <<>> /\ dr2 = {} /\ txen = FALSE
  /\ bus = [n |-> 0, len |-> 0, sent |-> 0]
  /\ reader = NoCall /\ ragged = FALSE /\ received = 0

\* USART2_IRQHandler for byte b.
Take(b) ==
  /\ rx' = IF Len(rx) < BufSize THEN Append(rx, b) ELSE rx
  /\ ragged' = (ragged \/ Len(rx) = BufSize)

\* A station begins a frame when the bus is silent, for however short a time.
FrameBegins(n) ==
  /\ bus.sent = bus.len /\ bus.n < MaxFrames
  /\ bus' = [n |-> bus.n + 1, len |-> n, sent |-> 0]
  /\ ragged' = (rx # <<>> \/ dr2 # {} \/ reader.pc \in {"len", "clear"})
  /\ UNCHANGED <<rx, dr2, txen, reader, received>>

\* The bytes of a frame follow each other.
FrameGoesOn(blocked) ==
  LET b == <<bus.n, bus.sent + 1>>
  IN
  /\ bus.sent < bus.len
  /\ bus' = [bus EXCEPT !.sent = @ + 1]
  /\ reader' = [reader EXCEPT !.waited = (@ \/ reader.pc = "wait")]
  /\ CASE txen -> ragged' = TRUE /\ UNCHANGED <<rx, dr2>>
       [] ~txen /\ blocked /\ dr2 # {} -> ragged' = TRUE /\ UNCHANGED <<rx, dr2>>
       [] ~txen /\ blocked /\ dr2 = {} -> dr2' = {b} /\ UNCHANGED <<rx, ragged>>
       [] ~txen /\ ~blocked -> dr2 = {} /\ Take(b) /\ UNCHANGED dr2
  /\ UNCHANGED <<txen, received>>

\* The interrupt that had to wait for the other handler.
Pending2 ==
  /\ \E b \in dr2 : Take(b)
  /\ dr2' = {}
  /\ UNCHANGED <<txen, bus, reader, received>>

-----------------------------------------------------------------------------
(* RS485_Receive_Data.                                                     *)

ReadCount ==
  /\ reader.pc = "out"
  /\ reader' = [NoCall EXCEPT !.pc = "wait", !.rxlen = Len(rx)]
  /\ UNCHANGED <<rx, dr2, txen, bus, ragged, received>>

\* Mutant of Waited: the counts are compared at once.
Waited_NotAtAll ==
  /\ reader.pc = "wait"
  /\ reader' = IF reader.rxlen = Len(rx) /\ Len(rx) > 0
               THEN [reader EXCEPT !.pc = "len", !.waited = FALSE, !.out = rx]
               ELSE NoCall
  /\ UNCHANGED <<rx, dr2, txen, bus, ragged, received>>

\* The 10 ms are over: in a frame, a byte at least has come.
Waited ==
  /\ reader.pc = "wait" /\ (reader.waited \/ bus.sent = bus.len)
  /\ reader' = IF reader.rxlen = Len(rx) /\ Len(rx) > 0
               THEN [reader EXCEPT !.pc = "len", !.waited = FALSE,
                                   !.out = SubSeq(rx, 1, reader.rxlen)]
               ELSE NoCall
  /\ UNCHANGED <<rx, dr2, txen, bus, ragged, received>>

TakeLen ==
  /\ reader.pc = "len"
  /\ reader' = [reader EXCEPT !.pc = "clear", !.len = Len(rx)]
  /\ UNCHANGED <<rx, dr2, txen, bus, ragged, received>>

IsFrame(r) == r.len = Len(r.out) /\ \E f \in 1..bus.n : r.out = Frame(f, r.len)

ClearCount ==
  /\ reader.pc = "clear"
  /\ rx' = <<>> /\ reader' = NoCall
  /\ received' = IF IsFrame(reader) THEN reader.out[1][1] ELSE received
  /\ UNCHANGED <<dr2, txen, bus, ragged>>

-----------------------------------------------------------------------------
(* RS485_Send_Data.                                                        *)

SendBegins ==
  /\ reader.pc = "out"
  /\ txen' = TRUE /\ reader' = [NoCall EXCEPT !.pc = "send"]
  /\ UNCHANGED <<rx, dr2, bus, ragged, received>>

\* All bytes are out: what has been received is dropped.
SendEnds ==
  /\ reader.pc = "send"
  /\ rx' = <<>> /\ ragged' = (ragged \/ rx # <<>>)
  /\ reader' = [reader EXCEPT !.pc = "cleared"]
  /\ UNCHANGED <<dr2, txen, bus, received>>

ReceiverOn ==
  /\ reader.pc = "cleared"
  /\ txen' = FALSE /\ reader' = NoCall
  /\ UNCHANGED <<rx, dr2, bus, ragged, received>>

Program == ReadCount \/ Waited \/ TakeLen \/ ClearCount \/ SendBegins \/ SendEnds \/ ReceiverOn

-----------------------------------------------------------------------------
Rs485TypeOK ==
  /\ rx \in Seq(Byte2) /\ Len(rx) \in 0..BufSize /\ dr2 \subseteq Byte2
  /\ \A b1, b2 \in dr2 : b1 = b2
  /\ txen \in BOOLEAN /\ bus \in [n: 0..MaxFrames, len: {0} \cup FrameLen, sent: Nat]
  /\ bus.sent <= bus.len
  /\ reader \in ReaderType /\ ragged \in BOOLEAN /\ received \in 0..MaxFrames
=============================================================================

----------------------------- MODULE Usart3Link -----------------------------
(***************************************************************************)
(* The USART3 receiver: USART3_IRQHandler (preemption priority 2), the     *)
(* frame timer TIM7 whose handler (priority 0) preempts it, and the code   *)
(* at thread level that polls USART3_RX_STA, uses the frame and writes     *)
(* USART3_RX_STA = 0.  All three share USART3_RX_STA without a lock.       *)
(*                                                                         *)
(* USART3_IRQHandler is split wherever it reads or writes shared state, so *)
(* TIM7_IRQHandler can run in between.  USART3_RX_STA is not volatile in   *)
(* usart3.c, but TIM_SetCounter and TIM_Cmd are calls into another file,   *)
(* so it is read again after each of them.  Time is counted in ticks; an   *)
(* interrupt entry and a handler together last less than one tick, which   *)
(* at 9600 baud is less than the time between two bytes.                   *)
(***************************************************************************)
EXTENDS Naturals, Sequences

CONSTANTS
  MAX_RECV_LEN,  \* USART3_MAX_RECV_LEN
  ARR,           \* ticks of a silent line until TIM7 overflows
  MaxIntra,      \* the sender's gaps: at most this many ticks inside a burst
  MinInter,      \* ... or at least this many, between two bursts
  MaxBurst,      \* bytes in a burst
  MaxBursts,     \* bursts that are sent (a bound of the model)
  GapCap         \* the silence counter stops here (a bound of the model)

ASSUME LinkAssumption ==
  /\ {MAX_RECV_LEN, ARR, MaxIntra, MinInter, MaxBurst, MaxBursts, GapCap} \subseteq Nat \ {0}
  /\ MinInter <= GapCap
  /\ ARR > 1    \* 100 ticks in the code

\* A byte is named by the burst it belongs to and its place in it.
Byte == [burst : 0..MaxBursts, pos : 0..MaxBurst]
NoByte == [burst |-> 0, pos |-> 0]

VARIABLES
  last,          \* the byte last put on the line
  gap,           \* ticks since then
  rdr,           \* USART3 data register, NoByte when RXNE is clear
  ticked,        \* a tick has passed since that byte arrived
  done, len,     \* USART3_RX_STA: bit 15 and bits 14..0
  buf,           \* USART3_RX_BUF
  stray,         \* a byte was written outside USART3_RX_BUF
  en, cnt, uif,  \* TIM7: CEN, the counter, the update flag
  pc,            \* where USART3_IRQHandler is, "none" when it is not running
  res,           \* its local: the byte read
  idx,           \* its local: USART3_RX_STA as read for USART3_RX_STA++
  task,          \* the reader: "poll", "copy", "deal"
  copy,          \* the frame as the reader copied it
  taken          \* the frame the reader worked on when it last wrote 0

wire  == <<last, gap, rdr, ticked>>
sta   == <<done, len>>
store == <<buf, stray>>
tim7  == <<en, cnt, uif>>
isr   == <<pc, res, idx>>
user  == <<task, copy, taken>>
vars  == <<wire, sta, store, tim7, isr, user>>

Frame == [i \in 1..len |-> buf[i - 1]]

\* The reader counts in a u8.
Copied == [i \in 1..(len % 256) |-> buf[i - 1]]

\* usart3_init ends with TIM7 stopped and USART3_RX_STA = 0.
Init ==
  /\ last = NoByte /\ gap = GapCap /\ rdr = NoByte /\ ticked = FALSE
  /\ done = FALSE /\ len = 0
  /\ buf = [i \in 0..(MAX_RECV_LEN - 1) |-> NoByte] /\ stray = FALSE
  /\ en = FALSE /\ cnt = 0 /\ uif = FALSE
  /\ pc = "none" /\ res = NoByte /\ idx = [done |-> FALSE, len |-> 0]
  /\ task = "poll" /\ copy = <<>> /\ taken = <<>>

-----------------------------------------------------------------------------
(* The line and the clock.                                                 *)

NextByte ==
  IF gap >= MinInter THEN [burst |-> last.burst + 1, pos |-> 1]
                     ELSE [last EXCEPT !.pos = @ + 1]

Arrive ==
  /\ rdr = NoByte /\ pc = "none"
  /\ gap \in 1..MaxIntra \/ gap >= MinInter
  /\ NextByte.burst <= MaxBursts /\ NextByte.pos <= MaxBurst
  /\ last' = NextByte /\ rdr' = NextByte
  /\ gap' = 0 /\ ticked' = FALSE
  /\ UNCHANGED <<sta, store, tim7, isr, user>>

\* TIM7 counts when enabled; at the reload value it sets the update flag.
CountTIM7 ==
  IF ~en THEN UNCHANGED tim7
  ELSE /\ cnt' = IF cnt + 1 = ARR THEN 0 ELSE cnt + 1
       /\ uif' = (cnt + 1 = ARR)
       /\ UNCHANGED en

Tick ==
  /\ ~uif
  /\ en \/ gap < GapCap
  /\ rdr # NoByte \/ pc # "none" => ~ticked
  /\ ticked' = TRUE
  /\ gap' = IF gap < GapCap THEN gap + 1 ELSE gap
  /\ CountTIM7
  /\ UNCHANGED <<last, rdr, sta, store, isr, user>>

-----------------------------------------------------------------------------
(* TIM7_IRQHandler: priority 0, so it runs to its end as soon as UIF is    *)
(* set, wherever USART3_IRQHandler or the reader is.                       *)

TIM7_IRQHandler_KeepsRunning ==
  /\ uif
  /\ done' = TRUE /\ uif' = FALSE
  /\ UNCHANGED <<wire, len, store, en, cnt, isr, user>>

TIM7_IRQHandler_NoMark ==
  /\ uif
  /\ uif' = FALSE /\ en' = FALSE
  /\ UNCHANGED <<wire, sta, store, cnt, isr, user>>

TIM7_IRQHandler ==
  /\ uif
  /\ done' = TRUE
  /\ uif' = FALSE /\ en' = FALSE
  /\ UNCHANGED <<wire, len, store, cnt, isr, user>>

-----------------------------------------------------------------------------
(* USART3_IRQHandler, one action per access to shared state.               *)

Step(from, to) == ~uif /\ pc = from /\ pc' = to

\* RXNE: the data register is read, which clears the flag.
Receive ==
  /\ Step("none", "done?")
  /\ rdr # NoByte
  /\ res' = rdr /\ rdr' = NoByte
  /\ UNCHANGED <<last, gap, ticked, sta, store, tim7, idx, user>>

\* A complete frame that is not yet handled: the byte is dropped.
CheckDone ==
  /\ Step("done?", IF done THEN "none" ELSE "room?")
  /\ UNCHANGED <<wire, sta, store, tim7, res, idx, user>>

\* With bit 15 set the 16-bit value is above any length.
CheckRoom_OffByOne ==
  /\ Step("room?", IF ~done /\ len <= MAX_RECV_LEN THEN "reset" ELSE "full")
  /\ UNCHANGED <<wire, sta, store, tim7, res, idx, user>>

CheckRoom ==
  /\ Step("room?", IF ~done /\ len < MAX_RECV_LEN THEN "reset" ELSE "full")
  /\ UNCHANGED <<wire, sta, store, tim7, res, idx, user>>

\* Buffer full: the frame is marked complete, TIM7 keeps running.
MarkFull ==
  /\ Step("full", "none")
  /\ done' = TRUE
  /\ UNCHANGED <<wire, len, store, tim7, res, idx, user>>

ResetTimer_Never ==
  /\ Step("reset", "arm")
  /\ UNCHANGED <<wire, sta, store, tim7, res, idx, user>>

ResetTimer ==
  /\ Step("reset", "arm")
  /\ cnt' = 0
  /\ UNCHANGED <<wire, sta, store, en, uif, res, idx, user>>

ArmTimer_AfterStore ==
  /\ Step("arm", "index")
  /\ en' = (en \/ (~done /\ len = 1))
  /\ UNCHANGED <<wire, sta, store, cnt, uif, res, idx, user>>

ArmTimer ==
  /\ Step("arm", "index")
  /\ en' = (en \/ (~done /\ len = 0))
  /\ UNCHANGED <<wire, sta, store, cnt, uif, res, idx, user>>

ReadIndex ==
  /\ Step("index", "store")
  /\ idx' = [done |-> done, len |-> len]
  /\ UNCHANGED <<wire, sta, store, tim7, res, user>>

\* USART3_RX_BUF[USART3_RX_STA++] = res, with the index as it was read: with
\* bit 15 set it is 0x8000 or more and the write is outside the buffer.
StoreByte ==
  /\ Step("store", "none")
  /\ IF idx.done THEN stray' = TRUE /\ UNCHANGED buf
                 ELSE buf' = [buf EXCEPT ![idx.len] = res] /\ UNCHANGED stray
  /\ done' = idx.done /\ len' = idx.len + 1
  /\ UNCHANGED <<wire, tim7, res, idx, user>>

USART3_IRQHandler ==
  \/ Receive \/ CheckDone \/ CheckRoom \/ MarkFull
  \/ ResetTimer \/ ArmTimer \/ ReadIndex \/ StoreByte

-----------------------------------------------------------------------------
(* The reader (bluetooth_deal, HC05_Init ...) runs when no interrupt does. *)

ThreadLevel == rdr = NoByte /\ pc = "none" /\ ~uif

SeeFrame ==
  /\ ThreadLevel /\ task = "poll" /\ done
  /\ task' = "copy"
  /\ UNCHANGED <<wire, sta, store, tim7, isr, copy, taken>>

CopyFrame ==
  /\ ThreadLevel /\ task = "copy"
  /\ copy' = Copied /\ task' = "deal"
  /\ UNCHANGED <<wire, sta, store, tim7, isr, taken>>

\* USART3_RX_STA = 0 once the command has been dealt with.
Release ==
  /\ ThreadLevel /\ task = "deal"
  /\ done' = FALSE /\ len' = 0
  /\ taken' = copy /\ task' = "poll"
  /\ UNCHANGED <<wire, store, tim7, isr, copy>>

Reader == SeeFrame \/ CopyFrame \/ Release

-----------------------------------------------------------------------------

Next == Arrive \/ Tick \/ TIM7_IRQHandler \/ USART3_IRQHandler \/ Reader

Spec == Init /\ [][Next]_vars

(* Time passes, a pending interrupt is taken and runs to its end, and the  *)
(* main loop comes back to the poll; nothing makes the sender send.        *)
Fairness ==
  /\ WF_vars(Tick)
  /\ WF_vars(TIM7_IRQHandler)
  /\ WF_vars(USART3_IRQHandler)
  /\ WF_vars(Reader)

FairSpec == Spec /\ Fairness

-----------------------------------------------------------------------------
(* Properties.                                                             *)

Mailbox == INSTANCE FrameMailbox
             WITH MaxLen <- MAX_RECV_LEN, frame <- Frame, ready <- done

\* The fields keep their widths: no length above USART3_MAX_RECV_LEN is ever
\* formed by USART3_RX_STA++, and the counter stays below its reload value.
TypeOK ==
  /\ last \in Byte /\ gap \in 0..GapCap /\ rdr \in Byte /\ ticked \in BOOLEAN
  /\ done \in BOOLEAN /\ len \in 0..MAX_RECV_LEN
  /\ buf \in [0..(MAX_RECV_LEN - 1) -> Byte] /\ stray \in BOOLEAN
  /\ en \in BOOLEAN /\ cnt \in 0..(ARR - 1) /\ uif \in BOOLEAN
  /\ pc \in {"none", "done?", "room?", "full", "reset", "arm", "index", "store"}
  /\ res \in Byte /\ idx \in [done : BOOLEAN, len : 0..MAX_RECV_LEN]
  /\ task \in {"poll", "copy", "deal"}
  /\ copy \in Seq(Byte) /\ taken \in Seq(Byte)

\* For a well-spaced sender the interrupt handlers and the reader implement
\* the mailbox: a complete frame is never empty, does not change under the
\* reader, and what it worked on is what it clears.
ImplementsMailbox == Mailbox!Spec

\* A frame is a run of consecutive bytes of one burst: dropping bytes while
\* a frame waits never leaves a hole, and two bursts are never joined.
FrameIsOneRun ==
  \A i \in 1..(len - 1) : Frame[i + 1] = [Frame[i] EXCEPT !.pos = @ + 1]

\* A frame is only closed once the line has been silent for longer than the
\* sender ever is inside a burst, so no burst is cut in two by TIM7.
ClosedAfterSilence == [][~done /\ done' => gap > MaxIntra]_vars

\* Every byte stored is handed over: the open frame is closed and the reader
\* empties the buffer.
FrameIsHandled == (len > 0) ~> (len = 0)

\* Whatever the sender does, an open frame has TIM7 running for it, or the
\* frame would stay open until 400 bytes have come.
OpenFrameIsTimed == ~done /\ len > 0 /\ pc = "none" => en \/ uif

\* Whatever the sender does, an open frame is closed.
OpenFrameIsClosed == (len > 0) ~> done

\* usart3.c:46: "a batch that is complete and not yet handled: no more data
\* is received".  A complete frame keeps its length until it is cleared.
CompleteFrameFrozen == [][done /\ done' => len' = len]_vars

\* usart3.c:31-34: bit 15 set says that a batch of data has been received.
CompleteFrameNotEmpty == done => len > 0
=============================================================================

------------------------- MODULE Usart3Link_proofs -------------------------
(***************************************************************************)
(* Proofs about Usart3Link, for every buffer length, reload value and      *)
(* sender.                                                                 *)
(*                                                                         *)
(* AnyInv holds whatever the sender does: the length USART3_IRQHandler     *)
(* tested is still below the capacity when it stores, and TIM7, just       *)
(* reset, cannot overflow before the byte is stored.  PacedInv adds what   *)
(* a well-spaced sender buys: TIM7 overflows only on a silent line, never  *)
(* between two accesses of USART3_IRQHandler.                              *)
(***************************************************************************)
EXTENDS Usart3Link, TLAPS

\* The sender whose frames survive: no gap in a burst reaches the overflow,
\* none between bursts is short of it, and a burst fits the buffer and the
\* reader's count.
WellSpaced ==
  /\ MaxIntra + 2 <= ARR
  /\ ARR + 2 <= MinInter
  /\ MaxBurst <= MAX_RECV_LEN /\ MaxBurst < 256

Ticks   == IF ticked THEN 1 ELSE 0       \* since the byte arrived
Pending == rdr # NoByte \/ pc # "none"   \* a byte is being received

RoomLeft ==
  /\ pc \in {"reset", "arm", "index"} => len < MAX_RECV_LEN
  /\ pc = "store" => idx.len < MAX_RECV_LEN

JustReset == pc \in {"arm", "index", "store"} => ~uif /\ cnt <= Ticks

Timed ==
  /\ ~done /\ len > 0 => en
  /\ pc = "index" /\ ~done => en
  /\ pc = "store" /\ ~idx.done => en

AnyInv == TypeOK /\ RoomLeft /\ JustReset /\ Timed

\* TIM7 runs for an open frame only, and counts the silence.
TimerInv ==
  /\ en => ~done
  /\ uif => en /\ ~Pending /\ gap \in ARR..(ARR + 1)
  /\ en /\ ~Pending => len > 0
  /\ en /\ ~Pending /\ ~uif => cnt <= gap /\ gap <= cnt + 1
  /\ en /\ Pending => cnt + 1 <= MaxIntra + 1 + Ticks
  /\ Pending => gap = Ticks
  /\ pc \in {"index", "store"} => en

\* What USART3_IRQHandler tested still holds when it acts on it.
HandlerInv ==
  /\ pc # "full"
  /\ pc \in {"room?", "reset", "arm", "index", "store"} => ~done
  /\ pc = "store" => ~idx.done /\ idx.len = len
  /\ pc # "none" => rdr = NoByte

\* The open frame is shorter than the burst so far and ends at its last byte.
BurstInv ==
  /\ Pending => last.pos > 0
  /\ len <= MaxBurst
  /\ ~done /\ ~Pending => len <= last.pos
  /\ ~done /\ Pending => len < last.pos
  /\ rdr # NoByte => rdr = last
  /\ pc # "none" => res = last
  /\ ~done /\ ~Pending /\ len > 0 => buf[len - 1] = last
  /\ ~done /\ Pending /\ len > 0 => last = [buf[len - 1] EXCEPT !.pos = @ + 1]
  /\ \A i \in 1..(len - 1) : buf[i] = [buf[i - 1] EXCEPT !.pos = @ + 1]

\* The reader works on a complete, non-empty frame.
ReaderInv ==
  /\ done => len > 0
  /\ task # "poll" => done
  /\ task = "deal" => copy = Frame

PacedInv == AnyInv /\ TimerInv /\ HandlerInv /\ BurstInv /\ ReaderInv

-----------------------------------------------------------------------------
(* Whatever the sender does.                                               *)

\* Every parameter is a positive number.
LEMMA ConstantsArePositive ==
  /\ MAX_RECV_LEN \in Nat /\ MAX_RECV_LEN > 0
  /\ ARR \in Nat /\ ARR > 1
  /\ MaxIntra \in Nat /\ MaxIntra > 0 /\ MinInter \in Nat /\ MinInter > 0
  /\ MaxBurst \in Nat /\ MaxBurst > 0 /\ MaxBursts \in Nat /\ MaxBursts > 0
  /\ GapCap \in Nat /\ GapCap > 0 /\ MinInter <= GapCap
BY LinkAssumption

\* The mark of an empty data register is typed like a byte.
LEMMA NoByteIsByte == NoByte \in Byte
BY ConstantsArePositive DEF NoByte, Byte

\* The next byte on the line is one, and a real one.
LEMMA NextByteIsByte ==
  ASSUME last \in Byte, NextByte.burst <= MaxBursts, NextByte.pos <= MaxBurst
  PROVE  NextByte \in Byte /\ NextByte.pos > 0 /\ NextByte # NoByte
<1>1. CASE gap >= MinInter
  BY <1>1, ConstantsArePositive DEF NextByte, Byte, NoByte
<1>2. CASE ~(gap >= MinInter)
  BY <1>2, ConstantsArePositive DEF NextByte, Byte, NoByte
<1> QED BY <1>1, <1>2

\* What the reader copies is a sequence of bytes.
LEMMA FrameIsSeq == TypeOK => Frame \in Seq(Byte) /\ Len(Frame) = len
<1> SUFFICES ASSUME TypeOK PROVE Frame \in Seq(Byte) /\ Len(Frame) = len
  OBVIOUS
<1>1. len \in Nat /\ \A i \in 1..len : buf[i - 1] \in Byte
  BY ConstantsArePositive DEF TypeOK
<1> QED BY <1>1 DEF Frame

\* So is the part of it that a u8 count reaches.
LEMMA CopiedIsSeq == TypeOK => Copied \in Seq(Byte)
<1> SUFFICES ASSUME TypeOK PROVE Copied \in Seq(Byte)
  OBVIOUS
<1>1. len % 256 \in Nat /\ \A i \in 1..(len % 256) : buf[i - 1] \in Byte
  BY ConstantsArePositive DEF TypeOK
<1> QED BY <1>1 DEF Copied

\* usart3_init leaves a state that satisfies AnyInv.
LEMMA AnyInvInit == Init => AnyInv
<1> SUFFICES ASSUME Init PROVE AnyInv
  OBVIOUS
<1>1. /\ last \in Byte /\ rdr \in Byte /\ res \in Byte
      /\ buf \in [0..(MAX_RECV_LEN - 1) -> Byte]
  BY NoByteIsByte DEF Init
<1>2. /\ gap \in 0..GapCap /\ len \in 0..MAX_RECV_LEN /\ cnt \in 0..(ARR - 1)
      /\ idx \in [done : BOOLEAN, len : 0..MAX_RECV_LEN]
  BY ConstantsArePositive DEF Init
<1>3. copy \in Seq(Byte) /\ taken \in Seq(Byte)
  BY DEF Init
<1>4. RoomLeft /\ JustReset /\ Timed
  BY DEF Init, RoomLeft, JustReset, Timed
<1> QED BY <1>1, <1>2, <1>3, <1>4 DEF Init, AnyInv, TypeOK

\* One lemma per actor: each keeps AnyInv.
LEMMA ArriveKeepsAnyInv == AnyInv /\ Arrive => AnyInv'
<1> SUFFICES ASSUME AnyInv, Arrive PROVE AnyInv'
  OBVIOUS
<1>1. last' \in Byte /\ rdr' \in Byte
  BY NextByteIsByte DEF Arrive, AnyInv, TypeOK
<1>2. TypeOK'
  <2>0. gap' = 0 /\ ticked' \in BOOLEAN
    BY DEF Arrive
  <2>1. gap' \in 0..GapCap
    BY <2>0, ConstantsArePositive
  <2>2. UNCHANGED <<sta, store, tim7, isr, user>> /\ TypeOK
    BY DEF Arrive, AnyInv
  <2> QED BY <1>1, <2>0, <2>1, <2>2 DEF TypeOK, sta, store, tim7, isr, user
<1>3. RoomLeft' /\ JustReset' /\ Timed'
  BY DEF Arrive, AnyInv, RoomLeft, JustReset, Timed, sta, tim7, isr
<1> QED BY <1>2, <1>3 DEF AnyInv

\* A tick raises the counter by one, too little to overflow after a reset.
LEMMA TickKeepsAnyInv == AnyInv /\ Tick => AnyInv'
<1> SUFFICES ASSUME AnyInv, Tick PROVE AnyInv'
  OBVIOUS
<1> USE DEF AnyInv
<1>1. gap' \in 0..GapCap
  BY ConstantsArePositive DEF Tick, TypeOK
<1>2. /\ en' = en /\ cnt' \in 0..(ARR - 1) /\ uif' \in BOOLEAN
      /\ cnt' = cnt \/ cnt' = cnt + 1 \/ cnt' = 0
      /\ uif' => cnt + 1 = ARR
  BY ConstantsArePositive DEF Tick, CountTIM7, TypeOK, tim7
<1>3. TypeOK'
  BY <1>1, <1>2 DEF Tick, TypeOK, sta, store, isr, user
<1>4. JustReset'
  BY <1>2, ConstantsArePositive DEF Tick, TypeOK, JustReset, Ticks, isr
<1>5. RoomLeft' /\ Timed'
  BY <1>2 DEF Tick, RoomLeft, Timed, sta, isr
<1> QED BY <1>3, <1>4, <1>5

\* TIM7_IRQHandler never runs between the reset and the store.
LEMMA TIM7KeepsAnyInv == AnyInv /\ TIM7_IRQHandler => AnyInv'
<1> SUFFICES ASSUME AnyInv, TIM7_IRQHandler PROVE AnyInv'
  OBVIOUS
<1>1. TypeOK'
  BY DEF TIM7_IRQHandler, AnyInv, TypeOK, wire, store, isr, user
<1>2. pc \notin {"arm", "index", "store"}
  BY DEF TIM7_IRQHandler, AnyInv, JustReset
<1>3. RoomLeft' /\ JustReset' /\ Timed'
  BY <1>2 DEF TIM7_IRQHandler, AnyInv, RoomLeft, JustReset, Timed, isr
<1> QED BY <1>1, <1>3 DEF AnyInv

\* USART3_IRQHandler, one case per step.
LEMMA HandlerKeepsAnyInv == AnyInv /\ USART3_IRQHandler => AnyInv'
<1> SUFFICES ASSUME AnyInv, USART3_IRQHandler PROVE AnyInv'
  OBVIOUS
<1> USE DEF AnyInv, Step
<1>1. CASE Receive
  <2>1. TypeOK'
    BY <1>1, NoByteIsByte DEF Receive, TypeOK, sta, store, tim7, user
  <2> QED BY <1>1, <2>1 DEF Receive, RoomLeft, JustReset, Timed, sta, tim7
<1>2. CASE CheckDone
  <2>1. TypeOK'
    BY <1>2 DEF CheckDone, TypeOK, wire, sta, store, tim7, user
  <2> QED BY <1>2, <2>1 DEF CheckDone, RoomLeft, JustReset, Timed, sta, tim7
<1>3. CASE CheckRoom
  <2>1. TypeOK'
    BY <1>3 DEF CheckRoom, TypeOK, wire, sta, store, tim7, user
  <2> QED BY <1>3, <2>1 DEF CheckRoom, RoomLeft, JustReset, Timed, sta, tim7
<1>4. CASE MarkFull
  <2>1. TypeOK'
    BY <1>4 DEF MarkFull, TypeOK, wire, store, tim7, user
  <2> QED BY <1>4, <2>1 DEF MarkFull, RoomLeft, JustReset, Timed, tim7
<1>5. CASE ResetTimer
  <2>1. TypeOK'
    BY <1>5, ConstantsArePositive DEF ResetTimer, TypeOK, wire, sta, store, user
  <2>2. JustReset'
    BY <1>5 DEF ResetTimer, JustReset, Ticks, wire
  <2> QED BY <1>5, <2>1, <2>2 DEF ResetTimer, RoomLeft, Timed, sta
<1>6. CASE ArmTimer
  <2>1. TypeOK'
    BY <1>6 DEF ArmTimer, TypeOK, wire, sta, store, user
  <2>2. JustReset' /\ RoomLeft'
    BY <1>6 DEF ArmTimer, JustReset, RoomLeft, Ticks, wire, sta
  <2>3. Timed'
    <3>1. done' = done /\ len' = len /\ pc' = "index" /\ len \in Nat
      BY <1>6, ConstantsArePositive DEF ArmTimer, TypeOK, sta
    <3>2. en => en'
      BY <1>6 DEF ArmTimer
    <3>3. ~done /\ len = 0 => en'
      BY <1>6 DEF ArmTimer
    <3> QED BY <3>1, <3>2, <3>3 DEF Timed
  <2> QED BY <2>1, <2>2, <2>3
<1>7. CASE ReadIndex
  <2>1. idx' \in [done : BOOLEAN, len : 0..MAX_RECV_LEN]
    BY <1>7 DEF ReadIndex, TypeOK
  <2>2. TypeOK'
    BY <1>7, <2>1 DEF ReadIndex, TypeOK, wire, sta, store, tim7, user
  <2>3. JustReset' /\ RoomLeft' /\ Timed'
    BY <1>7 DEF ReadIndex, JustReset, RoomLeft, Timed, Ticks, wire, sta, tim7
  <2> QED BY <2>2, <2>3
<1>8. CASE StoreByte
  <2>1. /\ idx.len \in 0..(MAX_RECV_LEN - 1) /\ idx.done \in BOOLEAN
        /\ len' \in 0..MAX_RECV_LEN /\ done' \in BOOLEAN
    BY <1>8, ConstantsArePositive DEF StoreByte, TypeOK, RoomLeft
  <2>2. buf' \in [0..(MAX_RECV_LEN - 1) -> Byte] /\ stray' \in BOOLEAN
    BY <1>8, <2>1 DEF StoreByte, TypeOK
  <2>3. TypeOK'
    BY <1>8, <2>1, <2>2 DEF StoreByte, TypeOK, wire, tim7, user
  <2>4. JustReset' /\ RoomLeft' /\ Timed'
    BY <1>8 DEF StoreByte, JustReset, RoomLeft, Timed, tim7
  <2> QED BY <2>3, <2>4
<1> QED
  BY <1>1, <1>2, <1>3, <1>4, <1>5, <1>6, <1>7, <1>8 DEF USART3_IRQHandler

\* The reader only runs when no interrupt does.
LEMMA ReaderKeepsAnyInv == AnyInv /\ Reader => AnyInv'
<1> SUFFICES ASSUME AnyInv, Reader PROVE AnyInv'
  OBVIOUS
<1> USE DEF AnyInv, ThreadLevel
<1>1. CASE SeeFrame
  <2>1. TypeOK'
    BY <1>1 DEF SeeFrame, TypeOK, wire, sta, store, tim7, isr
  <2> QED BY <1>1, <2>1 DEF SeeFrame, RoomLeft, JustReset, Timed, sta, tim7, isr
<1>2. CASE CopyFrame
  <2>1. TypeOK'
    BY <1>2, CopiedIsSeq DEF CopyFrame, TypeOK, wire, sta, store, tim7, isr
  <2> QED BY <1>2, <2>1 DEF CopyFrame, RoomLeft, JustReset, Timed, sta, tim7, isr
<1>3. CASE Release
  <2>1. TypeOK'
    BY <1>3, ConstantsArePositive DEF Release, TypeOK, wire, store, tim7, isr
  <2> QED BY <1>3, <2>1 DEF Release, RoomLeft, JustReset, Timed, tim7, isr
<1> QED BY <1>1, <1>2, <1>3 DEF Reader

\* Every step keeps AnyInv.
LEMMA AnyInvInductive == AnyInv /\ [Next]_vars => AnyInv'
<1>1. AnyInv /\ UNCHANGED vars => AnyInv'
  BY DEF AnyInv, TypeOK, RoomLeft, JustReset, Timed, Ticks,
         vars, wire, sta, store, tim7, isr, user
<1> QED
  BY <1>1, ArriveKeepsAnyInv, TickKeepsAnyInv, TIM7KeepsAnyInv,
     HandlerKeepsAnyInv, ReaderKeepsAnyInv
  DEF Next

\* AnyInv holds whatever the sender does.
THEOREM AnyInvariance == Spec => []AnyInv
BY AnyInvInit, AnyInvInductive, PTL DEF Spec

\* usart3.c: USART3_RX_STA++ never makes a length above the capacity.
THEOREM TypeCorrect == Spec => []TypeOK
<1>1. AnyInv => TypeOK
  BY DEF AnyInv
<1> QED BY <1>1, AnyInvariance, PTL

\* usart3.c: TIM7 runs for every open frame, so none waits for the line.
THEOREM OpenFramesTimed == Spec => []OpenFrameIsTimed
<1>1. AnyInv => OpenFrameIsTimed
  BY DEF AnyInv, Timed, OpenFrameIsTimed
<1> QED BY <1>1, AnyInvariance, PTL

-----------------------------------------------------------------------------
(* A well-spaced sender.                                                   *)

\* The part of PacedInv that AnyInv does not carry.
Paced == TimerInv /\ HandlerInv /\ BurstInv /\ ReaderInv

\* usart3_init leaves a state that satisfies PacedInv.
LEMMA PacedInit == Init => PacedInv
<1> SUFFICES ASSUME Init PROVE PacedInv
  OBVIOUS
<1>1. ~Pending /\ ~en /\ ~uif /\ ~done /\ len = 0 /\ pc = "none" /\ task = "poll"
  BY DEF Init, Pending
<1>2. last.pos = 0 /\ rdr = NoByte
  BY DEF Init, NoByte
<1>3. TimerInv /\ HandlerInv /\ ReaderInv
  BY <1>1, <1>2 DEF TimerInv, HandlerInv, ReaderInv
<1>4. BurstInv
  BY <1>1, <1>2, ConstantsArePositive DEF BurstInv
<1> QED BY <1>3, <1>4, AnyInvInit DEF PacedInv

\* A byte that arrives inside a burst finds TIM7 short of its overflow.
LEMMA ArriveKeepsPaced == WellSpaced /\ PacedInv /\ Arrive => Paced'
<1> SUFFICES ASSUME WellSpaced, PacedInv, Arrive PROVE Paced'
  OBVIOUS
<1> USE DEF PacedInv, AnyInv
<1>1. /\ last' = NextByte /\ rdr' = NextByte /\ gap' = 0 /\ ticked' = FALSE
      /\ rdr = NoByte /\ pc = "none" /\ pc' = "none"
      /\ UNCHANGED <<done, len, buf, en, cnt, uif, idx, res, task, copy>>
  BY DEF Arrive, sta, store, tim7, isr, user
<1>2. NextByte # NoByte /\ NextByte.pos > 0 /\ NextByte.pos \in Nat
  BY NextByteIsByte DEF Arrive, TypeOK, Byte
<1>3. ~Pending /\ Pending' /\ Ticks' = 0
  BY <1>1, <1>2 DEF Pending, Ticks
<1>4. /\ gap \in Nat /\ len \in Nat /\ cnt \in Nat /\ last.pos \in Nat /\ cnt < ARR
      /\ gap \in 1..MaxIntra \/ gap >= MinInter
  BY ConstantsArePositive DEF TypeOK, Byte, Arrive
<1>5. ~uif /\ (en => gap < MinInter)
  BY <1>3, <1>4, ConstantsArePositive DEF WellSpaced, TimerInv
<1>6. TimerInv'
  BY <1>1, <1>3, <1>4, <1>5, ConstantsArePositive DEF TimerInv, WellSpaced
<1>7. HandlerInv' /\ ReaderInv'
  BY <1>1 DEF HandlerInv, ReaderInv, Frame
<1>8. BurstInv'
  <2>1. ASSUME ~done, len > 0
        PROVE  NextByte = [buf[len - 1] EXCEPT !.pos = @ + 1] /\ len < NextByte.pos
    <3>1. gap < MinInter /\ buf[len - 1] = last /\ len <= last.pos
      BY <1>3, <1>5, <2>1 DEF Timed, BurstInv
    <3>2. NextByte = [last EXCEPT !.pos = @ + 1]
      BY <1>4, <3>1, ConstantsArePositive DEF NextByte
    <3> QED BY <1>4, <3>1, <3>2 DEF TypeOK, Byte
  <2>2. ~done => len < NextByte.pos
    BY <1>2, <1>4, <2>1
  <2> QED BY <1>1, <1>2, <1>3, <2>1, <2>2 DEF BurstInv
<1> QED BY <1>6, <1>7, <1>8 DEF Paced

\* TIM7 overflows only on a silent line.
LEMMA TickKeepsPaced == WellSpaced /\ PacedInv /\ Tick => Paced'
<1> SUFFICES ASSUME WellSpaced, PacedInv, Tick PROVE Paced'
  OBVIOUS
<1> USE DEF PacedInv, AnyInv
<1>1. /\ UNCHANGED <<last, rdr, done, len, buf, en, pc, res, idx, task, copy>>
      /\ ticked' = TRUE /\ ~uif /\ (Pending => ~ticked)
      /\ gap' = IF gap < GapCap THEN gap + 1 ELSE gap
  BY DEF Tick, CountTIM7, sta, store, tim7, isr, user, Pending
<1>2. /\ Pending' <=> Pending
      /\ Ticks' = 1 /\ (Pending => Ticks = 0)
  BY <1>1 DEF Pending, Ticks
<1>3. gap \in Nat /\ cnt \in Nat /\ cnt < ARR
  BY ConstantsArePositive DEF TypeOK
<1>4. /\ ~en => ~uif'
      /\ en /\ cnt + 1 # ARR => cnt' = cnt + 1 /\ ~uif'
      /\ en /\ cnt + 1 = ARR => cnt' = 0 /\ uif'
  BY <1>1 DEF Tick, CountTIM7, tim7
<1>5. TimerInv'
  <2>1. CASE ~en
    BY <1>1, <1>2, <1>3, <1>4, <2>1, ConstantsArePositive DEF TimerInv, WellSpaced
  <2>2. CASE en /\ Pending
    BY <1>1, <1>2, <1>3, <1>4, <2>2, ConstantsArePositive DEF TimerInv, WellSpaced
  <2>3. CASE en /\ ~Pending
    BY <1>1, <1>2, <1>3, <1>4, <2>3, ConstantsArePositive DEF TimerInv, WellSpaced
  <2> QED BY <2>1, <2>2, <2>3
<1>6. HandlerInv' /\ ReaderInv'
  BY <1>1 DEF HandlerInv, ReaderInv, Frame
<1>7. BurstInv'
  BY <1>1, <1>2 DEF BurstInv
<1> QED BY <1>5, <1>6, <1>7 DEF Paced

\* TIM7_IRQHandler closes a frame that has bytes.
LEMMA TIM7KeepsPaced == PacedInv /\ TIM7_IRQHandler => Paced'
<1> SUFFICES ASSUME PacedInv, TIM7_IRQHandler PROVE Paced'
  OBVIOUS
<1> USE DEF PacedInv
<1>1. /\ UNCHANGED <<last, gap, rdr, ticked, len, buf, cnt, pc, res, idx, task, copy>>
      /\ done' = TRUE /\ ~uif' /\ ~en'
  BY DEF TIM7_IRQHandler, wire, store, isr, user
<1>2. en /\ ~Pending /\ ~done /\ len > 0
  BY DEF TIM7_IRQHandler, TimerInv
<1>3. ~Pending' /\ pc = "none"
  BY <1>1, <1>2 DEF Pending
<1>4. TimerInv' /\ HandlerInv'
  BY <1>1, <1>3 DEF TimerInv, HandlerInv
<1>5. BurstInv'
  BY <1>1, <1>3 DEF BurstInv
<1>6. ReaderInv'
  BY <1>1, <1>2 DEF ReaderInv, Frame
<1> QED BY <1>4, <1>5, <1>6 DEF Paced

\* The reader releases what it copied.
LEMMA ReaderKeepsPaced == WellSpaced /\ PacedInv /\ Reader => Paced'
<1> SUFFICES ASSUME WellSpaced, PacedInv, Reader PROVE Paced'
  OBVIOUS
<1> USE DEF PacedInv, AnyInv
<1>1. /\ UNCHANGED <<last, gap, rdr, ticked, buf, en, cnt, uif, pc, res, idx>>
      /\ ~Pending /\ pc = "none" /\ ~uif
  BY DEF Reader, SeeFrame, CopyFrame, Release, ThreadLevel, Pending,
         wire, sta, store, tim7, isr
<1>2. ~Pending' /\ HandlerInv'
  BY <1>1 DEF Pending, HandlerInv
<1>3. CASE SeeFrame \/ CopyFrame
  <2>1. UNCHANGED <<done, len>>
    BY <1>3 DEF SeeFrame, CopyFrame, sta
  <2>2. TimerInv' /\ BurstInv'
    BY <1>1, <1>2, <2>1 DEF TimerInv, BurstInv, Ticks
  <2>3. len % 256 = len
    <3>1. len \in Nat
      BY ConstantsArePositive DEF TypeOK
    <3>2. len <= MaxBurst /\ MaxBurst < 256
      BY DEF BurstInv, WellSpaced
    <3>3. len < 256
      BY <3>1, <3>2, ConstantsArePositive
    <3> QED BY <3>1, <3>3
  <2>4. Copied = Frame
    BY <2>3 DEF Copied, Frame
  <2>5. Frame' = Frame
    BY <1>1, <2>1 DEF Frame
  <2>6. ReaderInv'
    BY <1>3, <2>1, <2>4, <2>5 DEF SeeFrame, CopyFrame, ReaderInv
  <2> QED BY <1>2, <2>2, <2>6 DEF Paced
<1>4. CASE Release
  <2>1. done /\ ~en /\ ~done' /\ len' = 0 /\ task' = "poll"
    BY <1>4 DEF Release, ReaderInv, TimerInv
  <2>2. last.pos \in Nat
    BY ConstantsArePositive DEF TypeOK, Byte
  <2>3. TimerInv' /\ ReaderInv'
    BY <1>1, <1>2, <2>1 DEF TimerInv, ReaderInv
  <2>4. BurstInv'
    BY <1>1, <1>2, <2>1, <2>2, ConstantsArePositive DEF BurstInv
  <2> QED BY <1>2, <2>3, <2>4 DEF Paced
<1> QED BY <1>3, <1>4 DEF Reader

\* The steps of USART3_IRQHandler that only move on.
LEMMA CheckKeepsPaced ==
  WellSpaced /\ PacedInv /\ (Receive \/ CheckDone \/ CheckRoom) => Paced'
<1> SUFFICES ASSUME WellSpaced, PacedInv, Receive \/ CheckDone \/ CheckRoom
             PROVE  Paced'
  OBVIOUS
<1> USE DEF PacedInv, AnyInv, Step
<1>1. /\ UNCHANGED <<last, gap, ticked, done, len, buf, en, cnt, uif, idx, task, copy>>
      /\ Pending /\ ~uif /\ Ticks' = Ticks
  BY DEF Receive, CheckDone, CheckRoom, wire, sta, store, tim7, user, Pending, Ticks
<1>2. ReaderInv'
  BY <1>1 DEF ReaderInv, Frame
<1>3. CASE Receive
  <2>1. rdr' = NoByte /\ pc' = "done?" /\ res' = rdr /\ Pending' /\ rdr = last
    BY <1>3 DEF Receive, Pending, BurstInv
  <2>2. TimerInv' /\ HandlerInv'
    BY <1>1, <2>1 DEF TimerInv, HandlerInv
  <2>3. BurstInv'
    BY <1>1, <2>1 DEF BurstInv
  <2> QED BY <1>2, <2>2, <2>3 DEF Paced
<1>4. CASE CheckDone
  <2>1. /\ rdr' = NoByte /\ res' = res /\ rdr = NoByte /\ pc = "done?"
        /\ pc' = IF done THEN "none" ELSE "room?"
    BY <1>4 DEF CheckDone, wire, HandlerInv
  <2>2. CASE done
    <3>1. ~Pending' /\ ~en /\ pc' = "none"
      BY <2>1, <2>2 DEF Pending, TimerInv
    <3>2. TimerInv' /\ HandlerInv'
      BY <1>1, <2>1, <3>1 DEF TimerInv, HandlerInv
    <3>3. BurstInv'
      BY <1>1, <2>1, <2>2, <3>1 DEF BurstInv
    <3> QED BY <1>2, <3>2, <3>3 DEF Paced
  <2>3. CASE ~done
    <3>1. Pending' /\ pc' = "room?"
      BY <2>1, <2>3 DEF Pending
    <3>2. TimerInv' /\ HandlerInv'
      BY <1>1, <2>1, <2>3, <3>1 DEF TimerInv, HandlerInv
    <3>3. BurstInv'
      BY <1>1, <2>1, <3>1 DEF BurstInv
    <3> QED BY <1>2, <3>2, <3>3 DEF Paced
  <2> QED BY <2>2, <2>3
<1>5. CASE CheckRoom
  <2>1. rdr' = NoByte /\ res' = res /\ rdr = NoByte /\ pc = "room?" /\ ~done
    BY <1>5 DEF CheckRoom, wire, HandlerInv
  <2>2. len < MAX_RECV_LEN
    <3>1. len < last.pos /\ last.pos \in Nat /\ last.pos <= MaxBurst /\ len \in Nat
      BY <1>1, <2>1, ConstantsArePositive DEF BurstInv, TypeOK, Byte
    <3> QED BY <3>1, ConstantsArePositive DEF WellSpaced
  <2>3. pc' = "reset" /\ Pending'
    BY <1>5, <2>1, <2>2 DEF CheckRoom, Pending
  <2>4. TimerInv' /\ HandlerInv'
    BY <1>1, <2>1, <2>3 DEF TimerInv, HandlerInv
  <2>5. BurstInv'
    BY <1>1, <2>1, <2>3 DEF BurstInv
  <2> QED BY <1>2, <2>4, <2>5 DEF Paced
<1> QED BY <1>3, <1>4, <1>5

\* The steps that restart TIM7 and read the index.
LEMMA RestartKeepsPaced ==
  WellSpaced /\ PacedInv /\ (ResetTimer \/ ArmTimer \/ ReadIndex) => Paced'
<1> SUFFICES ASSUME WellSpaced, PacedInv, ResetTimer \/ ArmTimer \/ ReadIndex
             PROVE  Paced'
  OBVIOUS
<1> USE DEF PacedInv, AnyInv, Step
<1>1. /\ UNCHANGED <<last, gap, rdr, ticked, done, len, buf, uif, res, task, copy>>
      /\ pc \in {"reset", "arm", "index"} /\ pc' \in {"arm", "index", "store"}
      /\ ~uif /\ ~done /\ rdr = NoByte /\ Ticks' = Ticks /\ Pending /\ Pending'
  BY DEF ResetTimer, ArmTimer, ReadIndex, wire, sta, store, tim7, user,
         HandlerInv, Pending, Ticks
<1>2. ReaderInv' /\ BurstInv'
  BY <1>1 DEF ReaderInv, BurstInv, Frame
<1>3. Ticks \in {0, 1} /\ cnt \in Nat
  BY ConstantsArePositive DEF Ticks, TypeOK
<1>4. CASE ResetTimer
  <2>1. cnt' = 0 /\ en' = en /\ pc' = "arm"
    BY <1>4 DEF ResetTimer
  <2> QED BY <1>1, <1>2, <1>3, <2>1, ConstantsArePositive DEF Paced, TimerInv, HandlerInv
<1>5. CASE ArmTimer
  <2>1. cnt' = cnt /\ cnt <= Ticks /\ pc' = "index" /\ len \in Nat
    BY <1>5, ConstantsArePositive DEF ArmTimer, JustReset, TypeOK
  <2>2. ~done /\ len = 0 => en'
    BY <1>5 DEF ArmTimer
  <2>3. en => en'
    BY <1>5 DEF ArmTimer
  <2>4. en'
    BY <1>1, <2>1, <2>2, <2>3 DEF Timed
  <2> QED BY <1>1, <1>2, <1>3, <2>1, <2>4, ConstantsArePositive
          DEF Paced, TimerInv, HandlerInv
<1>6. CASE ReadIndex
  <2>1. /\ cnt' = cnt /\ en' = en /\ pc = "index" /\ pc' = "store"
        /\ ~idx'.done /\ idx'.len = len
    BY <1>1, <1>6 DEF ReadIndex, tim7
  <2> QED BY <1>1, <1>2, <2>1 DEF Paced, TimerInv, HandlerInv
<1> QED BY <1>4, <1>5, <1>6

\* What StoreByte does when the index it read is still good.
LEMMA StoreStep ==
  ASSUME PacedInv, StoreByte
  PROVE  /\ UNCHANGED <<last, gap, rdr, ticked, done, en, cnt, uif, task, copy, taken>>
         /\ pc = "store" /\ pc' = "none" /\ ~uif /\ ~done /\ en /\ rdr = NoByte
         /\ len \in 0..(MAX_RECV_LEN - 1) /\ len' = len + 1 /\ res = last
         /\ buf' = [buf EXCEPT ![len] = last]
<1> USE DEF PacedInv, AnyInv, Step
<1>1. pc = "store" /\ ~done /\ ~idx.done /\ idx.len = len /\ rdr = NoByte /\ res = last
  BY DEF StoreByte, HandlerInv, BurstInv
<1>2. len \in 0..(MAX_RECV_LEN - 1)
  BY <1>1, ConstantsArePositive DEF RoomLeft, TypeOK
<1>3. done' = done
  BY <1>1 DEF StoreByte, TypeOK
<1> QED BY <1>1, <1>2, <1>3 DEF StoreByte, wire, tim7, user, TimerInv

\* The byte stored is the successor of the one before it.
LEMMA StoreKeepsPaced == PacedInv /\ StoreByte => Paced'
<1> SUFFICES ASSUME PacedInv, StoreByte PROVE Paced'
  OBVIOUS
<1> USE DEF PacedInv, AnyInv
<1>1. /\ UNCHANGED <<last, gap, rdr, ticked, done, en, cnt, uif, task, copy, taken>>
      /\ pc = "store" /\ pc' = "none" /\ ~uif /\ ~done /\ en /\ rdr = NoByte
      /\ len \in 0..(MAX_RECV_LEN - 1) /\ len' = len + 1 /\ res = last
      /\ buf' = [buf EXCEPT ![len] = last]
  BY StoreStep
<1>2. Pending /\ ~Pending' /\ task = "poll"
  BY <1>1 DEF Pending, ReaderInv
<1>3. /\ cnt \in Nat /\ len \in Nat /\ gap = Ticks /\ cnt <= Ticks /\ Ticks \in {0, 1}
  BY <1>1, <1>2, ConstantsArePositive DEF TimerInv, JustReset, Ticks, TypeOK
<1>4. TimerInv'
  BY <1>1, <1>2, <1>3 DEF TimerInv
<1>5. HandlerInv' /\ ReaderInv'
  BY <1>1, <1>2, <1>3 DEF HandlerInv, ReaderInv
<1>6. BurstInv'
  <2>1. buf'[len] = last /\ \A i \in 0..(len - 1) : buf'[i] = buf[i]
    BY <1>1, <1>3, ConstantsArePositive DEF TypeOK
  <2>2. len' <= last.pos
    BY <1>1, <1>2, <1>3, ConstantsArePositive DEF BurstInv, TypeOK, Byte
  <2>3. len > 0 => last = [buf[len - 1] EXCEPT !.pos = @ + 1]
    BY <1>1, <1>2 DEF BurstInv
  <2>4. ASSUME NEW i \in 1..len PROVE buf'[i] = [buf'[i - 1] EXCEPT !.pos = @ + 1]
    <3>1. CASE i = len
      BY <1>3, <2>1, <2>3, <3>1
    <3>2. CASE i # len
      <4>1. i \in 1..(len - 1) /\ buf'[i] = buf[i] /\ buf'[i - 1] = buf[i - 1]
        BY <1>3, <2>1, <3>2
      <4> QED BY <4>1 DEF BurstInv
    <3> QED BY <3>1, <3>2
  <2>5. len' - 1 = len
    BY <1>1, <1>3
  <2>6. len' <= MaxBurst
    <3>1. last.pos \in 0..MaxBurst
      BY DEF TypeOK, Byte
    <3> QED BY <1>1, <1>3, <2>2, <3>1, ConstantsArePositive
  <2> QED BY <1>1, <1>2, <2>1, <2>2, <2>4, <2>5, <2>6 DEF BurstInv
<1> QED BY <1>4, <1>5, <1>6 DEF Paced

\* Every step keeps PacedInv when the sender is well spaced.
LEMMA PacedInductive == WellSpaced /\ PacedInv /\ [Next]_vars => PacedInv'
<1> SUFFICES ASSUME WellSpaced, PacedInv, [Next]_vars PROVE PacedInv'
  OBVIOUS
<1>1. AnyInv'
  BY AnyInvInductive DEF PacedInv
<1>2. ASSUME USART3_IRQHandler PROVE Paced'
  <2>1. ~MarkFull
    BY DEF MarkFull, Step, PacedInv, HandlerInv
  <2> QED BY <1>2, <2>1, CheckKeepsPaced, RestartKeepsPaced, StoreKeepsPaced
          DEF USART3_IRQHandler
<1>3. ASSUME UNCHANGED vars PROVE Paced'
  <2>1. Pending' = Pending /\ Ticks' = Ticks /\ Frame' = Frame
    BY <1>3 DEF vars, wire, sta, store, isr, Pending, Ticks, Frame
  <2>2. TimerInv' /\ HandlerInv'
    BY <1>3, <2>1 DEF vars, wire, sta, tim7, isr, PacedInv, TimerInv, HandlerInv
  <2>3. BurstInv'
    BY <1>3, <2>1 DEF vars, wire, sta, store, isr, PacedInv, BurstInv
  <2>4. ReaderInv'
    BY <1>3, <2>1 DEF vars, sta, user, PacedInv, ReaderInv
  <2> QED BY <2>2, <2>3, <2>4 DEF Paced
<1>4. Paced'
  BY <1>2, <1>3, ArriveKeepsPaced, TickKeepsPaced, TIM7KeepsPaced, ReaderKeepsPaced
  DEF Next
<1> QED BY <1>1, <1>4 DEF PacedInv, Paced

\* PacedInv holds for a well-spaced sender.
THEOREM PacedInvariance == WellSpaced => (Spec => []PacedInv)
<1> SUFFICES ASSUME WellSpaced PROVE Spec => []PacedInv
  OBVIOUS
<1>1. PacedInv /\ [Next]_vars => PacedInv'
  BY PacedInductive
<1> QED BY <1>1, PacedInit, PTL DEF Spec

\* timer.c: TIM7 marks a frame complete only after a silence longer than any
\* the sender makes inside a burst.
THEOREM NoBurstIsCut == WellSpaced => (Spec => ClosedAfterSilence)
<1> SUFFICES ASSUME WellSpaced PROVE Spec => ClosedAfterSilence
  OBVIOUS
<1> DEFINE Silent == ~done /\ done' => gap > MaxIntra
<1>1. ASSUME PacedInv, [Next]_vars PROVE [Silent]_vars
  <2> SUFFICES ASSUME ~done, done', Next PROVE gap > MaxIntra
    BY <1>1 DEF vars, sta
  <2>1. CASE TIM7_IRQHandler
    BY <1>1, <2>1, ConstantsArePositive DEF TIM7_IRQHandler, PacedInv, TimerInv, WellSpaced
  <2>2. CASE StoreByte
    BY <1>1, <2>2, StoreStep
  <2>3. CASE MarkFull
    BY <1>1, <2>3 DEF MarkFull, Step, PacedInv, HandlerInv
  <2>4. CASE ~TIM7_IRQHandler /\ ~StoreByte /\ ~MarkFull
    BY <2>4 DEF Next, Arrive, Tick, USART3_IRQHandler, Receive, CheckDone, CheckRoom,
                ResetTimer, ArmTimer, ReadIndex, Reader, SeeFrame, CopyFrame, Release, sta
  <2> QED BY <2>1, <2>2, <2>3, <2>4
<1> QED BY <1>1, PacedInvariance, PTL DEF Spec, ClosedAfterSilence

\* usart3.c: the bytes of a frame follow each other on the line, with none
\* missing, and come from one burst.
THEOREM FramesAreRuns == WellSpaced => (Spec => []FrameIsOneRun)
<1> SUFFICES ASSUME WellSpaced PROVE Spec => []FrameIsOneRun
  OBVIOUS
<1>1. ASSUME PacedInv PROVE FrameIsOneRun
  <2> SUFFICES ASSUME NEW i \in 1..(len - 1)
               PROVE  Frame[i + 1] = [Frame[i] EXCEPT !.pos = @ + 1]
    BY DEF FrameIsOneRun
  <2>1. len \in Nat
    BY <1>1, ConstantsArePositive DEF PacedInv, AnyInv, TypeOK
  <2>2. Frame[i + 1] = buf[i] /\ Frame[i] = buf[i - 1]
    BY <2>1 DEF Frame
  <2>3. buf[i] = [buf[i - 1] EXCEPT !.pos = @ + 1]
    BY <1>1 DEF PacedInv, BurstInv
  <2> QED BY <2>2, <2>3
<1> QED BY <1>1, PacedInvariance, PTL

\* TIM7_IRQHandler closes, StoreByte puts, Release takes, the rest stutters.
LEMMA StepRefines ==
  ASSUME WellSpaced, PacedInv, [Next]_vars
  PROVE  [Mailbox!Next]_(Mailbox!vars)
<1> USE DEF PacedInv, AnyInv
<1>1. ASSUME UNCHANGED <<done, len, taken>>, \A i \in 1..len : buf'[i - 1] = buf[i - 1]
      PROVE  [Mailbox!Next]_(Mailbox!vars)
  <2>1. Frame' = Frame
    BY <1>1 DEF Frame
  <2> QED BY <1>1, <2>1 DEF Mailbox!vars
<1>2. CASE TIM7_IRQHandler
  <2>1. ~done /\ done' = TRUE /\ len > 0 /\ UNCHANGED <<len, buf, taken>>
    BY <1>2 DEF TIM7_IRQHandler, TimerInv, store, user
  <2>2. Frame' = Frame
    BY <2>1 DEF Frame
  <2>3. Frame # <<>>
    <3>1. Len(Frame) = len
      BY FrameIsSeq
    <3> QED BY <2>1, <3>1
  <2>4. Mailbox!Close
    BY <2>1, <2>2, <2>3 DEF Mailbox!Close
  <2> QED BY <2>4 DEF Mailbox!Next
<1>3. CASE StoreByte
  <2>1. /\ UNCHANGED <<done, taken>> /\ ~done
        /\ len \in 0..(MAX_RECV_LEN - 1) /\ len' = len + 1
        /\ buf' = [buf EXCEPT ![len] = last]
    BY <1>3, StoreStep
  <2>2. Frame \in Seq(Byte) /\ Len(Frame) = len /\ last \in Byte
    BY FrameIsSeq DEF TypeOK
  <2>3. Frame' = Append(Frame, last)
    <3>1. Len(Append(Frame, last)) = len + 1
      BY <2>2
    <3>2. buf'[len] = last /\ \A i \in 1..len : buf'[i - 1] = buf[i - 1]
      BY <2>1, ConstantsArePositive DEF TypeOK
    <3>3. Frame' = [i \in 1..(len + 1) |-> buf'[i - 1]]
      BY <2>1 DEF Frame
    <3>4. Frame' \in Seq(Byte) /\ Len(Frame') = len + 1
      <4>1. \A i \in 1..(len + 1) : buf'[i - 1] \in Byte
        BY <2>1, <2>2, <3>2, ConstantsArePositive DEF TypeOK
      <4> QED BY <2>1, <3>3, <4>1
    <3>5. ASSUME NEW i \in 1..(len + 1) PROVE Frame'[i] = Append(Frame, last)[i]
      BY <2>1, <2>2, <3>2, <3>3 DEF Frame
    <3> QED BY <2>1, <2>2, <3>1, <3>4, <3>5
  <2>4. Mailbox!Put(last)
    BY <2>1, <2>2, <2>3, ConstantsArePositive DEF Mailbox!Put
  <2> QED BY <2>2, <2>4 DEF Mailbox!Next
<1>4. CASE Release
  <2>1. /\ done /\ ~done' /\ done' = FALSE /\ len' = 0 /\ taken' = Frame
    BY <1>4 DEF Release, ReaderInv
  <2>2. Frame' = <<>>
    BY <2>1 DEF Frame
  <2>3. Mailbox!Take
    BY <2>1, <2>2 DEF Mailbox!Take
  <2> QED BY <2>3 DEF Mailbox!Next
<1>5. CASE ~TIM7_IRQHandler /\ ~StoreByte /\ ~Release
  <2>1. ~MarkFull
    BY DEF MarkFull, Step, HandlerInv
  <2>2. UNCHANGED <<done, len, buf, taken>>
    BY <1>5, <2>1 DEF Next, Arrive, Tick, USART3_IRQHandler, Receive, CheckDone, CheckRoom,
       ResetTimer, ArmTimer, ReadIndex, Reader, SeeFrame, CopyFrame,
       vars, sta, store, user
  <2> QED BY <1>1, <2>2
<1> QED BY <1>2, <1>3, <1>4, <1>5

\* usart3.c, timer.c: for a well-spaced sender the handlers and the reader
\* implement the mailbox.
THEOREM Refinement == WellSpaced => (Spec => ImplementsMailbox)
<1> SUFFICES ASSUME WellSpaced PROVE Spec => ImplementsMailbox
  OBVIOUS
<1>1. Init => Mailbox!Init
  <2> SUFFICES ASSUME Init PROVE Mailbox!Init
    OBVIOUS
  <2>1. Frame = <<>>
    BY DEF Init, Frame
  <2> QED BY <2>1 DEF Init, Mailbox!Init
<1>2. PacedInv /\ [Next]_vars => [Mailbox!Next]_(Mailbox!vars)
  BY StepRefines
<1> QED BY <1>1, <1>2, PacedInvariance, PTL DEF Spec, ImplementsMailbox, Mailbox!Spec
=============================================================================

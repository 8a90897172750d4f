------------------------------- MODULE Remote -------------------------------
(***************************************************************************)
(* The infrared remote control (HARDWARE/REMOTE/remote.c).  A remote sends *)
(* one NEC code per press and a short repeat code every 110 ms while the   *)
(* key is held.  TIM1 captures the edges of the receiver's output (idle    *)
(* high) and overflows every 10 ms after the last rising edge; both        *)
(* interrupts have preemption priority 1, so one never interrupts the      *)
(* other, and both interrupt Remote_Scan, which the main loop calls, as    *)
(* often as they like: a USMART command, which runs in TIM4_IRQHandler     *)
(* with priority 3, suspends the call for as long as it takes.             *)
(*                                                                         *)
(* One step is one edge with its TIM1_CC_IRQHandler, one overflow with its *)
(* TIM1_UP_TIM10_IRQHandler, or one access of Remote_Scan to a variable    *)
(* that the handlers write: the program is built without optimisation, so  *)
(* every expression of remote.c loads RmtRec and RmtSta again.  A length   *)
(* of high level is one of the five classes that the handler tells apart.  *)
(***************************************************************************)
EXTENDS Naturals

CONSTANTS
  W,               \* bits in a byte of the code: 8
  HOLD,            \* 14: the overflow count at which a silent key is released
  Key,             \* the key codes in use
  MinQuiet,        \* overflows between two codes, at least
  MaxRepeatQuiet,  \* and at most before a repeat code
  MaxPresses,      \* bound: presses in a behaviour
  MaxRepeats       \* bound: repeat codes after one press

\* A byte is its bits, the most significant one first; 0 is what Remote_Scan
\* returns when there is no key.
Bit == {0, 1}
Byte == [1..W -> Bit]
NoKey == [i \in 1..W |-> 0]
Total == 4 * W

ASSUME RemoteAssumption ==
  /\ W \in Nat \ {0} /\ HOLD \in Nat /\ Key \subseteq Byte \ {NoKey}
  /\ MinQuiet \in Nat \ {0} /\ MaxRepeatQuiet \in MinQuiet..(HOLD - 1)
  /\ MaxPresses \in Nat /\ MaxRepeats \in Nat

VARIABLES
  RmtSta,    \* leader: bit 7; complete: bit 6; rise: bit 4; ovf: bits 3..0
  RmtRec,    \* the last 4*W bits received, the oldest one first
  RmtCnt,    \* repeat codes received, a u8
  polarity,  \* the edge TIM1 captures next: "rise" or "fall"
  line,      \* the code on the line: see LineType
  quiet,     \* overflows since the last code ended, up to QuietCap
  scan,      \* the call of Remote_Scan in progress: see ScanType
  presses,   \* presses so far
  last,      \* history: the key of the last code whose bits were all taken
  slipped,   \* history: RmtRec lacks a bit of the last code, or has one more
  owed,      \* history: the receiver holds the current press undisturbed
  seen       \* history: Remote_Scan has returned the current press

receiver == <<RmtSta, RmtRec, RmtCnt, polarity>>
history == <<last, slipped, owed, seen>>
vars == <<receiver, line, quiet, scan, presses, history>>

Length == {"zero", "one", "repeat", "leader", "none"}
QuietCap == MaxRepeatQuiet + 1

StaType == [leader: BOOLEAN, complete: BOOLEAN, rise: BOOLEAN, ovf: 0..HOLD]

\* ph: what the line does; ticked: the timer overflowed in the leader's mark;
\* again: repeat codes of the press so far, 0 in its first code; bits: bits of
\* the press sent; odd: a length of this press was disturbed; short: a bit of it
\* was not taken.
LineType == [ph: {"idle", "mark", "space", "low", "high"}, again: 0..MaxRepeats,
             key: Key \cup {NoKey}, bits: 0..Total, ticked: BOOLEAN, odd: BOOLEAN,
             short: BOOLEAN]

\* cut: an interrupt has come since the call began; moved: RmtRec shifted since then.
ScanType == [pc: {"out", "id", "idinv", "key", "keyinv", "test", "load", "store",
                  "count"},
             t1: Byte, sta: Byte, reg: StaType, cut: BOOLEAN, moved: BOOLEAN]

\* Byte 0 of a value of RmtRec is the first that was received, RmtRec>>24.
ByteOf(r, n) == [i \in 1..W |-> r[n * W + i]]
Inverse(b) == [i \in 1..W |-> 1 - b[i]]

\* RmtRec <<= 1; RmtRec |= b.
Shifted(r, b) == [n \in 1..Total |-> IF n = Total THEN b ELSE r[n + 1]]

\* What a press of k sends: address, inverse of it, key, inverse of it; the
\* address of this remote is REMOTE_ID = 0.
Code(k) == [n \in 1..Total |-> CASE n <= W                   -> 0
                                [] W < n /\ n <= 2 * W      -> 1
                                [] 2 * W < n /\ n <= 3 * W  -> k[n - 2 * W]
                                [] OTHER                    -> 1 - k[n - 3 * W]]
BitOf(k, n) == IF Code(k)[n + 1] = 1 THEN "one" ELSE "zero"

Rest == [leader |-> FALSE, complete |-> FALSE, rise |-> FALSE, ovf |-> 0]

Init ==
  /\ RmtSta = Rest /\ RmtRec = [n \in 1..Total |-> 0] /\ RmtCnt = 0 /\ polarity = "rise"
  /\ line = [ph |-> "idle", again |-> 0, key |-> NoKey, bits |-> 0, ticked |-> FALSE,
             odd |-> FALSE, short |-> FALSE]
  /\ quiet = QuietCap
  /\ scan = [pc |-> "out", t1 |-> NoKey, sta |-> NoKey, reg |-> Rest, cut |-> FALSE,
             moved |-> FALSE]
  /\ presses = 0 /\ last = NoKey /\ slipped = FALSE /\ owed = FALSE /\ seen = FALSE

-----------------------------------------------------------------------------
(* The interrupt handlers.                                                 *)

\* The branch of TIM1_CC_IRQHandler for a rising edge; an edge that TIM1 does
\* not wait for is not captured.
CaptureRise ==
  /\ polarity' = "fall"
  /\ RmtSta' = [RmtSta EXCEPT !.rise = (@ \/ polarity = "rise")]
  /\ UNCHANGED <<RmtRec, RmtCnt>>

\* The branch for a falling edge, Dval being of class d.
CaptureFall(d) ==
  LET high == polarity = "fall" /\ RmtSta.rise
      bit == high /\ RmtSta.leader /\ d \in {"zero", "one"}
      again == high /\ RmtSta.leader /\ d = "repeat"
      first == high /\ ~RmtSta.leader /\ d = "leader"
  IN /\ polarity' = "rise"
     /\ RmtRec' = IF bit THEN Shifted(RmtRec, IF d = "one" THEN 1 ELSE 0) ELSE RmtRec
     /\ RmtCnt' = IF again THEN (RmtCnt + 1) % 256 ELSE IF first THEN 0 ELSE RmtCnt
     /\ RmtSta' = IF polarity = "rise" THEN RmtSta
                  ELSE [RmtSta EXCEPT !.rise = FALSE, !.leader = (@ \/ first),
                                      !.ovf = IF again THEN 0 ELSE @]

\* Mutants of Overflow: the count may pass 14; the end of the hold drops the key
\* that nobody has scanned; the count wraps and nothing releases the key.
Overflow_CountsOn ==
  /\ RmtSta' = IF RmtSta.leader THEN [RmtSta EXCEPT !.rise = FALSE, !.ovf = @ + 1] ELSE RmtSta
  /\ UNCHANGED <<RmtRec, RmtCnt, polarity>>
Overflow_Forgets ==
  /\ RmtSta' = IF ~RmtSta.leader THEN RmtSta
               ELSE IF RmtSta.ovf < HOLD
                 THEN [RmtSta EXCEPT !.rise = FALSE, !.complete = (@ \/ RmtSta.ovf = 0),
                                     !.ovf = @ + 1]
                 ELSE Rest
  /\ UNCHANGED <<RmtRec, RmtCnt, polarity>>
Overflow_Wraps ==
  /\ RmtSta' = IF ~RmtSta.leader THEN RmtSta
               ELSE [RmtSta EXCEPT !.rise = FALSE, !.complete = (@ \/ RmtSta.ovf = 0),
                                   !.ovf = (@ + 1) % (HOLD + 1)]
  /\ UNCHANGED <<RmtRec, RmtCnt, polarity>>

\* TIM1_UP_TIM10_IRQHandler.
Overflow ==
  /\ RmtSta' = IF ~RmtSta.leader THEN RmtSta
               ELSE IF RmtSta.ovf < HOLD
                 THEN [RmtSta EXCEPT !.rise = FALSE, !.complete = (@ \/ RmtSta.ovf = 0),
                                     !.ovf = @ + 1]
                 ELSE [RmtSta EXCEPT !.rise = FALSE, !.leader = FALSE, !.ovf = 0]
  /\ UNCHANGED <<RmtRec, RmtCnt, polarity>>

\* An interrupt during Remote_Scan is noted; any number of them fits in a call.
Interrupts ==
  scan' = IF scan.pc = "out" THEN scan
          ELSE [scan EXCEPT !.cut = TRUE, !.moved = (@ \/ RmtRec' # RmtRec)]

-----------------------------------------------------------------------------
(* The line and the timer.                                                 *)

\* The leader's mark begins.  After at least one overflow the counter shows
\* any value, so a capture here measures any length.
StartCode(l) ==
  /\ line.ph = "idle" /\ quiet >= MinQuiet
  /\ \E d \in Length : CaptureFall(d)
  /\ line' = [l EXCEPT !.ph = "mark", !.ticked = FALSE]
  /\ quiet' = 0

Press(k) ==
  /\ presses < MaxPresses
  /\ StartCode([line EXCEPT !.key = k, !.again = 0, !.bits = 0, !.odd = FALSE])
  /\ Interrupts
  /\ presses' = presses + 1
  /\ slipped' = (slipped \/ RmtRec' # RmtRec) /\ owed' = FALSE /\ seen' = FALSE
  /\ UNCHANGED last

Repeat ==
  /\ line.key # NoKey /\ line.again < MaxRepeats /\ quiet <= MaxRepeatQuiet
  /\ StartCode([line EXCEPT !.again = @ + 1])
  /\ Interrupts
  /\ slipped' = (slipped \/ RmtRec' # RmtRec) /\ owed' = (owed /\ RmtRec' = RmtRec)
  /\ UNCHANGED <<presses, last, seen>>

\* 10 ms without a rising edge: on the idle line, or once in the leader's mark.
Tick ==
  /\ line.ph = "idle" \/ (line.ph = "mark" /\ ~line.ticked)
  /\ Overflow /\ Interrupts
  /\ quiet' = IF line.ph = "idle" /\ quiet < QuietCap THEN quiet + 1 ELSE quiet
  /\ line' = [line EXCEPT !.ticked = (line.ph = "mark")]
  /\ UNCHANGED <<presses, history>>

\* The line goes high: after the mark, before a bit's length, or for good.
Rise ==
  /\ line.ph \in {"mark", "low"}
  /\ CaptureRise /\ Interrupts
  /\ LET ended == line.ph = "low" /\ line.bits = Total
     IN /\ line' = [line EXCEPT !.ph = CASE ended -> "idle"
                                         [] line.ph = "mark" -> "space"
                                         [] OTHER -> "high",
                           !.ticked = FALSE]
        /\ quiet' = IF ended THEN 0 ELSE quiet
  /\ UNCHANGED <<presses, history>>

\* The length the remote sent or, once in a press, any length: noise, or a
\* handler that ran late.
Measured(sent) == IF line.odd THEN {sent} ELSE Length

\* The leader's space ends.  A first leader opens a press that is owed; so does
\* a repeat code that finds the whole press in RmtRec.
LeaderEnds(d) ==
  LET sent == IF line.again > 0 THEN "repeat" ELSE "leader"
      taken == d = sent /\ RmtSta.rise
  IN
  /\ line.ph = "space" /\ d \in Measured(sent)
  /\ CaptureFall(d) /\ Interrupts
  /\ line' = [line EXCEPT !.ph = "low", !.odd = (@ \/ d # sent)]
  /\ owed' = IF line.again > 0
               THEN \/ owed /\ RmtRec' = RmtRec
                    \/ taken /\ RmtSta.leader /\ RmtRec = Code(line.key)
               ELSE taken /\ ~RmtSta.leader
  /\ slipped' = (slipped \/ RmtRec' # RmtRec)
  /\ UNCHANGED <<quiet, presses, last, seen>>

BitEnds(d) ==
  LET sent == BitOf(line.key, line.bits)
      clean == line.bits = 0 \/ ~line.short   \* no bit of this code has slipped
      slip == \/ RmtSta.leader /\ ~(RmtSta.rise /\ d \in {"zero", "one"})
              \/ RmtSta'.leader # RmtSta.leader
      ends == line.bits + 1 = Total
  IN
  /\ line.ph = "high" /\ d \in Measured(sent)
  /\ CaptureFall(d) /\ Interrupts
  /\ line' = [line EXCEPT !.ph = "low", !.bits = @ + 1, !.odd = (@ \/ d # sent),
                          !.short = ~ends /\ (~clean \/ slip)]
  /\ owed' = (owed /\ d = sent /\ RmtSta.rise)
  /\ last' = IF ends /\ RmtSta.leader THEN line.key ELSE last
  /\ slipped' = IF ends /\ RmtSta.leader THEN ~clean \/ slip ELSE slipped \/ slip
  /\ UNCHANGED <<quiet, presses, seen>>

-----------------------------------------------------------------------------
(* Remote_Scan: one action per access to RmtSta, RmtRec or RmtCnt.         *)

\* return sta.
Return ==
  /\ scan' = [scan EXCEPT !.pc = "out", !.cut = FALSE, !.moved = FALSE]
  /\ seen' = (seen \/ (scan.sta # NoKey /\ scan.sta = line.key /\ line.bits = Total))

ScanBegin ==
  /\ scan.pc = "out"
  /\ scan' = [scan EXCEPT !.pc = IF RmtSta.complete THEN "id" ELSE "out", !.sta = NoKey]
  /\ UNCHANGED <<receiver, line, quiet, presses, history>>

\* t1 = RmtRec>>24, and later t1 = RmtRec>>8.
ScanFirst ==
  /\ scan.pc \in {"id", "key"}
  /\ scan' = [scan EXCEPT !.pc = IF scan.pc = "id" THEN "idinv" ELSE "keyinv",
                          !.t1 = ByteOf(RmtRec, IF scan.pc = "id" THEN 0 ELSE 2)]
  /\ UNCHANGED <<receiver, line, quiet, presses, history>>

\* Mutant of ScanIdInv: the address is not checked.
ScanIdInv_AnyId ==
  /\ scan.pc = "idinv"
  /\ scan' = [scan EXCEPT !.pc = "key", !.t1 = NoKey]
  /\ UNCHANGED <<receiver, line, quiet, presses, history>>

\* t2 = RmtRec>>16, and the address is compared.
ScanIdInv ==
  /\ scan.pc = "idinv"
  /\ scan' = [scan EXCEPT !.pc = IF scan.t1 = Inverse(ByteOf(RmtRec, 1)) /\ scan.t1 = NoKey
                                 THEN "key" ELSE "test",
                          !.t1 = NoKey]
  /\ UNCHANGED <<receiver, line, quiet, presses, history>>

\* t2 = RmtRec, and the key is compared.
ScanKeyInv ==
  /\ scan.pc = "keyinv"
  /\ scan' = [scan EXCEPT !.pc = "test",
                          !.sta = IF scan.t1 = Inverse(ByteOf(RmtRec, 3)) THEN scan.t1 ELSE NoKey,
                          !.t1 = NoKey]
  /\ UNCHANGED <<receiver, line, quiet, presses, history>>

ScanTest ==
  /\ scan.pc = "test"
  /\ IF scan.sta = NoKey \/ ~RmtSta.leader
       THEN scan' = [scan EXCEPT !.pc = "load"] /\ UNCHANGED seen
       ELSE Return
  /\ UNCHANGED <<receiver, line, quiet, presses, last, slipped, owed>>

\* RmtSta &= ~(1<<6) is a load and a store.
ScanLoad ==
  /\ scan.pc = "load"
  /\ scan' = [scan EXCEPT !.pc = "store", !.reg = RmtSta]
  /\ UNCHANGED <<receiver, line, quiet, presses, history>>

\* The store; a call that was interrupted may have dropped what it did not see,
\* and in the middle of a code bit 7 may stop or start the taking of its bits.
ScanStore ==
  LET splits == line.bits \in 1..(Total - 1) /\ RmtSta'.leader # RmtSta.leader
  IN
  /\ scan.pc = "store"
  /\ RmtSta' = [scan.reg EXCEPT !.complete = FALSE]
  /\ scan' = [scan EXCEPT !.pc = "count", !.reg = Rest]
  /\ line' = [line EXCEPT !.short = (@ \/ splits)]
  /\ slipped' = (slipped \/ splits)
  /\ owed' = (owed /\ ~scan.cut)
  /\ UNCHANGED <<RmtRec, RmtCnt, polarity, quiet, presses, last, seen>>

ScanCount ==
  /\ scan.pc = "count"
  /\ RmtCnt' = 0
  /\ Return
  /\ UNCHANGED <<RmtSta, RmtRec, polarity, line, quiet, presses, last, slipped, owed>>

Scan == ScanBegin \/ ScanFirst \/ ScanIdInv \/ ScanKeyInv \/ ScanTest \/ ScanLoad
        \/ ScanStore \/ ScanCount

CodeGoesOn == Rise \/ (\E d \in Length : LeaderEnds(d) \/ BitEnds(d))

Next == (\E k \in Key : Press(k)) \/ Repeat \/ Tick \/ CodeGoesOn \/ Scan

Spec == Init /\ [][Next]_vars

\* The main loop calls Remote_Scan again and again, time passes on the idle
\* line, and a code that has begun is sent to its end.
FairSpec == Spec /\ WF_vars(Scan) /\ WF_vars(Tick) /\ WF_vars(CodeGoesOn)

-----------------------------------------------------------------------------
TypeOK ==
  /\ RmtSta \in StaType /\ RmtRec \in [1..Total -> Bit] /\ RmtCnt \in 0..255
  /\ polarity \in {"rise", "fall"} /\ line \in LineType /\ quiet \in 0..QuietCap
  /\ scan \in ScanType /\ presses \in 0..MaxPresses
  /\ last \in Key \cup {NoKey} /\ slipped \in BOOLEAN /\ owed \in BOOLEAN /\ seen \in BOOLEAN

\* A key that Remote_Scan takes out of RmtRec is the key of the last code whose
\* bits were all taken: what the next code has shifted in so far fails the checks
\* of address and key, and between codes so does a code with one wrong bit.  The
\* checks do not tell when the four reads of RmtRec are torn by a bit that comes
\* between them, when a wrong bit is read halfway through a code, or when a bit has
\* slipped.  Bits slip also with nothing wrong on the line: a call that loaded
\* RmtSta, was held up, and stores it in the middle of a code clears or restores
\* bit 7, and only a part of the code is taken (splits in ScanStore).
ReportedKeyIsLast ==
  [][scan'.sta # scan.sta /\ scan'.sta # NoKey /\ ~scan.moved /\ ~slipped
     /\ (line.bits < Total => ~line.odd) => scan'.sta = last]_vars

\* A press that the receiver took undisturbed is returned by Remote_Scan, unless
\* the next press comes before, or a call that an interrupt cut in two drops it,
\* when it is owed no longer: nothing else, not even a late call after the
\* release, loses a press.
PressIsReported == (owed /\ line.ph = "idle") ~> (seen \/ ~owed)

\* After the last code the receiver comes to rest and Remote_Scan reports no
\* key, whatever read-modify-write of RmtSta undid on the way.
ReleaseIsNoticed == <>[](RmtSta = [Rest EXCEPT !.rise = RmtSta.rise] /\ scan.sta = NoKey)
=============================================================================

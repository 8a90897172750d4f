------------------------------- MODULE Usart1 ------------------------------
(***************************************************************************)
(* The console: USART1_IRQHandler (SYSTEM/usart/usart.c) collects a line   *)
(* that ends with CR LF; the TIM4 interrupt calls usmart_scan              *)
(* (USMART/usmart.c), which runs it and then clears USART_RX_STA.  Both    *)
(* interrupts have preemption priority 3: while a command runs, bytes wait *)
(* in the one-byte data register, or are lost.  A byte is <<line,          *)
(* position>>, a CR or an LF, whatever the text of the line.               *)
(***************************************************************************)
EXTENDS Naturals, Sequences

CONSTANTS
  RecLen,    \* USART_REC_LEN: 200
  LineLen,   \* lengths of the lines the terminal sends
  Endings,   \* how it ends them: {"crlf"}, or also "cr" and "lf"
  MaxLines   \* bound: lines sent

ASSUME Usart1Assumption ==
  /\ RecLen \in Nat \ {0} /\ LineLen \subseteq Nat /\ MaxLines \in Nat
  /\ Endings \subseteq {"crlf", "cr", "lf"}

VARIABLES
  sta,    \* USART_RX_STA: "done" is bit 15, "cr" bit 14
  buf,    \* USART_RX_BUF up to the count in bits 13..0 of USART_RX_STA
  dr1,    \* the data register of USART1: at most one byte
  lines,  \* the lines sent so far: length, ending, and (history) whether the
          \* receiver was at rest when the line began
  sent,   \* bytes sent of the last of them
  busy,   \* usmart_scan runs a command
  ended,  \* history: the line whose LF set bit 15
  ran     \* history: the lines run

usart1vars == <<sta, buf, dr1, lines, sent, busy, ended, ran>>

Line == [len: LineLen, ends: Endings, ready: BOOLEAN]
Byte1 == [n: 1..MaxLines, pos: Nat, is: {"text", "cr", "lf"}]

\* What the terminal sends as line n, text and ending.
Size(l) == l.len + (IF l.ends = "crlf" THEN 2 ELSE 1)
ByteAt(n, i) ==
  [n |-> n, pos |-> i,
   is |-> CASE i <= lines[n].len -> "text"
            [] i = lines[n].len + 1 /\ lines[n].ends # "lf" -> "cr"
            [] OTHER -> "lf"]
AllSent == IF lines = <<>> THEN TRUE ELSE sent = Size(lines[Len(lines)])

Usart1Init ==
  /\ sta = "open" /\ buf = <<>> /\ dr1 = {} /\ lines = <<>> /\ sent = 0
  /\ busy = FALSE /\ ended = 0 /\ ran = {}

\* Mutant of Handle: the buffer may be filled to its last byte and beyond.
Handle_NoWrap(b) ==
  /\ sta' = CASE sta = "open" /\ b.is = "cr" -> "cr"
              [] sta = "cr" -> (IF b.is = "lf" THEN "done" ELSE "open")
              [] OTHER -> sta
  /\ buf' = CASE sta = "cr" /\ b.is # "lf" -> <<>>
              [] sta = "open" /\ b.is # "cr" -> Append(buf, b)
              [] OTHER -> buf
  /\ ended' = IF sta = "cr" /\ b.is = "lf" THEN b.n ELSE ended

\* Mutant of Handle: a complete line is not held for usmart_scan.
Handle_NotHeld(b) ==
  /\ sta' = CASE sta = "open" /\ b.is = "cr" -> "cr"
              [] sta = "cr" -> (IF b.is = "lf" THEN "done" ELSE "open")
              [] OTHER -> sta
  /\ buf' = CASE sta = "cr" /\ b.is # "lf" -> <<>>
              [] sta # "cr" /\ b.is # "cr" ->
                   (IF Len(buf) + 1 > RecLen - 1 THEN <<>> ELSE Append(buf, b))
              [] OTHER -> buf
  /\ ended' = IF sta = "cr" /\ b.is = "lf" THEN b.n ELSE ended

\* USART1_IRQHandler for byte b.
Handle(b) ==
  /\ sta' = CASE sta = "open" /\ b.is = "cr" -> "cr"
              [] sta = "cr" -> (IF b.is = "lf" THEN "done" ELSE "open")
              [] OTHER -> sta
  /\ buf' = CASE sta = "cr" /\ b.is # "lf" -> <<>>
              [] sta = "open" /\ b.is # "cr" ->
                   (IF Len(buf) + 1 > RecLen - 1 THEN <<>> ELSE Append(buf, b))
              [] OTHER -> buf
  /\ ended' = IF sta = "cr" /\ b.is = "lf" THEN b.n ELSE ended

LineBegins(n, e) ==
  /\ AllSent /\ Len(lines) < MaxLines
  /\ lines' = Append(lines, [len |-> n, ends |-> e,
                             ready |-> sta = "open" /\ buf = <<>> /\ dr1 = {}])
  /\ sent' = 0
  /\ UNCHANGED <<sta, buf, dr1, busy, ended, ran>>

LineGoesOn ==
  LET b == ByteAt(Len(lines), sent + 1)
  IN
  /\ ~AllSent /\ sent' = sent + 1
  /\ \/ busy /\ dr1' = (IF dr1 = {} THEN {b} ELSE dr1) /\ UNCHANGED <<sta, buf, ended>>
     \/ ~busy /\ dr1 = {} /\ Handle(b) /\ UNCHANGED dr1
  /\ UNCHANGED <<lines, busy, ran>>

\* The interrupt that had to wait for the command.
Pending1 ==
  /\ ~busy
  /\ \E b \in dr1 : Handle(b)
  /\ dr1' = {}
  /\ UNCHANGED <<lines, sent, busy, ran>>

\* usmart_scan finds a line and runs it; TIM4 comes before a pending USART1.
ScanBegins ==
  /\ ~busy /\ sta = "done"
  /\ busy' = TRUE /\ ran' = ran \cup {ended}
  /\ UNCHANGED <<sta, buf, dr1, lines, sent, ended>>

\* Mutant of ScanEnds: USART_RX_STA is not cleared.
ScanEnds_KeepsSta ==
  /\ busy
  /\ busy' = FALSE
  /\ UNCHANGED <<sta, buf, dr1, lines, sent, ended, ran>>

\* The command has returned, and USART_RX_STA is cleared.
ScanEnds ==
  /\ busy
  /\ busy' = FALSE /\ sta' = "open" /\ buf' = <<>>
  /\ UNCHANGED <<dr1, lines, sent, ended, ran>>

-----------------------------------------------------------------------------
Usart1TypeOK ==
  /\ sta \in {"open", "cr", "done"} /\ busy \in BOOLEAN
  /\ buf \in Seq(Byte1) /\ Len(buf) < RecLen
  /\ \A b1, b2 \in dr1 : b1 = b2 /\ b1 \in Byte1
  /\ lines \in Seq(Line) /\ Len(lines) <= MaxLines
  /\ ended \in 0..MaxLines /\ ran \subseteq 1..MaxLines
=============================================================================

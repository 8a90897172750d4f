---------------------------- MODULE SerialPorts ----------------------------
(***************************************************************************)
(* The RS485 port and the console in one program.  USART1, USART2 and TIM4 *)
(* have the same preemption priority (usart.c, rs485.c, usmart.c), so      *)
(* while the console runs a command, neither port takes a byte out of its  *)
(* data register, and the program that uses the RS485 port stands still.   *)
(***************************************************************************)
EXTENDS Rs485, Usart1

vars == <<rs485vars, usart1vars>>

Init == Rs485Init /\ Usart1Init

Console ==
  /\ \/ \E n \in LineLen, e \in Endings : LineBegins(n, e)
     \/ LineGoesOn \/ Pending1 \/ ScanBegins \/ ScanEnds
  /\ UNCHANGED rs485vars

Bus ==
  /\ (\E n \in FrameLen : FrameBegins(n)) \/ FrameGoesOn(busy) \/ (~busy /\ Pending2)
  /\ UNCHANGED usart1vars

\* The program runs when no interrupt is waiting.
Thread(step) == ~busy /\ dr1 = {} /\ dr2 = {} /\ step /\ UNCHANGED usart1vars

Next == Console \/ Bus \/ Thread(Program)

Spec == Init /\ [][Next]_vars

\* What has begun on a line goes on, interrupts are served, TIM4 calls usmart_scan,
\* a command returns, and the program goes on and asks for a frame again.
FairSpec ==
  /\ Spec
  /\ WF_vars(FrameGoesOn(busy) /\ UNCHANGED usart1vars) /\ WF_vars(LineGoesOn /\ UNCHANGED rs485vars)
  /\ WF_vars(~busy /\ Pending2 /\ UNCHANGED usart1vars) /\ WF_vars(Pending1 /\ UNCHANGED rs485vars)
  /\ WF_vars(ScanBegins /\ UNCHANGED rs485vars) /\ WF_vars(ScanEnds /\ UNCHANGED rs485vars)
  /\ SF_vars(Thread(Program)) /\ SF_vars(Thread(ReadCount))

-----------------------------------------------------------------------------
TypeOK == Rs485TypeOK /\ Usart1TypeOK

\* What RS485_Receive_Data returns is one frame, whole and no more, when it is not
\* ragged: two equal counts 10 ms apart never fall into the middle of a frame,
\* wherever the poll began and whatever commands the console ran meanwhile.
FrameIsWhole ==
  [][reader.pc = "clear" /\ reader'.pc = "out" /\ ~ragged =>
       IsFrame(reader) /\ reader.out[1][1] > received]_vars

\* The command that usmart_scan runs is the line, when the receiver was at rest as
\* the line began; of a line that does not fit, what is left after the wraps.
CommandIsTail ==
  [][busy' /\ ~busy /\ lines[ended].ready =>
       LET len == lines[ended].len
           rest == len % RecLen
       IN buf = [j \in 1..rest |-> ByteAt(ended, len - rest + j)]]_vars

\* A whole frame is returned in the end, and a line that was sent to a receiver at
\* rest is run, and the buffer is free again.
AllAreAnswered ==
  /\ \A f \in 1..MaxFrames :
       (bus.n = f /\ bus.sent = bus.len) ~> (received >= f \/ ragged)
  /\ \A n \in 1..MaxLines :
       (Len(lines) >= n /\ lines[n].ready /\ lines[n].ends = "crlf") ~>
         (n \in ran /\ sta # "done")
=============================================================================

---------------------------- MODULE FrameMailbox ----------------------------
(***************************************************************************)
(* What the USART3 receiver promises to the code that reads it: a mailbox  *)
(* of one frame.  Bytes are appended while the frame is open, the frame is *)
(* closed once, a closed frame does not change until the reader empties    *)
(* the box, and what the reader took is the frame it found closed.         *)
(*                                                                         *)
(* Usart3Link implements this specification; HC05Driver uses it in place   *)
(* of the interrupt handlers.                                              *)
(***************************************************************************)
EXTENDS Naturals, Sequences

CONSTANTS
  Byte,      \* the bytes that can be on the line
  MaxLen     \* USART3_MAX_RECV_LEN, the capacity of USART3_RX_BUF

VARIABLES
  frame,     \* the bytes of USART3_RX_BUF that USART3_RX_STA[14:0] counts
  ready,     \* bit 15 of USART3_RX_STA: the frame is complete
  taken      \* the frame the reader last took out

vars == <<frame, ready, taken>>

Init ==
  /\ frame = <<>>
  /\ ready = FALSE
  /\ taken = <<>>

\* A byte joins the open frame.
Put(b) ==
  /\ ~ready /\ Len(frame) < MaxLen
  /\ frame' = Append(frame, b)
  /\ UNCHANGED <<ready, taken>>

\* The frame is declared complete; an empty frame never is.
Close ==
  /\ ~ready /\ frame # <<>>
  /\ ready' = TRUE
  /\ UNCHANGED <<frame, taken>>

\* The reader empties the box.
Take ==
  /\ ready
  /\ taken' = frame
  /\ frame' = <<>>
  /\ ready' = FALSE

Next == (\E b \in Byte : Put(b)) \/ Close \/ Take

Spec == Init /\ [][Next]_vars
=============================================================================

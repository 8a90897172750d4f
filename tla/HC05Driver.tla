----------------------------- MODULE HC05Driver -----------------------------
(***************************************************************************)
(* The AT command driver of the bluetooth module (hc05.c): HC05_Init,      *)
(* HC05_Get_Role, HC05_Set_Cmd and HC05_CFG_CMD.  Each sends a command,    *)
(* polls USART3_RX_STA for a frame, and sends again when none came or it   *)
(* is not the answer expected.  The receiver is FrameMailbox, which        *)
(* Usart3Link implements, and what it does when the buffer is full.  The   *)
(* HC05 itself is external: it may miss a command, and answers those it    *)
(* got, in order, any time later.                                          *)
(*                                                                         *)
(* Replies are shorter here than on the wire ("OK\r\n" is 4 bytes, the     *)
(* role 13, with the digit at index 6 and "OK\r\n" at its end); what the   *)
(* driver compares, a length and leading characters, is kept.              *)
(***************************************************************************)
EXTENDS Naturals, Sequences

CONSTANTS
  Op,          \* which of the four functions are called
  Retries,     \* [Op -> attempts]: 10 for AT, 15 for ROLE and SET, 1 for CFG
  MaxSent,     \* commands sent (a bound of the model)
  MaxLen,      \* USART3_MAX_RECV_LEN
  Garbage      \* values an uninitialised u8 can hold

ASSUME DriverAssumption ==
  /\ Op \subseteq {"AT", "ROLE", "SET", "CFG"}
  /\ Retries \in [Op -> 1..254]
  /\ MaxSent \in Nat /\ MaxLen \in Nat /\ MaxLen >= 2
  /\ Garbage \subseteq 0..255

Answer(op) == IF op = "ROLE" THEN <<"+", "1", "O", "K">> ELSE <<"O", "K">>
Refusal    == <<"E">>

VARIABLES
  frame, ready, taken,   \* the mailbox
  tim7,                  \* TIM7 runs
  inbox,                 \* commands the HC05 has received, in order
  line,                  \* reply bytes on their way, back to back
  key,                   \* HC05_KEY: high puts the HC05 in AT mode
  pc,                    \* where the driver is; "idle" between calls
  op, retry, temp,       \* the function called and its locals
  sent,                  \* history: commands sent so far
  call                   \* history of this call: first command, whether nothing
                         \* was pending before it, whether a frame was taken,
                         \* whether one had 0 bytes or a multiple of 256,
                         \* the command whose reply was accepted (0: none)

box    == <<frame, ready, taken, tim7>>
module == <<inbox, line>>
locals == <<op, retry, temp>>
vars   == <<box, module, key, pc, locals, sent, call>>

Char == [ch : {"O", "K", "E", "+", "1", "NUL"}, cmd : Nat]

Box == INSTANCE FrameMailbox WITH Byte <- Char

Tagged(chars, n) == [i \in 1..Len(chars) |-> [ch |-> chars[i], cmd |-> n]]

NoCall == [first |-> 0, clean |-> FALSE, heard |-> FALSE, zero |-> FALSE,
           accepted |-> 0]

Init ==
  /\ Box!Init /\ tim7 = FALSE
  /\ inbox = <<>> /\ line = <<>>
  /\ key = FALSE /\ pc = "idle"
  /\ op = "CFG" /\ retry = 0 /\ temp = 0
  /\ sent = 0 /\ call = NoCall

-----------------------------------------------------------------------------
(* The HC05 and the line.                                                  *)

Reply ==
  /\ inbox # <<>>
  /\ inbox' = Tail(inbox)
  /\ \E chars \in {Answer(Head(inbox).op), Refusal} :
       line' = line \o Tagged(chars, Head(inbox).cmd)
  /\ UNCHANGED <<box, key, pc, locals, sent, call>>

\* The bytes of a reply follow each other too closely for the frame to end.
Deliver_NoRoomCheck ==
  /\ line # <<>>
  /\ line' = Tail(line)
  /\ frame' = IF ready THEN frame ELSE Append(frame, Head(line))
  /\ UNCHANGED <<ready, taken, tim7, inbox, key, pc, locals, sent, call>>

\* A byte that finds the buffer full marks the frame complete and leaves TIM7
\* running.
Deliver ==
  /\ line # <<>>
  /\ line' = Tail(line)
  /\ \/ ready /\ UNCHANGED box
     \/ Box!Put(Head(line)) /\ tim7' = TRUE
     \/ Len(frame) = MaxLen /\ Box!Close /\ UNCHANGED tim7
  /\ UNCHANGED <<inbox, key, pc, locals, sent, call>>

\* TIM7 overflows.  Only a byte that is stored restarts it, so once the buffer
\* was full it may do so on a busy line, and after the reader has taken the
\* frame it declares an empty one complete.
EndOfFrame ==
  /\ tim7 /\ (line = <<>> \/ ready \/ frame = <<>>)
  /\ ready' = TRUE /\ tim7' = FALSE
  /\ UNCHANGED <<frame, taken, module, key, pc, locals, sent, call>>

-----------------------------------------------------------------------------
(* The driver.                                                             *)

\* temp is initialised only in HC05_Init, which also raises KEY and restarts
\* USART3.
Call(o) ==
  /\ pc = "idle" /\ sent + Retries[o] <= MaxSent
  /\ pc' = "loop"
  /\ op' = o /\ retry' = Retries[o]
  /\ temp' \in IF o = "AT" THEN {1} ELSE Garbage
  /\ IF o = "AT" THEN frame' = <<>> /\ ready' = FALSE /\ tim7' = FALSE
                 ELSE UNCHANGED <<frame, ready, tim7>>
  /\ key' = (o = "AT")
  /\ call' = [NoCall EXCEPT !.first = sent + 1,
                            !.clean = (inbox = <<>> /\ line = <<>> /\ frame' = <<>>)]
  /\ UNCHANGED <<taken, module, sent>>

\* while(retry--): the test that ends the loop leaves retry at 255.
Exhausted ==
  /\ pc = "loop" /\ retry = 0
  /\ retry' = 255 /\ pc' = "return"
  /\ UNCHANGED <<box, module, key, op, temp, sent, call>>

\* KEY goes high for the command; HC05_Init and HC05_Set_Cmd lower it before
\* they wait, the others after.  The HC05 may miss the command.
SendCommand_NoCount ==
  /\ pc = "loop" /\ retry > 0
  /\ sent' = sent + 1
  /\ key' = (op \in {"ROLE", "CFG"})
  /\ inbox' = Append(inbox, [op |-> op, cmd |-> sent + 1])
  /\ pc' = "wait"
  /\ UNCHANGED <<box, line, locals, call>>

SendCommand ==
  /\ pc = "loop" /\ retry > 0
  /\ retry' = retry - 1 /\ sent' = sent + 1
  /\ key' = (op \in {"ROLE", "CFG"})
  /\ \/ inbox' = Append(inbox, [op |-> op, cmd |-> sent + 1])
     \/ UNCHANGED inbox
  /\ pc' = "wait"
  /\ UNCHANGED <<box, line, op, temp, call>>

\* The polls, 10 to 50 of them, all came before the frame.
NoFrame_KeyHigh ==
  /\ pc = "wait" /\ ~ready
  /\ pc' = "loop"
  /\ UNCHANGED <<box, module, key, locals, sent, call>>

\* The buffer is looked at although bit 15 is clear.
NoFrame_TestsAnyway ==
  /\ pc = "wait" /\ ~ready
  /\ key' = FALSE /\ temp' = Len(taken)
  /\ pc' = IF taken = <<>> THEN "loop" ELSE "test"
  /\ UNCHANGED <<box, module, op, retry, sent, call>>

NoFrame_WaitsForever ==
  /\ pc = "wait" /\ ready
  /\ key' = FALSE /\ pc' = "loop"
  /\ UNCHANGED <<box, module, locals, sent, call>>

NoFrame ==
  /\ pc = "wait" /\ ~ready
  /\ key' = FALSE /\ pc' = "loop"
  /\ UNCHANGED <<box, module, locals, sent, call>>

\* The length is kept and USART3_RX_STA cleared before USART3_RX_BUF is read.
TakeFrame_LengthLost ==
  /\ pc = "wait" /\ Box!Take
  /\ temp' = 0
  /\ call' = [call EXCEPT !.heard = TRUE]
  /\ key' = FALSE /\ pc' = "test"
  /\ UNCHANGED <<tim7, module, op, retry, sent>>

TakeFrame ==
  /\ pc = "wait" /\ Box!Take
  /\ temp' = Len(frame) % 256
  /\ call' = [call EXCEPT !.heard = TRUE, !.zero = (@ \/ Len(frame) % 256 = 0)]
  /\ key' = FALSE /\ pc' = "test"
  /\ UNCHANGED <<tim7, module, op, retry, sent>>

\* By then the bytes of another frame may have replaced the first ones.
RxBuf(i) == IF i <= Len(frame) THEN frame[i] ELSE taken[i]

\* HC05_CFG_CMD ends the reply with a 0, in the buffer the next one goes to.
Terminated ==
  IF temp + 1 \in DOMAIN frame THEN [frame EXCEPT ![temp + 1].ch = "NUL"] ELSE frame

Expected ==
  /\ op # "CFG"
  /\ temp = Len(Answer(op))
  /\ RxBuf(1).ch = Head(Answer(op))
  /\ op = "AT" => RxBuf(2).ch = "K"

\* The role is a digit, if it is the one that came with the "+".
TestReply ==
  /\ pc = "test"
  /\ IF Expected
       THEN /\ temp' \in IF op # "ROLE" THEN {0}
                         ELSE IF RxBuf(2).ch = "1" THEN {1} ELSE Garbage
            /\ call' = [call EXCEPT !.accepted = RxBuf(1).cmd]
            /\ pc' = "return"
       ELSE pc' = "loop" /\ UNCHANGED <<temp, call>>
  /\ frame' = IF op = "CFG" THEN Terminated ELSE frame
  /\ UNCHANGED <<ready, taken, tim7, module, key, op, retry, sent>>

\* if(retry==0): true after a break in the last attempt; once the loop has
\* run out retry is 255.  HC05_CFG_CMD returns nothing.
ReturnValue_OffByOne == IF retry > 1 THEN temp ELSE IF op = "AT" THEN 1 ELSE 255

ReturnValue == IF retry # 0 THEN temp ELSE IF op = "AT" THEN 1 ELSE 255

Return ==
  /\ pc = "return"
  /\ pc' = "idle"
  /\ op' = "CFG" /\ retry' = 0 /\ temp' = 0 /\ call' = NoCall
  /\ UNCHANGED <<box, module, key, sent>>

Driver == Exhausted \/ SendCommand \/ NoFrame \/ TakeFrame \/ TestReply \/ Return

Next == Reply \/ Deliver \/ EndOfFrame \/ Driver \/ \E o \in Op : Call(o)

Spec == Init /\ [][Next]_vars

(* delay_ms ends every wait, so the driver goes on; the HC05 need not.     *)
FairSpec == Spec /\ WF_vars(Driver) /\ WF_vars(Deliver) /\ WF_vars(EndOfFrame)

-----------------------------------------------------------------------------
(* Properties.                                                             *)

\* The counters stay in a u8 and the histories are what they say.
TypeOK ==
  /\ frame \in Seq(Char) /\ Len(frame) <= MaxLen /\ taken \in Seq(Char)
  /\ ready \in BOOLEAN /\ tim7 \in BOOLEAN /\ key \in BOOLEAN
  /\ inbox \in Seq([op : Op, cmd : 1..sent]) /\ line \in Seq(Char)
  /\ pc \in {"idle", "loop", "wait", "test", "return"}
  /\ retry \in 0..255 /\ temp \in 0..255
  /\ call \in [first : Nat, clean : BOOLEAN, heard : BOOLEAN, zero : BOOLEAN,
              accepted : 0..sent]

Returning == pc = "return" /\ op # "CFG"
Attempts  == sent - call.first + 1

\* A command is sent at most as often as the function allows, and the driver
\* gives up without an answer only after its last attempt.
GivesUpAfterAllAttempts ==
  Returning => /\ Attempts <= Retries[op]
               /\ call.accepted = 0 => Attempts = Retries[op]

\* HC05_Init returns 0 only on an "OK"; HC05_Set_Cmd may also return 0 when
\* no frame came at all, because temp was never set, although hc05.c:121-122
\* says that 0 is success.  Except when a frame of no
\* bytes was taken, which a full buffer can cause, or one of 256, whose length
\* is 0 in the u8 temp.
ZeroNeedsOkOrSilence ==
  Returning /\ op # "ROLE" /\ ReturnValue = 0 =>
    call.accepted # 0 \/ (op = "SET" /\ ~call.heard) \/ call.zero

\* An accepted answer is reported as a failure only if it came in the last
\* attempt.
AcceptedIsReported ==
  Returning /\ op # "ROLE" /\ call.accepted # 0 /\ ReturnValue # 0 =>
    Attempts = Retries[op]

\* If no earlier command, reply or frame was pending when the function was
\* called, the answer it accepts is the answer to a command of its own.
CleanStartAcceptsOwnAnswer ==
  call.clean /\ call.accepted # 0 => call.accepted >= call.first

\* Between calls the HC05 is in data mode.
KeyLowBetweenCalls == pc = "idle" => ~key

\* Every call returns, whatever the HC05 does.
CallsReturn == (pc # "idle") ~> (pc = "idle")
=============================================================================

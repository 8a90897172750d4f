-------------------------- MODULE HC05Driver_proofs --------------------------
(***************************************************************************)
(* Theorems about HC05Driver, for any number of attempts and commands, any *)
(* buffer length and whatever the HC05 answers or leaves unanswered: what  *)
(* the functions of hc05.c return, whose answer they accept, and KEY.      *)
(*                                                                         *)
(* The inductive invariant IInv counts the attempts of the call in         *)
(* progress, and follows the commands through inbox, line and receiver to  *)
(* know whose bytes may be read.                                           *)
(***************************************************************************)
EXTENDS HC05Driver, SequenceTheorems, TLAPS

-----------------------------------------------------------------------------
CmdsIn(s, C) == \A k \in 1..Len(s) : s[k].cmd \in C

\* What is on its way to the driver belongs to commands lo and later.
Pending(lo) ==
  CmdsIn(inbox, lo..sent) /\ CmdsIn(line, lo..sent) /\ CmdsIn(frame, lo..sent)

\* A call knows the number of its first command, and what is left of its
\* attempts; 255 is what while(retry--) leaves.
CallInv ==
  /\ op \in {"AT", "ROLE", "SET", "CFG"} /\ sent \in Nat
  /\ pc = "idle" => call = NoCall
  /\ pc # "idle" => op \in Op /\ call.first \in 1..(sent + 1)
  /\ pc \in {"loop", "wait", "test"} => call.accepted = 0 /\ Attempts + retry = Retries[op]
  /\ pc = "return" => IF call.accepted = 0 THEN retry = 255 /\ Attempts = Retries[op]
                      ELSE Attempts + retry = Retries[op]

\* KEY is high before the first attempt, or until the wait of two functions ends.
KeyInv ==
  key => \/ pc = "loop" /\ retry = Retries[op]
         \/ pc = "wait" /\ op \in {"ROLE", "CFG"}

FrameInv == pc = "test" /\ temp # 0 => taken # <<>>

\* Everything belongs to a command that was sent; after a clean start, to a
\* command of this call.
OwnerInv ==
  /\ Pending(1) /\ CmdsIn(taken, 1..sent)
  /\ call.clean => /\ Pending(call.first)
                   /\ pc = "test" => CmdsIn(taken, call.first..sent)
                   /\ call.accepted # 0 => call.accepted >= call.first

ZeroInv == pc = "return" /\ op # "ROLE" /\ call.accepted # 0 => temp = 0

\* Until an answer is accepted, or a frame of no bytes or a multiple of 256 was
\* taken, temp is not 0 in HC05_Init, nor in HC05_Set_Cmd once a frame was taken.
TempInv ==
  pc # "idle" /\ call.accepted = 0 /\ ~call.zero =>
    (op = "AT" \/ (op = "SET" /\ call.heard) => temp # 0)

BaseInv == TypeOK /\ CallInv /\ FrameInv
IInv == BaseInv /\ KeyInv /\ ZeroInv /\ OwnerInv

-----------------------------------------------------------------------------
(* Lemmas about sequences of bytes and commands.                           *)

LEMMA CmdsTail ==
  ASSUME NEW S, NEW C, NEW s \in Seq(S), s # <<>>, CmdsIn(s, C)
  PROVE  CmdsIn(Tail(s), C) /\ Head(s).cmd \in C
<1>1. Len(s) \in Nat /\ Len(s) > 0 /\ Head(s) = s[1]
  BY EmptySeq
<1>2. /\ Len(Tail(s)) = Len(s) - 1
      /\ \A k \in 1..Len(Tail(s)) : Tail(s)[k] = s[k + 1]
  BY HeadTailProperties
<1>. QED
  BY <1>1, <1>2 DEF CmdsIn

LEMMA CmdsAppend ==
  ASSUME NEW S, NEW C, NEW s \in Seq(S), NEW e \in S, e.cmd \in C, CmdsIn(s, C)
  PROVE  CmdsIn(Append(s, e), C)
<1>1. /\ Len(s) \in Nat /\ Len(Append(s, e)) = Len(s) + 1
      /\ \A k \in 1..Len(s) : Append(s, e)[k] = s[k]
      /\ Append(s, e)[Len(s) + 1] = e
  BY AppendProperties, LenProperties
<1>. QED
  BY <1>1 DEF CmdsIn

LEMMA CmdsConcat ==
  ASSUME NEW S, NEW C, NEW s \in Seq(S), NEW t \in Seq(S), CmdsIn(s, C), CmdsIn(t, C)
  PROVE  CmdsIn(s \o t, C)
<1>1. /\ Len(s) \in Nat /\ Len(t) \in Nat /\ Len(s \o t) = Len(s) + Len(t)
      /\ \A k \in 1..(Len(s) + Len(t)) :
           (s \o t)[k] = IF k <= Len(s) THEN s[k] ELSE t[k - Len(s)]
  BY ConcatProperties, LenProperties
<1>. QED
  BY <1>1 DEF CmdsIn

LEMMA CmdsEmpty == ASSUME NEW C PROVE CmdsIn(<<>>, C)
  BY DEF CmdsIn

LEMMA CmdsWiden ==
  ASSUME NEW C, NEW D, C \subseteq D, NEW s, CmdsIn(s, C)
  PROVE  CmdsIn(s, D)
  BY DEF CmdsIn

\* A reply to command n is bytes of n, and not empty.
LEMMA TaggedBytes ==
  ASSUME NEW o, NEW chars \in {Answer(o), Refusal}, NEW n \in Nat
  PROVE  /\ Tagged(chars, n) \in Seq(Char) /\ Tagged(chars, n) # <<>>
         /\ CmdsIn(Tagged(chars, n), {n})
<1> DEFINE Ch == {"O", "K", "E", "+", "1", "NUL"}
<1>1. chars \in Seq(Ch) /\ Len(chars) \in Nat /\ Len(chars) > 0
  <2>1. CASE chars = <<"+", "1", "O", "K">>
    BY <2>1
  <2>2. CASE chars = <<"O", "K">>
    BY <2>2
  <2>3. CASE chars = <<"E">>
    BY <2>3
  <2>. QED
    BY <2>1, <2>2, <2>3 DEF Answer, Refusal
<1>2. \A k \in 1..Len(chars) : chars[k] \in Ch
  BY <1>1, ElementOfSeq
<1>3. Tagged(chars, n) \in [1..Len(chars) -> Char]
  BY <1>1, <1>2 DEF Tagged, Char
<1>4. Tagged(chars, n) \in Seq(Char)
  BY <1>1, <1>3, SeqDef
<1>5. Len(Tagged(chars, n)) = Len(chars)
  BY <1>1, <1>3, <1>4, LenProperties
<1>6. \A k \in 1..Len(chars) : Tagged(chars, n)[k].cmd = n
  BY DEF Tagged
<1>. QED
  BY <1>1, <1>4, <1>5, <1>6, EmptySeq DEF CmdsIn

\* HC05_CFG_CMD's 0 keeps the length of what it falls into, and the owners.
LEMMA TerminatedBytes ==
  ASSUME TypeOK
  PROVE  /\ Terminated \in Seq(Char) /\ Len(Terminated) = Len(frame)
         /\ \A C : CmdsIn(frame, C) => CmdsIn(Terminated, C)
<1>1. CASE temp + 1 \in DOMAIN frame
  <2> DEFINE n == temp + 1
             e == [frame[n] EXCEPT !.ch = "NUL"]
  <2>1. frame \in Seq(Char) /\ DOMAIN frame = 1..Len(frame) /\ n \in 1..Len(frame)
    BY <1>1, LenProperties DEF TypeOK
  <2>2. e \in Char /\ e.cmd = frame[n].cmd
    <3>1. frame[n] \in Char
      BY <2>1, ElementOfSeq
    <3>. QED
      BY <3>1 DEF Char
  <2>3. Terminated = [frame EXCEPT ![n] = e]
    BY <1>1 DEF Terminated
  <2>4. /\ Terminated \in Seq(Char) /\ Len(Terminated) = Len(frame)
        /\ \A k \in 1..Len(frame) : Terminated[k] = IF k = n THEN e ELSE frame[k]
    BY <2>1, <2>2, <2>3, ExceptSeq
  <2>. QED
    BY <2>1, <2>2, <2>4 DEF CmdsIn
<1>2. CASE ~(temp + 1 \in DOMAIN frame)
  BY <1>2 DEF Terminated, TypeOK
<1>. QED
  BY <1>1, <1>2

\* The byte that is compared first is there, and belongs to who is in the buffer.
LEMMA FirstByte ==
  ASSUME TypeOK, FrameInv, pc = "test", Expected, NEW C, CmdsIn(frame, C), CmdsIn(taken, C)
  PROVE  RxBuf(1).cmd \in C
<1>0. temp # 0
  BY DEF Expected, Answer
<1>1. Len(frame) \in Nat /\ Len(taken) \in Nat /\ Len(taken) > 0
  BY <1>0, EmptySeq, LenProperties DEF TypeOK, FrameInv
<1>. QED
  BY <1>1 DEF RxBuf, CmdsIn

-----------------------------------------------------------------------------

LEMMA InitInv == Init => IInv
<1> SUFFICES ASSUME Init PROVE IInv
  OBVIOUS
<1>1. /\ frame = <<>> /\ taken = <<>> /\ ready = FALSE
      /\ inbox = <<>> /\ line = <<>> /\ sent = 0 /\ call = NoCall
      /\ tim7 = FALSE /\ key = FALSE /\ pc = "idle" /\ op = "CFG" /\ retry = 0 /\ temp = 0
  BY DEF Init, Box!Init
<1>2. frame \in Seq(Char) /\ taken \in Seq(Char) /\ line \in Seq(Char)
      /\ inbox \in Seq([op : Op, cmd : 1..sent]) /\ Len(frame) = 0
  BY <1>1, EmptySeq
<1>3. call \in [first : Nat, clean : BOOLEAN, heard : BOOLEAN, zero : BOOLEAN,
             accepted : 0..sent]
  BY <1>1 DEF NoCall
<1>4. TypeOK
  <2>1. Len(frame) <= MaxLen
    BY <1>2, DriverAssumption
  <2>2. ready \in BOOLEAN /\ tim7 \in BOOLEAN /\ key \in BOOLEAN
    BY <1>1
  <2>3. retry \in 0..255 /\ temp \in 0..255 /\ pc = "idle"
    BY <1>1
  <2>. QED
    BY <1>2, <1>3, <2>1, <2>2, <2>3 DEF TypeOK
<1>5. CallInv /\ FrameInv /\ KeyInv /\ ZeroInv
  BY <1>1 DEF CallInv, FrameInv, KeyInv, ZeroInv
<1>6. OwnerInv
  BY <1>1, CmdsEmpty DEF OwnerInv, Pending, NoCall
<1>. QED
  BY <1>4, <1>5, <1>6 DEF IInv, BaseInv

-----------------------------------------------------------------------------
(* Types, attempts and frames.                                             *)

\* A command in the inbox stays a command sent.
LEMMA InboxWidens ==
  ASSUME sent \in Nat, NEW s \in Seq([op : Op, cmd : 1..sent])
  PROVE  s \in Seq([op : Op, cmd : 1..(sent + 1)])
<1>1. [op : Op, cmd : 1..sent] \subseteq [op : Op, cmd : 1..(sent + 1)]
  OBVIOUS
<1>. QED
  BY <1>1, SeqMonotonic

LEMMA BaseStep ==
  ASSUME BaseInv, OwnerInv, [Next]_vars
  PROVE  BaseInv'
<1> USE DEF BaseInv
<1>0. sent \in Nat /\ DriverAssumption
  BY DriverAssumption DEF CallInv
<1>1. CASE Reply
  <2>1. PICK chars \in {Answer(Head(inbox).op), Refusal} :
           line' = line \o Tagged(chars, Head(inbox).cmd)
    BY <1>1 DEF Reply
  <2>2. /\ inbox # <<>> /\ inbox' = Tail(inbox)
        /\ UNCHANGED <<frame, ready, taken, tim7, key, pc, op, retry, temp, sent, call>>
    BY <1>1 DEF Reply, box, locals
  <2>3. Head(inbox) \in [op : Op, cmd : 1..sent] /\ inbox' \in Seq([op : Op, cmd : 1..sent])
    BY <2>2, HeadTailProperties DEF TypeOK
  <2>4. line' \in Seq(Char)
    <3> DEFINE c == Head(inbox)
    <3>1. c.cmd \in Nat
      BY <1>0, <2>3
    <3>2. Tagged(chars, c.cmd) \in Seq(Char)
      BY <3>1, TaggedBytes
    <3>. QED
      BY <2>1, <3>2, ConcatProperties DEF TypeOK
  <2>5. TypeOK'
    BY <2>2, <2>3, <2>4 DEF TypeOK
  <2>. QED
    BY <2>2, <2>5 DEF CallInv, FrameInv, Attempts
<1>2. CASE Deliver
  <2>1. /\ line # <<>> /\ line' = Tail(line)
        /\ UNCHANGED <<taken, inbox, key, pc, op, retry, temp, sent, call>>
        /\ \/ UNCHANGED frame
           \/ Len(frame) < MaxLen /\ frame' = Append(frame, Head(line))
        /\ {ready', tim7'} \subseteq {ready, tim7, TRUE}
    BY <1>2 DEF Deliver, box, locals, Box!Put, Box!Close
  <2>2. Head(line) \in Char /\ line' \in Seq(Char)
    BY <2>1, HeadTailProperties DEF TypeOK
  <2>3. frame' \in Seq(Char) /\ Len(frame') <= MaxLen
    <3>1. CASE UNCHANGED frame
      BY <3>1 DEF TypeOK
    <3>2. CASE Len(frame) < MaxLen /\ frame' = Append(frame, Head(line))
      <4>1. /\ frame \in Seq(Char) /\ frame' \in Seq(Char)
            /\ Len(frame') = Len(frame) + 1
        BY <2>2, <3>2, AppendProperties DEF TypeOK
      <4>2. Len(frame) \in Nat /\ MaxLen \in Nat
        BY <4>1, LenProperties, DriverAssumption
      <4>. QED
        BY <3>2, <4>1, <4>2
    <3>. QED
      BY <2>1, <3>1, <3>2
  <2>4. TypeOK'
    BY <2>1, <2>2, <2>3 DEF TypeOK
  <2>. QED
    BY <2>1, <2>3, <2>4 DEF CallInv, FrameInv, Attempts
<1>3. CASE EndOfFrame
  <2>1. /\ ready' = TRUE /\ tim7' = FALSE
        /\ UNCHANGED <<frame, taken, inbox, line, key, pc, op, retry, temp, sent, call>>
    BY <1>3 DEF EndOfFrame, module, locals
  <2>2. TypeOK'
    BY <2>1 DEF TypeOK
  <2>3. CallInv' /\ FrameInv'
    BY <2>1 DEF CallInv, FrameInv, Attempts
  <2>. QED
    BY <2>2, <2>3
<1>4. ASSUME NEW o \in Op, Call(o)
      PROVE  BaseInv'
  <2>1. /\ pc = "idle" /\ pc' = "loop" /\ op' = o /\ retry' = Retries[o]
        /\ temp' \in IF o = "AT" THEN {1} ELSE Garbage
        /\ key' = (o = "AT") /\ UNCHANGED <<taken, inbox, line, sent>>
        /\ \/ frame' = <<>> /\ ready' = FALSE /\ tim7' = FALSE
           \/ UNCHANGED <<frame, ready, tim7>>
    BY <1>4 DEF Call, module
  <2>2. /\ call'.first = sent + 1 /\ call'.accepted = 0 /\ call'.heard = FALSE
        /\ call' \in [first : Nat, clean : BOOLEAN, heard : BOOLEAN, zero : BOOLEAN,
             accepted : 0..sent]
    <3>1. PICK b \in BOOLEAN : call' = [NoCall EXCEPT !.first = sent + 1, !.clean = b]
      BY <1>4 DEF Call
    <3>2. call' = [first |-> sent + 1, clean |-> b, heard |-> FALSE, zero |-> FALSE, accepted |-> 0]
      BY <3>1 DEF NoCall
    <3>3. [first |-> sent + 1, clean |-> b, heard |-> FALSE, zero |-> FALSE, accepted |-> 0]
            \in [first : Nat, clean : BOOLEAN, heard : BOOLEAN, zero : BOOLEAN,
             accepted : 0..sent]
      BY <1>0
    <3>. QED
      BY <3>2, <3>3
  <2>3. frame' \in Seq(Char) /\ Len(frame') <= MaxLen
    <3>1. <<>> \in Seq(Char) /\ Len(<<>>) = 0 /\ 0 <= MaxLen
      BY EmptySeq, DriverAssumption
    <3>2. frame \in Seq(Char) /\ Len(frame) <= MaxLen
      BY DEF TypeOK
    <3>3. CASE frame' = <<>>
      BY <3>1, <3>3
    <3>4. CASE UNCHANGED frame
      BY <3>2, <3>4
    <3>. QED
      BY <2>1, <3>3, <3>4
  <2>4. Retries[o] \in 1..254 /\ o \in {"AT", "ROLE", "SET", "CFG"} /\ temp' \in 0..255
    BY <2>1, DriverAssumption
  <2>5. key' \in BOOLEAN
    BY <2>1
  <2>6. TypeOK'
    <3>1. taken' \in Seq(Char) /\ line' \in Seq(Char)
          /\ ready' \in BOOLEAN /\ tim7' \in BOOLEAN
          /\ inbox' \in Seq([op : Op, cmd : 1..sent])
      BY <2>1 DEF TypeOK
    <3>2. retry' \in 0..255 /\ sent' = sent /\ pc' = "loop"
      BY <2>1, <2>4
    <3>. QED
      BY <2>2, <2>3, <2>4, <2>5, <3>1, <3>2 DEF TypeOK
  <2>7. CallInv' /\ FrameInv'
    BY <1>0, <2>1, <2>2, <2>3, <2>4 DEF CallInv, FrameInv, Attempts
  <2>. QED
    BY <2>6, <2>7
<1>5. CASE Exhausted
  <2>1. /\ pc = "loop" /\ retry = 0 /\ retry' = 255 /\ pc' = "return"
        /\ UNCHANGED <<frame, ready, taken, tim7, inbox, line, key, op, temp, sent, call>>
    BY <1>5 DEF Exhausted, box, module
  <2>2. call.first \in Nat /\ Retries[op] \in Nat
    <3>1. op \in Op
      BY <2>1 DEF CallInv
    <3>2. Retries[op] \in 1..254
      BY <3>1, DriverAssumption
    <3>3. call.first \in Nat
      BY DEF TypeOK
    <3>. QED
      BY <3>2, <3>3
  <2>. QED
    BY <1>0, <2>1, <2>2 DEF TypeOK, CallInv, FrameInv, Attempts
<1>6. CASE SendCommand
  <2>1. /\ pc = "loop" /\ retry > 0 /\ retry' = retry - 1 /\ sent' = sent + 1
        /\ key' = (op \in {"ROLE", "CFG"}) /\ pc' = "wait"
        /\ \/ inbox' = Append(inbox, [op |-> op, cmd |-> sent + 1])
           \/ UNCHANGED inbox
        /\ UNCHANGED <<frame, ready, taken, tim7, line, op, temp, call>>
    BY <1>6 DEF SendCommand, box
  <2>2. op \in Op /\ [op |-> op, cmd |-> sent + 1] \in [op : Op, cmd : 1..(sent + 1)]
    BY <1>0, <2>1 DEF CallInv
  <2>3. inbox' \in Seq([op : Op, cmd : 1..sent'])
    <3> DEFINE C == [op : Op, cmd : 1..(sent + 1)]
    <3>1. inbox \in Seq(C)
      BY <1>0, InboxWidens DEF TypeOK
    <3>2. Append(inbox, [op |-> op, cmd |-> sent + 1]) \in Seq(C)
      BY <2>2, <3>1, AppendProperties
    <3>. QED
      BY <2>1, <3>1, <3>2
  <2>4. call' \in [first : Nat, clean : BOOLEAN, heard : BOOLEAN, zero : BOOLEAN,
             accepted : 0..sent']
    BY <1>0, <2>1 DEF TypeOK
  <2>5. retry' \in 0..255 /\ key' \in BOOLEAN
    BY <2>1 DEF TypeOK
  <2>6. TypeOK'
    BY <2>1, <2>3, <2>4, <2>5 DEF TypeOK
  <2>7. call.first \in Nat /\ retry \in Nat /\ Retries[op] \in Nat
    <3>1. Retries[op] \in 1..254
      BY <2>2, DriverAssumption
    <3>2. call.first \in Nat /\ retry \in Nat
      BY DEF TypeOK
    <3>. QED
      BY <3>1, <3>2
  <2>8. CallInv'
    <3>1. call.first \in 1..(sent + 1) /\ call.accepted = 0 /\ sent \in Nat
          /\ Attempts + retry = Retries[op]
      BY <1>0, <2>1, <2>2 DEF CallInv
    <3>2. call.first \in 1..(sent' + 1) /\ sent' \in Nat
      BY <3>1, <2>1
    <3>3. Attempts' + retry' = Retries[op]
      <4>1. Attempts' = (sent + 1) - call.first + 1 /\ Attempts = sent - call.first + 1
        BY <2>1 DEF Attempts
      <4>2. retry' = retry - 1
        BY <2>1
      <4>. QED
        BY <4>1, <4>2, <3>1, <2>7
    <3>. QED
      BY <1>0, <2>1, <2>2, <3>1, <3>2, <3>3 DEF CallInv
  <2>9. FrameInv'
    BY <1>0, <2>1 DEF FrameInv
  <2>. QED
    BY <2>6, <2>8, <2>9
<1>7. CASE NoFrame
  BY <1>7 DEF NoFrame, box, module, locals, TypeOK, CallInv, FrameInv, Attempts
<1>8. CASE TakeFrame
  <2>1. /\ pc = "wait" /\ ready /\ taken' = frame /\ frame' = <<>> /\ ready' = FALSE
        /\ temp' = Len(frame) % 256
        /\ call' = [call EXCEPT !.heard = TRUE, !.zero = (@ \/ Len(frame) % 256 = 0)]
        /\ key' = FALSE /\ pc' = "test" /\ UNCHANGED <<tim7, inbox, line, op, retry, sent>>
    BY <1>8 DEF TakeFrame, Box!Take, module
  <2>2. Len(frame) \in Nat /\ temp' \in 0..255
    <3>1. Len(frame) \in Nat
      BY LenProperties DEF TypeOK
    <3>2. temp' = Len(frame) % 256
      BY <2>1
    <3>3. \A n \in Nat : n % 256 \in 0..255
      OBVIOUS
    <3>. QED
      BY <3>1, <3>2, <3>3
  <2>3. call' \in [first : Nat, clean : BOOLEAN, heard : BOOLEAN, zero : BOOLEAN,
             accepted : 0..sent]
        /\ call'.first = call.first /\ call'.accepted = call.accepted
    BY <2>1 DEF TypeOK
  <2>4. frame' \in Seq(Char) /\ Len(frame') <= MaxLen /\ (temp' # 0 => taken' # <<>>)
    BY <2>1, EmptySeq, DriverAssumption DEF TypeOK
  <2>5. TypeOK'
    BY <2>1, <2>2, <2>3, <2>4 DEF TypeOK
  <2>6. CallInv' /\ FrameInv'
    BY <2>1, <2>3, <2>4 DEF CallInv, FrameInv, Attempts
  <2>. QED
    BY <2>5, <2>6
<1>9. CASE TestReply
  <2>1. /\ pc = "test" /\ UNCHANGED <<ready, taken, tim7, inbox, line, key, op, retry, sent>>
        /\ frame' \in {Terminated, frame}
    BY <1>9 DEF TestReply, module
  <2>2. frame' \in Seq(Char) /\ Len(frame') = Len(frame)
    BY <2>1, TerminatedBytes DEF TypeOK
  <2>3. CASE Expected
    <3>1. /\ temp' \in {0, 1} \cup Garbage /\ pc' = "return"
          /\ call' = [call EXCEPT !.accepted = RxBuf(1).cmd]
      BY <1>9, <2>3 DEF TestReply
    <3>2. RxBuf(1).cmd \in 1..sent
      BY <2>1, <2>3, FirstByte DEF OwnerInv, Pending
    <3>3. call' \in [first : Nat, clean : BOOLEAN, heard : BOOLEAN, zero : BOOLEAN,
             accepted : 0..sent]
          /\ call'.first = call.first /\ call'.accepted # 0
      <4> DEFINE n == RxBuf(1).cmd
      <4>1. call' = [call EXCEPT !.accepted = n] /\ n \in 0..sent /\ n # 0
        BY <1>0, <3>1, <3>2
      <4> HIDE DEF n
      <4>. QED
        BY <4>1 DEF TypeOK
    <3>4. temp' \in 0..255
      BY <3>1, DriverAssumption
    <3>5. TypeOK'
      BY <2>1, <2>2, <3>1, <3>3, <3>4 DEF TypeOK
    <3>6. CallInv' /\ FrameInv'
      BY <2>1, <2>2, <3>1, <3>3 DEF CallInv, FrameInv, Attempts
    <3>. QED
      BY <3>5, <3>6
  <2>4. CASE ~Expected
    <3>1. pc' = "loop" /\ UNCHANGED <<temp, call>>
      BY <1>9, <2>4 DEF TestReply
    <3>. QED
      BY <2>1, <2>2, <3>1 DEF TypeOK, CallInv, FrameInv, Attempts
  <2>. QED
    BY <2>3, <2>4
<1>10. CASE Return
  <2>1. /\ pc' = "idle" /\ op' = "CFG" /\ retry' = 0 /\ temp' = 0 /\ call' = NoCall
        /\ UNCHANGED <<frame, ready, taken, tim7, inbox, line, key, sent>>
    BY <1>10 DEF Return, box, module
  <2>2. call' \in [first : Nat, clean : BOOLEAN, heard : BOOLEAN, zero : BOOLEAN,
             accepted : 0..sent]
    BY <1>0, <2>1 DEF NoCall
  <2>. QED
    BY <2>1, <2>2 DEF TypeOK, CallInv, FrameInv
<1>11. CASE UNCHANGED vars
  BY <1>11 DEF vars, box, module, locals, TypeOK, CallInv, FrameInv, Attempts
<1>. QED
  BY <1>1, <1>2, <1>3, <1>4, <1>5, <1>6, <1>7, <1>8, <1>9, <1>10, <1>11 DEF Next, Driver

-----------------------------------------------------------------------------
(* KEY.                                                                    *)

LEMMA KeyStep ==
  ASSUME BaseInv, KeyInv, [Next]_vars
  PROVE  KeyInv'
<1> USE DEF KeyInv
<1>1. CASE Reply \/ Deliver \/ EndOfFrame
  BY <1>1 DEF Reply, Deliver, EndOfFrame, locals
<1>2. ASSUME NEW o \in Op, Call(o) PROVE KeyInv'
  BY <1>2 DEF Call
<1>3. CASE Exhausted
  <2>1. pc = "loop" /\ retry = 0 /\ pc' = "return" /\ key' = key /\ op' = op
    BY <1>3 DEF Exhausted
  <2>2. Retries[op] \in 1..254
    BY <2>1, DriverAssumption DEF BaseInv, CallInv
  <2>3. ~key
    BY <2>1, <2>2
  <2>. QED
    BY <2>1, <2>3
<1>4. CASE SendCommand
  BY <1>4 DEF SendCommand
<1>5. CASE NoFrame \/ TakeFrame
  BY <1>5 DEF NoFrame, TakeFrame
<1>6. CASE TestReply \/ Return
  <2>1. pc \in {"test", "return"} /\ key' = key
    BY <1>6 DEF TestReply, Return
  <2>. QED
    BY <2>1
<1>7. CASE UNCHANGED vars
  BY <1>7 DEF vars, locals
<1>. QED
  BY <1>1, <1>2, <1>3, <1>4, <1>5, <1>6, <1>7 DEF Next, Driver

\* An answer that is accepted leaves 0 in temp, in all functions but one.
LEMMA ZeroStep ==
  ASSUME BaseInv, ZeroInv, [Next]_vars
  PROVE  ZeroInv'
<1> USE DEF ZeroInv
<1>1. CASE TestReply
  BY <1>1 DEF TestReply
<1>2. CASE Exhausted
  BY <1>2 DEF Exhausted, BaseInv, CallInv
<1>3. CASE Reply \/ Deliver \/ EndOfFrame
  BY <1>3 DEF Reply, Deliver, EndOfFrame, locals
<1>4. ASSUME NEW o \in Op, Call(o) PROVE ZeroInv'
  BY <1>4 DEF Call
<1>5. CASE SendCommand \/ NoFrame \/ TakeFrame \/ Return
  BY <1>5 DEF SendCommand, NoFrame, TakeFrame, Return
<1>6. CASE UNCHANGED vars
  BY <1>6 DEF vars, locals
<1>. QED
  BY <1>1, <1>2, <1>3, <1>4, <1>5, <1>6 DEF Next, Driver

-----------------------------------------------------------------------------
(* Owners.                                                                 *)

\* Except for the start of a call, no step brings bytes of a command before lo.
LEMMA PendingStep ==
  ASSUME BaseInv, Next, \A o \in Op : ~Call(o),
         NEW lo \in 1..(sent + 1), Pending(lo)
  PROVE  Pending(lo)'
<1> USE DEF Pending
<1>0. sent \in Nat /\ lo \in Nat
  BY DEF BaseInv, CallInv
<1>1. CASE Reply
  <2>1. PICK chars \in {Answer(Head(inbox).op), Refusal} :
           line' = line \o Tagged(chars, Head(inbox).cmd)
    BY <1>1 DEF Reply
  <2>2. inbox # <<>> /\ inbox' = Tail(inbox) /\ UNCHANGED <<frame, sent>>
    BY <1>1 DEF Reply, box
  <2> DEFINE n == Head(inbox).cmd
  <2>3. CmdsIn(inbox', lo..sent) /\ n \in lo..sent
    BY <2>2, CmdsTail DEF BaseInv, TypeOK
  <2>4. n \in Nat
    BY <1>0, <2>3
  <2>5. Tagged(chars, n) \in Seq(Char) /\ CmdsIn(Tagged(chars, n), {n})
    BY <2>4, TaggedBytes
  <2>6. CmdsIn(Tagged(chars, n), lo..sent)
    BY <2>3, <2>5, CmdsWiden
  <2>7. CmdsIn(line', lo..sent)
    BY <2>1, <2>5, <2>6, CmdsConcat DEF BaseInv, TypeOK
  <2>. QED
    BY <2>2, <2>3, <2>7
<1>2. CASE Deliver
  <2>1. /\ line # <<>> /\ line' = Tail(line) /\ UNCHANGED <<inbox, sent>>
        /\ UNCHANGED frame \/ frame' = Append(frame, Head(line))
    BY <1>2 DEF Deliver, box, Box!Put, Box!Close
  <2>2. /\ CmdsIn(line', lo..sent) /\ Head(line).cmd \in lo..sent
        /\ Head(line) \in Char
    BY <2>1, CmdsTail, HeadTailProperties DEF BaseInv, TypeOK
  <2>3. CmdsIn(Append(frame, Head(line)), lo..sent)
    BY <2>2, CmdsAppend DEF BaseInv, TypeOK
  <2>4. CmdsIn(frame', lo..sent)
    BY <2>1, <2>3
  <2>. QED
    BY <2>1, <2>2, <2>4
<1>3. CASE SendCommand
  <2> DEFINE c == [op |-> op, cmd |-> sent + 1]
  <2>1. /\ inbox' = Append(inbox, c) \/ UNCHANGED inbox
        /\ sent' = sent + 1 /\ UNCHANGED <<frame, line>> /\ pc = "loop"
    BY <1>3 DEF SendCommand, box
  <2>2. /\ CmdsIn(inbox, lo..(sent + 1)) /\ CmdsIn(line, lo..(sent + 1))
        /\ CmdsIn(frame, lo..(sent + 1))
    <3>1. lo..sent \subseteq lo..(sent + 1)
      BY <1>0
    <3>. QED
      BY <3>1, CmdsWiden
  <2>3. inbox \in Seq([op : Op, cmd : 1..(sent + 1)])
    BY <1>0, InboxWidens DEF BaseInv, TypeOK
  <2>4. c \in [op : Op, cmd : 1..(sent + 1)] /\ c.cmd \in lo..(sent + 1)
    BY <1>0, <2>1 DEF BaseInv, CallInv
  <2>5. CmdsIn(Append(inbox, c), lo..(sent + 1))
    BY <2>2, <2>3, <2>4, CmdsAppend
  <2>. QED
    BY <2>1, <2>2, <2>5
<1>4. CASE TakeFrame
  <2>1. frame' = <<>> /\ UNCHANGED <<inbox, line, sent>>
    BY <1>4 DEF TakeFrame, Box!Take, module
  <2>. QED
    BY <2>1, CmdsEmpty
<1>5. CASE TestReply
  <2>1. frame' \in {Terminated, frame} /\ UNCHANGED <<inbox, line, sent>>
    BY <1>5 DEF TestReply, module
  <2>. QED
    BY <2>1, TerminatedBytes DEF BaseInv
<1>6. CASE EndOfFrame \/ Exhausted \/ NoFrame \/ Return
  BY <1>6 DEF EndOfFrame, Exhausted, NoFrame, Return, box, module
<1>. QED
  BY <1>1, <1>2, <1>3, <1>4, <1>5, <1>6 DEF Next, Driver

LEMMA OwnerStep ==
  ASSUME BaseInv, OwnerInv, [Next]_vars
  PROVE  OwnerInv'
<1>0. sent \in Nat
  BY DEF BaseInv, CallInv
<1>1. ASSUME NEW o \in Op, Call(o) PROVE OwnerInv'
  <2>1. /\ UNCHANGED <<taken, inbox, line, sent>> /\ frame' \in {<<>>, frame}
        /\ pc' = "loop"
    BY <1>1 DEF Call, module
  <2>2. /\ call'.first = sent + 1 /\ call'.accepted = 0
        /\ call'.clean = (inbox = <<>> /\ line = <<>> /\ frame' = <<>>)
    BY <1>1 DEF Call, NoCall
  <2>3. Pending(1)'
    BY <2>1, CmdsEmpty DEF OwnerInv, Pending
  <2>4. ASSUME call'.clean PROVE Pending(call.first)'
    <3>1. inbox' = <<>> /\ line' = <<>> /\ frame' = <<>>
      BY <2>1, <2>2, <2>4
    <3>. QED
      BY <3>1, CmdsEmpty DEF Pending
  <2>. QED
    BY <2>1, <2>2, <2>3, <2>4 DEF OwnerInv
<1>2. ASSUME Next, \A o \in Op : ~Call(o) PROVE OwnerInv'
  <2> DEFINE first == call.first
  <2>1. Pending(1)'
    BY <1>0, <1>2, PendingStep DEF OwnerInv
  <2>2. /\ pc = "idle" => ~call.clean /\ pc' = "idle"
        /\ pc # "idle" => first \in 1..(sent + 1)
    <3>1. pc = "idle" => pc' = "idle"
      BY <1>2 DEF Next, Driver, Reply, Deliver, EndOfFrame, Exhausted, SendCommand,
                  NoFrame, TakeFrame, TestReply, Return
    <3>. QED
      BY <3>1 DEF BaseInv, CallInv, NoCall
  <2>3. ASSUME call.clean
        PROVE  \A C : C = first => Pending(C)'
    <3>1. first \in 1..(sent + 1) /\ Pending(first)
      BY <2>2, <2>3 DEF OwnerInv
    <3>2. \A n \in 1..(sent + 1) : Pending(n) => Pending(n)'
      BY <1>2, PendingStep
    <3>. QED
      BY <3>1, <3>2 DEF Pending
  <2>4. CASE TakeFrame
    <3>1. /\ taken' = frame /\ sent' = sent /\ pc' = "test" /\ pc = "wait"
          /\ call' = [call EXCEPT !.heard = TRUE, !.zero = (@ \/ Len(frame) % 256 = 0)]
      BY <2>4 DEF TakeFrame, Box!Take
    <3>2. /\ call'.first = first /\ call'.clean = call.clean /\ call'.accepted = 0
      BY <3>1 DEF BaseInv, TypeOK, CallInv
    <3>3. CmdsIn(taken', 1..sent)
      BY <3>1 DEF OwnerInv, Pending
    <3>4. call.clean => CmdsIn(taken', first..sent)
      BY <3>1 DEF OwnerInv, Pending
    <3>. QED
      BY <2>1, <2>3, <3>1, <3>2, <3>3, <3>4 DEF OwnerInv, Pending
  <2>5. CASE TestReply
    <3>1. /\ UNCHANGED <<taken, sent>> /\ pc = "test"
          /\ pc' \in {"loop", "return"}
      BY <2>5 DEF TestReply
    <3>2. CASE call' = call
      BY <2>1, <2>3, <3>1, <3>2 DEF OwnerInv, Pending
    <3>3. CASE Expected /\ call' = [call EXCEPT !.accepted = RxBuf(1).cmd]
      <4>0. Expected
        BY <3>3
      <4>1. call'.first = first /\ call'.clean = call.clean
            /\ call'.accepted = RxBuf(1).cmd
        BY <3>3 DEF BaseInv, TypeOK
      <4>2. call.clean => RxBuf(1).cmd \in first..sent
        BY <2>5, <3>1, <4>0, FirstByte DEF BaseInv, OwnerInv, Pending
      <4>3. call.clean => RxBuf(1).cmd >= first
        BY <4>2, <2>2, <3>1, <1>0
      <4>. QED
        BY <2>1, <2>3, <3>1, <4>1, <4>3 DEF OwnerInv, Pending
    <3>. QED
      BY <2>5, <3>2, <3>3 DEF TestReply
  <2>6. CASE Return
    <3>1. call' = NoCall /\ UNCHANGED <<taken, sent>>
      BY <2>6 DEF Return, box
    <3>. QED
      BY <2>1, <3>1 DEF OwnerInv, NoCall
  <2>7. CASE SendCommand
    <3>1. /\ UNCHANGED <<taken, call>> /\ sent' = sent + 1 /\ pc' = "wait"
      BY <2>7 DEF SendCommand, box
    <3>2. 1..sent \subseteq 1..(sent + 1)
      BY <1>0
    <3>3. CmdsIn(taken, 1..(sent + 1))
      BY <3>2, CmdsWiden DEF OwnerInv
    <3>. QED
      BY <2>1, <2>3, <3>1, <3>3 DEF OwnerInv, Pending
  <2>8. CASE Reply \/ Deliver \/ EndOfFrame \/ Exhausted \/ NoFrame
    <3>1. /\ UNCHANGED <<taken, sent, call>>
          /\ pc' = pc \/ pc' # "test"
      BY <2>8 DEF Reply, Deliver, EndOfFrame, Exhausted, NoFrame, Box!Put, Box!Close, box
    <3>. QED
      BY <2>1, <2>3, <3>1 DEF OwnerInv, Pending
  <2>. QED
    BY <1>2, <2>4, <2>5, <2>6, <2>7, <2>8 DEF Next, Driver
<1>3. CASE UNCHANGED vars
  BY <1>3 DEF vars, box, module, locals, OwnerInv, Pending, CmdsIn
<1>. QED
  BY <1>1, <1>2, <1>3

-----------------------------------------------------------------------------
(* What is left in temp.                                                   *)

LEMMA TempStep ==
  ASSUME BaseInv, OwnerInv, TempInv, [Next]_vars
  PROVE  TempInv'
<1>1. CASE Reply \/ Deliver \/ EndOfFrame
  BY <1>1 DEF Reply, Deliver, EndOfFrame, locals, TempInv
<1>2. ASSUME NEW o \in Op, Call(o) PROVE TempInv'
  <2>1. /\ pc' = "loop" /\ op' = o /\ temp' \in IF o = "AT" THEN {1} ELSE Garbage
        /\ call'.heard = FALSE
    BY <1>2 DEF Call, NoCall
  <2>. QED
    BY <2>1 DEF TempInv
<1>3. CASE Exhausted \/ SendCommand \/ NoFrame
  <2>1. /\ UNCHANGED <<op, temp, call>> /\ pc # "idle"
        /\ pc' = "return" => pc = "loop"
    BY <1>3 DEF Exhausted, SendCommand, NoFrame, locals
  <2>2. pc = "loop" => call.accepted = 0
    BY DEF BaseInv, CallInv
  <2>. QED
    BY <2>1, <2>2 DEF TempInv
<1>4. CASE TakeFrame
  <2>1. /\ pc' = "test" /\ temp' = Len(frame) % 256
        /\ call' = [call EXCEPT !.heard = TRUE, !.zero = (@ \/ Len(frame) % 256 = 0)]
    BY <1>4 DEF TakeFrame
  <2>2. call'.zero = (call.zero \/ Len(frame) % 256 = 0)
    BY <2>1 DEF BaseInv, TypeOK
  <2>. QED
    BY <2>1, <2>2 DEF TempInv
<1>5. CASE TestReply
  <2>1. pc = "test" /\ UNCHANGED <<op, taken>>
    BY <1>5 DEF TestReply
  <2>2. CASE Expected
    <3>1. /\ pc' = "return" /\ call' = [call EXCEPT !.accepted = RxBuf(1).cmd]
          /\ op # "ROLE" => temp' = 0
      BY <1>5, <2>2 DEF TestReply
    <3>2. RxBuf(1).cmd \in 1..sent
      BY <2>1, <2>2, FirstByte DEF BaseInv, OwnerInv, Pending
    <3>3. call'.accepted # 0
      BY <3>1, <3>2 DEF BaseInv, TypeOK
    <3>. QED
      BY <2>1, <3>1, <3>3 DEF TempInv
  <2>3. CASE ~Expected
    BY <1>5, <2>1, <2>3 DEF TestReply, TempInv
  <2>. QED
    BY <2>2, <2>3
<1>6. CASE Return
  BY <1>6 DEF Return, TempInv
<1>7. CASE UNCHANGED vars
  BY <1>7 DEF vars, locals, TempInv
<1>. QED
  BY <1>1, <1>2, <1>3, <1>4, <1>5, <1>6, <1>7 DEF Next, Driver

-----------------------------------------------------------------------------
(* The theorems.                                                           *)

LEMMA Invariance == Spec => []IInv
<1>1. IInv /\ [Next]_vars => IInv'
  BY BaseStep, KeyStep, ZeroStep, OwnerStep DEF IInv
<1>. QED
  BY InitInv, <1>1, PTL DEF Spec

LEMMA TempInvariance == Spec => []TempInv
<1>1. Init => TempInv
  BY DEF Init, TempInv
<1>2. IInv /\ TempInv /\ [Next]_vars => TempInv'
  BY TempStep DEF IInv
<1>. QED
  BY Invariance, <1>1, <1>2, PTL DEF Spec

\* The counters retry and temp stay in a u8, the frame in its buffer, and every
\* reply belongs to a command that was sent.
THEOREM TypeCorrect == Spec => []TypeOK
<1>1. IInv => TypeOK
  BY DEF IInv, BaseInv
<1>. QED
  BY Invariance, <1>1, PTL

\* No function sends its command more often than it allows, and none gives up
\* before its last attempt, whatever the HC05 answers.
THEOREM GivesUp == Spec => []GivesUpAfterAllAttempts
<1>1. IInv => GivesUpAfterAllAttempts
  <2> SUFFICES ASSUME BaseInv, Returning PROVE
        Attempts <= Retries[op] /\ (call.accepted = 0 => Attempts = Retries[op])
    BY DEF IInv, GivesUpAfterAllAttempts
  <2>1. pc = "return" /\ op \in Op
    BY DEF Returning, BaseInv, CallInv
  <2>2. retry \in Nat /\ call.first \in Nat
    BY DEF BaseInv, TypeOK
  <2>3. Retries[op] \in 1..254 /\ sent \in Nat
    BY <2>1, DriverAssumption DEF BaseInv, CallInv
  <2>. QED
    BY <2>1, <2>2, <2>3 DEF BaseInv, CallInv, Attempts
<1>. QED
  BY Invariance, <1>1, PTL

\* An accepted answer is reported as a failure only when it came in the last
\* attempt, where while(retry--) leaves retry at 0.
THEOREM AcceptedReported == Spec => []AcceptedIsReported
<1>1. IInv => AcceptedIsReported
  <2> SUFFICES ASSUME BaseInv, ZeroInv, Returning, op # "ROLE", call.accepted # 0,
                      ReturnValue # 0
               PROVE  Attempts = Retries[op]
    BY DEF IInv, AcceptedIsReported
  <2>1. pc = "return" /\ op \in Op /\ retry = 0
    BY DEF Returning, BaseInv, CallInv, ZeroInv, ReturnValue
  <2>2. Attempts \in Int
    BY DEF Attempts, BaseInv, TypeOK, CallInv
  <2>. QED
    BY <2>1, <2>2 DEF BaseInv, CallInv
<1>. QED
  BY Invariance, <1>1, PTL

\* A function that is called while nothing of earlier calls is on its way accepts
\* the answer to a command of its own, or none.
THEOREM OwnAnswer == Spec => []CleanStartAcceptsOwnAnswer
<1>1. IInv => CleanStartAcceptsOwnAnswer
  BY DEF IInv, OwnerInv, CleanStartAcceptsOwnAnswer
<1>. QED
  BY Invariance, <1>1, PTL

\* Between calls KEY is low, so the HC05 passes data on.
THEOREM KeyLow == Spec => []KeyLowBetweenCalls
<1>1. IInv => KeyLowBetweenCalls
  BY DEF IInv, KeyInv, KeyLowBetweenCalls
<1>. QED
  BY Invariance, <1>1, PTL

\* Unless a frame of 0 or 256 bytes was taken, HC05_Init returns 0 only for an
\* "OK", and HC05_Set_Cmd only for an "OK" or when no frame came at all.
THEOREM ZeroMeansOkOrSilence == Spec => []ZeroNeedsOkOrSilence
<1>1. IInv /\ TempInv => ZeroNeedsOkOrSilence
  <2> SUFFICES ASSUME BaseInv, TempInv, Returning, op # "ROLE", ReturnValue = 0,
                      call.accepted = 0, ~call.zero
               PROVE  op = "SET" /\ ~call.heard
    BY DEF IInv, ZeroNeedsOkOrSilence
  <2>1. pc = "return" /\ op \in {"AT", "SET"} /\ retry = 255
    BY DEF Returning, BaseInv, CallInv
  <2>2. temp = 0
    BY <2>1 DEF ReturnValue
  <2>. QED
    BY <2>1, <2>2 DEF TempInv
<1>. QED
  BY Invariance, TempInvariance, <1>1, PTL
=============================================================================

----------------------------- MODULE TcpClient -----------------------------
(***************************************************************************)
(* The TCP client (LWIP/lwip_app/tcp_client_demo/tcp_client_demo.c): the   *)
(* main loop calls tcp_client_test again and again; it connects to the     *)
(* server, logs in and acts on the server's LED commands.  Its callbacks   *)
(* run in two places: those that answer a segment in ETH_IRQHandler, the   *)
(* poll callback in lwip_periodic_handle, inside tcp_client_test itself.   *)
(* The two share tcp_client_flag, which both change with a load and a      *)
(* store, and the receive buffer.                                          *)
(*                                                                         *)
(* One step is one segment with its callbacks, or the code of the main     *)
(* loop between two accesses to what the interrupt writes.  A call into    *)
(* lwIP is one step.                                                       *)
(***************************************************************************)
EXTENDS Naturals

CONSTANTS
  ClockRuns, \* TIM3_IRQHandler increments lwip_localtime: FALSE at this commit,
             \* where the line is commented out (timer.c:64)
  Heap,      \* blocks lwIP's heap has for struct tcp_client_struct
  MaxMsgs,   \* bound: LED commands the server sends
  MaxFaults  \* bound: resets, FINs, timeouts and failed allocations

ASSUME TcpAssumption ==
  /\ ClockRuns \in BOOLEAN /\ Heap \in Nat \ {0}
  /\ MaxMsgs \in Nat /\ MaxFaults \in Nat

VARIABLES
  pc,            \* where tcp_client_test is
  flag,          \* tcp_client_flag: "send" is bit 7, "recv" bit 6, "conn" bit 5
  reg,           \* {}, or the value of flag that the assignment at pc has loaded
  connect_flag,
  login,         \* "no" is 0; "yes" and "stale" are 1, the latter (history)
                 \* taken from an answer to an earlier connection
  recvbuf,       \* tcp_client_recvbuf: Nothing, a command, Ok or OldOk
  tcb,           \* the pcb that *tcppcb points to; "reset" and "aborted": freed
  es,            \* the state of the struct in the pcb's callback_arg
  heap,          \* free blocks
  srv,           \* the server: has it this connection, this client's login
  msgs,          \* commands sent so far
  acted,         \* history: the last command acted on
  faults

client == <<connect_flag, login, acted>>
connection == <<recvbuf, tcb, es, heap>>
server == <<srv, msgs>>
vars == <<pc, flag, reg, client, connection, server, faults>>

Msg == 1..MaxMsgs
Nothing == 0
Ok == MaxMsgs + 1
OldOk == MaxMsgs + 2

\* pc where tcp_client_flag is assigned.
Assigns == {"mark", "acked", "done", "sent", "closed", "ended"}
Place == Assigns \cup {"start", "spin", "compare", "cmd", "act", "test", "periodic", "end"}

Init ==
  /\ pc = "start" /\ flag = {} /\ reg = {}
  /\ connect_flag = 0 /\ login = "no" /\ acted = 0
  /\ recvbuf = Nothing /\ tcb = "none" /\ es = "none" /\ heap = Heap
  /\ srv = "none" /\ msgs = 0 /\ faults = 0

Fault == faults < MaxFaults /\ faults' = faults + 1

\* tcp_abort: the pcb goes back to its pool and the server gets an RST.
Abort == tcb' = "aborted" /\ es' = "none" /\ srv' = "none"

-----------------------------------------------------------------------------
(* tcp_client_test.                                                        *)

\* Up to the text of the login: a new pcb if there is none, and the SYN leaves.
Start ==
  /\ pc = "start"
  /\ pc' = IF login = "no" THEN "mark" ELSE "cmd"
  /\ connect_flag' = 1
  /\ IF connect_flag = 0
       THEN /\ tcb' = "synsent" /\ es' = "none"
            /\ recvbuf' = IF recvbuf = Ok THEN OldOk ELSE recvbuf
       ELSE UNCHANGED <<tcb, es, recvbuf>>
  /\ UNCHANGED <<flag, reg, login, acted, heap, server, faults>>

\* Mutants of Change: a command leaves bit 6 set; a close leaves bit 5 set.
Change_KeepsRecv(p, f) ==
  CASE p = "mark" -> f \cup {"send"}
    [] p = "acked" -> f \ {"recv"}
    [] p = "sent" -> f \ {"send"}
    [] p \in {"closed", "ended"} -> f \ {"conn"}
    [] OTHER -> f
Change_KeepsConn(p, f) ==
  CASE p = "mark" -> f \cup {"send"}
    [] p \in {"acked", "done"} -> f \ {"recv"}
    [] p = "sent" -> f \ {"send"}
    [] OTHER -> f

\* What the assignment at p does to the value f it has loaded.
Change(p, f) ==
  CASE p = "mark" -> f \cup {"send"}
    [] p \in {"acked", "done"} -> f \ {"recv"}
    [] p = "sent" -> f \ {"send"}
    [] p \in {"closed", "ended"} -> f \ {"conn"}

After(p) ==
  CASE p = "mark" -> "spin"
    [] p = "acked" -> IF login = "no" THEN "test" ELSE "cmd"
    [] p = "done" -> "test"
    [] p \in {"sent", "closed"} -> "end"
    [] p = "ended" -> "start"

\* tcp_client_flag |= .. and &= ..: a load and a store.
Load ==
  /\ pc \in Assigns /\ reg = {}
  /\ reg' = {flag}
  /\ UNCHANGED <<pc, flag, client, connection, server, faults>>

Store ==
  /\ \E f \in reg : flag' = Change(pc, f)
  /\ pc' = After(pc) /\ reg' = {}
  /\ UNCHANGED <<client, connection, server, faults>>

\* The wait for an answer: 200 looks at bit 6, far less than a round trip.
Spin ==
  /\ pc = "spin"
  /\ pc' = IF "recv" \in flag THEN "compare" ELSE "test"
  /\ UNCHANGED <<flag, reg, client, connection, server, faults>>

Compare ==
  /\ pc = "compare" /\ pc' = "acked"
  /\ login' = CASE recvbuf = Ok -> "yes" [] recvbuf = OldOk -> "stale" [] OTHER -> login
  /\ UNCHANGED <<flag, reg, connect_flag, acted, connection, server, faults>>

\* Logged in: is there a command?
Cmd ==
  /\ pc = "cmd"
  /\ pc' = IF "recv" \in flag THEN "act" ELSE "test"
  /\ UNCHANGED <<flag, reg, client, connection, server, faults>>

Act ==
  /\ pc = "act" /\ pc' = "done"
  /\ acted' = IF recvbuf \in Msg THEN recvbuf ELSE acted
  /\ UNCHANGED <<flag, reg, connect_flag, login, connection, server, faults>>

\* Mutant of Test: an attempt that failed is not noted.
Test_KeepsConnectFlag ==
  /\ pc = "test" /\ pc' = "periodic"
  /\ login' = IF "conn" \in flag THEN login ELSE "no"
  /\ UNCHANGED <<flag, reg, connect_flag, acted, connection, server, faults>>

\* Connected by now?
Test ==
  /\ pc = "test" /\ pc' = "periodic"
  /\ connect_flag' = IF "conn" \in flag THEN 1 ELSE 0
  /\ login' = IF "conn" \in flag THEN login ELSE "no"
  /\ UNCHANGED <<flag, reg, acted, connection, server, faults>>

\* lwip_periodic_handle when no poll is due.
NotDue ==
  /\ pc = "periodic" /\ pc' = "end"
  /\ UNCHANGED <<flag, reg, client, connection, server, faults>>

\* tcp_client_poll, called by tcp_slowtmr for a pcb whose callbacks are registered:
\* the login goes out, if there is a pbuf for it; or the connection is closed.
\* tcp_slowtmr is called when lwip_localtime has advanced, so never without a clock.
Poll ==
  /\ ClockRuns /\ pc = "periodic" /\ tcb \in {"established", "closewait"}
  /\ \/ /\ "send" \in flag /\ pc' = "sent"
        /\ \/ srv' = (IF srv = "none" THEN "none" ELSE "asked") /\ UNCHANGED faults
           \/ Fault /\ UNCHANGED srv
        /\ UNCHANGED connection
     \/ /\ "send" \notin flag /\ es = "connected" /\ pc' = "end"
        /\ UNCHANGED <<connection, srv, faults>>
     \/ /\ "send" \notin flag /\ es = "closing" /\ pc' = "closed"
        /\ Abort /\ heap' = heap + 1
        /\ UNCHANGED <<recvbuf, faults>>
  /\ UNCHANGED <<flag, reg, client, msgs>>

\* Mutant of End: the struct is freed although the caller passed none.
End_FreesEs ==
  /\ pc = "end"
  /\ IF connect_flag = 0
       THEN pc' = "ended" /\ Abort /\ heap' = heap + 1
       ELSE pc' = "start" /\ UNCHANGED <<tcb, es, heap, srv>>
  /\ UNCHANGED <<flag, reg, client, recvbuf, msgs, faults>>

\* The pcb of a failed attempt is aborted, and a second time if it was freed
\* before; a struct that its callbacks have is not freed.
End ==
  /\ pc = "end"
  /\ IF connect_flag = 0
       THEN pc' = "ended" /\ Abort
       ELSE pc' = "start" /\ UNCHANGED <<tcb, es, srv>>
  /\ UNCHANGED <<flag, reg, client, recvbuf, heap, msgs, faults>>

-----------------------------------------------------------------------------
(* Segments, in ETH_IRQHandler, and the retransmission limit.              *)

\* tcp_client_connected; without a block for es it aborts.
SynAck ==
  /\ tcb = "synsent"
  /\ IF heap > 0
       THEN /\ tcb' = "established" /\ es' = "connected" /\ heap' = heap - 1
            /\ flag' = flag \cup {"conn"} /\ srv' = "up"
       ELSE Abort /\ flag' = flag \ {"conn"} /\ UNCHANGED heap
  /\ UNCHANGED <<pc, reg, client, recvbuf, msgs, faults>>

\* tcp_client_recv with data m for a connection that is not closing.
Receive(m) ==
  /\ tcb = "established"
  /\ recvbuf' = m /\ flag' = flag \cup {"recv"}
  /\ UNCHANGED <<pc, reg, client, tcb, es, heap, faults>>

\* The server answers a login, and once it has one it sends commands.
Answer == srv = "asked" /\ srv' = "in" /\ Receive(Ok) /\ UNCHANGED msgs
Command == srv \in {"asked", "in"} /\ msgs < MaxMsgs /\ msgs' = msgs + 1
           /\ Receive(msgs') /\ UNCHANGED srv

\* tcp_client_recv without data: the server has closed its side.
Fin ==
  /\ tcb = "established" /\ Fault
  /\ tcb' = "closewait" /\ es' = "closing" /\ srv' = "none"
  /\ UNCHANGED <<pc, flag, reg, client, recvbuf, heap, msgs>>

\* An RST, a refused connection or too many retransmissions: lwIP frees the pcb
\* and calls tcp_client_error, which does nothing.
Reset ==
  /\ tcb \in {"synsent", "established", "closewait"} /\ Fault
  /\ tcb' = "reset" /\ srv' = "none"
  /\ UNCHANGED <<pc, flag, reg, client, recvbuf, es, heap, msgs>>

-----------------------------------------------------------------------------
Client == Start \/ Load \/ Store \/ Spin \/ Compare \/ Cmd \/ Act \/ Test
          \/ NotDue \/ Poll \/ End

Next == Client \/ SynAck \/ Answer \/ Command \/ Fin \/ Reset

Spec == Init /\ [][Next]_vars

\* The main loop goes on; while the clock runs, polls come due; the server's answer
\* does not fall between a load and a store of the flags every time.  Nothing makes
\* the SYN-ACK come, or come in time: see GetsIn.
FairSpec == Spec /\ WF_vars(Client) /\ SF_vars(Poll) /\ SF_vars(Answer /\ reg = {})

-----------------------------------------------------------------------------
TypeOK ==
  /\ pc \in Place /\ flag \subseteq {"send", "recv", "conn"}
  /\ reg \subseteq SUBSET {"send", "recv", "conn"}
  /\ connect_flag \in 0..1 /\ login \in {"no", "yes", "stale"} /\ acted \in 0..MaxMsgs
  /\ recvbuf \in 0..OldOk /\ heap \in 0..Heap
  /\ tcb \in {"none", "synsent", "established", "closewait", "reset", "aborted"}
  /\ es \in {"none", "connected", "closing"}
  /\ srv \in {"none", "up", "asked", "in"} /\ msgs \in 0..MaxMsgs /\ faults \in 0..MaxFaults

\* Bit 5 says that the server is connected: the pcb has its callbacks, whatever
\* the assignments of main loop and interrupt have undone.  Except when lwIP has
\* freed the pcb itself, which the error callback does not note.
ConnectedFlagIsTrue ==
  "conn" \in flag /\ pc \notin {"closed", "ended"} =>
    tcb = "reset" \/ (tcb \in {"established", "closewait"} /\ es # "none")

\* A command is acted on at most once, and commands in the order they were sent:
\* of two that come close together one may be lost, but none comes back.
CommandActedOnOnce == [][pc = "act" /\ recvbuf \in Msg /\ pc' # pc => recvbuf > acted]_vars

LoggedIn == login # "no" /\ srv \in {"asked", "in"}

\* Five states the client has no way out of: the clock of lwIP stands still, so
\* nothing is ever sent; the pcb is gone and bit 5 still set; the server closed
\* before the login, whose sending goes before the closing in every poll; the login
\* was taken from an old answer, and sending it failed; failed attempts have used
\* up the heap.
Stuck ==
  \/ ~ClockRuns /\ "conn" \in flag
  \/ tcb = "reset" /\ "conn" \in flag
  \/ tcb = "closewait" /\ login = "no"
  \/ tcb = "established" /\ login = "stale" /\ srv = "up"
  \/ heap = 0 /\ es = "none"

\* The SYN-ACK comes before bit 5 is tested, about 2 ms after the SYN, and not
\* between a load and a store of the flags.
InTime == SynAck /\ reg = {} /\ pc \in {"mark", "spin", "compare", "acked", "cmd",
                                        "act", "done", "test"}

\* When nothing fails any more, the client is logged in for good, and the server
\* knows it; or it is stuck in one of the five ways; or from then on no SYN-ACK
\* comes in time, and it goes on trying.  It never waits for nothing.
GetsIn ==
  \/ <>[](LoggedIn \/ Stuck)
  \/ []<>(pc = "ended") /\ <>[][~InTime]_vars

\* lwip_comm.c:165: tcp_tmr() is called every 250 ms.  So the poll comes that sends
\* what a connection has to send, or the connection ends.
DataIsSent ==
  (tcb = "established" /\ "send" \in flag) ~> (tcb # "established" \/ "send" \notin flag)
=============================================================================

-------------------------- MODULE TcpClient_proofs --------------------------
(***************************************************************************)
(* Theorems about TcpClient, for every number of structs in the heap,      *)
(* commands and faults: bit 5 of tcp_client_flag tells the truth, and no   *)
(* command is acted on twice, although main loop and interrupt undo each   *)
(* other's assignments.                                                    *)
(***************************************************************************)
EXTENDS TcpClient, TLAPS

-----------------------------------------------------------------------------
\* Where lwIP has the pcb and called the connected callback, there is a struct.
StructRegistered == tcb \in {"established", "closewait"} => es # "none"

\* The struct in use is not among the free blocks.
HeapCounted == heap <= Heap /\ (es # "none" => heap < Heap)

LoadedOnlyToStore == reg # {} => pc \in Assigns

\* Bit 5 in the flags, and in the copy that is about to be stored.
Connected == tcb \in {"reset", "established", "closewait"}
ConnInFlag == "conn" \in flag /\ pc \notin {"closed", "ended"} => Connected
ConnInReg == \A f \in reg : "conn" \in f /\ pc \notin {"closed", "ended"} => Connected

\* After an abort the interrupt has no pcb to act on until the next Start.
AbortedIsQuiet ==
  /\ pc \in {"closed", "ended"} => tcb = "aborted"
  /\ pc = "start" /\ connect_flag = 0 => tcb \in {"none", "aborted"} /\ "conn" \notin flag

\* Bit 6, in the flags or in a copy, belongs to a command not yet acted on,
\* except where it is being cleared.
Fresh == recvbuf \in Msg => recvbuf > acted
RecvIsFresh ==
  /\ pc = "act" => Fresh
  /\ pc # "done" => ("recv" \in flag => Fresh) /\ \A f \in reg : "recv" \in f => Fresh
SentBefore == acted <= msgs /\ (recvbuf \in Msg => recvbuf <= msgs)

TypeInv == TypeOK /\ StructRegistered /\ HeapCounted /\ LoadedOnlyToStore
ConnInv == ConnInFlag /\ ConnInReg /\ AbortedIsQuiet
CommandInv == RecvIsFresh /\ SentBefore
IInv == TypeInv /\ ConnInv /\ CommandInv

-----------------------------------------------------------------------------
LEMMA InitInv == Init => IInv
  BY TcpAssumption DEF Init, IInv, TypeInv, TypeOK, StructRegistered, HeapCounted,
        LoadedOnlyToStore, Assigns, Place, Msg, Nothing, Ok, OldOk, ConnInv,
        ConnInFlag, ConnInReg, Connected, AbortedIsQuiet, Assigns, CommandInv,
        RecvIsFresh, Fresh, SentBefore

\* Every step keeps the types, and the count of structs.
LEMMA TypeStep ==
  ASSUME TypeInv, [Next]_vars
  PROVE  TypeInv'
<1>1. CASE Start
  BY <1>1, TcpAssumption DEF Start, client, connection, server, TypeInv, TypeOK,
        StructRegistered, HeapCounted, LoadedOnlyToStore, Assigns, Place, Msg,
        Nothing, Ok, OldOk
<1>2. CASE Load
  BY <1>2, TcpAssumption DEF Load, client, connection, server, TypeInv, TypeOK,
        StructRegistered, HeapCounted, LoadedOnlyToStore, Assigns, Place, Msg,
        Nothing, Ok, OldOk
<1>3. CASE Store
  BY <1>3, TcpAssumption DEF Store, Change, After, client, connection, server,
        TypeInv, TypeOK, StructRegistered, HeapCounted, LoadedOnlyToStore, Assigns,
        Place, Msg, Nothing, Ok, OldOk
<1>4. CASE Spin
  BY <1>4, TcpAssumption DEF Spin, client, connection, server, TypeInv, TypeOK,
        StructRegistered, HeapCounted, LoadedOnlyToStore, Assigns, Place, Msg,
        Nothing, Ok, OldOk
<1>5. CASE Compare
  BY <1>5, TcpAssumption DEF Compare, client, connection, server, TypeInv, TypeOK,
        StructRegistered, HeapCounted, LoadedOnlyToStore, Assigns, Place, Msg,
        Nothing, Ok, OldOk
<1>6. CASE Cmd
  BY <1>6, TcpAssumption DEF Cmd, client, connection, server, TypeInv, TypeOK,
        StructRegistered, HeapCounted, LoadedOnlyToStore, Assigns, Place, Msg,
        Nothing, Ok, OldOk
<1>7. CASE Act
  BY <1>7, TcpAssumption DEF Act, client, connection, server, TypeInv, TypeOK,
        StructRegistered, HeapCounted, LoadedOnlyToStore, Assigns, Place, Msg,
        Nothing, Ok, OldOk
<1>8. CASE Test
  BY <1>8, TcpAssumption DEF Test, client, connection, server, TypeInv, TypeOK,
        StructRegistered, HeapCounted, LoadedOnlyToStore, Assigns, Place, Msg,
        Nothing, Ok, OldOk
<1>9. CASE NotDue
  BY <1>9, TcpAssumption DEF NotDue, client, connection, server, TypeInv, TypeOK,
        StructRegistered, HeapCounted, LoadedOnlyToStore, Assigns, Place, Msg,
        Nothing, Ok, OldOk
<1>10. CASE Poll
  BY <1>10, TcpAssumption DEF Poll, Abort, Fault, client, connection, server,
        TypeInv, TypeOK, StructRegistered, HeapCounted, LoadedOnlyToStore, Assigns,
        Place, Msg, Nothing, Ok, OldOk
<1>11. CASE End
  BY <1>11, TcpAssumption DEF End, Abort, client, connection, server, TypeInv,
        TypeOK, StructRegistered, HeapCounted, LoadedOnlyToStore, Assigns, Place,
        Msg, Nothing, Ok, OldOk
<1>12. CASE SynAck
  <2>1. /\ pc' = pc /\ reg' = reg /\ connect_flag' = connect_flag /\ login' = login
        /\ acted' = acted /\ recvbuf' = recvbuf /\ msgs' = msgs /\ faults' = faults
    BY <1>12 DEF SynAck, client
  <2>2. flag' = flag \cup {"conn"} \/ flag' = flag \ {"conn"}
    BY <1>12 DEF SynAck
  <2>3. /\ tcb' \in {"established", "aborted"} /\ es' \in {"connected", "none"}
        /\ srv' \in {"up", "none"}
        /\ heap' \in 0..Heap /\ (es' = "connected" => heap' < Heap)
        /\ (es' = "none" <=> tcb' = "aborted")
    BY <1>12, TcpAssumption DEF SynAck, Abort, TypeInv, TypeOK
  <2>4. TypeOK' /\ StructRegistered' /\ LoadedOnlyToStore'
    BY <2>1, <2>2, <2>3 DEF TypeInv, TypeOK, StructRegistered, LoadedOnlyToStore
  <2>5. HeapCounted'
    <3>1. CASE es' = "connected"
      BY <2>3, <3>1, TcpAssumption DEF HeapCounted
    <3>2. CASE es' = "none"
      BY <2>3, <3>2, TcpAssumption DEF HeapCounted
    <3>. QED
      BY <2>3, <3>1, <3>2
  <2>. QED
    BY <2>4, <2>5 DEF TypeInv
<1>13. CASE Answer
  BY <1>13, TcpAssumption DEF Answer, Receive, client, connection, server, TypeInv,
        TypeOK, StructRegistered, HeapCounted, LoadedOnlyToStore, Assigns, Place,
        Msg, Nothing, Ok, OldOk
<1>14. CASE Command
  <2>1. /\ pc' = pc /\ reg' = reg /\ connect_flag' = connect_flag /\ login' = login
        /\ acted' = acted /\ tcb' = tcb /\ es' = es /\ heap' = heap /\ faults' = faults
        /\ srv' = srv /\ flag' = flag \cup {"recv"}
    BY <1>14 DEF Command, Receive, client
  <2>2. msgs' \in 0..MaxMsgs /\ recvbuf' \in 0..OldOk
    BY <1>14, TcpAssumption DEF Command, Receive, TypeInv, TypeOK, OldOk
  <2>. QED
    BY <2>1, <2>2 DEF TypeInv, TypeOK, StructRegistered, HeapCounted,
        LoadedOnlyToStore
<1>15. CASE Fin
  BY <1>15, TcpAssumption DEF Fin, Fault, client, connection, server, TypeInv,
        TypeOK, StructRegistered, HeapCounted, LoadedOnlyToStore, Assigns, Place,
        Msg, Nothing, Ok, OldOk
<1>16. CASE Reset
  BY <1>16, TcpAssumption DEF Reset, Fault, client, connection, server, TypeInv,
        TypeOK, StructRegistered, HeapCounted, LoadedOnlyToStore, Assigns, Place,
        Msg, Nothing, Ok, OldOk
<1>17. CASE UNCHANGED vars
  BY <1>17, TcpAssumption DEF vars, client, connection, server, TypeInv, TypeOK,
        StructRegistered, HeapCounted, LoadedOnlyToStore, Assigns, Place, Msg,
        Nothing, Ok, OldOk
<1>. QED
  BY <1>1, <1>2, <1>3, <1>4, <1>5, <1>6, <1>7, <1>8, <1>9, <1>10, <1>11, <1>12,
        <1>13, <1>14, <1>15, <1>16, <1>17 DEF Next, Client

\* Every step keeps bit 5 true, in the flags and in the copy to be stored.
LEMMA ConnStep ==
  ASSUME TypeInv, ConnInv, [Next]_vars
  PROVE  ConnInv'
<1>1. CASE Start
  BY <1>1 DEF Start, client, connection, server, ConnInv, StructRegistered,
        ConnInFlag, ConnInReg, Connected, AbortedIsQuiet, Assigns, TypeInv, TypeOK,
        LoadedOnlyToStore
<1>2. CASE Load
  BY <1>2 DEF Load, client, connection, server, ConnInv, StructRegistered,
        ConnInFlag, ConnInReg, Connected, AbortedIsQuiet, Assigns, TypeInv, TypeOK,
        LoadedOnlyToStore
<1>3. CASE Store
  BY <1>3 DEF Store, Change, After, client, connection, server, ConnInv,
        StructRegistered, ConnInFlag, ConnInReg, Connected, AbortedIsQuiet, Assigns,
        TypeInv, TypeOK, LoadedOnlyToStore
<1>4. CASE Spin
  BY <1>4 DEF Spin, client, connection, server, ConnInv, StructRegistered,
        ConnInFlag, ConnInReg, Connected, AbortedIsQuiet, Assigns, TypeInv, TypeOK,
        LoadedOnlyToStore
<1>5. CASE Compare
  BY <1>5 DEF Compare, client, connection, server, ConnInv, StructRegistered,
        ConnInFlag, ConnInReg, Connected, AbortedIsQuiet, Assigns, TypeInv, TypeOK,
        LoadedOnlyToStore
<1>6. CASE Cmd
  BY <1>6 DEF Cmd, client, connection, server, ConnInv, ConnInFlag, ConnInReg,
        Connected, AbortedIsQuiet, Assigns, TypeInv, TypeOK, LoadedOnlyToStore
<1>7. CASE Act
  BY <1>7 DEF Act, client, connection, server, ConnInv, ConnInFlag, ConnInReg,
        Connected, AbortedIsQuiet, Assigns, TypeInv, TypeOK, LoadedOnlyToStore
<1>8. CASE Test
  BY <1>8 DEF Test, client, connection, server, ConnInv, StructRegistered,
        ConnInFlag, ConnInReg, Connected, AbortedIsQuiet, Assigns, TypeInv, TypeOK,
        LoadedOnlyToStore
<1>9. CASE NotDue
  BY <1>9 DEF NotDue, client, connection, server, ConnInv, StructRegistered,
        ConnInFlag, ConnInReg, Connected, AbortedIsQuiet, Assigns, TypeInv, TypeOK,
        LoadedOnlyToStore
<1>10. CASE Poll
  BY <1>10 DEF Poll, Abort, Fault, client, connection, server, ConnInv,
        StructRegistered, ConnInFlag, ConnInReg, Connected, AbortedIsQuiet, Assigns,
        TypeInv, TypeOK, LoadedOnlyToStore
<1>11. CASE End
  BY <1>11 DEF End, Abort, client, connection, server, ConnInv, StructRegistered,
        ConnInFlag, ConnInReg, Connected, AbortedIsQuiet, Assigns, TypeInv, TypeOK,
        LoadedOnlyToStore
<1>12. CASE SynAck
  BY <1>12 DEF SynAck, Abort, client, connection, server, ConnInv, StructRegistered,
        ConnInFlag, ConnInReg, Connected, AbortedIsQuiet, Assigns, TypeInv, TypeOK,
        LoadedOnlyToStore
<1>13. CASE Answer
  BY <1>13 DEF Answer, Receive, client, connection, server, ConnInv,
        StructRegistered, ConnInFlag, ConnInReg, Connected, AbortedIsQuiet, Assigns,
        TypeInv, TypeOK, LoadedOnlyToStore
<1>14. CASE Command
  BY <1>14 DEF Command, Receive, client, connection, server, ConnInv,
        StructRegistered, ConnInFlag, ConnInReg, Connected, AbortedIsQuiet, Assigns,
        TypeInv, TypeOK, LoadedOnlyToStore
<1>15. CASE Fin
  BY <1>15 DEF Fin, Fault, client, connection, server, ConnInv, StructRegistered,
        ConnInFlag, ConnInReg, Connected, AbortedIsQuiet, Assigns, TypeInv, TypeOK,
        LoadedOnlyToStore
<1>16. CASE Reset
  BY <1>16 DEF Reset, Fault, client, connection, server, ConnInv, StructRegistered,
        ConnInFlag, ConnInReg, Connected, AbortedIsQuiet, Assigns, TypeInv, TypeOK,
        LoadedOnlyToStore
<1>17. CASE UNCHANGED vars
  BY <1>17 DEF vars, client, connection, server, ConnInv, StructRegistered,
        ConnInFlag, ConnInReg, Connected, AbortedIsQuiet, Assigns, TypeInv, TypeOK,
        LoadedOnlyToStore
<1>. QED
  BY <1>1, <1>2, <1>3, <1>4, <1>5, <1>6, <1>7, <1>8, <1>9, <1>10, <1>11, <1>12,
        <1>13, <1>14, <1>15, <1>16, <1>17 DEF Next, Client

\* Every step keeps bit 6 for new commands only.
LEMMA CommandStep ==
  ASSUME TypeInv, CommandInv, [Next]_vars
  PROVE  CommandInv'
<1>1. CASE Start
  BY <1>1, TcpAssumption DEF Start, client, connection, server, CommandInv,
        RecvIsFresh, Fresh, SentBefore, Msg, Ok, OldOk, TypeInv, TypeOK,
        LoadedOnlyToStore, Assigns
<1>2. CASE Load
  BY <1>2, TcpAssumption DEF Load, client, connection, server, CommandInv,
        RecvIsFresh, Fresh, SentBefore, Msg, Ok, OldOk, TypeInv, TypeOK,
        LoadedOnlyToStore, Assigns
<1>3. CASE Store
  BY <1>3, TcpAssumption DEF Store, Change, After, client, connection, server,
        CommandInv, RecvIsFresh, Fresh, SentBefore, Msg, Ok, OldOk, TypeInv, TypeOK,
        LoadedOnlyToStore, Assigns
<1>4. CASE Spin
  BY <1>4, TcpAssumption DEF Spin, client, connection, server, CommandInv,
        RecvIsFresh, Fresh, SentBefore, Msg, Ok, OldOk, TypeInv, TypeOK,
        LoadedOnlyToStore, Assigns
<1>5. CASE Compare
  BY <1>5, TcpAssumption DEF Compare, client, connection, server, CommandInv,
        RecvIsFresh, Fresh, SentBefore, Msg, Ok, OldOk, TypeInv, TypeOK,
        LoadedOnlyToStore, Assigns
<1>6. CASE Cmd
  BY <1>6, TcpAssumption DEF Cmd, client, connection, server, CommandInv,
        RecvIsFresh, Fresh, SentBefore, Msg, Ok, OldOk, TypeInv, TypeOK,
        LoadedOnlyToStore, Assigns
<1>7. CASE Act
  BY <1>7, TcpAssumption DEF Act, client, connection, server, CommandInv,
        RecvIsFresh, Fresh, SentBefore, Msg, Ok, OldOk, TypeInv, TypeOK,
        LoadedOnlyToStore, Assigns
<1>8. CASE Test
  BY <1>8, TcpAssumption DEF Test, client, connection, server, CommandInv,
        RecvIsFresh, Fresh, SentBefore, Msg, Ok, OldOk, TypeInv, TypeOK,
        LoadedOnlyToStore, Assigns
<1>9. CASE NotDue
  BY <1>9, TcpAssumption DEF NotDue, client, connection, server, CommandInv,
        RecvIsFresh, Fresh, SentBefore, Msg, Ok, OldOk, TypeInv, TypeOK,
        LoadedOnlyToStore, Assigns
<1>10. CASE Poll
  BY <1>10, TcpAssumption DEF Poll, Abort, Fault, client, connection, server,
        CommandInv, RecvIsFresh, Fresh, SentBefore, Msg, Ok, OldOk, TypeInv, TypeOK,
        LoadedOnlyToStore, Assigns
<1>11. CASE End
  BY <1>11, TcpAssumption DEF End, Abort, client, connection, server, CommandInv,
        RecvIsFresh, Fresh, SentBefore, Msg, Ok, OldOk, TypeInv, TypeOK,
        LoadedOnlyToStore, Assigns
<1>12. CASE SynAck
  BY <1>12, TcpAssumption DEF SynAck, Abort, client, connection, server, CommandInv,
        RecvIsFresh, Fresh, SentBefore, Msg, Ok, OldOk, TypeInv, TypeOK,
        LoadedOnlyToStore, Assigns
<1>13. CASE Answer
  BY <1>13, TcpAssumption DEF Answer, Receive, client, connection, server,
        CommandInv, RecvIsFresh, Fresh, SentBefore, Msg, Ok, OldOk, TypeInv, TypeOK,
        LoadedOnlyToStore, Assigns
<1>14. CASE Command
  BY <1>14, TcpAssumption DEF Command, Receive, client, connection, server,
        CommandInv, RecvIsFresh, Fresh, SentBefore, Msg, Ok, OldOk, TypeInv, TypeOK,
        LoadedOnlyToStore, Assigns
<1>15. CASE Fin
  BY <1>15, TcpAssumption DEF Fin, Fault, client, connection, server, CommandInv,
        RecvIsFresh, Fresh, SentBefore, Msg, Ok, OldOk, TypeInv, TypeOK,
        LoadedOnlyToStore, Assigns
<1>16. CASE Reset
  BY <1>16, TcpAssumption DEF Reset, Fault, client, connection, server, CommandInv,
        RecvIsFresh, Fresh, SentBefore, Msg, Ok, OldOk, TypeInv, TypeOK,
        LoadedOnlyToStore, Assigns
<1>17. CASE UNCHANGED vars
  BY <1>17, TcpAssumption DEF vars, client, connection, server, CommandInv,
        RecvIsFresh, Fresh, SentBefore, Msg, Ok, OldOk, TypeInv, TypeOK,
        LoadedOnlyToStore, Assigns
<1>. QED
  BY <1>1, <1>2, <1>3, <1>4, <1>5, <1>6, <1>7, <1>8, <1>9, <1>10, <1>11, <1>12,
        <1>13, <1>14, <1>15, <1>16, <1>17 DEF Next, Client

LEMMA Inductive == IInv /\ [Next]_vars => IInv'
  BY TypeStep, ConnStep, CommandStep DEF IInv

LEMMA Invariance == Spec => []IInv
  BY InitInv, Inductive, PTL DEF Spec

\* The variables of the TCP client keep their types: the heap is never given back a
\* struct it did not lose, in whatever order calls, segments and faults come.
THEOREM TypeCorrect == Spec => []TypeOK
  <1>1. IInv => TypeOK
    BY DEF IInv, TypeInv
  <1>. QED
    BY Invariance, <1>1, PTL

\* Bit 5 is set only while the server is connected, or lwIP has freed the pcb
\* itself: no store of the main loop brings back a bit 5 that an abort cleared.
THEOREM ConnectedFlagCorrect == Spec => []ConnectedFlagIsTrue
  <1>1. IInv => ConnectedFlagIsTrue
    BY DEF IInv, TypeInv, ConnInv, ConnInFlag, Connected, StructRegistered,
        ConnectedFlagIsTrue
  <1>. QED
    BY Invariance, <1>1, PTL

\* No LED command is acted on twice, and none after a later one.
THEOREM CommandsActedOnOnce == Spec => CommandActedOnOnce
  <1>1. IInv /\ [Next]_vars =>
          [pc = "act" /\ recvbuf \in Msg /\ pc' # pc => recvbuf > acted]_vars
    BY DEF IInv, CommandInv, RecvIsFresh, Fresh
  <1>. QED
    BY Invariance, <1>1, PTL DEF Spec, CommandActedOnOnce
=============================================================================

-------------------------- MODULE ChatServerProofs --------------------------
(* The types of the chat server, and the safety of its table, its queue and  *)
(* its end, for every number of slots, clients and sockets.                  *)
EXTENDS ChatServerProperties, FiniteSetTheorems, SequenceTheorems, TLAPS

-----------------------------------------------------------------------------
(* The counter of clients and the table                                     *)

LEMMA SlotsFinite == IsFiniteSet(Slots)
BY FS_Interval, ConstantsAssumption DEF Slots

LEMMA ValidSlotsFinite ==
    /\ IsFiniteSet(ValidSlots)
    /\ Cardinality(ValidSlots) \in Nat
    /\ Cardinality(ValidSlots) = 0 <=> ValidSlots = {}
BY SlotsFinite, FS_Subset, FS_CardinalityType, FS_EmptySet DEF ValidSlots

-----------------------------------------------------------------------------
(* Types                                                                    *)

LEMMA TypeInit == Init => TypeInv
<1> SUFFICES ASSUME Init PROVE TypeInv
  OBVIOUS
<1> USE DEF Init
<1>0. 0 \in Slots
  BY ConstantsAssumption DEF Slots
<1>1. MainTypeOK
  BY <1>0 DEF MainTypeOK, MainPCs, ErrorCodes
<1>2. TableTypeOK
  BY DEF TableTypeOK
<1>3. QueueTypeOK
  BY EmptySeq DEF QueueTypeOK
<1>4. ThreadsTypeOK
  BY DEF ThreadsTypeOK, SenderPCs, HandlerPCs
<1>5. NetTypeOK
  BY EmptySeq DEF NetTypeOK, ClientStates
<1>6. CountInv
  <2>1. ValidSlots = {}
    BY DEF ValidSlots
  <2> QED BY <2>1, FS_EmptySet DEF CountInv
<1>7. LocalsInv
  BY DEF LocalsInv, HandlesConnection
<1> QED BY <1>1, <1>2, <1>3, <1>4, <1>5, <1>6, <1>7 DEF TypeInv, TypeOK

\* What recv leaves of a stream is a stream.
LEMMA ReceiveType ==
    ASSUME NetTypeOK, NEW h, NEW r, ReceiveSucceeds(h, r)
    PROVE  to_server' \in [Conns -> Seq(Requests)]
<1>1. CASE endpoint[h] \in Conns
  <2>1. Tail(to_server[endpoint[h]]) \in Seq(Requests)
    BY <1>1, HeadTailProperties DEF NetTypeOK, ReceiveSucceeds
  <2> QED BY <1>1, <2>1 DEF NetTypeOK, ReceiveSucceeds
<1>2. CASE endpoint[h] \notin Conns
  BY <1>2 DEF NetTypeOK, ReceiveSucceeds, IsOpen
<1> QED BY <1>1, <1>2

\* What send leaves of the responses are responses.
LEMMA SendType ==
    ASSUME NetTypeOK, NEW h, NEW m \in Message, SendSucceeds(h, m)
    PROVE  login_response' \in [Conns -> Message \cup {NoMsg}]
BY DEF NetTypeOK, SendSucceeds

LEMMA SenderType == TypeInv /\ SenderNext => TypeInv'
<1> SUFFICES ASSUME TypeInv, SenderNext PROVE TypeInv'
  OBVIOUS
<1> USE DEF TypeInv, TypeOK
<1> USE DEF SenderNext, SenderDequeue, SenderWait, SenderLock, SenderScan, SenderMatch,
        SenderSend, SenderUsesFreed, TouchMessage
<1>1. MainTypeOK'
  BY DEF MainTypeOK, localVars
<1>2. TableTypeOK'
  BY DEF TableTypeOK, tableVars
<1>3. QueueTypeOK'
  <2>1. CASE send_queue # <<>> /\ send_queue' = Tail(send_queue)
    BY <2>1, HeadTailProperties DEF QueueTypeOK
  <2>2. CASE UNCHANGED send_queue
    BY <2>2 DEF QueueTypeOK, FindsQueueEmpty
  <2> QED BY <2>1, <2>2
<1>4. ThreadsTypeOK'
  BY HeadTailProperties DEF QueueTypeOK, ThreadsTypeOK, SenderPCs, FindsQueueEmpty, ReleaseMutex
<1>5. NetTypeOK'
  BY DEF TableTypeOK, ThreadsTypeOK, NetTypeOK, SendSucceeds, IsOpen
<1>6. CountInv'
  BY DEF CountInv, ValidSlots, tableVars
<1>7. LocalsInv'
  BY DEF LocalsInv, HandlesConnection, localVars
<1> QED BY <1>1, <1>2, <1>3, <1>4, <1>5, <1>6, <1>7

LEMMA HandlerType == \A s \in Slots : TypeInv /\ HandlerNext(s) => TypeInv'
<1> SUFFICES ASSUME NEW s \in Slots, TypeInv, HandlerNext(s) PROVE TypeInv'
  OBVIOUS
<1> USE DEF TypeInv, TypeOK
<1> USE DEF HandlerNext, EnqueueWelcome, EnqueueJoined, JoinedFails, NotifySender, NotifyFails,
        ReceiveRequest, ReceiveFails, EnqueueLeft, CloseSocket, HandlerTerminated, HandlerFails,
        HandlerUsesFreed, HandlerGoto
<1>1. MainTypeOK'
  BY DEF MainTypeOK, localVars
<1>2. TableTypeOK'
  BY DEF TableTypeOK, tableVars
<1>m. \A k \in {"welcome", "joined", "left"} : MessageOf(s, k) \in Message
  BY DEF MessageOf, Message, TableTypeOK
<1>f. \A m \in Message \cup {NoMsg} : AsFreed(s, m) \in Message \cup {NoMsg} /\ (m \in Message => AsFreed(s, m) \in Message)
  BY DEF AsFreed, Message
<1>3. QueueTypeOK'
  <2>1. send_queue' \in Seq(Message)
    <3>1. ASSUME NEW m \in Message, Enqueue(m) PROVE send_queue' \in Seq(Message)
      BY <3>1, AppendProperties DEF Enqueue, QueueTypeOK
    <3>2. CASE JoinedFails(s)
      <4>1. /\ Len(send_queue) \in Nat
            /\ DOMAIN send_queue = 1 .. Len(send_queue)
            /\ \A i \in DOMAIN send_queue : send_queue[i] \in Message
        BY LenProperties, ElementOfSeq DEF QueueTypeOK
      <4>3. send_queue' \in [1 .. Len(send_queue) -> Message]
        BY <3>2, <4>1, <1>f
      <4> QED BY <4>1, <4>3, SeqDef
    <3>3. CASE UNCHANGED send_queue
      BY <3>3 DEF QueueTypeOK
    <3> QED BY <1>m, <3>1, <3>2, <3>3 DEF queueVars
  <2> QED BY <2>1 DEF QueueTypeOK, queueVars, SetSendEvent
<1>4. ThreadsTypeOK'
  <2>1. sender_msg' \in Message \cup {NoMsg}
    BY <1>f DEF ThreadsTypeOK
  <2> QED BY <2>1 DEF ThreadsTypeOK, HandlerPCs, Requests
<1>5. NetTypeOK'
  <2>1. to_server' \in [Conns -> Seq(Requests)]
    BY ReceiveType DEF NetTypeOK
  <2>2. endpoint' \in [Handles -> Conns \cup {NoConn}]
    BY DEF NetTypeOK, CloseHandles
  <2> QED BY <2>1, <2>2 DEF NetTypeOK
<1>6. CountInv'
  BY DEF CountInv, ValidSlots, tableVars
<1>7. LocalsInv'
  BY DEF LocalsInv, HandlesConnection, localVars
<1> QED BY <1>1, <1>2, <1>3, <1>4, <1>5, <1>6, <1>7

LEMMA ClientType == \A c \in Conns : TypeInv /\ (LoginNext(c) \/ ClientNext(c)) => TypeInv'
<1> SUFFICES ASSUME NEW c \in Conns, TypeInv, LoginNext(c) \/ ClientNext(c) PROVE TypeInv'
  OBVIOUS
<1> USE DEF TypeInv, TypeOK
<1> USE DEF LoginNext, ClientNext, ConnectToServer, SendLogin, ReceiveLoginResponse,
        SendUserMessage, CloseClient, ClientGoto, SendRequest
<1>1. MainTypeOK'
  BY DEF MainTypeOK, serverVars, localVars
<1>2. TableTypeOK'
  BY DEF TableTypeOK, serverVars, tableVars
<1>3. QueueTypeOK'
  BY DEF QueueTypeOK, serverVars, queueVars
<1>4. ThreadsTypeOK'
  BY DEF ThreadsTypeOK, serverVars, senderVars
<1>5. NetTypeOK'
  <2>1. to_server' \in [Conns -> Seq(Requests)]
    <3>1. ASSUME NEW r \in Requests, SendRequest(c, r)
          PROVE  to_server' \in [Conns -> Seq(Requests)]
      <4>1. Append(to_server[c], r) \in Seq(Requests)
        BY AppendProperties DEF NetTypeOK
      <4> QED BY <3>1, <4>1 DEF NetTypeOK
    <3>2. TypedKinds \cup {"login", "quit"} \subseteq Requests
      BY ConstantsAssumption DEF Requests
    <3>3. CASE UNCHANGED to_server
      BY <3>3 DEF NetTypeOK
    <3> QED BY <3>1, <3>2, <3>3
  <2>2. backlog' \in Seq(Conns)
    <3>1. Append(backlog, c) \in Seq(Conns)
      BY AppendProperties DEF NetTypeOK
    <3> QED BY <3>1 DEF NetTypeOK
  <2>3. client_state' \in [Conns -> ClientStates]
    BY DEF NetTypeOK, ClientStates
  <2> QED BY <2>1, <2>2, <2>3 DEF NetTypeOK, serverVars
<1>6. CountInv'
  BY DEF CountInv, ValidSlots, serverVars, tableVars
<1>7. LocalsInv'
  BY DEF LocalsInv, HandlesConnection, serverVars, localVars
<1> QED BY <1>1, <1>2, <1>3, <1>4, <1>5, <1>6, <1>7

LEMMA MainType == TypeInv /\ MainNext => TypeInv'
<1> SUFFICES ASSUME TypeInv, MainNext PROVE TypeInv'
  OBVIOUS
<1> USE DEF TypeInv, TypeOK, MainTypeOK, TableTypeOK, QueueTypeOK, ThreadsTypeOK, NetTypeOK,
        LocalsInv, HandlesConnection, MainPCs, ErrorCodes, Goto
<1> USE DEF localVars, tableVars, queueVars, senderVars, netVars
<1>0. 0 \in Slots
  BY ConstantsAssumption DEF Slots
<1>22. CASE HandleParameters \/ InitializeWinSock2 \/ InitializeServer
  <2> USE <1>22 DEF HandleParameters, InitializeWinSock2, InitializeServer, ExitWith
  <2>1. MainTypeOK' /\ LocalsInv'
    OBVIOUS
  <2>2. TableTypeOK' /\ CountInv'
    BY DEF CountInv, ValidSlots
  <2>3. QueueTypeOK' /\ ThreadsTypeOK' /\ NetTypeOK'
    OBVIOUS
  <2> QED BY <2>1, <2>2, <2>3
<1>23. CASE WaitForEventFails
  BY <1>23 DEF WaitForEventFails, WaitForEvent, Fail, CountInv, ValidSlots
<1>1. CASE CreateSenderThread
  BY <1>1 DEF CreateSenderThread, Fail, SenderPCs, CountInv, ValidSlots
<1>2. CASE InitializeListenerSocket
  <2>1. MainTypeOK' /\ LocalsInv'
    BY <1>2 DEF InitializeListenerSocket, Fail
  <2>2. TableTypeOK' /\ CountInv'
    BY <1>2 DEF InitializeListenerSocket, CountInv, ValidSlots
  <2>3. QueueTypeOK' /\ ThreadsTypeOK'
    BY <1>2 DEF InitializeListenerSocket
  <2>4. NetTypeOK'
    BY <1>2 DEF InitializeListenerSocket
  <2> QED BY <2>1, <2>2, <2>3, <2>4
<1>3. ASSUME NEW h \in Handles, AcceptConnection(h) PROVE TypeInv'
  <2>1. Head(backlog) \in Conns /\ Tail(backlog) \in Seq(Conns)
    BY <1>3, HeadTailProperties DEF AcceptConnection
  <2>2. MainTypeOK' /\ LocalsInv'
    BY <1>3, <2>1 DEF AcceptConnection
  <2>3. TableTypeOK' /\ CountInv'
    BY <1>3 DEF AcceptConnection, CountInv, ValidSlots
  <2>4. QueueTypeOK' /\ ThreadsTypeOK'
    BY <1>3 DEF AcceptConnection
  <2>5. NetTypeOK'
    BY <1>3, <2>1 DEF AcceptConnection
  <2> QED BY <2>2, <2>3, <2>4, <2>5
<1>4. CASE LoginReceiveFails
  <2>1. MainTypeOK' /\ LocalsInv'
    BY <1>0, <1>4 DEF LoginReceiveFails, ConnectionFails, Fail, DropLocals
  <2>2. TableTypeOK' /\ CountInv'
    BY <1>4 DEF LoginReceiveFails, CountInv, ValidSlots
  <2>3. QueueTypeOK' /\ ThreadsTypeOK'
    BY <1>4 DEF LoginReceiveFails
  <2>4. NetTypeOK'
    BY <1>4 DEF LoginReceiveFails, ConnectionFails, CloseHandles
  <2> QED BY <2>1, <2>2, <2>3, <2>4
<1>5. ASSUME NEW r \in Requests, ReceiveLogin(r) PROVE TypeInv'
  <2>1. to_server' \in [Conns -> Seq(Requests)]
    BY <1>5, ReceiveType DEF ReceiveLogin
  <2>2. MainTypeOK' /\ LocalsInv'
    BY <1>5, <1>0 DEF ReceiveLogin, ConnectionFails, Fail, DropLocals
  <2>3. TableTypeOK' /\ CountInv'
    BY <1>5 DEF ReceiveLogin, ConnectionFails, CountInv, ValidSlots
  <2>4. QueueTypeOK' /\ ThreadsTypeOK'
    BY <1>5 DEF ReceiveLogin, ConnectionFails
  <2>5. NetTypeOK'
    BY <1>5, <2>1 DEF ReceiveLogin, ConnectionFails, CloseHandles
  <2> QED BY <2>2, <2>3, <2>4, <2>5
<1>6. CASE LookupUsername
  BY <1>6 DEF LookupUsername, CountInv, ValidSlots
<1>7. CASE RefuseLogin
  <2>1. LoginFailed \in Message
    BY <1>7 DEF RefuseLogin, LoginFailed, Message
  <2>2. MainTypeOK' /\ LocalsInv'
    BY <1>7, <1>0 DEF RefuseLogin, ConnectionFails, Fail, DropLocals
  <2>3. TableTypeOK' /\ CountInv'
    BY <1>7 DEF RefuseLogin, ConnectionFails, CountInv, ValidSlots
  <2>4. QueueTypeOK' /\ ThreadsTypeOK'
    BY <1>7 DEF RefuseLogin, ConnectionFails
  <2>5. NetTypeOK'
    <3>1. login_response' \in [Conns -> Message \cup {NoMsg}]
      BY <1>7, <2>1, SendType DEF RefuseLogin
    <3>2. endpoint' \in [Handles -> Conns \cup {NoConn}]
      BY <1>7 DEF RefuseLogin, ConnectionFails, CloseHandles
    <3> QED BY <1>7, <3>1, <3>2 DEF RefuseLogin
  <2> QED BY <2>2, <2>3, <2>4, <2>5
<1>8. ASSUME NEW s \in Slots, AllocateClientContainer(s) PROVE TypeInv'
  <2>1. ValidSlots' = ValidSlots \cup {s} /\ s \notin ValidSlots
    BY <1>8 DEF AllocateClientContainer, FirstInvalid, ValidSlots
  <2>2. CountInv'
    BY <1>8, <2>1, ValidSlotsFinite, FS_AddElement DEF AllocateClientContainer, CountInv
  <2> QED BY <1>8, <2>2 DEF AllocateClientContainer
<1>9. CASE NoSlotAvailable
  BY <1>9 DEF NoSlotAvailable, CountInv, ValidSlots
<1>10. CASE RefuseNoSlot
  <2>1. LoginFailed \in Message
    BY <1>10 DEF RefuseNoSlot, LoginFailed, Message
  <2>2. MainTypeOK' /\ LocalsInv'
    BY <1>10, <1>0 DEF RefuseNoSlot, ConnectionFails, ConnectionHandled, Fail, DropLocals
  <2>3. TableTypeOK' /\ CountInv'
    BY <1>10 DEF RefuseNoSlot, ConnectionFails, ConnectionHandled, CountInv, ValidSlots
  <2>4. QueueTypeOK' /\ ThreadsTypeOK'
    BY <1>10 DEF RefuseNoSlot, ConnectionFails, ConnectionHandled
  <2>5. NetTypeOK'
    <3>1. login_response' \in [Conns -> Message \cup {NoMsg}]
      BY <1>10, <2>1, SendType DEF RefuseNoSlot
    <3>2. endpoint' \in [Handles -> Conns \cup {NoConn}]
      BY <1>10 DEF RefuseNoSlot, ConnectionFails, CloseHandles
    <3> QED BY <1>10, <3>1, <3>2 DEF RefuseNoSlot
  <2> QED BY <2>2, <2>3, <2>4, <2>5
<1>11. CASE StoreSocket
  BY <1>11 DEF StoreSocket, CountInv, ValidSlots
<1>12. CASE StoreNameAndStart
  <2>1. UserOf[conn] \in Names
    BY <1>12, ConstantsAssumption DEF StoreNameAndStart
  <2>2. MainTypeOK' /\ LocalsInv'
    BY <1>12, <1>0 DEF StoreNameAndStart, ConnectionFails, ConnectionHandled, Fail,
       DropLocals
  <2>3. TableTypeOK' /\ CountInv'
    BY <1>12, <2>1 DEF StoreNameAndStart, ConnectionFails, ConnectionHandled, CountInv,
       ValidSlots
  <2>4. QueueTypeOK' /\ ThreadsTypeOK'
    BY <1>12 DEF StoreNameAndStart, ConnectionFails, ConnectionHandled, HandlerPCs
  <2>5. NetTypeOK'
    BY <1>12 DEF StoreNameAndStart, ConnectionFails, ConnectionHandled, CloseHandles
  <2> QED BY <2>2, <2>3, <2>4, <2>5
<1>13. ASSUME NEW s \in Slots, HandleThreadFinalization(s) PROVE TypeInv'
  <2>1. CASE handler_pc[s] = "done_ok"
    <3>1. ValidSlots' = ValidSlots \ {s} /\ s \in ValidSlots
      BY <1>13, <2>1 DEF HandleThreadFinalization, ThreadSignalled, IsWaitedFor, ResetClient, ValidSlots
    <3>2. CountInv' /\ active_clients_num' \in Nat
      <4>1. active_clients_num' = active_clients_num - 1
        BY <1>13, <2>1 DEF HandleThreadFinalization
      <4>2. Cardinality(ValidSlots \ {s}) = Cardinality(ValidSlots) - 1
        BY <3>1, ValidSlotsFinite, FS_RemoveElement
      <4>3. Cardinality(ValidSlots) # 0
        BY <3>1, ValidSlotsFinite
      <4> QED BY <3>1, <4>1, <4>2, <4>3 DEF CountInv
    <3>3. MainTypeOK' /\ LocalsInv'
      BY <1>13, <2>1 DEF HandleThreadFinalization, WaitForEvent
    <3>4. TableTypeOK'
      BY <1>13, <2>1, <3>2 DEF HandleThreadFinalization, ResetClient
    <3>5. QueueTypeOK' /\ ThreadsTypeOK' /\ NetTypeOK'
      BY <1>13, <2>1 DEF HandleThreadFinalization, HandlerPCs
    <3> QED BY <3>2, <3>3, <3>4, <3>5
  <2>2. CASE handler_pc[s] # "done_ok"
    <3>1. MainTypeOK' /\ LocalsInv'
      BY <1>13, <2>2 DEF HandleThreadFinalization, WaitForEvent, Fail
    <3>2. TableTypeOK' /\ CountInv'
      BY <1>13, <2>2 DEF HandleThreadFinalization, CountInv, ValidSlots
    <3>3. QueueTypeOK' /\ ThreadsTypeOK' /\ NetTypeOK'
      BY <1>13, <2>2 DEF HandleThreadFinalization
    <3> QED BY <3>1, <3>2, <3>3
  <2> QED BY <2>1, <2>2
<1>21. CASE AcceptFails
  <2>1. Tail(backlog) \in Seq(Conns)
    BY <1>21, HeadTailProperties DEF AcceptFails
  <2>2. MainTypeOK' /\ LocalsInv' /\ TableTypeOK' /\ CountInv'
    BY <1>21 DEF AcceptFails, Fail, CountInv, ValidSlots
  <2>3. QueueTypeOK' /\ ThreadsTypeOK' /\ NetTypeOK'
    BY <1>21, <2>1 DEF AcceptFails
  <2> QED BY <2>2, <2>3
<1>14. CASE SetExitSender
  BY <1>14 DEF SetExitSender, CountInv, ValidSlots
<1>15. CASE SignalSender
  BY <1>15 DEF SignalSender, SetSendEvent, CountInv, ValidSlots
<1>16. CASE JoinSender
  BY <1>16 DEF JoinSender, CountInv, ValidSlots
<1>17. CASE CloseListener
  <2>1. MainTypeOK' /\ LocalsInv'
    BY <1>17 DEF CloseListener
  <2>2. TableTypeOK' /\ CountInv'
    BY <1>17 DEF CloseListener, CountInv, ValidSlots
  <2>3. QueueTypeOK' /\ ThreadsTypeOK'
    BY <1>17 DEF CloseListener
  <2>4. NetTypeOK'
    BY <1>17, EmptySeq DEF CloseListener
  <2> QED BY <2>1, <2>2, <2>3, <2>4
<1>18. CASE FreeQueue
  BY <1>18 DEF FreeQueue, CountInv, ValidSlots
<1>19. CASE FreeClients
  BY <1>19 DEF FreeClients, CloseHandles, HandlerPCs, CountInv, ValidSlots
<1>20. CASE ExitProcess
  BY <1>20 DEF ExitProcess, CountInv, ValidSlots
<1> QED BY <1>1, <1>2, <1>3, <1>4, <1>5, <1>6, <1>7, <1>8, <1>9, <1>10, <1>11, <1>12, <1>13, <1>21,
           <1>14, <1>15, <1>16, <1>17, <1>18, <1>19, <1>20, <1>22, <1>23 DEF MainNext

LEMMA TypeStutter == TypeInv /\ UNCHANGED vars => TypeInv'
BY DEF TypeInv, TypeOK, MainTypeOK, TableTypeOK, QueueTypeOK, ThreadsTypeOK, NetTypeOK, LocalsInv,
       HandlesConnection, CountInv, ValidSlots, vars, localVars, tableVars, queueVars,
       senderVars, netVars

\* TypeOK with the facts that carry it: during HandleNewConnection main has a
\* connection, and the counter of clients counts the valid slots.
THEOREM TypeInvariant == Spec => []TypeInv
<1>1. TypeInv /\ [Next]_vars => TypeInv'
  BY MainType, SenderType, HandlerType, ClientType, TypeStutter DEF Next, Terminated
<1> QED BY TypeInit, <1>1, PTL DEF Spec

\* Every variable keeps its type, whatever the threads and the clients do.
THEOREM TypeCorrect == Spec => []TypeOK
<1>1. TypeInv => TypeOK
  BY DEF TypeInv
<1> QED BY TypeInvariant, <1>1, PTL

-----------------------------------------------------------------------------
(* Which threads touch the table and the handlers                           *)

\* The sender and the clients change neither the table, nor a handler, nor
\* anything main decides.
LEMMA OthersFrame ==
    ASSUME SenderNext \/ (\E c \in Conns : LoginNext(c) \/ ClientNext(c)) \/ UNCHANGED vars
    PROVE  UNCHANGED <<main_pc, error_code, localVars, tableVars, handler_pc, freed, exit_sender>>
<1>1. CASE SenderNext
  BY <1>1 DEF SenderNext
<1>2. ASSUME NEW c \in Conns, LoginNext(c) \/ ClientNext(c)
      PROVE  UNCHANGED <<main_pc, error_code, localVars, tableVars, handler_pc, freed, exit_sender>>
  BY <1>2 DEF LoginNext, ClientNext, serverVars, queueVars
<1>3. CASE UNCHANGED vars
  BY <1>3 DEF vars, queueVars
<1> QED BY <1>1, <1>2, <1>3

\* A handler changes its own program counter, which stays in the thread.
LEMMA HandlerFrame ==
    ASSUME TypeInv, NEW s \in Slots, HandlerNext(s)
    PROVE  /\ UNCHANGED <<main_pc, error_code, localVars, tableVars, freed, exit_sender,
                          sender_pc>>
           /\ UNCHANGED sender_msg \/ JoinedFails(s)
           /\ handler_pc[s] \notin Finished \cup {"none"}
           /\ \E pc \in HandlerPCs \ {"none"} : handler_pc' = [handler_pc EXCEPT ![s] = pc]
<1>1. /\ UNCHANGED <<main_pc, error_code, localVars, tableVars, freed, exit_sender, sender_pc>>
      /\ UNCHANGED sender_msg \/ JoinedFails(s)
  BY DEF HandlerNext
<1>2. handler_pc[s] \notin Finished \cup {"none"}
  BY DEF HandlerNext, EnqueueWelcome, EnqueueJoined, JoinedFails, NotifySender, NotifyFails,
         ReceiveRequest, ReceiveFails, EnqueueLeft, CloseSocket, HandlerTerminated, Finished
<1>3. handler_pc[s] \in HandlerPCs \ {"none"} /\ handler_pc = [handler_pc EXCEPT ![s] = handler_pc[s]]
  BY <1>2 DEF TypeInv, TypeOK, ThreadsTypeOK
<1>4. \E pc \in HandlerPCs \ {"none"} : handler_pc' = [handler_pc EXCEPT ![s] = pc]
  <2>1. (\E pc \in HandlerPCs \ {"none"} : HandlerGoto(s, pc)) \/ UNCHANGED handler_pc
    BY DEF HandlerNext, EnqueueWelcome, EnqueueJoined, JoinedFails, NotifySender, NotifyFails,
           ReceiveRequest, ReceiveFails, EnqueueLeft, CloseSocket, HandlerTerminated, HandlerPCs,
           HandlerFails, HandlerUsesFreed, HandlerGoto
  <2> QED BY <1>3, <2>1 DEF HandlerGoto
<1> QED BY <1>1, <1>2, <1>4

-----------------------------------------------------------------------------
(* Slots and handler threads                                                *)

LEMMA SlotStep == TypeInv /\ SlotInv /\ [Next]_vars => SlotInv'
<1> SUFFICES ASSUME TypeInv, SlotInv, [Next]_vars PROVE SlotInv'
  OBVIOUS
<1> USE DEF SlotInv, StoresClient, TearsDown
<1>t. /\ is_valid \in [Slots -> BOOLEAN]
      /\ handler_pc \in [Slots -> HandlerPCs]
      /\ new_client_id \in Slots
  BY DEF TypeInv, TypeOK, MainTypeOK, TableTypeOK, ThreadsTypeOK
<1>1. CASE SenderNext \/ (\E c \in Conns : LoginNext(c) \/ ClientNext(c)) \/ UNCHANGED vars
  BY <1>1, OthersFrame DEF localVars, tableVars
<1>2. ASSUME NEW s \in Slots, HandlerNext(s) PROVE SlotInv'
  BY <1>2, <1>t, HandlerFrame DEF localVars, tableVars
<1>3. CASE MainNext
  <2> USE DEF Goto, tableVars, localVars
  <2>0. CASE HandleParameters \/ InitializeWinSock2 \/ InitializeServer \/ WaitForEventFails
    BY <2>0 DEF HandleParameters, InitializeWinSock2, InitializeServer, ExitWith,
       WaitForEventFails, WaitForEvent, Fail
  <2>1. CASE CreateSenderThread \/ InitializeListenerSocket
    BY <2>1 DEF CreateSenderThread, InitializeListenerSocket, Fail
  <2>2. ASSUME NEW h \in Handles, AcceptConnection(h) PROVE SlotInv'
    BY <2>2 DEF AcceptConnection, WaitForEvent
  <2>3. CASE AcceptFails \/ LoginReceiveFails
    BY <2>3 DEF AcceptFails, LoginReceiveFails, ConnectionFails, Fail
  <2>4. ASSUME NEW r \in Requests, ReceiveLogin(r) PROVE SlotInv'
    BY <2>4 DEF ReceiveLogin, ConnectionFails, Fail
  <2>5. CASE LookupUsername
    BY <2>5 DEF LookupUsername
  <2>6. CASE RefuseLogin
    BY <2>6 DEF RefuseLogin, ConnectionFails, Fail
  <2>7. ASSUME NEW s \in Slots, AllocateClientContainer(s) PROVE SlotInv'
    BY <2>7, <1>t DEF AllocateClientContainer, FirstInvalid
  <2>8. CASE NoSlotAvailable
    BY <2>8 DEF NoSlotAvailable
  <2>9. CASE RefuseNoSlot
    BY <2>9 DEF RefuseNoSlot, ConnectionFails, ConnectionHandled, Fail
  <2>10. CASE StoreSocket
    BY <2>10 DEF StoreSocket
  <2>11. CASE StoreNameAndStart
    BY <2>11, <1>t DEF StoreNameAndStart, ConnectionFails, ConnectionHandled, Fail
  <2>12. ASSUME NEW s \in Slots, HandleThreadFinalization(s) PROVE SlotInv'
    BY <2>12, <1>t DEF HandleThreadFinalization, WaitForEvent, ResetClient, Fail
  <2>13. CASE SetExitSender \/ SignalSender \/ JoinSender \/ CloseListener \/ FreeQueue \/ ExitProcess
    BY <2>13 DEF SetExitSender, SignalSender, JoinSender, CloseListener, FreeQueue, ExitProcess
  <2>14. CASE FreeClients
    BY <2>14, <1>t DEF FreeClients
  <2> QED BY <1>3, <2>0, <2>1, <2>2, <2>3, <2>4, <2>5, <2>6, <2>7, <2>8, <2>9, <2>10, <2>11, <2>12,
             <2>13, <2>14 DEF MainNext
<1> QED BY <1>1, <1>2, <1>3 DEF Next, Terminated

LEMMA SlotInvariant == Spec => []SlotInv
<1>1. Init => SlotInv
  BY DEF Init, SlotInv, StoresClient
<1> QED BY <1>1, SlotStep, TypeInvariant, PTL DEF Spec

\* Whenever main waits, it waits for one live thread handle per valid slot.
THEOREM WaitSetCorrect == Spec => []WaitSetComplete
<1>1. TypeInv /\ SlotInv => WaitSetComplete
  BY DEF TypeInv, CountInv, SlotInv, StoresClient, TearsDown, WaitSetComplete
<1> QED BY <1>1, TypeInvariant, SlotInvariant, PTL

-----------------------------------------------------------------------------
(* No wakeup is lost                                                        *)

\* Only FreeQueue adds "queue" to freed, and nothing is ever taken from it.
LEMMA FreedStep == TypeInv /\ FreedInv /\ [Next]_vars => FreedInv'
<1> SUFFICES ASSUME TypeInv, FreedInv, [Next]_vars PROVE FreedInv'
  OBVIOUS
<1> USE DEF FreedInv
<1>1. CASE SenderNext \/ (\E c \in Conns : LoginNext(c) \/ ClientNext(c)) \/ UNCHANGED vars
  BY <1>1, OthersFrame
<1>2. ASSUME NEW s \in Slots, HandlerNext(s) PROVE FreedInv'
  BY <1>2, HandlerFrame
<1>3. CASE MainNext
  <2> USE DEF Goto, queueVars
  <2>0. CASE HandleParameters \/ InitializeWinSock2 \/ InitializeServer \/ WaitForEventFails
    BY <2>0 DEF HandleParameters, InitializeWinSock2, InitializeServer, ExitWith,
       WaitForEventFails, WaitForEvent, Fail
  <2>1. CASE CreateSenderThread \/ InitializeListenerSocket
    BY <2>1 DEF CreateSenderThread, InitializeListenerSocket, Fail
  <2>2. ASSUME NEW h \in Handles, AcceptConnection(h) PROVE FreedInv'
    BY <2>2 DEF AcceptConnection
  <2>3. CASE AcceptFails \/ LoginReceiveFails
    BY <2>3 DEF AcceptFails, LoginReceiveFails, ConnectionFails, Fail
  <2>4. ASSUME NEW r \in Requests, ReceiveLogin(r) PROVE FreedInv'
    BY <2>4 DEF ReceiveLogin, ConnectionFails, Fail
  <2>5. CASE LookupUsername \/ NoSlotAvailable \/ StoreSocket
    BY <2>5 DEF LookupUsername, NoSlotAvailable, StoreSocket
  <2>6. CASE RefuseLogin \/ RefuseNoSlot \/ StoreNameAndStart
    BY <2>6 DEF RefuseLogin, RefuseNoSlot, StoreNameAndStart, ConnectionFails, ConnectionHandled, Fail
  <2>7. ASSUME NEW s \in Slots, AllocateClientContainer(s) \/ HandleThreadFinalization(s)
        PROVE  FreedInv'
    BY <2>7 DEF AllocateClientContainer, HandleThreadFinalization, WaitForEvent, Fail
  <2>8. CASE SetExitSender \/ SignalSender \/ JoinSender \/ CloseListener
    BY <2>8 DEF SetExitSender, SignalSender, JoinSender, CloseListener
  <2>9. CASE FreeQueue \/ FreeClients \/ ExitProcess
    BY <2>9 DEF FreeQueue, FreeClients, ExitProcess
  <2> QED BY <1>3, <2>0, <2>1, <2>2, <2>3, <2>4, <2>5, <2>6, <2>7, <2>8, <2>9 DEF MainNext
<1> QED BY <1>1, <1>2, <1>3 DEF Next, Terminated

LEMMA FreedInvariant == Spec => []FreedInv
<1>1. Init => FreedInv
  BY DEF Init, FreedInv
<1> QED BY <1>1, FreedStep, TypeInvariant, PTL DEF Spec

\* The handlers that are about to set the event, or have failed.
Notifying == {"joined", "notify_login", "notify_quit", "done_fail"}

LEMMA WakeupStep ==
    TypeInv /\ SlotInv /\ FreedInv /\ NoLostWakeup /\ [Next]_vars => NoLostWakeup'
<1> SUFFICES ASSUME TypeInv, SlotInv, FreedInv, NoLostWakeup, [Next]_vars,
                    sender_pc' = "wait", send_queue' # <<>>, "queue" \notin freed',
                    ~send_msgs_event'
             PROVE  \E s \in Slots : handler_pc'[s] \in Notifying
  BY DEF NoLostWakeup, Notifying
<1>t. handler_pc \in [Slots -> HandlerPCs] /\ new_client_id \in Slots
  BY DEF TypeInv, TypeOK, MainTypeOK, ThreadsTypeOK
<1>1. CASE SenderNext
  <2>1. UNCHANGED <<handler_pc, freed>>
    BY <1>1, OthersFrame
  <2>2. CASE SenderDequeue
    BY <2>1, <2>2 DEF SenderDequeue, FindsQueueEmpty, SenderUsesFreed
  <2>3. CASE SenderWait
    BY <2>3 DEF SenderWait
  <2>4. CASE SenderLock \/ SenderScan \/ SenderMatch \/ SenderSend
    BY <2>1, <2>4 DEF SenderLock, SenderScan, SenderMatch, SenderSend, SenderUsesFreed
  <2> QED BY <1>1, <2>2, <2>3, <2>4 DEF SenderNext
<1>2. ASSUME NEW s \in Slots, HandlerNext(s) PROVE \E t \in Slots : handler_pc'[t] \in Notifying
  <2>1. sender_pc = "wait" /\ UNCHANGED freed
    BY <1>2, HandlerFrame
  <2>2. CASE EnqueueWelcome(s) \/ EnqueueJoined(s) \/ EnqueueLeft(s)
    BY <1>t, <2>1, <2>2 DEF EnqueueWelcome, EnqueueJoined, EnqueueLeft, HandlerGoto, HandlerFails,
       HandlerUsesFreed, NoLostWakeup, Notifying
  <2>5. CASE JoinedFails(s)
    BY <1>t, <2>1, <2>5 DEF JoinedFails, HandlerGoto, HandlerFails, NoLostWakeup, Notifying
  <2>6. CASE HandlerTerminated(s)
    BY <2>1, <2>6 DEF HandlerTerminated, TerminatesHandlers, FreedInv
  <2>3. CASE NotifySender(s) \/ NotifyFails(s)
    BY <2>1, <2>3 DEF NotifySender, NotifyFails, SetSendEvent, queueVars
  <2>4. ASSUME ReceiveFails(s) \/ CloseSocket(s) \/ \E r \in Requests : ReceiveRequest(s, r)
        PROVE  \E t \in Slots : handler_pc'[t] \in Notifying
    <3>1. /\ UNCHANGED <<send_queue, send_msgs_event>>
          /\ handler_pc[s] \notin Notifying
          /\ \E pc : handler_pc' = [handler_pc EXCEPT ![s] = pc]
      BY <1>2, <2>4, HandlerFrame
      DEF ReceiveFails, CloseSocket, ReceiveRequest, queueVars, Notifying
    <3> QED BY <1>t, <2>1, <3>1 DEF NoLostWakeup, Notifying
  <2> QED BY <1>2, <2>2, <2>3, <2>4, <2>5, <2>6 DEF HandlerNext
<1>3. CASE MainNext
  <2>1. CASE FreeClients
    BY <2>1 DEF FreeClients, FreedInv, Goto
  <2>2. CASE CreateSenderThread
    BY <2>2 DEF CreateSenderThread, NoLostWakeup, Notifying, queueVars
  <2>3. CASE StoreNameAndStart
    BY <1>t, <2>3 DEF StoreNameAndStart, NoLostWakeup, Notifying, queueVars, senderVars, SlotInv,
                      StoresClient
  <2>4. ASSUME NEW s \in Slots, HandleThreadFinalization(s)
        PROVE  \E t \in Slots : handler_pc'[t] \in Notifying
    BY <1>t, <2>4 DEF HandleThreadFinalization, NoLostWakeup, Notifying, queueVars, senderVars
  <2>5. CASE SignalSender
    BY <2>5 DEF SignalSender, SetSendEvent
  <2>6. CASE FreeQueue
    BY <2>6 DEF FreeQueue
  <2>7. CASE UNCHANGED <<sender_pc, send_queue, send_msgs_event, handler_pc>> /\ freed' = freed
    BY <2>7 DEF NoLostWakeup, Notifying
  <2>8. CASE ~(FreeClients \/ CreateSenderThread \/ StoreNameAndStart \/ SignalSender \/ FreeQueue)
             /\ \A s \in Slots : ~HandleThreadFinalization(s)
    <3>1. UNCHANGED <<sender_pc, send_queue, send_msgs_event, handler_pc>> /\ freed' = freed
      BY <1>3, <2>8 DEF MainNext, HandleParameters, InitializeWinSock2, InitializeServer,
         WaitForEventFails, InitializeListenerSocket, AcceptConnection, AcceptFails, LoginReceiveFails,
         ReceiveLogin, LookupUsername, RefuseLogin, AllocateClientContainer, NoSlotAvailable,
         RefuseNoSlot, StoreSocket, SetExitSender, JoinSender, CloseListener, ExitProcess,
         queueVars, senderVars
    <3> QED BY <2>7, <3>1
  <2> QED BY <2>1, <2>2, <2>3, <2>4, <2>5, <2>6, <2>8
<1>4. CASE (\E c \in Conns : LoginNext(c) \/ ClientNext(c)) \/ UNCHANGED vars
  BY <1>4 DEF LoginNext, ClientNext, serverVars, queueVars, senderVars, vars, NoLostWakeup, Notifying
<1> QED BY <1>1, <1>2, <1>3, <1>4 DEF Next, Terminated

\* The sender never sleeps on a message that nobody will wake it up for.
THEOREM NoWakeupIsLost == Spec => []NoLostWakeup
<1>1. Init => NoLostWakeup
  BY DEF Init, NoLostWakeup
<1> QED BY <1>1, WakeupStep, TypeInvariant, SlotInvariant, FreedInvariant, PTL DEF Spec

-----------------------------------------------------------------------------
(* Usernames                                                                *)

\* The lookup and the store are apart, but main alone writes the table between
\* them, and it writes no name there.
LEMMA NameStep ==
    TypeInv /\ SlotInv /\ NameInv /\ UniqueNames /\ [Next]_vars => NameInv' /\ UniqueNames'
<1> SUFFICES ASSUME TypeInv, SlotInv, NameInv, UniqueNames, [Next]_vars
             PROVE  NameInv' /\ UniqueNames'
  OBVIOUS
<1> USE DEF NameInv, UniqueNames, StoresClient, GetClientByUsername
<1>t. /\ is_valid \in [Slots -> BOOLEAN]
      /\ username \in [Slots -> Names \cup {NoName}]
      /\ new_client_id \in Slots
  BY DEF TypeInv, TypeOK, MainTypeOK, TableTypeOK
<1>n. main_pc \in {"alloc", "store_socket", "store_name"} =>
          conn \in Conns /\ UserOf[conn] \in Names /\ UserOf[conn] # NoName
  BY ConstantsAssumption, SentinelAssumption DEF TypeInv, LocalsInv, HandlesConnection
<1>1. CASE SenderNext \/ (\E c \in Conns : LoginNext(c) \/ ClientNext(c)) \/ UNCHANGED vars
  BY <1>1, OthersFrame DEF localVars, tableVars
<1>2. ASSUME NEW s \in Slots, HandlerNext(s) PROVE NameInv' /\ UniqueNames'
  BY <1>2, HandlerFrame DEF localVars, tableVars
<1>3. CASE MainNext
  <2> USE DEF Goto, tableVars, localVars
  <2>0. CASE HandleParameters \/ InitializeWinSock2 \/ InitializeServer \/ WaitForEventFails
    BY <2>0 DEF HandleParameters, InitializeWinSock2, InitializeServer, ExitWith,
       WaitForEventFails, WaitForEvent, Fail
  <2>1. CASE CreateSenderThread \/ InitializeListenerSocket
    BY <2>1 DEF CreateSenderThread, InitializeListenerSocket, Fail
  <2>2. ASSUME NEW h \in Handles, AcceptConnection(h) PROVE NameInv' /\ UniqueNames'
    BY <2>2 DEF AcceptConnection
  <2>3. CASE AcceptFails \/ LoginReceiveFails
    BY <2>3 DEF AcceptFails, LoginReceiveFails, ConnectionFails, Fail, DropLocals
  <2>4. ASSUME NEW r \in Requests, ReceiveLogin(r) PROVE NameInv' /\ UniqueNames'
    BY <2>4 DEF ReceiveLogin, ConnectionFails, Fail, DropLocals
  <2>5. CASE LookupUsername
    BY <2>5 DEF LookupUsername
  <2>6. CASE RefuseLogin \/ RefuseNoSlot
    BY <2>6 DEF RefuseLogin, RefuseNoSlot, ConnectionFails, ConnectionHandled, Fail, DropLocals
  <2>7. ASSUME NEW s \in Slots, AllocateClientContainer(s) PROVE NameInv' /\ UniqueNames'
    BY <1>t, <1>n, <2>7 DEF AllocateClientContainer, FirstInvalid
  <2>8. CASE NoSlotAvailable \/ StoreSocket
    BY <2>8 DEF NoSlotAvailable, StoreSocket
  <2>9. CASE StoreNameAndStart
    BY <1>t, <1>n, <2>9
    DEF StoreNameAndStart, ConnectionFails, ConnectionHandled, Fail, DropLocals, SlotInv
  <2>10. ASSUME NEW s \in Slots, HandleThreadFinalization(s) PROVE NameInv' /\ UniqueNames'
    BY <1>t, <2>10 DEF HandleThreadFinalization, WaitForEvent, ResetClient, Fail
  <2>11. CASE SetExitSender \/ SignalSender \/ JoinSender \/ CloseListener \/ FreeQueue
              \/ FreeClients \/ ExitProcess
    BY <2>11
    DEF SetExitSender, SignalSender, JoinSender, CloseListener, FreeQueue, FreeClients, ExitProcess
  <2> QED BY <1>3, <2>0, <2>1, <2>2, <2>3, <2>4, <2>5, <2>6, <2>7, <2>8, <2>9, <2>10, <2>11 DEF MainNext
<1> QED BY <1>1, <1>2, <1>3 DEF Next, Terminated

LEMMA NameInvariant == Spec => [](NameInv /\ UniqueNames)
<1>1. Init => NameInv /\ UniqueNames
  BY DEF Init, NameInv, UniqueNames, StoresClient
<1>2. TypeInv /\ SlotInv /\ (NameInv /\ UniqueNames) /\ [Next]_vars => (NameInv /\ UniqueNames)'
  BY NameStep
<1> QED BY <1>1, <1>2, TypeInvariant, SlotInvariant, PTL DEF Spec

\* No two logged-in clients have the same username.
THEOREM NamesAreUnique == Spec => []UniqueNames
<1>1. NameInv /\ UniqueNames => UniqueNames
  OBVIOUS
<1> QED BY <1>1, NameInvariant, PTL

-----------------------------------------------------------------------------
(* The end of the server                                                    *)

LEMMA ExitStep == TypeInv /\ ExitInv /\ [Next]_vars => ExitInv'
<1> SUFFICES ASSUME TypeInv, ExitInv, [Next]_vars PROVE ExitInv'
  OBVIOUS
<1> USE DEF ExitInv, TearsDown, ValidSlots
<1>1. CASE SenderNext \/ (\E c \in Conns : LoginNext(c) \/ ClientNext(c)) \/ UNCHANGED vars
  BY <1>1, OthersFrame DEF tableVars
<1>2. ASSUME NEW s \in Slots, HandlerNext(s) PROVE ExitInv'
  BY <1>2, HandlerFrame DEF tableVars
<1>3. CASE MainNext
  <2> USE DEF Goto, tableVars
  <2>0. CASE HandleParameters \/ InitializeWinSock2 \/ InitializeServer \/ WaitForEventFails
    BY <2>0 DEF HandleParameters, InitializeWinSock2, InitializeServer, ExitWith,
       WaitForEventFails, WaitForEvent, Fail
  <2>1. CASE CreateSenderThread \/ InitializeListenerSocket
    BY <2>1 DEF CreateSenderThread, InitializeListenerSocket, Fail
  <2>2. ASSUME NEW h \in Handles, AcceptConnection(h) PROVE ExitInv'
    BY <2>2 DEF AcceptConnection, WaitForEvent
  <2>3. CASE AcceptFails \/ LoginReceiveFails
    BY <2>3 DEF AcceptFails, LoginReceiveFails, ConnectionFails, Fail
  <2>4. ASSUME NEW r \in Requests, ReceiveLogin(r) PROVE ExitInv'
    BY <2>4 DEF ReceiveLogin, ConnectionFails, Fail
  <2>5. CASE LookupUsername \/ NoSlotAvailable \/ StoreSocket
    BY <2>5 DEF LookupUsername, NoSlotAvailable, StoreSocket
  <2>6. CASE RefuseLogin \/ RefuseNoSlot \/ StoreNameAndStart
    BY <2>6 DEF RefuseLogin, RefuseNoSlot, StoreNameAndStart, ConnectionFails, ConnectionHandled, Fail
  <2>7. ASSUME NEW s \in Slots, AllocateClientContainer(s) \/ HandleThreadFinalization(s)
        PROVE  ExitInv'
    BY <2>7 DEF AllocateClientContainer, HandleThreadFinalization, WaitForEvent, Fail
  <2>8. CASE SetExitSender
    <3>1. ValidSlots = {}
      BY <2>8, ValidSlotsFinite
      DEF SetExitSender, LoopCondition, TypeInv, CountInv
    <3> QED BY <2>8, <3>1 DEF SetExitSender
  <2>9. CASE SignalSender \/ JoinSender \/ CloseListener \/ FreeQueue \/ FreeClients \/ ExitProcess
    BY <2>9 DEF SignalSender, JoinSender, CloseListener, FreeQueue, FreeClients, ExitProcess
  <2> QED BY <1>3, <2>0, <2>1, <2>2, <2>3, <2>4, <2>5, <2>6, <2>7, <2>8, <2>9 DEF MainNext
<1> QED BY <1>1, <1>2, <1>3 DEF Next, Terminated

LEMMA ExitInvariant == Spec => []ExitInv
<1>1. Init => ExitInv
  BY DEF Init, ExitInv, TearsDown
<1> QED BY <1>1, ExitStep, TypeInvariant, PTL DEF Spec

LEMMA TeardownStep ==
    TypeInv /\ SlotInv /\ ExitInv /\ CleanTeardown /\ [Next]_vars => CleanTeardown'
<1> SUFFICES ASSUME TypeInv, SlotInv, ExitInv, CleanTeardown, [Next]_vars PROVE CleanTeardown'
  OBVIOUS
<1> USE DEF CleanTeardown
<1>t. /\ is_valid \in [Slots -> BOOLEAN]
      /\ handler_pc \in [Slots -> HandlerPCs]
  BY DEF TypeInv, TypeOK, TableTypeOK, ThreadsTypeOK
<1>1. CASE SenderNext
  <2>1. error_code' # "SUCCESS" \/ sender_pc \in {"stopped", "failed"}
    BY <1>1, OthersFrame
  <2>2. sender_pc \notin {"stopped", "failed"}
    BY <1>1 DEF SenderNext, SenderDequeue, SenderWait, SenderLock, SenderScan, SenderMatch, SenderSend
  <2> QED BY <2>1, <2>2
<1>2. ASSUME NEW s \in Slots, HandlerNext(s) PROVE CleanTeardown'
  BY <1>2, HandlerFrame
<1>3. CASE MainNext
  <2> USE DEF Goto, tableVars, senderVars
  <2>1. CASE JoinSender
    BY <1>3, <2>1 DEF JoinSender, SenderEnded, ExitInv, SlotInv, ValidSlots, MainNext
  <2>2. CASE error_code' # "SUCCESS"
    BY <2>2
  <2>3. CASE ~JoinSender /\ error_code' = "SUCCESS"
    <3>1. error_code = "SUCCESS" /\ TearsDown
      BY <1>3, <2>3 DEF MainNext, HandleParameters, InitializeWinSock2,
         InitializeServer, WaitForEventFails, ExitWith, CreateSenderThread, InitializeListenerSocket, AcceptConnection,
         AcceptFails, LoginReceiveFails, ReceiveLogin, LookupUsername, RefuseLogin, AllocateClientContainer,
         NoSlotAvailable, RefuseNoSlot, StoreSocket, StoreNameAndStart, HandleThreadFinalization,
         SetExitSender, SignalSender, CloseListener, FreeQueue, FreeClients, ExitProcess, Fail,
         ConnectionFails, ExitInv, TearsDown, WaitForEvent
    <3>2. CloseListener \/ FreeQueue \/ FreeClients \/ ExitProcess
      BY <1>3, <2>3, <3>1 DEF MainNext, HandleParameters, InitializeWinSock2,
         InitializeServer, WaitForEventFails, ExitWith, CreateSenderThread, InitializeListenerSocket,
         AcceptConnection, AcceptFails, LoginReceiveFails, ReceiveLogin, LookupUsername, RefuseLogin,
         AllocateClientContainer, NoSlotAvailable, RefuseNoSlot, StoreSocket, StoreNameAndStart,
         HandleThreadFinalization, SetExitSender, SignalSender, TearsDown, WaitForEvent
    <3> QED BY <1>t, <3>1, <3>2 DEF CloseListener, FreeQueue, FreeClients, ExitProcess
  <2> QED BY <2>1, <2>2, <2>3
<1>4. CASE (\E c \in Conns : LoginNext(c) \/ ClientNext(c)) \/ UNCHANGED vars
  BY <1>4 DEF LoginNext, ClientNext, serverVars, tableVars, senderVars, vars
<1> QED BY <1>1, <1>2, <1>3, <1>4 DEF Next, Terminated

\* When main reports SUCCESS nobody is left to use what it frees.
THEOREM TeardownIsClean == Spec => []CleanTeardown
<1>1. Init => CleanTeardown
  BY DEF Init, CleanTeardown
<1> QED BY <1>1, TeardownStep, TypeInvariant, SlotInvariant, ExitInvariant, PTL DEF Spec
=============================================================================

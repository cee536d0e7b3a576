---------------------- MODULE ChatServerConnectedProofs ----------------------
(* What the clients send and when they leave: a login is read by main, and   *)
(* as long as no client leaves nothing that was freed is used.               *)
EXTENDS ChatServerRunProofs

\* The invariants of all runs, and those of the runs without refused logins.
Base == TypeInv /\ SlotInv /\ BacklogInv /\ OwnerInv /\ SocketInv /\ CleanTeardown

LEMMA BaseInvariant ==
    ASSUME NoRefusals
    PROVE  Spec => []Base
<1>1. TypeInv /\ SlotInv /\ BacklogInv /\ OwnerInv /\ SocketInv /\ CleanTeardown => Base
  BY DEF Base
<1> QED BY <1>1, TypeInvariant, SlotInvariant, BacklogInvariant, OwnerInvariant,
           SocketInvariant, TeardownIsClean, PTL

\* The socket of a handler that runs is open on its client, until it is
\* terminated.
LEMMA HandlerSocketOpen ==
    ASSUME Base, NEW s \in Slots, Live(s)
    PROVE  /\ client_socket[s] \in Handles
           /\ \/ endpoint[client_socket[s]] = owner[s]
              \/ TerminatesHandlers /\ endpoint[client_socket[s]] = NoConn
           /\ owner[s] \in Conns /\ owner[s] # NoConn
<1>1. owner[s] # NoConn /\ owner[s] \in Conns \cup {NoConn}
  BY DEF Base, OwnerInv, Live, TypeInv, TypeOK, TableTypeOK
<1>2. /\ client_socket[s] \in Handles
      /\ \/ endpoint[client_socket[s]] = owner[s]
         \/ TerminatesHandlers /\ endpoint[client_socket[s]] = NoConn
  BY DEF Base, SocketInv, Live
<1> QED BY <1>1, <1>2

\* What main leaves alone, whatever it does.
LEMMA MainFrame ==
    ASSUME MainNext
    PROVE  /\ UNCHANGED <<client_state, send_queue, sender_msg>>
           /\ \/ UNCHANGED to_server
              \/ \E r \in Requests : ReceiveLogin(r)
           /\ main_pc' = "login" => \E h \in Handles : AcceptConnection(h)
           /\ freed' # {} => freed # {} \/ FreeQueue \/ FreeClients
           /\ TearsDown => TearsDown'
           /\ sender_pc' \in {sender_pc, "dequeue"}
<1> USE DEF Goto, Fail, ExitWith, ConnectionFails, ConnectionHandled, netVars, queueVars,
            senderVars, TearsDown
<1>1. CASE HandleParameters \/ InitializeWinSock2 \/ InitializeServer \/ CreateSenderThread
           \/ InitializeListenerSocket
  BY <1>1 DEF HandleParameters, InitializeWinSock2, InitializeServer, CreateSenderThread,
     InitializeListenerSocket
<1>2. CASE WaitForEventFails \/ AcceptFails \/ LoginReceiveFails
  BY <1>2 DEF WaitForEventFails, WaitForEvent, AcceptFails, LoginReceiveFails
<1>3. ASSUME NEW h \in Handles, AcceptConnection(h)
      PROVE  /\ UNCHANGED <<client_state, send_queue, sender_pc, sender_msg, to_server, freed>>
             /\ ~TearsDown
  BY <1>3 DEF AcceptConnection, WaitForEvent
<1>4. ASSUME NEW r \in Requests, ReceiveLogin(r)
      PROVE  /\ UNCHANGED <<client_state, send_queue, sender_pc, sender_msg, freed>>
             /\ main_pc' # "login" /\ ~TearsDown
  BY <1>4 DEF ReceiveLogin
<1>5. CASE LookupUsername \/ RefuseLogin \/ NoSlotAvailable \/ RefuseNoSlot
  BY <1>5 DEF LookupUsername, RefuseLogin, NoSlotAvailable, RefuseNoSlot
<1>6. ASSUME NEW s \in Slots, AllocateClientContainer(s) \/ HandleThreadFinalization(s)
      PROVE  /\ UNCHANGED <<client_state, send_queue, sender_pc, sender_msg, to_server, freed>>
             /\ main_pc' # "login" /\ ~TearsDown
  BY <1>6 DEF AllocateClientContainer, HandleThreadFinalization, WaitForEvent
<1>7. CASE StoreSocket \/ StoreNameAndStart
  BY <1>7 DEF StoreSocket, StoreNameAndStart
<1>8. CASE SetExitSender \/ SignalSender \/ JoinSender \/ CloseListener
  BY <1>8 DEF SetExitSender, SignalSender, JoinSender, CloseListener
<1>9. CASE FreeQueue \/ FreeClients \/ ExitProcess
  BY <1>9 DEF FreeQueue, FreeClients, ExitProcess
<1> QED BY <1>1, <1>2, <1>3, <1>4, <1>5, <1>6, <1>7, <1>8, <1>9 DEF MainNext

-----------------------------------------------------------------------------
(* The login request of a run                                               *)

\* One login stays the first and only one, and none stays none.
LEMMA LoginAppended ==
    ASSUME NEW q \in Seq(Requests), NEW r \in Requests
    PROVE  /\ q = <<>> /\ r = "login" => OneLogin(Append(q, r))
           /\ r # "login" => /\ OneLogin(q) => OneLogin(Append(q, r))
                             /\ NoLogin(q) => NoLogin(Append(q, r))
<1> PICK p \in Seq(Requests) : p = Append(q, r)
  BY AppendProperties
<1>1. /\ Len(q) \in Nat /\ Len(p) = Len(q) + 1
      /\ \A i \in 1 .. Len(q) : p[i] = q[i]
      /\ p[Len(q) + 1] = r
      /\ DOMAIN q = 1 .. Len(q) /\ DOMAIN p = 1 .. Len(p)
      /\ (q = <<>> <=> Len(q) = 0)
  BY AppendProperties, LenProperties, EmptySeq
<1>2. p # <<>> /\ Head(p) = p[1]
  BY <1>1, EmptySeq, HeadTailProperties
<1>3. q # <<>> => Head(q) = q[1]
  BY HeadTailProperties
<1>4. q = <<>> /\ r = "login" => OneLogin(p)
  BY <1>1, <1>2 DEF OneLogin
<1>5. r # "login" /\ OneLogin(q) => OneLogin(p)
  BY <1>1, <1>2, <1>3 DEF OneLogin
<1>6. r # "login" /\ NoLogin(q) => NoLogin(p)
  BY <1>1 DEF NoLogin
<1> QED BY <1>4, <1>5, <1>6

LEMMA LoginRemoved ==
    ASSUME NEW q \in Seq(Requests), q # <<>>
    PROVE  /\ OneLogin(q) => NoLogin(Tail(q))
           /\ NoLogin(q) => NoLogin(Tail(q)) /\ Head(q) # "login"
<1> PICK p \in Seq(Requests) : p = Tail(q)
  BY HeadTailProperties
<1>1. /\ Len(q) \in Nat /\ Len(q) # 0 /\ Len(p) = Len(q) - 1
      /\ \A i \in 1 .. Len(p) : p[i] = q[i + 1]
      /\ Head(q) = q[1]
      /\ DOMAIN q = 1 .. Len(q) /\ DOMAIN p = 1 .. Len(p)
  BY HeadTailProperties, LenProperties, EmptySeq
<1>2. OneLogin(q) => NoLogin(p)
  BY <1>1 DEF OneLogin, NoLogin
<1>3. NoLogin(q) => NoLogin(p) /\ Head(q) # "login"
  BY <1>1 DEF NoLogin
<1> QED BY <1>2, <1>3

\* A run sends its login first, and once.
LEMMA LoginSent ==
    ASSUME TypeInv, NEW c \in Conns, LoginNext(c) \/ ClientNext(c), NEW d \in Conns
    PROVE  /\ LoginAhead(d) => LoginAhead(d)'
           /\ LoginBehind(d) => LoginBehind(d)'
<1>t. /\ to_server \in [Conns -> Seq(Requests)] /\ to_server[d] \in Seq(Requests)
      /\ client_state \in [Conns -> ClientStates] /\ client_state[d] \in ClientStates
  BY DEF TypeInv, TypeOK, NetTypeOK
<1>g. ASSUME NEW st, ClientGoto(c, st)
      PROVE  client_state'[c] = st /\ (d # c => client_state'[d] = client_state[d])
  BY <1>g, <1>t DEF ClientGoto
<1>s. ASSUME NEW r \in Requests, SendRequest(c, r)
      PROVE  /\ to_server'[c] = Append(to_server[c], r)
             /\ d # c => to_server'[d] = to_server[d]
  BY <1>s, <1>t DEF SendRequest
<1> USE DEF LoginAhead, LoginBehind
<1>1. CASE SendLogin(c)
  <2>1. /\ SendRequest(c, "login") /\ ClientGoto(c, "login") /\ "login" \in Requests
        /\ client_state[c] = "connected"
    BY <1>1 DEF SendLogin, Requests
  <2>2. CASE d = c
    <3>1. to_server'[d] = Append(to_server[d], "login") /\ client_state'[d] = "login"
      BY <1>s, <1>g, <2>1, <2>2
    <3>2. to_server[d] = <<>> => OneLogin(to_server'[d])
      BY <1>t, <2>1, <3>1, LoginAppended
    <3> QED BY <2>1, <2>2, <3>1, <3>2
  <2>3. CASE d # c
    BY <1>s, <1>g, <2>1, <2>3
  <2> QED BY <2>2, <2>3
<1>2. ASSUME NEW r \in TypedKinds \cup {"quit"}, SendUserMessage(c, r)
      PROVE  /\ LoginAhead(d) => LoginAhead(d)'
             /\ LoginBehind(d) => LoginBehind(d)'
  <2>1. /\ r \in Requests /\ r # "login" /\ SendRequest(c, r) /\ client_state[c] = "chat"
        /\ ClientGoto(c, "chat") \/ ClientGoto(c, "quit")
    BY <1>2, ConstantsAssumption DEF SendUserMessage, Requests
  <2>2. client_state'[c] \in {"chat", "quit"} /\ (d # c => client_state'[d] = client_state[d])
    BY <1>g, <2>1
  <2> QED BY <1>t, <1>s, <2>1, <2>2, LoginAppended
<1>3. CASE ConnectToServer(c)
  BY <1>3, <1>t, <1>g DEF ConnectToServer
<1>4. CASE ReceiveLoginResponse(c)
  <2>1. /\ client_state[c] = "login" /\ UNCHANGED to_server
        /\ ClientGoto(c, "closed") \/ ClientGoto(c, "chat")
    BY <1>4 DEF ReceiveLoginResponse
  <2> QED BY <1>t, <1>g, <2>1
<1>5. CASE CloseClient(c)
  BY <1>5, <1>t, <1>g DEF CloseClient
<1> QED BY <1>1, <1>2, <1>3, <1>4, <1>5 DEF LoginNext, ClientNext

\* A request received is the first of the run at the other end.
LEMMA RequestTaken ==
    ASSUME TypeInv, NEW h, NEW r, ReceiveSucceeds(h, r)
    PROVE  \E c \in Conns :
               /\ c = endpoint[h] /\ c # NoConn
               /\ to_server[c] # <<>> /\ r = Head(to_server[c])
               /\ to_server'[c] = Tail(to_server[c])
               /\ \A d \in Conns : d # c => to_server'[d] = to_server[d]
BY DEF ReceiveSucceeds, IsOpen, TypeInv, TypeOK, NetTypeOK

\* The runs that main takes a login for, and those whose login it has taken.
Ahead(c) == c \in Fresh \/ (main_pc = "login" /\ c = conn)
Behind(c) == (main_pc # "login" /\ c = conn) \/ (\E s \in Slots : owner[s] = c)

LEMMA NotBoth ==
    ASSUME OwnerInv, NEW c \in Conns
    PROVE  ~(Ahead(c) /\ Behind(c))
<1>1. c # NoConn
  BY SentinelAssumption
<1> QED BY <1>1 DEF OwnerInv, Ahead, Behind

\* A run is behind main's login once ReceiveLogin has taken it, and stays.
LEMMA MainOrder ==
    ASSUME Base, [Next]_vars, MainNext, NEW c \in Conns
    PROVE  /\ Ahead(c)' => Ahead(c)
           /\ Behind(c)' => \/ Behind(c)
                            \/ c = conn /\ \E r \in Requests : ReceiveLogin(r) /\ LoginIsLegal(r)
<1>t. /\ c # NoConn /\ owner \in [Slots -> Conns \cup {NoConn}] /\ new_client_id \in Slots
      /\ Fresh' \subseteq Fresh
  BY BacklogStep, SentinelAssumption DEF Base, TypeInv, TypeOK, MainTypeOK, TableTypeOK
<1>o. conn # NoConn => HandlesConnection
  BY DEF Base, OwnerInv
<1> USE DEF Ahead, Behind, Goto, Fail, ExitWith, ConnectionFails, ConnectionHandled, DropLocals,
            tableVars, localVars
<1>1. CASE HandleParameters \/ InitializeWinSock2 \/ InitializeServer \/ CreateSenderThread
           \/ InitializeListenerSocket
  BY <1>t, <1>o, <1>1 DEF HandleParameters, InitializeWinSock2, InitializeServer, CreateSenderThread,
     InitializeListenerSocket
<1>2. CASE WaitForEventFails \/ AcceptFails \/ LoginReceiveFails
  BY <1>t, <1>o, <1>2 DEF WaitForEventFails, WaitForEvent, AcceptFails, LoginReceiveFails
<1>3. ASSUME NEW h \in Handles, AcceptConnection(h)
      PROVE  (Ahead(c)' => Ahead(c)) /\ (Behind(c)' => Behind(c))
  <2>1. conn' \in Fresh /\ main_pc' = "login" /\ UNCHANGED owner
    BY <1>3, BacklogTaken DEF Base, AcceptConnection
  <2> QED BY <1>t, <2>1
<1>4. ASSUME NEW r \in Requests, ReceiveLogin(r)
      PROVE  (Ahead(c)' => Ahead(c)) /\ (Behind(c)' => Behind(c) \/ (c = conn /\ LoginIsLegal(r)))
  BY <1>t, <1>4 DEF ReceiveLogin
<1>5. CASE LookupUsername \/ RefuseLogin \/ NoSlotAvailable \/ RefuseNoSlot
  BY <1>t, <1>5 DEF LookupUsername, RefuseLogin, NoSlotAvailable, RefuseNoSlot
<1>6. ASSUME NEW s \in Slots, AllocateClientContainer(s) \/ HandleThreadFinalization(s)
      PROVE  (Ahead(c)' => Ahead(c)) /\ (Behind(c)' => Behind(c))
  BY <1>t, <1>6 DEF AllocateClientContainer, HandleThreadFinalization, ResetClient, WaitForEvent
<1>7. CASE StoreSocket \/ StoreNameAndStart
  BY <1>t, <1>7 DEF StoreSocket, StoreNameAndStart
<1>8. CASE SetExitSender \/ SignalSender \/ JoinSender \/ CloseListener
  BY <1>t, <1>o, <1>8 DEF SetExitSender, SignalSender, JoinSender, CloseListener, HandlesConnection
<1>9. CASE FreeQueue \/ FreeClients \/ ExitProcess
  BY <1>t, <1>o, <1>9 DEF FreeQueue, FreeClients, ExitProcess, HandlesConnection
<1> QED BY <1>1, <1>2, <1>3, <1>4, <1>5, <1>6, <1>7, <1>8, <1>9 DEF MainNext

LEMMA LoginStep == Base /\ LoginInv /\ [Next]_vars => LoginInv'
<1> SUFFICES ASSUME Base, LoginInv, [Next]_vars, NEW c \in Conns
             PROVE  (Ahead(c)' => LoginAhead(c)') /\ (Behind(c)' => LoginBehind(c)')
  BY DEF LoginInv, Ahead, Behind
<1>i. (Ahead(c) => LoginAhead(c)) /\ (Behind(c) => LoginBehind(c))
  BY DEF LoginInv, Ahead, Behind
<1>t. /\ to_server \in [Conns -> Seq(Requests)] /\ to_server[c] \in Seq(Requests)
      /\ Fresh' \subseteq Fresh
  BY BacklogStep DEF Base, TypeInv, TypeOK, NetTypeOK
<1>k. ASSUME UNCHANGED <<main_pc, conn, owner>> PROVE (Ahead(c)' => Ahead(c)) /\ (Behind(c)' <=> Behind(c))
  BY <1>k, <1>t DEF Ahead, Behind
<1>1. CASE SenderNext \/ UNCHANGED vars
  <2>1. UNCHANGED <<main_pc, conn, owner, to_server, client_state>>
    BY <1>1 DEF SenderNext, vars, localVars, tableVars, netVars
  <2> QED BY <1>i, <1>k, <2>1 DEF LoginAhead, LoginBehind
<1>2. ASSUME NEW d \in Conns, LoginNext(d) \/ ClientNext(d)
      PROVE  (Ahead(c)' => LoginAhead(c)') /\ (Behind(c)' => LoginBehind(c)')
  <2>1. UNCHANGED <<main_pc, conn, owner>>
    BY <1>2 DEF LoginNext, ClientNext, serverVars, localVars, tableVars
  <2> QED BY <1>2, <1>i, <1>k, <2>1, LoginSent DEF Base
<1>3. ASSUME NEW s \in Slots, HandlerNext(s)
      PROVE  (Ahead(c)' => LoginAhead(c)') /\ (Behind(c)' => LoginBehind(c)')
  <2>1. UNCHANGED <<main_pc, conn, owner, client_state>> /\ Live(s)
    BY <1>3, HandlerFrame DEF Base, HandlerNext, localVars, tableVars, Live
  <2>2. CASE UNCHANGED to_server
    BY <1>i, <1>k, <2>1, <2>2 DEF LoginAhead, LoginBehind
  <2>3. ASSUME NEW r, ReceiveSucceeds(client_socket[s], r)
        PROVE  (Ahead(c)' => LoginAhead(c)') /\ (Behind(c)' => LoginBehind(c)')
    <3>1. /\ c # owner[s] => to_server'[c] = to_server[c]
          /\ c = owner[s] => to_server[c] # <<>> /\ to_server'[c] = Tail(to_server[c])
      BY <2>1, <2>3, HandlerSocketOpen, RequestTaken DEF Base
    <3>2. c = owner[s] => Behind(c) /\ ~Ahead(c)
      BY NotBoth DEF Behind, Base
    <3> QED BY <1>i, <1>k, <1>t, <2>1, <3>1, <3>2, LoginRemoved DEF LoginAhead, LoginBehind
  <2> QED BY <1>3, <2>2, <2>3 DEF HandlerNext, EnqueueWelcome, EnqueueJoined, JoinedFails,
             NotifySender, NotifyFails, ReceiveRequest, ReceiveFails, EnqueueLeft, CloseSocket,
             HandlerTerminated
<1>4. CASE MainNext
  <2>1. UNCHANGED client_state
    BY <1>4, MainFrame
  <2>2. CASE UNCHANGED to_server /\ ~\E r \in Requests : ReceiveLogin(r)
    BY <1>4, <1>i, <2>1, <2>2, MainOrder DEF LoginAhead, LoginBehind
  <2>3. ASSUME NEW r \in Requests, ReceiveLogin(r)
        PROVE  (Ahead(c)' => LoginAhead(c)') /\ (Behind(c)' => LoginBehind(c)')
    <3>1. endpoint[sock] = conn /\ main_pc = "login" /\ main_pc' # "login"
      BY <2>3 DEF ReceiveLogin, Base, SocketInv, HandlesConnection, Goto, ConnectionFails, Fail
    <3>2. /\ c # conn => to_server'[c] = to_server[c]
          /\ c = conn => /\ to_server[c] # <<>> /\ r = Head(to_server[c])
                         /\ to_server'[c] = Tail(to_server[c])
      BY <2>3, <3>1, RequestTaken DEF Base, ReceiveLogin
    <3>3. c = conn => Ahead(c) /\ ~Ahead(c)'
      BY <1>t, <3>1 DEF Ahead, Base, OwnerInv
    <3>4. ASSUME c = conn, Behind(c)' PROVE LoginBehind(c)'
      <4>1. LoginAhead(c) /\ to_server[c] # <<>>
        BY <1>i, <3>2, <3>3, <3>4
      <4>2. NoLogin(Tail(to_server[c]))
        BY <1>t, <4>1, LoginRemoved DEF LoginAhead
      <4> QED BY <2>1, <3>2, <3>4, <4>1, <4>2 DEF LoginAhead, LoginBehind
    <3>5. ASSUME c # conn PROVE (Ahead(c)' => LoginAhead(c)') /\ (Behind(c)' => LoginBehind(c)')
      <4>1. (Ahead(c)' => Ahead(c)) /\ (Behind(c)' => Behind(c))
        BY <1>4, <3>5, MainOrder
      <4> QED BY <1>i, <2>1, <3>2, <3>5, <4>1 DEF LoginAhead, LoginBehind
    <3> QED BY <3>3, <3>4, <3>5
  <2> QED BY <1>4, <2>2, <2>3, MainFrame
<1> QED BY <1>1, <1>2, <1>3, <1>4 DEF Next, Terminated

LEMMA LoginInvariant ==
    ASSUME NoRefusals
    PROVE  Spec => []LoginInv
<1>1. Init => LoginInv
  <2> SUFFICES ASSUME Init, NEW c \in Conns PROVE LoginAhead(c) /\ ~Behind(c)
    BY DEF LoginInv, Behind
  <2>1. c # NoConn
    BY SentinelAssumption
  <2> QED BY <2>1 DEF Init, LoginAhead, Behind
<1> QED BY <1>1, LoginStep, BaseInvariant, PTL DEF Spec

\* Who takes a login from a stream.
LEMMA LoginReader ==
    ASSUME Base, LoginInv, [Next]_vars, NEW c \in Conns,
           Len(to_server'[c]) < Len(to_server[c]), Head(to_server[c]) = "login"
    PROVE  conn = c /\ main_pc = "login" /\ main_pc' # "login"
<1>t. to_server \in [Conns -> Seq(Requests)] /\ to_server[c] \in Seq(Requests)
  BY DEF Base, TypeInv, TypeOK, NetTypeOK
<1>n. Len(to_server[c]) \in Nat
  BY <1>t, LenProperties
<1>0. to_server'[c] # to_server[c]
  BY <1>n
<1>1. ~(SenderNext \/ UNCHANGED vars)
  BY <1>0 DEF SenderNext, vars, netVars
<1>2. ASSUME NEW d \in Conns, LoginNext(d) \/ ClientNext(d) PROVE FALSE
  <2>1. \/ UNCHANGED to_server
        \/ \E r \in Requests : SendRequest(d, r)
    BY <1>2, ConstantsAssumption DEF LoginNext, ClientNext, ConnectToServer, SendLogin,
       ReceiveLoginResponse, SendUserMessage, CloseClient, Requests
  <2>2. PICK r \in Requests : to_server'[c] = Append(to_server[c], r)
    BY <1>0, <1>t, <2>1 DEF SendRequest
  <2>3. Len(to_server'[c]) = Len(to_server[c]) + 1
    BY <1>t, <2>2, AppendProperties
  <2> QED BY <1>n, <2>3
<1>3. ASSUME NEW s \in Slots, HandlerNext(s) PROVE FALSE
  <2>1. PICK r \in Requests : ReceiveSucceeds(client_socket[s], r)
    BY <1>0, <1>3 DEF HandlerNext, EnqueueWelcome, EnqueueJoined, JoinedFails, NotifySender,
       NotifyFails, ReceiveRequest, ReceiveFails, EnqueueLeft, CloseSocket, HandlerTerminated
  <2>2. c = owner[s] /\ to_server[c] # <<>>
    BY <1>0, <1>3, <2>1, RequestTaken, HandlerSocketOpen, HandlerFrame DEF Base, Live
  <2>3. NoLogin(to_server[c])
    BY <2>2 DEF LoginInv, LoginBehind
  <2> QED BY <1>t, <2>2, <2>3, LoginRemoved
<1>4. CASE MainNext
  <2>1. PICK r \in Requests : ReceiveLogin(r)
    BY <1>0, <1>4, MainFrame
  <2>2. main_pc = "login" /\ main_pc' # "login" /\ endpoint[sock] = conn
    BY <2>1 DEF ReceiveLogin, Base, SocketInv, HandlesConnection, Goto, ConnectionFails, Fail
  <2> QED BY <1>0, <2>1, <2>2, RequestTaken DEF Base, ReceiveLogin
<1> QED BY <1>1, <1>2, <1>3, <1>4 DEF Next, Terminated

\* Main is the only one to read a login, and it does so once per connection, as
\* long as no login is refused: only the handler that a refusal leaves behind
\* can take the login of a later connection (Server.c:635).
THEOREM LoginsAreMains ==
    ASSUME NoRefusals
    PROVE  Spec => LoginsReadByMain
<1>1. Base /\ LoginInv /\ [Next]_vars =>
          [\A c \in Conns :
               Len(to_server'[c]) < Len(to_server[c]) /\ Head(to_server[c]) = "login"
                   => conn = c /\ main_pc = "login" /\ main_pc' # "login"]_vars
  BY LoginReader
<1> QED BY <1>1, BaseInvariant, LoginInvariant, PTL DEF Spec, LoginsReadByMain

-----------------------------------------------------------------------------
(* What holds while every client is connected                               *)

Legal == {"login", "text", "quit"}

\* A client that has left does not come back.
LEMMA ClosedForGood ==
    ASSUME TypeInv, [Next]_vars, AllConnected'
    PROVE  AllConnected
<1> SUFFICES ASSUME NEW c \in Conns, client_state[c] = "closed" PROVE client_state'[c] = "closed"
  BY DEF AllConnected
<1>t. client_state \in [Conns -> ClientStates]
  BY DEF TypeInv, TypeOK, NetTypeOK
<1>1. CASE UNCHANGED client_state
  BY <1>1
<1>2. ASSUME NEW d \in Conns, LoginNext(d) \/ ClientNext(d) PROVE client_state'[c] = "closed"
  <2>1. \/ client_state' = client_state
        \/ client_state[d] # "closed" /\ \E st : client_state' = [client_state EXCEPT ![d] = st]
        \/ client_state' = [client_state EXCEPT ![d] = "closed"]
    BY <1>2 DEF LoginNext, ClientNext, ConnectToServer, SendLogin, ReceiveLoginResponse,
       SendUserMessage, CloseClient, ClientGoto
  <2> QED BY <1>t, <2>1
<1>3. CASE MainNext
  BY <1>1, <1>3 DEF MainNext, HandleParameters, InitializeWinSock2, InitializeServer,
     CreateSenderThread, InitializeListenerSocket, WaitForEventFails, AcceptConnection, AcceptFails,
     LoginReceiveFails, ReceiveLogin, LookupUsername, RefuseLogin, AllocateClientContainer,
     NoSlotAvailable, RefuseNoSlot, StoreSocket, StoreNameAndStart, HandleThreadFinalization,
     SetExitSender, SignalSender, JoinSender, CloseListener, FreeQueue, FreeClients, ExitProcess
<1>4. CASE SenderNext \/ UNCHANGED vars
  BY <1>1, <1>4 DEF SenderNext, vars
<1>5. ASSUME NEW s \in Slots, HandlerNext(s) PROVE client_state'[c] = "closed"
  BY <1>1, <1>5 DEF HandlerNext
<1> QED BY <1>2, <1>3, <1>4, <1>5 DEF Next, Terminated

\* A socket whose two ends are open neither fails to send nor to receive.
LEMMA OpenEndsWork ==
    ASSUME TypeInv, AllConnected, NEW h \in Handles, endpoint[h] # NoConn
    PROVE  IsOpen(h) /\ ~SendMayFail(h) /\ ~ReceiveMayFail(h)
BY DEF TypeInv, TypeOK, NetTypeOK, AllConnected, IsOpen, SendMayFail, ReceiveMayFail

\* While every client is connected the queue and the table are freed only when
\* the sender has ended and no handler is left.
LEMMA NobodyUsesFreed ==
    ASSUME Base, ConnectedInv, AllConnected, freed # {}
    PROVE  /\ sender_pc \in {"stopped", "failed"}
           /\ \A s \in Slots : ~Live(s)
BY DEF Base, ConnectedInv, CleanTeardown, Live

\* Nor is there a handler left to terminate.
LEMMA NobodyTerminated ==
    ASSUME Base, ConnectedInv, AllConnected, NEW s \in Slots, Live(s)
    PROVE  ~TerminatesHandlers
BY DEF Base, ConnectedInv, SocketInv, CleanTeardown, Live

\* What a request taken leaves of a stream of legal requests.
LEMMA ReceivedLegal ==
    ASSUME TypeInv, to_server \in [Conns -> Seq(Legal)], NEW h, NEW r, ReceiveSucceeds(h, r)
    PROVE  /\ endpoint[h] \in Conns /\ r \in Legal
           /\ r = Head(to_server[endpoint[h]])
           /\ to_server' \in [Conns -> Seq(Legal)]
           /\ \A c \in Conns : c # endpoint[h] => to_server'[c] = to_server[c]
<1>1. /\ endpoint[h] \in Conns /\ to_server[endpoint[h]] # <<>>
      /\ r = Head(to_server[endpoint[h]])
      /\ to_server' = [to_server EXCEPT ![endpoint[h]] = Tail(to_server[endpoint[h]])]
  BY DEF ReceiveSucceeds, IsOpen, TypeInv, TypeOK, NetTypeOK
<1> PICK c \in Conns : c = endpoint[h]
  BY <1>1
<1>2. to_server[c] \in Seq(Legal) /\ to_server[c] # <<>>
  BY <1>1
<1>3. Head(to_server[c]) \in Legal /\ Tail(to_server[c]) \in Seq(Legal)
  BY <1>2, HeadTailProperties
<1> QED BY <1>1, <1>3

\* A user types nothing but legal requests.
LEMMA ClientRequests ==
    ASSUME OnlyClientsLeave, ConnectedInv, NEW c \in Conns, LoginNext(c) \/ ClientNext(c)
    PROVE  to_server' \in [Conns -> Seq(Legal)]
<1>1. \/ UNCHANGED to_server
      \/ \E r \in Legal : SendRequest(c, r)
  BY ConstantsAssumption DEF LoginNext, ClientNext, ConnectToServer, SendLogin, ReceiveLoginResponse,
     SendUserMessage, CloseClient, OnlyClientsLeave, Legal
<1>2. to_server \in [Conns -> Seq(Legal)]
  BY DEF ConnectedInv, Legal
<1>3. ASSUME NEW r \in Legal, SendRequest(c, r) PROVE to_server' \in [Conns -> Seq(Legal)]
  <2>1. Append(to_server[c], r) \in Seq(Legal)
    BY <1>2, AppendProperties
  <2> QED BY <1>2, <1>3, <2>1 DEF SendRequest
<1> QED BY <1>1, <1>2, <1>3

-----------------------------------------------------------------------------
(* A step of each thread                                                    *)

LEMMA ClientConnected ==
    ASSUME OnlyClientsLeave, Base, ConnectedInv, [Next]_vars,
           NEW c \in Conns, LoginNext(c) \/ ClientNext(c)
    PROVE  ConnectedInv'
<1>1. UNCHANGED <<process, main_pc, error_code, send_queue, sender_pc, sender_msg, freed, handler_pc>>
  BY DEF LoginNext, ClientNext, serverVars, queueVars, senderVars
<1>2. to_server' \in [Conns -> Seq(Legal)]
  BY ClientRequests
<1>3. AllConnected' => AllConnected
  BY ClosedForGood DEF Base
<1> QED BY <1>1, <1>2, <1>3 DEF ConnectedInv, TearsDown, Legal

LEMMA SenderConnected ==
    ASSUME Base, ConnectedInv, [Next]_vars, SenderNext
    PROVE  ConnectedInv'
<1>1. UNCHANGED <<main_pc, error_code, freed, handler_pc, to_server, client_state>>
  BY DEF SenderNext
<1>2. send_queue \in Seq(Message)
  BY DEF Base, TypeInv, TypeOK, QueueTypeOK
<1>3. \A i \in DOMAIN send_queue' : send_queue'[i].kind # "freed"
  <2>1. CASE UNCHANGED send_queue
    BY <2>1 DEF ConnectedInv
  <2>2. CASE send_queue # <<>> /\ send_queue' = Tail(send_queue)
    <3>1. /\ Len(send_queue) \in Nat /\ DOMAIN send_queue = 1 .. Len(send_queue)
          /\ send_queue' \in Seq(Message) /\ Len(send_queue') = Len(send_queue) - 1
          /\ \A i \in 1 .. Len(send_queue') : send_queue'[i] = send_queue[i + 1]
      BY <1>2, <2>2, HeadTailProperties, LenProperties
    <3>2. DOMAIN send_queue' = 1 .. Len(send_queue) - 1
      BY <3>1, LenProperties
    <3>3. \A i \in DOMAIN send_queue' : i + 1 \in DOMAIN send_queue /\ send_queue'[i] = send_queue[i + 1]
      BY <3>1, <3>2
    <3> QED BY <3>3 DEF ConnectedInv
  <2> QED BY <2>1, <2>2 DEF SenderNext, SenderDequeue, SenderWait, SenderLock, SenderScan,
             SenderMatch, SenderSend, SenderUsesFreed
<1>h. send_queue # <<>> => Head(send_queue).kind # "freed"
  <2>1. send_queue # <<>> => Head(send_queue) = send_queue[1] /\ 1 \in DOMAIN send_queue
    BY <1>2, HeadTailProperties, LenProperties, EmptySeq
  <2> QED BY <2>1 DEF ConnectedInv
<1>m. ASSUME sender_pc' \in {"lock", "scan", "match", "send"}
      PROVE  sender_msg' \in Message /\ sender_msg'.kind # "freed"
  <2>1. CASE sender_pc = "dequeue"
    <3>1. send_queue # <<>> /\ sender_msg' = Head(send_queue)
      BY <1>m, <2>1 DEF SenderNext, SenderDequeue, SenderWait, SenderLock, SenderScan, SenderMatch,
                        SenderSend, SenderUsesFreed, FindsQueueEmpty
    <3> QED BY <1>2, <1>h, <3>1, HeadTailProperties
  <2>2. CASE sender_pc # "dequeue"
    <3>1. sender_pc \in {"lock", "scan", "match", "send"} /\ sender_msg' = sender_msg
      BY <1>m, <2>2 DEF SenderNext, SenderDequeue, SenderWait, SenderLock, SenderScan, SenderMatch,
                        SenderSend, SenderUsesFreed
    <3> QED BY <3>1 DEF ConnectedInv
  <2> QED BY <2>1, <2>2
<1>4. ASSUME AllConnected PROVE process' = process
  <2>1. freed # {} => sender_pc \in {"stopped", "failed"}
    BY <1>4, NobodyUsesFreed
  <2>2. CASE SenderDequeue
    BY <1>h, <2>1, <2>2 DEF SenderDequeue, TouchMessage
  <2>3. CASE SenderWait \/ SenderLock
    BY <2>3 DEF SenderWait, SenderLock
  <2>4. CASE SenderScan \/ SenderMatch \/ SenderSend
    BY <2>1, <2>4 DEF SenderScan, SenderMatch, SenderSend, TouchMessage, ConnectedInv
  <2> QED BY <2>2, <2>3, <2>4 DEF SenderNext
<1>5. AllConnected' => AllConnected
  BY <1>1 DEF AllConnected
<1> QED BY <1>1, <1>3, <1>m, <1>4, <1>5 DEF ConnectedInv, TearsDown

LEMMA HandlerConnected ==
    ASSUME OnlyClientsLeave, Base, ConnectedInv, [Next]_vars, NEW s \in Slots, HandlerNext(s)
    PROVE  ConnectedInv'
<1>1. UNCHANGED <<main_pc, error_code, freed, sender_pc, client_state>> /\ Live(s)
  BY HandlerFrame DEF Base, HandlerNext, Live
<1>2. /\ ~CallsMayFail
      /\ handler_pc \in [Slots -> HandlerPCs]
      /\ send_queue \in Seq(Message)
      /\ to_server \in [Conns -> Seq(Legal)]
  BY DEF OnlyClientsLeave, Base, TypeInv, TypeOK, ThreadsTypeOK, QueueTypeOK, ConnectedInv, Legal
<1>3. AllConnected' <=> AllConnected
  BY <1>1 DEF AllConnected
<1>j. ~JoinedFails(s) /\ UNCHANGED sender_msg
  BY <1>2 DEF HandlerNext, JoinedFails
<1>4. ASSUME AllConnected
      PROVE  /\ ~TerminatesHandlers /\ client_socket[s] \in Handles
             /\ endpoint[client_socket[s]] = owner[s] /\ owner[s] # NoConn
  BY <1>1, <1>4, HandlerSocketOpen, NobodyTerminated
<1>5. AllConnected => /\ "queue" \notin freed
                      /\ IsOpen(client_socket[s]) /\ ~ReceiveMayFail(client_socket[s])
  BY <1>1, <1>4, NobodyUsesFreed, OpenEndsWork DEF Base
<1>6. to_server' \in [Conns -> Seq(Legal)]
  <2>1. CASE UNCHANGED to_server
    BY <1>2, <2>1
  <2>2. ASSUME NEW r \in Requests, ReceiveSucceeds(client_socket[s], r)
        PROVE  to_server' \in [Conns -> Seq(Legal)]
    BY <1>2, <2>2, ReceivedLegal DEF Base
  <2> QED BY <1>j, <2>1, <2>2 DEF HandlerNext, EnqueueWelcome, EnqueueJoined, NotifySender,
             NotifyFails, ReceiveRequest, ReceiveFails, EnqueueLeft, CloseSocket, HandlerTerminated
<1>7. \A i \in DOMAIN send_queue' : send_queue'[i].kind # "freed"
  <2>1. CASE UNCHANGED send_queue
    BY <2>1 DEF ConnectedInv
  <2>2. ASSUME NEW kind \in {"welcome", "joined", "left"}, Enqueue(MessageOf(s, kind))
        PROVE  \A i \in DOMAIN send_queue' : send_queue'[i].kind # "freed"
    <3>1. MessageOf(s, kind) \in Message /\ MessageOf(s, kind).kind = kind
      BY DEF Base, TypeInv, TypeOK, TableTypeOK, MessageOf, Message
    <3>2. /\ send_queue' \in Seq(Message) /\ Len(send_queue) \in Nat
          /\ Len(send_queue') = Len(send_queue) + 1
          /\ \A i \in 1 .. Len(send_queue) : send_queue'[i] = send_queue[i]
          /\ send_queue'[Len(send_queue) + 1] = MessageOf(s, kind)
          /\ DOMAIN send_queue = 1 .. Len(send_queue)
      BY <1>2, <2>2, <3>1, AppendProperties, LenProperties DEF Enqueue
    <3>3. DOMAIN send_queue' = 1 .. Len(send_queue) + 1
      BY <3>2, LenProperties
    <3> QED BY <3>1, <3>2, <3>3 DEF ConnectedInv
  <2> QED BY <1>2, <1>j, <2>1, <2>2 DEF HandlerNext, EnqueueWelcome, EnqueueJoined, NotifySender,
             NotifyFails, ReceiveRequest, ReceiveFails, EnqueueLeft, CloseSocket, HandlerUsesFreed,
             HandlerTerminated, queueVars
<1>8. ASSUME AllConnected
      PROVE  /\ process' = process
             /\ \E pc \in HandlerPCs \ {"done_fail", "killed"} : handler_pc' = [handler_pc EXCEPT ![s] = pc]
  <2>0. /\ handler_pc[s] \in HandlerPCs \ {"done_fail", "killed"}
        /\ handler_pc = [handler_pc EXCEPT ![s] = handler_pc[s]]
    BY <1>1, <1>2 DEF Live, Finished
  <2>1. CASE EnqueueWelcome(s) \/ EnqueueJoined(s) \/ EnqueueLeft(s)
    BY <1>2, <1>5, <1>8, <2>1
    DEF EnqueueWelcome, EnqueueJoined, EnqueueLeft, HandlerUsesFreed, HandlerGoto, HandlerPCs
  <2>2. CASE NotifySender(s)
    BY <2>2 DEF NotifySender, HandlerGoto, HandlerPCs
  <2>3. CASE NotifyFails(s) \/ ReceiveFails(s)
    BY <1>2, <1>5, <1>8, <2>3 DEF NotifyFails, ReceiveFails
  <2>4. ASSUME NEW r \in Requests, ReceiveRequest(s, r)
        PROVE  /\ process' = process
               /\ \E pc \in HandlerPCs \ {"done_fail", "killed"} :
                      handler_pc' = [handler_pc EXCEPT ![s] = pc]
    <3>1. r \in Legal
      BY <1>2, <2>4, ReceivedLegal DEF Base, ReceiveRequest
    <3> QED BY <2>0, <2>4, <3>1 DEF ReceiveRequest, HandlerGoto, HandlerPCs, Legal
  <2>5. CASE CloseSocket(s)
    BY <1>5, <1>8, <2>5 DEF CloseSocket, HandlerGoto, HandlerPCs
  <2>6. ~HandlerTerminated(s)
    BY <1>4, <1>8 DEF HandlerTerminated
  <2> QED BY <1>j, <2>1, <2>2, <2>3, <2>4, <2>5, <2>6 DEF HandlerNext
<1>9. ASSUME AllConnected
      PROVE  /\ process' \notin {"bad_free", "use_after_free"}
             /\ \A t \in Slots : handler_pc'[t] \notin {"done_fail", "killed"}
             /\ TearsDown' => error_code' = "SUCCESS"
  BY <1>1, <1>2, <1>8, <1>9 DEF ConnectedInv, TearsDown
<1>10. freed' # {} => TearsDown'
  BY <1>1 DEF ConnectedInv, TearsDown
<1> QED BY <1>1, <1>3, <1>j, <1>6, <1>7, <1>9, <1>10 DEF ConnectedInv, Legal

\* What main may not do while every client is connected: fail, or find that a
\* handler has.
Unharmed ==
    /\ process' \notin {"bad_free", "use_after_free"}
    /\ \A s \in Slots : handler_pc'[s] \notin {"done_fail", "killed"}
    /\ TearsDown' => error_code' = "SUCCESS"

LEMMA MainUnharmed ==
    ASSUME OnlyClientsLeave, Base, LoginInv, ConnectedInv, AllConnected, MainNext
    PROVE  Unharmed
<1>1. /\ ~CallsMayFail
      /\ process \notin {"bad_free", "use_after_free"}
      /\ \A s \in Slots : handler_pc[s] \notin {"done_fail", "killed"}
      /\ TearsDown => error_code = "SUCCESS"
  BY DEF OnlyClientsLeave, ConnectedInv
<1>2. HandlesConnection => /\ conn \in Conns /\ sock \in Handles /\ endpoint[sock] = conn
                           /\ ~SendMayFail(sock) /\ ~ReceiveMayFail(sock)
  <2>1. HandlesConnection => /\ conn \in Conns /\ conn # NoConn /\ sock \in Handles
                             /\ endpoint[sock] = conn
    BY ConnIsRun DEF Base, SocketInv
  <2> QED BY <2>1, OpenEndsWork DEF Base
<1> USE DEF Unharmed, Goto, TearsDown, HandlesConnection
<1>3. CASE HandleParameters \/ InitializeWinSock2 \/ InitializeServer \/ CreateSenderThread
           \/ InitializeListenerSocket
  BY <1>1, <1>3 DEF HandleParameters, InitializeWinSock2, InitializeServer, CreateSenderThread,
     InitializeListenerSocket
<1>4. ~WaitForEventFails
  BY <1>1 DEF WaitForEventFails
<1>5. ASSUME NEW h \in Handles, AcceptConnection(h) PROVE Unharmed
  BY <1>1, <1>5 DEF AcceptConnection
<1>6. ~AcceptFails
  <2>1. backlog # <<>> => Head(backlog) \in Conns
    BY HeadTailProperties DEF Base, TypeInv, TypeOK, NetTypeOK
  <2> QED BY <2>1 DEF AcceptFails, AllConnected
<1>7. ~LoginReceiveFails
  BY <1>1, <1>2 DEF LoginReceiveFails
<1>8. ASSUME NEW r \in Requests, ReceiveLogin(r) PROVE Unharmed
  <2>1. main_pc = "login" /\ conn \in Conns /\ endpoint[sock] = conn
    BY <1>2, <1>8 DEF ReceiveLogin
  <2>2. LoginAhead(conn)
    BY <2>1 DEF LoginInv
  <2>3. to_server[conn] # <<>> /\ r = Head(to_server[conn])
    BY <1>8, <2>1 DEF ReceiveLogin, ReceiveSucceeds
  <2>4. LoginIsLegal(r)
    BY <2>1, <2>2, <2>3 DEF LoginAhead, OneLogin, LoginIsLegal, OnlyClientsLeave
  <2> QED BY <1>1, <1>8, <2>4 DEF ReceiveLogin
<1>9. CASE LookupUsername
  BY <1>1, <1>9 DEF LookupUsername
<1>10. ~RefuseLogin
  BY DEF RefuseLogin, Base, SocketInv
<1>11. ASSUME NEW s \in Slots, AllocateClientContainer(s) PROVE Unharmed
  BY <1>1, <1>11 DEF AllocateClientContainer
<1>12. CASE NoSlotAvailable
  BY <1>1, <1>12 DEF NoSlotAvailable
<1>13. CASE RefuseNoSlot
  BY <1>1, <1>2, <1>13 DEF RefuseNoSlot, ConnectionHandled
<1>14. CASE StoreSocket
  BY <1>1, <1>14 DEF StoreSocket
<1>15. CASE StoreNameAndStart
  <2>1. /\ handler_pc' = [handler_pc EXCEPT ![new_client_id] = "welcome"]
        /\ process' = process /\ main_pc' = "loop"
    BY <1>1, <1>15 DEF StoreNameAndStart, ConnectionHandled
  <2> QED BY <1>1, <2>1 DEF Base, TypeInv, TypeOK, ThreadsTypeOK
<1>16. ASSUME NEW s \in Slots, HandleThreadFinalization(s) PROVE Unharmed
  <2>1. handler_pc[s] = "done_ok"
    BY <1>1, <1>16 DEF HandleThreadFinalization, ThreadSignalled, Finished
  <2>2. /\ handler_pc' = [handler_pc EXCEPT ![s] = "none"]
        /\ process' = process /\ main_pc' = "loop"
    BY <1>16, <2>1 DEF HandleThreadFinalization, WaitForEvent
  <2> QED BY <1>1, <2>2 DEF Base, TypeInv, TypeOK, ThreadsTypeOK
<1>17. CASE SetExitSender \/ SignalSender \/ JoinSender \/ CloseListener \/ FreeQueue \/ ExitProcess
  BY <1>1, <1>17 DEF SetExitSender, SignalSender, JoinSender, CloseListener, FreeQueue, ExitProcess
<1>18. CASE FreeClients
  <2>1. error_code = "SUCCESS" /\ \A s \in Slots : ~is_valid[s]
    BY <1>1, <1>18 DEF FreeClients, Base, CleanTeardown
  <2> QED BY <1>1, <1>18, <2>1 DEF FreeClients
<1> QED BY <1>3, <1>4, <1>5, <1>6, <1>7, <1>8, <1>9, <1>10, <1>11, <1>12, <1>13, <1>14, <1>15,
           <1>16, <1>17, <1>18 DEF MainNext

LEMMA MainConnected ==
    ASSUME OnlyClientsLeave, Base, LoginInv, ConnectedInv, MainNext
    PROVE  ConnectedInv'
<1>1. /\ UNCHANGED <<client_state, send_queue, sender_msg>> /\ sender_pc' \in {sender_pc, "dequeue"}
      /\ AllConnected' <=> AllConnected
  BY MainFrame DEF AllConnected
<1>2. freed' # {} => TearsDown'
  <2>1. FreeQueue \/ FreeClients => TearsDown'
    BY DEF FreeQueue, FreeClients, Goto, TearsDown
  <2> QED BY <2>1, MainFrame DEF ConnectedInv
<1>3. AllConnected => Unharmed
  BY MainUnharmed
<1>4. to_server' \in [Conns -> Seq(Legal)]
  <2>1. to_server \in [Conns -> Seq(Legal)]
    BY DEF ConnectedInv, Legal
  <2>2. ASSUME NEW r \in Requests, ReceiveLogin(r) PROVE to_server' \in [Conns -> Seq(Legal)]
    BY <2>1, <2>2, ReceivedLegal DEF Base, ReceiveLogin
  <2> QED BY <2>1, <2>2, MainFrame
<1> QED BY <1>1, <1>2, <1>3, <1>4 DEF ConnectedInv, Unharmed, Legal

-----------------------------------------------------------------------------
(* Every run of the server                                                  *)

LEMMA ConnectedStep ==
    ASSUME OnlyClientsLeave
    PROVE  Base /\ LoginInv /\ ConnectedInv /\ [Next]_vars => ConnectedInv'
<1> SUFFICES ASSUME Base, LoginInv, ConnectedInv, [Next]_vars PROVE ConnectedInv'
  OBVIOUS
<1>1. CASE UNCHANGED vars
  BY <1>1 DEF vars, netVars, queueVars, senderVars, ConnectedInv, AllConnected, TearsDown
<1>2. CASE Next
  BY <1>1, <1>2, MainConnected, SenderConnected, HandlerConnected, ClientConnected
  DEF Next, Terminated
<1> QED BY <1>1, <1>2

LEMMA ConnectedInit == Init => ConnectedInv
<1> SUFFICES ASSUME Init PROVE ConnectedInv
  OBVIOUS
<1>1. to_server \in [Conns -> Seq(Legal)]
  BY EmptySeq DEF Init
<1>2. DOMAIN send_queue = {}
  BY EmptySeq DEF Init
<1> QED BY <1>1, <1>2 DEF Init, ConnectedInv, TearsDown, Legal

\* When no call fails, no command is unknown and no name is refused, it takes
\* a client that leaves for main to free what the handlers and the sender
\* still use (Server.c:287), or for a handler to free what it never had
\* (ClientHandler.c:121).
THEOREM SoundUntilOneLeaves ==
    ASSUME OnlyClientsLeave
    PROVE  Spec => []SoundWhileConnected
<1>1. NoRefusals
  BY DEF OnlyClientsLeave
<1>2. ConnectedInv => SoundWhileConnected
  BY DEF ConnectedInv, SoundWhileConnected, AllConnected
<1>3. Base /\ LoginInv /\ ConnectedInv /\ [Next]_vars => ConnectedInv'
  BY ConnectedStep
<1>4. (Spec => []Base) /\ (Spec => []LoginInv)
  BY <1>1, BaseInvariant, LoginInvariant
<1> QED BY <1>2, <1>3, <1>4, ConnectedInit, PTL DEF Spec
=============================================================================

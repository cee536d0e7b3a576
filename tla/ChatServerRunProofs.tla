------------------------ MODULE ChatServerRunProofs ------------------------
(* Which client run a slot, a message and a socket belong to: the order of  *)
(* the messages about a run, and the sockets of the handlers.               *)
EXTENDS ChatServerProofs

-----------------------------------------------------------------------------
(* A run connects once                                                      *)

\* What is left of a sequence without repetitions when its head is taken.
LEMMA TailOfDistinct ==
    ASSUME NEW S, NEW q \in Seq(S), q # <<>>,
           \A i, j \in DOMAIN q : q[i] = q[j] => i = j
    PROVE  /\ \A i, j \in DOMAIN Tail(q) : Tail(q)[i] = Tail(q)[j] => i = j
           /\ \A x : (\E i \in DOMAIN Tail(q) : Tail(q)[i] = x)
                         <=> (\E i \in DOMAIN q : q[i] = x) /\ x # Head(q)
<1>1. /\ Len(q) \in Nat \ {0} /\ DOMAIN q = 1 .. Len(q)
      /\ Head(q) = q[1]
  BY EmptySeq, LenProperties, HeadTailProperties
<1>2. /\ DOMAIN Tail(q) = 1 .. Len(q) - 1
      /\ \A i \in 1 .. Len(q) - 1 : Tail(q)[i] = q[i + 1]
  <2>1. Tail(q) \in Seq(S) /\ Len(Tail(q)) = Len(q) - 1
        /\ \A i \in 1 .. Len(Tail(q)) : Tail(q)[i] = q[i + 1]
    BY HeadTailProperties
  <2> QED BY <2>1, LenProperties
<1>3. ASSUME NEW i \in DOMAIN Tail(q), NEW j \in DOMAIN Tail(q), Tail(q)[i] = Tail(q)[j]
      PROVE  i = j
  BY <1>1, <1>2, <1>3
<1>4. ASSUME NEW i \in DOMAIN Tail(q)
      PROVE  (\E k \in DOMAIN q : q[k] = Tail(q)[i]) /\ Tail(q)[i] # Head(q)
  <2>1. i + 1 \in DOMAIN q /\ q[i + 1] = Tail(q)[i] /\ i + 1 # 1 /\ 1 \in DOMAIN q
    BY <1>1, <1>2
  <2> QED BY <1>1, <2>1
<1>5. ASSUME NEW i \in DOMAIN q, q[i] # Head(q)
      PROVE  \E k \in DOMAIN Tail(q) : Tail(q)[k] = q[i]
  <2>1. i - 1 \in DOMAIN Tail(q) /\ (i - 1) + 1 = i
    BY <1>1, <1>2, <1>5
  <2> QED BY <1>2, <2>1
<1> QED BY <1>3, <1>4, <1>5

\* The connection at the head of the backlog is taken once.
LEMMA BacklogTaken ==
    ASSUME TypeInv, BacklogInv, backlog # <<>>, backlog' = Tail(backlog),
           client_state' = client_state
    PROVE  /\ BacklogInv' /\ Fresh' \subseteq Fresh
           /\ Head(backlog) \in Fresh \ Fresh'
<1> USE DEF BacklogInv, Fresh, InBacklog
<1>1. backlog \in Seq(Conns) /\ DOMAIN backlog = 1 .. Len(backlog) /\ Len(backlog) \in Nat
  BY LenProperties DEF TypeInv, TypeOK, NetTypeOK
<1>2. Head(backlog) \in Conns /\ \E i \in DOMAIN backlog : backlog[i] = Head(backlog)
  <2>1. Head(backlog) = backlog[1] /\ 1 \in DOMAIN backlog
    BY <1>1, EmptySeq, HeadTailProperties
  <2> QED BY <1>1, <2>1, ElementOfSeq
<1>3. /\ \A i, j \in DOMAIN backlog' : backlog'[i] = backlog'[j] => i = j
      /\ \A c : (\E i \in DOMAIN backlog' : backlog'[i] = c)
                    <=> (\E i \in DOMAIN backlog : backlog[i] = c) /\ c # Head(backlog)
  <2>1. \A i, j \in DOMAIN backlog : backlog[i] = backlog[j] => i = j
    OBVIOUS
  <2> PICK q : q = backlog
    OBVIOUS
  <2>2. q \in Seq(Conns) /\ q # <<>> /\ \A i, j \in DOMAIN q : q[i] = q[j] => i = j
    BY <1>1, <2>1
  <2>3. /\ \A i, j \in DOMAIN Tail(q) : Tail(q)[i] = Tail(q)[j] => i = j
        /\ \A c : (\E i \in DOMAIN Tail(q) : Tail(q)[i] = c)
                      <=> (\E i \in DOMAIN q : q[i] = c) /\ c # Head(q)
    BY ONLY <2>2, TailOfDistinct, Zenon
  <2> QED BY <2>3
<1>4. client_state[Head(backlog)] # "idle"
  BY <1>2
<1> QED BY <1>2, <1>3, <1>4

\* A client joins the backlog once.
LEMMA BacklogJoined ==
    ASSUME TypeInv, BacklogInv, NEW c \in Conns, ConnectToServer(c)
    PROVE  BacklogInv' /\ Fresh' \subseteq Fresh
<1> USE DEF BacklogInv, Fresh, InBacklog
<1>1. /\ backlog \in Seq(Conns) /\ DOMAIN backlog = 1 .. Len(backlog) /\ Len(backlog) \in Nat
      /\ client_state \in [Conns -> ClientStates]
  BY LenProperties DEF TypeInv, TypeOK, NetTypeOK
<1>2. /\ client_state[c] = "idle" /\ backlog' = Append(backlog, c)
      /\ client_state' = [client_state EXCEPT ![c] = "connected"]
  BY DEF ConnectToServer, ClientGoto
<1>3. /\ DOMAIN backlog' = 1 .. Len(backlog) + 1
      /\ backlog'[Len(backlog) + 1] = c
      /\ \A i \in 1 .. Len(backlog) : backlog'[i] = backlog[i]
  <2>1. /\ backlog' \in Seq(Conns) /\ Len(backlog') = Len(backlog) + 1
        /\ \A i \in 1 .. Len(backlog) : backlog'[i] = backlog[i]
        /\ backlog'[Len(backlog) + 1] = c
    BY <1>1, <1>2, AppendProperties
  <2> QED BY <2>1, LenProperties
<1>4. \A i \in DOMAIN backlog : backlog[i] # c
  BY <1>2
<1>5. \A i \in DOMAIN backlog' : i = Len(backlog) + 1 \/ i \in DOMAIN backlog
  BY <1>1, <1>3
<1>6. \A i, j \in DOMAIN backlog' : backlog'[i] = backlog'[j] => i = j
  BY <1>1, <1>3, <1>4, <1>5
<1>7. \A d : (\E i \in DOMAIN backlog' : backlog'[i] = d)
                 <=> d = c \/ \E i \in DOMAIN backlog : backlog[i] = d
  BY <1>1, <1>3, <1>5
<1>8. \A d \in Conns : client_state'[d] = IF d = c THEN "connected" ELSE client_state[d]
  BY <1>1, <1>2
<1> QED BY <1>2, <1>6, <1>7, <1>8

\* The runs main has not seen only become fewer.
LEMMA BacklogStep ==
    ASSUME TypeInv, BacklogInv, [Next]_vars
    PROVE  BacklogInv' /\ Fresh' \subseteq Fresh
<1>1. ASSUME UNCHANGED <<backlog, client_state>> PROVE BacklogInv' /\ Fresh' \subseteq Fresh
  BY <1>1 DEF BacklogInv, Fresh, InBacklog
<1>2. CASE SenderNext \/ UNCHANGED vars
  BY <1>1, <1>2 DEF SenderNext, vars, netVars
<1>3. ASSUME NEW s \in Slots, HandlerNext(s) PROVE BacklogInv' /\ Fresh' \subseteq Fresh
  BY <1>1, <1>3 DEF HandlerNext
<1>4. ASSUME NEW c \in Conns, LoginNext(c) \/ ClientNext(c)
      PROVE  BacklogInv' /\ Fresh' \subseteq Fresh
  <2>1. CASE ConnectToServer(c)
    BY <2>1, BacklogJoined
  <2>2. CASE ~ConnectToServer(c)
    <3>1. /\ UNCHANGED backlog /\ client_state[c] # "idle"
          /\ \E st : st # "idle" /\ client_state' = [client_state EXCEPT ![c] = st]
      BY <1>4, <2>2 DEF LoginNext, ClientNext, SendLogin, ReceiveLoginResponse, SendUserMessage,
                        CloseClient, ClientGoto
    <3>2. client_state \in [Conns -> ClientStates]
      BY DEF TypeInv, TypeOK, NetTypeOK
    <3> QED BY <3>1, <3>2 DEF BacklogInv, Fresh, InBacklog
  <2> QED BY <2>1, <2>2
<1>5. CASE MainNext
  <2>1. UNCHANGED client_state
    BY <1>5 DEF MainNext, HandleParameters, InitializeWinSock2, InitializeServer, CreateSenderThread,
       InitializeListenerSocket, WaitForEventFails, AcceptConnection, AcceptFails, LoginReceiveFails,
       ReceiveLogin, LookupUsername, RefuseLogin, AllocateClientContainer, NoSlotAvailable,
       RefuseNoSlot, StoreSocket, StoreNameAndStart, HandleThreadFinalization, SetExitSender,
       SignalSender, JoinSender, CloseListener, FreeQueue, FreeClients, ExitProcess, netVars
  <2>2. \/ UNCHANGED backlog
        \/ backlog # <<>> /\ backlog' = Tail(backlog)
        \/ backlog' = <<>>
    BY <1>5 DEF MainNext, HandleParameters, InitializeWinSock2, InitializeServer, CreateSenderThread,
       InitializeListenerSocket, WaitForEventFails, AcceptConnection, AcceptFails, LoginReceiveFails,
       ReceiveLogin, LookupUsername, RefuseLogin, AllocateClientContainer, NoSlotAvailable,
       RefuseNoSlot, StoreSocket, StoreNameAndStart, HandleThreadFinalization, SetExitSender,
       SignalSender, JoinSender, CloseListener, FreeQueue, FreeClients, ExitProcess, netVars
  <2>3. CASE backlog' = <<>>
    <3>1. DOMAIN backlog' = {}
      BY <2>3, EmptySeq
    <3> QED BY <2>1, <3>1 DEF BacklogInv, Fresh, InBacklog
  <2> QED BY <1>1, <2>1, <2>2, <2>3, BacklogTaken
<1> QED BY <1>2, <1>3, <1>4, <1>5 DEF Next, Terminated

LEMMA BacklogInvariant == Spec => []BacklogInv
<1>1. Init => BacklogInv
  BY EmptySeq DEF Init, BacklogInv, InBacklog
<1>2. TypeInv /\ BacklogInv /\ [Next]_vars => BacklogInv'
  BY BacklogStep
<1> QED BY <1>1, <1>2, TypeInvariant, PTL DEF Spec

-----------------------------------------------------------------------------
(* A run owns one slot                                                      *)

LEMMA ConnIsRun ==
    ASSUME TypeInv, HandlesConnection
    PROVE  conn \in Conns /\ conn # NoConn /\ sock \in Handles
BY SentinelAssumption DEF TypeInv, LocalsInv

LEMMA OwnerStep == TypeInv /\ SlotInv /\ BacklogInv /\ OwnerInv /\ [Next]_vars => OwnerInv'
<1> SUFFICES ASSUME TypeInv, SlotInv, BacklogInv, OwnerInv, [Next]_vars PROVE OwnerInv'
  OBVIOUS
<1>f. Fresh' \subseteq Fresh
  BY BacklogStep
<1>t. /\ is_valid \in [Slots -> BOOLEAN]
      /\ owner \in [Slots -> Conns \cup {NoConn}]
      /\ handler_pc \in [Slots -> HandlerPCs]
      /\ new_client_id \in Slots
      /\ NoConn \notin Fresh'
  BY SentinelAssumption DEF TypeInv, TypeOK, MainTypeOK, TableTypeOK, ThreadsTypeOK, Fresh
<1>c. HandlesConnection => conn # NoConn
  BY ConnIsRun
<1> USE DEF OwnerInv, HandlesConnection
<1>1. CASE SenderNext \/ (\E c \in Conns : LoginNext(c) \/ ClientNext(c)) \/ UNCHANGED vars
  BY <1>1, <1>f, OthersFrame DEF localVars, tableVars
<1>2. ASSUME NEW s \in Slots, HandlerNext(s) PROVE OwnerInv'
  BY <1>2, <1>f, <1>t, HandlerFrame DEF localVars, tableVars
<1>3. CASE MainNext
  <2> USE DEF Goto, tableVars, localVars
  <2>0. CASE HandleParameters \/ InitializeWinSock2 \/ InitializeServer \/ WaitForEventFails
    BY <1>f, <2>0 DEF HandleParameters, InitializeWinSock2, InitializeServer, ExitWith,
       WaitForEventFails, WaitForEvent, Fail
  <2>1. CASE CreateSenderThread \/ InitializeListenerSocket
    BY <1>f, <2>1 DEF CreateSenderThread, InitializeListenerSocket, Fail
  <2>2. ASSUME NEW h \in Handles, AcceptConnection(h) PROVE OwnerInv'
    <3>1. conn' = Head(backlog) /\ Head(backlog) \in Fresh \ Fresh'
      BY <2>2, BacklogTaken DEF AcceptConnection
    <3> QED BY <1>f, <2>2, <3>1 DEF AcceptConnection, WaitForEvent
  <2>3. CASE AcceptFails \/ LoginReceiveFails
    BY <1>f, <1>t, <2>3 DEF AcceptFails, LoginReceiveFails, ConnectionFails, Fail, DropLocals, WaitForEvent
  <2>4. ASSUME NEW r \in Requests, ReceiveLogin(r) PROVE OwnerInv'
    BY <1>f, <1>t, <2>4 DEF ReceiveLogin, ConnectionFails, Fail, DropLocals
  <2>5. CASE LookupUsername
    BY <1>f, <2>5 DEF LookupUsername
  <2>6. CASE RefuseLogin \/ RefuseNoSlot
    BY <1>f, <1>t, <2>6 DEF RefuseLogin, RefuseNoSlot, ConnectionFails, ConnectionHandled, Fail, DropLocals
  <2>7. ASSUME NEW s \in Slots, AllocateClientContainer(s) PROVE OwnerInv'
    BY <1>f, <1>t, <2>7 DEF AllocateClientContainer, FirstInvalid
  <2>8. CASE NoSlotAvailable
    BY <1>f, <2>8 DEF NoSlotAvailable
  <2>9. CASE StoreSocket
    BY <1>c, <1>f, <1>t, <2>9 DEF StoreSocket, SlotInv, StoresClient
  <2>10. CASE StoreNameAndStart
    BY <1>c, <1>f, <1>t, <2>10 DEF StoreNameAndStart, ConnectionFails, ConnectionHandled, Fail, DropLocals
  <2>11. ASSUME NEW s \in Slots, HandleThreadFinalization(s) PROVE OwnerInv'
    BY <1>f, <1>t, <2>11 DEF HandleThreadFinalization, WaitForEvent, ResetClient, Fail
  <2>12. CASE SetExitSender \/ SignalSender \/ JoinSender \/ CloseListener \/ FreeQueue \/ ExitProcess
    BY <1>f, <2>12 DEF SetExitSender, SignalSender, JoinSender, CloseListener, FreeQueue, ExitProcess
  <2>13. CASE FreeClients
    BY <1>f, <1>t, <2>13 DEF FreeClients
  <2> QED BY <1>3, <2>0, <2>1, <2>2, <2>3, <2>4, <2>5, <2>6, <2>7, <2>8, <2>9, <2>10, <2>11, <2>12,
             <2>13 DEF MainNext
<1> QED BY <1>1, <1>2, <1>3 DEF Next, Terminated

LEMMA OwnerInvariant == Spec => []OwnerInv
<1>1. Init => OwnerInv
  <2> SUFFICES ASSUME Init PROVE OwnerInv
    OBVIOUS
  <2>1. NoConn \notin Fresh
    BY SentinelAssumption DEF Fresh
  <2> QED BY <2>1 DEF Init, OwnerInv, HandlesConnection
<1> QED BY <1>1, OwnerStep, TypeInvariant, SlotInvariant, BacklogInvariant, PTL DEF Spec

-----------------------------------------------------------------------------
(* The order of messages                                                    *)

\* A message appended to the queue comes after those it may follow.
LEMMA OrderedAppend ==
    ASSUME NEW pre \in Seq(Message), NEW q \in Seq(Message), NEW m \in Message, Ordered(pre \o q),
           \A i \in DOMAIN (pre \o q) :
               (pre \o q)[i].by = m.by => Precedes((pre \o q)[i].kind, m.kind)
    PROVE  Ordered(pre \o Append(q, m))
<1> DEFINE p == pre \o q
           r == pre \o Append(q, m)
<1>1. p \in Seq(Message) /\ Len(p) \in Nat /\ DOMAIN p = 1 .. Len(p)
  BY ConcatProperties, LenProperties
<1>2. r = Append(p, m)
  <2>1. Append(q, m) = q \o <<m>> /\ Append(p, m) = p \o <<m>> /\ <<m>> \in Seq(Message)
    BY <1>1, AppendIsConcat
  <2>2. pre \o (q \o <<m>>) = (pre \o q) \o <<m>>
    BY <2>1, ConcatAssociative
  <2> QED BY <2>1, <2>2
<1>3. /\ r \in Seq(Message) /\ Len(r) = Len(p) + 1
      /\ \A i \in 1 .. Len(p) : r[i] = p[i]
      /\ r[Len(p) + 1] = m
  BY <1>1, <1>2, AppendProperties
<1>4. DOMAIN r = 1 .. Len(p) + 1
  BY <1>3, LenProperties
<1>5. /\ \A i, j \in DOMAIN p : i < j /\ p[i].by = p[j].by => Precedes(p[i].kind, p[j].kind)
      /\ \A i \in DOMAIN p : p[i].by = m.by => Precedes(p[i].kind, m.kind)
  BY DEF Ordered
<1> HIDE DEF p, r
<1>6. ASSUME NEW i \in DOMAIN r, NEW j \in DOMAIN r, i < j, r[i].by = r[j].by
      PROVE  Precedes(r[i].kind, r[j].kind)
  <2>1. i \in DOMAIN p /\ r[i] = p[i]
    BY <1>1, <1>3, <1>4, <1>6
  <2>2. CASE j = Len(p) + 1
    BY <1>3, <1>5, <1>6, <2>1, <2>2
  <2>3. CASE j \in DOMAIN p
    BY <1>1, <1>3, <1>5, <1>6, <2>1, <2>3
  <2> QED BY <1>1, <1>4, <2>2, <2>3
<1>7. Ordered(r)
  BY <1>6 DEF Ordered
<1> QED BY <1>7 DEF r

\* What a message may be once a handler has freed its welcome.
MayBeFreed(m, f) ==
    /\ f.by = m.by
    /\ f.kind = m.kind \/ (m.kind = "welcome" /\ f.kind = "freed")

\* Freed welcome messages stay where they are.
LEMMA OrderedFreed ==
    ASSUME NEW a \in Seq(Message), NEW b \in Seq(Message), Ordered(a), Len(b) = Len(a),
           \A i \in 1 .. Len(a) : MayBeFreed(a[i], b[i])
    PROVE  Ordered(b)
<1>1. DOMAIN a = 1 .. Len(a) /\ DOMAIN b = DOMAIN a
  BY LenProperties
<1>2. \A i, j \in DOMAIN a : i < j /\ a[i].by = a[j].by => Precedes(a[i].kind, a[j].kind)
  BY DEF Ordered
<1>3. \A i \in DOMAIN a :
          /\ b[i].by = a[i].by
          /\ b[i].kind = a[i].kind \/ (a[i].kind = "welcome" /\ b[i].kind = "freed")
  BY <1>1 DEF MayBeFreed
<1>4. \A k, l : Precedes(k, l) => l # "welcome" /\ (k = "welcome" => Precedes("freed", l))
  BY DEF Precedes
<1>5. ASSUME NEW i \in DOMAIN b, NEW j \in DOMAIN b, i < j, b[i].by = b[j].by
      PROVE  Precedes(b[i].kind, b[j].kind)
  <2>1. Precedes(a[i].kind, a[j].kind)
    BY <1>1, <1>2, <1>3, <1>5
  <2> QED BY <1>1, <1>3, <1>4, <2>1
<1> QED BY <1>5 DEF Ordered

\* The same with the message in the hands of the sender before the queue.
LEMMA OrderedFreedAhead ==
    ASSUME NEW m \in Message, NEW f \in Message, NEW q \in Seq(Message), NEW r \in Seq(Message),
           Ordered(<<m>> \o q), MayBeFreed(m, f), Len(r) = Len(q),
           \A i \in 1 .. Len(q) : MayBeFreed(q[i], r[i])
    PROVE  Ordered(<<f>> \o r)
<1> DEFINE a == <<m>> \o q
           b == <<f>> \o r
<1>1. /\ <<m>> \in Seq(Message) /\ Len(<<m>>) = 1 /\ <<m>>[1] = m
      /\ <<f>> \in Seq(Message) /\ Len(<<f>>) = 1 /\ <<f>>[1] = f
      /\ Len(q) \in Nat
  BY LenProperties
<1>2. /\ a \in Seq(Message) /\ Len(a) = 1 + Len(q)
      /\ \A i \in 1 .. 1 + Len(q) : a[i] = IF i <= 1 THEN <<m>>[i] ELSE q[i - 1]
  BY <1>1, ConcatProperties
<1>3. /\ b \in Seq(Message) /\ Len(b) = 1 + Len(q)
      /\ \A i \in 1 .. 1 + Len(q) : b[i] = IF i <= 1 THEN <<f>>[i] ELSE r[i - 1]
  BY <1>1, ConcatProperties
<1> HIDE DEF a, b
<1>4. ASSUME NEW i \in 1 .. Len(a) PROVE MayBeFreed(a[i], b[i])
  <2>1. CASE i = 1
    <3>1. a[i] = m /\ b[i] = f
      BY <1>1, <1>2, <1>3, <2>1
    <3> QED BY <3>1
  <2>2. CASE i # 1
    <3>1. i - 1 \in 1 .. Len(q) /\ a[i] = q[i - 1] /\ b[i] = r[i - 1]
      BY <1>1, <1>2, <1>3, <2>2
    <3> QED BY <3>1
  <2> QED BY <2>1, <2>2
<1>5. Ordered(a)
  BY DEF a
<1>6. Ordered(b)
  BY <1>2, <1>3, <1>4, <1>5, OrderedFreed
<1> QED BY <1>6 DEF b

\* The oldest message may go.
LEMMA OrderedTail ==
    ASSUME NEW m \in Message, NEW q \in Seq(Message), Ordered(<<m>> \o q)
    PROVE  Ordered(q)
<1> DEFINE p == <<m>> \o q
<1>1. /\ Len(q) \in Nat /\ DOMAIN q = 1 .. Len(q) /\ DOMAIN p = 1 .. Len(q) + 1
      /\ \A i \in 1 .. Len(q) : p[i + 1] = q[i]
  <2>1. <<m>> \in Seq(Message) /\ Len(<<m>>) = 1
    OBVIOUS
  <2>2. Len(q) \in Nat /\ DOMAIN q = 1 .. Len(q)
    BY LenProperties
  <2>3. /\ p \in Seq(Message) /\ Len(p) = 1 + Len(q)
        /\ \A i \in 1 .. 1 + Len(q) : p[i] = IF i <= 1 THEN <<m>>[i] ELSE q[i - 1]
    BY <2>1, ConcatProperties
  <2>4. DOMAIN p = 1 .. Len(q) + 1
    BY <2>2, <2>3, LenProperties
  <2> HIDE DEF p
  <2>5. ASSUME NEW i \in 1 .. Len(q) PROVE p[i + 1] = q[i]
    <3>1. i + 1 \in 1 .. 1 + Len(q) /\ (i + 1) - 1 = i /\ ~(i + 1 <= 1)
      BY <2>2
    <3> QED BY <2>3, <3>1
  <2> QED BY <2>2, <2>4, <2>5
<1>2. \A i, j \in DOMAIN p : i < j /\ p[i].by = p[j].by => Precedes(p[i].kind, p[j].kind)
  BY DEF Ordered
<1> HIDE DEF p
<1>3. ASSUME NEW i \in DOMAIN q, NEW j \in DOMAIN q, i < j, q[i].by = q[j].by
      PROVE  Precedes(q[i].kind, q[j].kind)
  <2>1. i + 1 \in DOMAIN p /\ j + 1 \in DOMAIN p /\ i + 1 < j + 1
    BY <1>1, <1>3
  <2>2. p[i + 1] = q[i] /\ p[j + 1] = q[j]
    BY <1>1
  <2> QED BY <1>2, <1>3, <2>1, <2>2
<1> QED BY <1>3 DEF Ordered

\* Whoever a message in the queue is about, it stays in its place: a step
\* gives a slot to no run that was spoken of, and takes back nothing said.
LEMMA OwnersKept ==
    ASSUME TypeInv, SlotInv, BacklogInv, OwnerInv, [Next]_vars
    PROVE  /\ conn' \in Fresh \cup {conn, NoConn}
           /\ \A s \in Slots : owner'[s] \in {owner[s], NoConn, conn}
           /\ \A s \in Slots : owner'[s] = owner[s] /\ owner[s] # NoConn =>
                  handler_pc'[s] = handler_pc[s] \/ Said[s] \subseteq Said'[s]
<1> DEFINE Kept == /\ conn' \in Fresh \cup {conn, NoConn}
                   /\ \A s \in Slots : owner'[s] \in {owner[s], NoConn, conn}
                   /\ \A s \in Slots : owner'[s] = owner[s] /\ owner[s] # NoConn =>
                          handler_pc'[s] = handler_pc[s] \/ Said[s] \subseteq Said'[s]
<1>t. /\ owner \in [Slots -> Conns \cup {NoConn}]
      /\ handler_pc \in [Slots -> HandlerPCs]
      /\ new_client_id \in Slots
  BY DEF TypeInv, TypeOK, MainTypeOK, TableTypeOK, ThreadsTypeOK
<1>1. CASE SenderNext \/ (\E c \in Conns : LoginNext(c) \/ ClientNext(c)) \/ UNCHANGED vars
  BY <1>1, OthersFrame DEF localVars, tableVars
<1>2. ASSUME NEW s \in Slots, HandlerNext(s) PROVE Kept
  <2>1. UNCHANGED <<localVars, tableVars>>
    BY <1>2, HandlerFrame
  <2>2. ASSUME NEW t \in Slots, handler_pc'[t] # handler_pc[t] PROVE Said[t] \subseteq Said'[t]
    <3>1. t = s
      BY <1>2, <1>t, <2>2, HandlerFrame
    <3>2. \/ handler_pc[s] = "welcome"
          \/ handler_pc[s] = "joined" /\ handler_pc'[s] \in {"notify_login", "done_fail"}
          \/ handler_pc[s] = "notify_login" /\ handler_pc'[s] \in {"receive", "done_fail"}
          \/ handler_pc[s] = "receive" /\ handler_pc'[s] \in {"left", "done_fail"}
          \/ handler_pc[s] = "left" /\ handler_pc'[s] \in {"notify_quit", "done_fail"}
          \/ handler_pc[s] = "notify_quit" /\ handler_pc'[s] \in {"close", "done_fail"}
          \/ handler_pc[s] = "close" /\ handler_pc'[s] \in {"done_ok", "done_fail"}
          \/ handler_pc'[s] = "killed"
      BY <1>2, <1>t, <2>2, <3>1
      DEF HandlerNext, EnqueueWelcome, EnqueueJoined, NotifySender, NotifyFails, ReceiveRequest,
          ReceiveFails, EnqueueLeft, CloseSocket, HandlerFails, HandlerUsesFreed, JoinedFails,
          HandlerTerminated, HandlerGoto
    <3> QED BY <3>1, <3>2 DEF Said
  <2> QED BY <2>1, <2>2 DEF localVars, tableVars
<1>3. CASE MainNext
  <2>1. ASSUME NEW h \in Handles, AcceptConnection(h) PROVE Kept
    <3>1. conn' = Head(backlog) /\ Head(backlog) \in Fresh
      BY <2>1, BacklogTaken DEF AcceptConnection
    <3> QED BY <2>1, <3>1 DEF AcceptConnection, tableVars
  <2>2. CASE StoreSocket
    BY <1>t, <2>2 DEF StoreSocket, localVars
  <2>3. CASE StoreNameAndStart
    <3>1. /\ UNCHANGED owner /\ conn' \in {conn, NoConn}
          /\ \/ UNCHANGED handler_pc
             \/ handler_pc' = [handler_pc EXCEPT ![new_client_id] = "welcome"]
      BY <2>3 DEF StoreNameAndStart, ConnectionFails, ConnectionHandled, DropLocals
    <3>2. handler_pc[new_client_id] = "none"
      BY <2>3 DEF StoreNameAndStart, SlotInv, StoresClient
    <3> QED BY <1>t, <3>1, <3>2 DEF Said
  <2>4. ASSUME NEW s \in Slots, HandleThreadFinalization(s) PROVE Kept
    BY <1>t, <2>4 DEF HandleThreadFinalization, ResetClient, localVars, tableVars
  <2>5. CASE FreeClients
    BY <2>5 DEF FreeClients, localVars, tableVars
  <2>6. CASE ~(StoreSocket \/ StoreNameAndStart \/ FreeClients)
             /\ (\A h \in Handles : ~AcceptConnection(h))
             /\ (\A s \in Slots : ~HandleThreadFinalization(s))
    <3>1. UNCHANGED <<owner, handler_pc>> /\ conn' \in {conn, NoConn}
      BY <1>3, <2>6 DEF MainNext, HandleParameters, InitializeWinSock2, InitializeServer,
         CreateSenderThread, InitializeListenerSocket, WaitForEventFails, AcceptFails, LoginReceiveFails,
         ReceiveLogin, LookupUsername, RefuseLogin, AllocateClientContainer, NoSlotAvailable,
         RefuseNoSlot, SetExitSender, SignalSender, JoinSender, CloseListener, FreeQueue, ExitProcess,
         ConnectionFails, ConnectionHandled, DropLocals, localVars, tableVars
    <3> QED BY <3>1
  <2> QED BY <2>1, <2>2, <2>3, <2>4, <2>5, <2>6
<1> QED BY <1>1, <1>2, <1>3 DEF Next, Terminated

LEMMA InPlaceKept ==
    ASSUME TypeInv, SlotInv, BacklogInv, OwnerInv, [Next]_vars
    PROVE  InPlace \subseteq InPlace'
<1> SUFFICES ASSUME NEW m \in InPlace PROVE m \in InPlace'
  OBVIOUS
<1>1. m \in Message /\ m.by \notin Fresh \cup {conn, NoConn}
  BY DEF InPlace
<1>2. m.by \notin Fresh' \cup {conn', NoConn}
  BY <1>1, BacklogStep, OwnersKept
<1>3. ASSUME NEW s \in Slots, m.by = owner'[s] PROVE m.kind \in Said'[s]
  <2>1. owner'[s] = owner[s] /\ owner[s] # NoConn
    BY <1>1, <1>3, OwnersKept
  <2>2. m.kind \in Said[s]
    BY <1>3, <2>1 DEF InPlace
  <2>3. handler_pc'[s] = handler_pc[s] => Said'[s] = Said[s]
    BY DEF Said
  <2> QED BY <2>1, <2>2, <2>3, OwnersKept
<1> QED BY <1>1, <1>2, <1>3 DEF InPlace

\* A queued welcome that was freed is where a welcome may be.
LEMMA FreedInPlace ==
    ASSUME TypeInv, NEW m \in InPlace, m.kind = "welcome"
    PROVE  [m EXCEPT !.kind = "freed"] \in InPlace
<1> DEFINE f == [m EXCEPT !.kind = "freed"]
<1>1. m \in Message /\ m.by \notin Fresh \cup {conn, NoConn}
      /\ \A s \in Slots : m.by = owner[s] => m.kind \in Said[s]
  BY DEF InPlace
<1>2. f \in Message /\ f.by = m.by /\ f.kind = "freed"
  BY <1>1 DEF Message
<1>3. \A s \in Slots : "welcome" \in Said[s] => "freed" \in Said[s]
  BY DEF Said
<1> HIDE DEF f
<1>4. f \in InPlace
  BY <1>1, <1>2, <1>3 DEF InPlace
<1> QED BY <1>4 DEF f

\* What a handler may say next comes after all that was said about its run.
SaysNext(s, kind) ==
    \/ handler_pc[s] = "welcome" /\ kind = "welcome"
    \/ handler_pc[s] = "joined" /\ kind = "joined"
    \/ handler_pc[s] = "left" /\ kind = "left"

LEMMA SaysInOrder ==
    ASSUME NEW s \in Slots, NEW kind, SaysNext(s, kind), NEW k \in Said[s]
    PROVE  Precedes(k, kind)
BY DEF SaysNext, Said, Precedes

\* Main and the clients leave the queue and the sender's message alone.
LEMMA OrderMain ==
    ASSUME TypeInv, OrderInv, InPlace \subseteq InPlace',
           MainNext \/ (\E c \in Conns : LoginNext(c) \/ ClientNext(c)) \/ UNCHANGED vars
    PROVE  OrderInv'
<1>1. UNCHANGED <<send_queue, sender_msg>>
  BY DEF MainNext, HandleParameters, InitializeWinSock2, InitializeServer, CreateSenderThread,
     InitializeListenerSocket, WaitForEventFails, AcceptConnection, AcceptFails, LoginReceiveFails,
     ReceiveLogin, LookupUsername, RefuseLogin, AllocateClientContainer, NoSlotAvailable,
     RefuseNoSlot, StoreSocket, StoreNameAndStart, HandleThreadFinalization, SetExitSender,
     SignalSender, JoinSender, CloseListener, FreeQueue, FreeClients, ExitProcess,
     LoginNext, ClientNext, serverVars, queueVars, senderVars, vars
<1>2. /\ main_pc' \in {"start", "winsock", "initialize", "create_sender"} =>
             main_pc \in {"start", "winsock", "initialize", "create_sender"} /\ sender_pc' = sender_pc
      /\ sender_pc' = sender_pc \/ (main_pc = "create_sender" /\ sender_pc' = "dequeue")
  <2>1. CASE MainNext
    BY <2>1 DEF MainNext, HandleParameters, InitializeWinSock2, InitializeServer, CreateSenderThread,
       InitializeListenerSocket, WaitForEventFails, AcceptConnection, AcceptFails, LoginReceiveFails,
       ReceiveLogin, LookupUsername, RefuseLogin, AllocateClientContainer, NoSlotAvailable,
       RefuseNoSlot, StoreSocket, StoreNameAndStart, HandleThreadFinalization, SetExitSender,
       SignalSender, JoinSender, CloseListener, FreeQueue, FreeClients, ExitProcess, senderVars,
       Goto, ExitWith, Fail, ConnectionFails, ConnectionHandled, WaitForEvent
  <2>2. CASE (\E c \in Conns : LoginNext(c) \/ ClientNext(c)) \/ UNCHANGED vars
    BY <2>2 DEF LoginNext, ClientNext, serverVars, senderVars, vars
  <2> QED BY <2>1, <2>2
<1>3. send_queue \in Seq(InPlace')
  BY SeqMonotonic DEF OrderInv
<1>4. Pipeline' = Pipeline
  BY <1>1 DEF Pipeline
<1> QED BY <1>1, <1>2, <1>3, <1>4 DEF OrderInv, PerRunOrder

LEMMA OrderSender ==
    ASSUME TypeInv, OrderInv, InPlace \subseteq InPlace', SenderNext
    PROVE  OrderInv'
<1>0. UNCHANGED main_pc
  BY DEF SenderNext
<1>t. InPlace \subseteq Message /\ send_queue \in Seq(Message) /\ NoMsg \notin Message
  BY NoMsgAssumption DEF TypeInv, TypeOK, QueueTypeOK, InPlace
<1>s. sender_pc # "off"
  BY DEF SenderNext, SenderDequeue, SenderWait, SenderLock, SenderScan, SenderMatch, SenderSend
<1>1. CASE /\ sender_pc = "dequeue" /\ send_queue # <<>> /\ sender_pc' = "lock"
           /\ sender_msg' = Head(send_queue) /\ send_queue' = Tail(send_queue)
  <2>1. sender_msg = NoMsg
    BY <1>1 DEF OrderInv
  <2>2. Head(send_queue) \in InPlace /\ Tail(send_queue) \in Seq(InPlace)
    BY <1>1, HeadTailProperties DEF OrderInv
  <2>3. Tail(send_queue) \in Seq(InPlace')
    BY <2>2, SeqMonotonic
  <2>4. Pipeline = send_queue
    BY <1>t, <2>1, ConcatEmptySeq DEF Pipeline
  <2>5. Pipeline' = <<Head(send_queue)>> \o Tail(send_queue)
    BY <1>1, <1>t, <2>2 DEF Pipeline
  <2>6. <<Head(send_queue)>> \o Tail(send_queue) = send_queue
    BY <1>1, <1>t, ConcatSimplifications
  <2> QED BY <1>0, <1>1, <1>s, <2>2, <2>3, <2>4, <2>5, <2>6 DEF OrderInv, PerRunOrder
<1>2. CASE sender_msg' = NoMsg /\ send_queue' = send_queue
  <2>1. send_queue \in Seq(InPlace')
    BY SeqMonotonic DEF OrderInv
  <2>2. Pipeline' = send_queue
    BY <1>2, <1>t, ConcatEmptySeq DEF Pipeline
  <2>3. Ordered(send_queue)
    <3>1. CASE sender_msg = NoMsg
      <4>1. Pipeline = send_queue
        BY <1>t, <3>1, ConcatEmptySeq DEF Pipeline
      <4> QED BY <4>1 DEF OrderInv, PerRunOrder
    <3>2. CASE sender_msg # NoMsg
      <4>1. sender_msg \in Message /\ Pipeline = <<sender_msg>> \o send_queue
        BY <1>t, <3>2 DEF OrderInv, Pipeline
      <4> QED BY <1>t, <4>1, OrderedTail DEF OrderInv, PerRunOrder
    <3> QED BY <3>1, <3>2
  <2> QED BY <1>0, <1>2, <1>s, <2>1, <2>2, <2>3 DEF OrderInv, PerRunOrder
<1>3. CASE /\ UNCHANGED <<sender_msg, send_queue>>
           /\ sender_pc' \in {"off", "dequeue", "wait"} => sender_pc \in {"dequeue", "wait"}
  <2>1. send_queue \in Seq(InPlace')
    BY SeqMonotonic DEF OrderInv
  <2>2. Pipeline' = Pipeline
    BY <1>3 DEF Pipeline
  <2> QED BY <1>0, <1>3, <1>s, <2>1, <2>2 DEF OrderInv, PerRunOrder
<1>4. \/ /\ sender_pc = "dequeue" /\ send_queue # <<>> /\ sender_pc' = "lock"
         /\ sender_msg' = Head(send_queue) /\ send_queue' = Tail(send_queue)
      \/ sender_msg' = NoMsg /\ send_queue' = send_queue
      \/ /\ UNCHANGED <<sender_msg, send_queue>>
         /\ sender_pc' \in {"off", "dequeue", "wait"} => sender_pc \in {"dequeue", "wait"}
  BY DEF SenderNext, SenderDequeue, SenderWait, SenderLock, SenderScan, SenderMatch, SenderSend,
         SenderUsesFreed, FindsQueueEmpty
<1> QED BY <1>1, <1>2, <1>3, <1>4

\* What a handler enqueues is in its place, and comes last.
LEMMA OrderEnqueue ==
    ASSUME TypeInv, SlotInv, BacklogInv, OwnerInv, OrderInv, [Next]_vars,
           NEW s \in Slots, HandlerNext(s), UNCHANGED sender_msg,
           NEW kind \in {"welcome", "joined", "left"}, SaysNext(s, kind),
           kind \in Said'[s], send_queue' = Append(send_queue, MessageOf(s, kind))
    PROVE  send_queue' \in Seq(InPlace') /\ PerRunOrder'
<1> DEFINE m == MessageOf(s, kind)
           pre == IF sender_msg = NoMsg THEN <<>> ELSE <<sender_msg>>
<1>t. /\ username \in [Slots -> Names \cup {NoName}]
      /\ owner \in [Slots -> Conns \cup {NoConn}]
      /\ InPlace \subseteq Message /\ send_queue \in Seq(Message)
      /\ UNCHANGED <<conn, owner, sender_msg, main_pc>>
  BY HandlerFrame DEF TypeInv, TypeOK, TableTypeOK, QueueTypeOK, InPlace, localVars, tableVars
<1>1. m \in Message /\ m.by = owner[s] /\ m.kind = kind
  BY <1>t DEF MessageOf, Message
<1>2. /\ owner[s] # NoConn /\ owner[s] \notin Fresh /\ owner[s] # conn
      /\ \A t \in Slots : owner[t] = owner[s] => t = s
  <2>1. handler_pc[s] # "none"
    BY HandlerFrame
  <2>2. ~(main_pc = "store_name" /\ s = new_client_id)
    BY <2>1 DEF SlotInv, StoresClient
  <2> QED BY <2>1, <2>2 DEF OwnerInv
<1> HIDE DEF m
<1>3. m \in InPlace'
  <2>1. m.by \notin Fresh' \cup {conn', NoConn}
    BY <1>1, <1>2, <1>t, BacklogStep
  <2>2. \A t \in Slots : m.by = owner'[t] => m.kind \in Said'[t]
    BY <1>1, <1>2, <1>t
  <2> QED BY <1>1, <2>1, <2>2 DEF InPlace
<1>4. send_queue' \in Seq(InPlace')
  <2>1. send_queue \in Seq(InPlace')
    BY SeqMonotonic, InPlaceKept DEF OrderInv
  <2>2. Append(send_queue, m) \in Seq(InPlace')
    BY <1>3, <2>1, AppendProperties
  <2> QED BY <2>2 DEF m
<1>5. pre \in Seq(Message) /\ pre \in Seq(InPlace) /\ send_queue \in Seq(InPlace)
  <2>1. CASE sender_msg = NoMsg
    BY <2>1, EmptySeq DEF OrderInv
  <2>2. CASE sender_msg # NoMsg
    <3>1. sender_msg \in InPlace /\ pre = <<sender_msg>>
      BY <2>2 DEF OrderInv
    <3> QED BY <1>t, <3>1 DEF OrderInv
  <2> QED BY <2>1, <2>2
<1>6. Pipeline = pre \o send_queue /\ Pipeline' = pre \o Append(send_queue, m)
  BY <1>t DEF Pipeline, m
<1> HIDE DEF pre
<1>7. ASSUME NEW i \in DOMAIN (pre \o send_queue), (pre \o send_queue)[i].by = m.by
      PROVE  Precedes((pre \o send_queue)[i].kind, m.kind)
  <2>1. pre \o send_queue \in Seq(InPlace)
    BY <1>5, ConcatProperties
  <2>2. (pre \o send_queue)[i] \in InPlace
    BY <2>1, ElementOfSeq, LenProperties
  <2>3. (pre \o send_queue)[i].kind \in Said[s]
    BY <1>1, <1>7, <2>2 DEF InPlace
  <2> QED BY <1>1, <2>3, SaysInOrder
<1>8. Ordered(pre \o Append(send_queue, m))
  <2>1. Ordered(pre \o send_queue)
    BY <1>6 DEF OrderInv, PerRunOrder
  <2> QED BY <1>1, <1>5, <1>7, <1>t, <2>1, OrderedAppend
<1> QED BY <1>4, <1>6, <1>8 DEF PerRunOrder

\* Freed or not, a message stays where it may be.
LEMMA AsFreedInPlace ==
    ASSUME TypeInv, NEW s \in Slots, NEW m \in InPlace
    PROVE  AsFreed(s, m) \in InPlace /\ MayBeFreed(m, AsFreed(s, m))
<1>1. m \in Message
  BY DEF InPlace
<1>2. CASE AsFreed(s, m) = m
  BY <1>2 DEF MayBeFreed
<1>3. CASE m.kind = "welcome" /\ AsFreed(s, m) = [m EXCEPT !.kind = "freed"]
  <2>1. [m EXCEPT !.kind = "freed"].by = m.by /\ [m EXCEPT !.kind = "freed"].kind = "freed"
    BY <1>1 DEF Message
  <2> QED BY <1>3, <2>1, FreedInPlace DEF MayBeFreed
<1> QED BY <1>2, <1>3 DEF AsFreed

\* The welcome a handler frees may be in the queue or with the sender.
LEMMA OrderFree ==
    ASSUME TypeInv, SlotInv, BacklogInv, OwnerInv, OrderInv, [Next]_vars,
           NEW s \in Slots, HandlerNext(s), JoinedFails(s)
    PROVE  /\ send_queue' \in Seq(InPlace') /\ PerRunOrder'
           /\ sender_msg' \in InPlace' \cup {NoMsg}
           /\ sender_msg = NoMsg => sender_msg' = NoMsg
<1> DEFINE q == send_queue
           r == [i \in DOMAIN q |-> AsFreed(s, q[i])]
<1>1. q \in Seq(InPlace) /\ q \in Seq(Message) /\ InPlace \subseteq Message
      /\ send_queue' = r /\ sender_msg' = AsFreed(s, sender_msg)
  BY DEF OrderInv, JoinedFails, TypeInv, TypeOK, QueueTypeOK, InPlace
<1>2. Len(q) \in Nat /\ DOMAIN q = 1 .. Len(q) /\ \A i \in 1 .. Len(q) : q[i] \in InPlace
  BY <1>1, LenProperties, ElementOfSeq
<1>3. \A i \in 1 .. Len(q) : r[i] \in InPlace /\ MayBeFreed(q[i], r[i])
  BY <1>2, AsFreedInPlace
<1>4. r \in Seq(InPlace) /\ Len(r) = Len(q)
  <2>1. r \in [1 .. Len(q) -> InPlace]
    BY <1>2, <1>3
  <2> HIDE DEF r, q
  <2> QED BY <1>2, <2>1, SeqDef, LenProperties
<1>5. r \in Seq(Message)
  BY <1>1, <1>4, SeqMonotonic
<1> HIDE DEF r
<1>6. r \in Seq(InPlace')
  BY <1>4, InPlaceKept, SeqMonotonic
<1>7. CASE sender_msg = NoMsg
  <2>1. sender_msg' = NoMsg
    BY <1>1, <1>7 DEF AsFreed
  <2>2. Pipeline = q /\ Pipeline' = r
    BY <1>1, <1>5, <1>7, <2>1, ConcatEmptySeq DEF Pipeline
  <2>3. Ordered(q)
    BY <2>2 DEF OrderInv, PerRunOrder
  <2> HIDE DEF q
  <2>4. Ordered(r)
    BY <1>1, <1>3, <1>4, <1>5, <2>3, OrderedFreed
  <2> QED BY <1>1, <1>6, <2>1, <2>2, <2>4 DEF PerRunOrder
<1>8. CASE sender_msg # NoMsg
  <2>1. sender_msg \in InPlace /\ sender_msg' \in InPlace /\ MayBeFreed(sender_msg, sender_msg')
    BY <1>1, <1>8, AsFreedInPlace DEF OrderInv
  <2>2. sender_msg \in Message /\ sender_msg' \in Message /\ sender_msg' # NoMsg
    BY <1>1, <2>1, NoMsgAssumption
  <2>3. Pipeline = <<sender_msg>> \o q /\ Pipeline' = <<sender_msg'>> \o r
    BY <1>1, <1>8, <2>2 DEF Pipeline
  <2>4. Ordered(<<sender_msg>> \o q)
    BY <2>3 DEF OrderInv, PerRunOrder
  <2> PICK f : f = sender_msg'
    OBVIOUS
  <2> HIDE DEF q
  <2>5. Ordered(<<f>> \o r)
    BY <1>1, <1>3, <1>4, <1>5, <2>1, <2>2, <2>4, OrderedFreedAhead
  <2>6. sender_msg' \in InPlace'
    BY <2>1, InPlaceKept
  <2> QED BY <1>1, <1>6, <1>8, <2>3, <2>5, <2>6 DEF PerRunOrder
<1> QED BY <1>7, <1>8

LEMMA OrderHandler ==
    ASSUME TypeInv, SlotInv, BacklogInv, OwnerInv, OrderInv, [Next]_vars,
           NEW s \in Slots, HandlerNext(s)
    PROVE  OrderInv'
<1>0. UNCHANGED <<main_pc, sender_pc>> /\ InPlace \subseteq InPlace'
  BY InPlaceKept DEF HandlerNext
<1>t. handler_pc \in [Slots -> HandlerPCs]
  BY DEF TypeInv, TypeOK, ThreadsTypeOK
<1>1. CASE JoinedFails(s)
  BY <1>0, <1>1, OrderFree DEF OrderInv
<1>2. CASE UNCHANGED sender_msg
  <2>1. ASSUME send_queue' \in Seq(InPlace'), PerRunOrder' PROVE OrderInv'
    BY <1>0, <1>2, <2>1 DEF OrderInv
  <2>2. CASE UNCHANGED send_queue
    <3>1. send_queue \in Seq(InPlace')
      BY <1>0, SeqMonotonic DEF OrderInv
    <3>2. Pipeline' = Pipeline
      BY <1>2, <2>2 DEF Pipeline
    <3> QED BY <2>1, <2>2, <3>1, <3>2 DEF OrderInv, PerRunOrder
  <2>3. ASSUME NEW kind \in {"welcome", "joined", "left"}, Enqueue(MessageOf(s, kind)),
               SaysNext(s, kind),
               HandlerGoto(s, CASE kind = "welcome" -> "joined"
                                [] kind = "joined" -> "notify_login"
                                [] kind = "left" -> "notify_quit")
        PROVE  OrderInv'
    <3>1. kind \in Said'[s]
      BY <2>3, <1>t DEF HandlerGoto, Said
    <3>2. send_queue' = Append(send_queue, MessageOf(s, kind))
      BY <2>3 DEF Enqueue
    <3> QED BY <1>2, <2>1, <2>3, <3>1, <3>2, OrderEnqueue
  <2>4. CASE EnqueueWelcome(s)
    BY <2>2, <2>3, <2>4 DEF EnqueueWelcome, SaysNext, HandlerUsesFreed
  <2>5. CASE EnqueueJoined(s)
    BY <2>2, <2>3, <2>5 DEF EnqueueJoined, SaysNext, HandlerUsesFreed
  <2>6. CASE EnqueueLeft(s)
    BY <2>2, <2>3, <2>6 DEF EnqueueLeft, SaysNext, HandlerUsesFreed
  <2>7. CASE NotifySender(s) \/ NotifyFails(s) \/ ReceiveFails(s) \/ CloseSocket(s)
             \/ HandlerTerminated(s) \/ \E r \in Requests : ReceiveRequest(s, r)
    BY <2>2, <2>7 DEF NotifySender, NotifyFails, ReceiveFails, CloseSocket, ReceiveRequest,
                      HandlerTerminated, queueVars
  <2> QED BY <1>1, <2>4, <2>5, <2>6, <2>7 DEF HandlerNext
<1> QED BY <1>1, <1>2 DEF HandlerNext

LEMMA OrderInvariant == Spec => []OrderInv
<1>1. Init => OrderInv
  <2> SUFFICES ASSUME Init PROVE OrderInv
    OBVIOUS
  <2>1. Pipeline = <<>>
    BY EmptySeq, ConcatEmptySeq DEF Init, Pipeline
  <2>2. Ordered(<<>>)
    BY EmptySeq DEF Ordered
  <2> QED BY <2>1, <2>2, EmptySeq DEF Init, OrderInv, PerRunOrder
<1>2. TypeInv /\ SlotInv /\ BacklogInv /\ OwnerInv /\ OrderInv /\ [Next]_vars => OrderInv'
  <2> SUFFICES ASSUME TypeInv, SlotInv, BacklogInv, OwnerInv, OrderInv, [Next]_vars
               PROVE  OrderInv'
    OBVIOUS
  <2>1. InPlace \subseteq InPlace'
    BY InPlaceKept
  <2> QED BY <2>1, OrderMain, OrderSender, OrderHandler DEF Next, Terminated
<1> QED BY <1>1, <1>2, TypeInvariant, SlotInvariant, BacklogInvariant, OwnerInvariant, PTL DEF Spec

\* The messages about a run leave in the order welcome, joined, left.
THEOREM RunsAreOrdered == Spec => []PerRunOrder
<1>1. OrderInv => PerRunOrder
  BY DEF OrderInv
<1> QED BY <1>1, OrderInvariant, PTL

-----------------------------------------------------------------------------
(* The sockets of the handlers, when no login is refused                    *)

Live(s) == handler_pc[s] \notin Finished \cup {"none"}

\* No handler reads the socket of a connection main still handles.
LEMMA SocketsApart ==
    ASSUME TypeInv, SlotInv, OwnerInv, SocketInv, HandlesConnection, NEW s \in Slots, Live(s)
    PROVE  client_socket[s] # sock
<1>1. endpoint[sock] = conn /\ conn # NoConn
  BY ConnIsRun DEF SocketInv
<1>2. endpoint[client_socket[s]] \in {owner[s], NoConn}
  BY DEF SocketInv, Live
<1>3. owner[s] # conn
  <2>1. ~(main_pc = "store_name" /\ s = new_client_id)
    BY DEF SlotInv, StoresClient, Live
  <2> QED BY <1>1, <2>1 DEF OwnerInv
<1> QED BY <1>1, <1>2, <1>3

\* The name of a run main handles is free.
LEMMA NameIsFree ==
    ASSUME NoRefusals, TypeInv, OwnerInv, SocketInv, main_pc = "lookup"
    PROVE  GetClientByUsername(UserOf[conn]) = {}
<1> SUFFICES ASSUME NEW s \in Slots, username[s] = UserOf[conn] PROVE FALSE
  BY DEF GetClientByUsername
<1>1. conn \in Conns /\ conn # NoConn
  BY ConnIsRun DEF HandlesConnection
<1>2. UserOf[conn] # NoName
  BY <1>1, ConstantsAssumption, SentinelAssumption
<1>3. owner[s] \in Conns /\ UserOf[owner[s]] = UserOf[conn]
  BY <1>2 DEF SocketInv, TypeInv, TypeOK, TableTypeOK
<1>4. owner[s] = conn
  BY <1>1, <1>3 DEF NoRefusals
<1> QED BY <1>1, <1>4 DEF OwnerInv

LEMMA SocketHandler ==
    ASSUME TypeInv, SlotInv, OwnerInv, SocketInv, NEW s \in Slots, HandlerNext(s)
    PROVE  SocketInv'
<1>t. /\ handler_pc \in [Slots -> HandlerPCs]
      /\ endpoint \in [Handles -> Conns \cup {NoConn}]
      /\ UNCHANGED <<main_pc, localVars, tableVars>>
      /\ Live(s)
      /\ \A t \in Slots : t # s => handler_pc'[t] = handler_pc[t]
  BY HandlerFrame DEF TypeInv, TypeOK, ThreadsTypeOK, NetTypeOK, Live
<1>e. TerminatesHandlers' = TerminatesHandlers /\ TearsDown' = TearsDown
  BY DEF HandlerNext, TerminatesHandlers, TearsDown
<1>1. CASE UNCHANGED endpoint
  BY <1>1, <1>t, <1>e DEF SocketInv, HandlesConnection, localVars, tableVars, Live
<1>2. CASE CloseSocket(s)
  <2>1. /\ endpoint' = [h \in Handles |-> IF h = client_socket[s] THEN NoConn ELSE endpoint[h]]
        /\ handler_pc'[s] \in Finished
    BY <1>2, <1>t DEF CloseSocket, CloseHandles, HandlerGoto, Finished
  <2>2. HandlesConnection => sock \in Handles /\ endpoint'[sock] = endpoint[sock]
    BY <1>t, <2>1, ConnIsRun, SocketsApart
  <2>3. ASSUME NEW t \in Slots, handler_pc'[t] \notin Finished \cup {"none"}
        PROVE  /\ client_socket[t] \in Handles
               /\ \/ endpoint'[client_socket[t]] = owner[t]
                  \/ TerminatesHandlers /\ endpoint'[client_socket[t]] = NoConn
    <3>1. t # s /\ handler_pc[t] \notin Finished \cup {"none"}
      BY <1>t, <2>1, <2>3
    <3>2. /\ client_socket[t] \in Handles
          /\ \/ endpoint[client_socket[t]] = owner[t]
             \/ TerminatesHandlers /\ endpoint[client_socket[t]] = NoConn
      BY <3>1 DEF SocketInv
    <3>3. CASE endpoint[client_socket[t]] = owner[t]
      <4>1. endpoint[client_socket[s]] \in {owner[s], NoConn}
        BY <1>t DEF SocketInv, Live
      <4>2. owner[t] # owner[s] /\ owner[t] # NoConn
        BY <3>1 DEF OwnerInv
      <4> QED BY <2>1, <3>2, <3>3, <4>1, <4>2
    <3>4. CASE TerminatesHandlers /\ endpoint[client_socket[t]] = NoConn
      BY <2>1, <3>2, <3>4
    <3> QED BY <3>2, <3>3, <3>4
  <2> QED BY <1>t, <1>e, <2>2, <2>3 DEF SocketInv, HandlesConnection, localVars, tableVars
<1> QED BY <1>1, <1>2 DEF HandlerNext, EnqueueWelcome, EnqueueJoined, JoinedFails, NotifySender,
   NotifyFails, ReceiveRequest, ReceiveFails, EnqueueLeft, HandlerTerminated

LEMMA SocketStep ==
    ASSUME NoRefusals, TypeInv, SlotInv, BacklogInv, OwnerInv, NameInv, SocketInv, [Next]_vars
    PROVE  SocketInv'
<1>t. /\ client_socket \in [Slots -> Handles \cup {NoSock}]
      /\ username \in [Slots -> Names \cup {NoName}]
      /\ owner \in [Slots -> Conns \cup {NoConn}]
      /\ handler_pc \in [Slots -> HandlerPCs]
      /\ endpoint \in [Handles -> Conns \cup {NoConn}]
      /\ new_client_id \in Slots
  BY DEF TypeInv, TypeOK, MainTypeOK, TableTypeOK, ThreadsTypeOK, NetTypeOK
<1>1. CASE SenderNext \/ (\E c \in Conns : LoginNext(c) \/ ClientNext(c)) \/ UNCHANGED vars
  <2>1. UNCHANGED <<endpoint, main_pc, freed>>
    BY <1>1 DEF SenderNext, LoginNext, ClientNext, serverVars, vars, netVars, queueVars
  <2>2. TerminatesHandlers' = TerminatesHandlers /\ TearsDown' = TearsDown
    BY <2>1 DEF TerminatesHandlers, TearsDown
  <2> QED BY <1>1, <2>1, <2>2, OthersFrame DEF SocketInv, HandlesConnection, localVars, tableVars
<1>2. ASSUME NEW s \in Slots, HandlerNext(s) PROVE SocketInv'
  BY <1>2, SocketHandler
<1>3. CASE MainNext
  <2>a. HandlesConnection \/ main_pc = "loop" => ~TearsDown /\ ~TerminatesHandlers
    BY DEF HandlesConnection, TearsDown, SocketInv
  <2>c. ASSUME HandlesConnection, endpoint' = [h \in Handles |-> IF h = sock THEN NoConn ELSE endpoint[h]],
               UNCHANGED <<handler_pc, client_socket, owner>>
        PROVE  \A s \in Slots : handler_pc'[s] \notin Finished \cup {"none"} =>
                   client_socket'[s] \in Handles /\ endpoint'[client_socket'[s]] = owner'[s]
    BY <2>c, <2>a, SocketsApart DEF SocketInv, Live
  <2>d. CloseHandles({sock}) => endpoint' = [h \in Handles |-> IF h = sock THEN NoConn ELSE endpoint[h]]
    BY DEF CloseHandles
  <2> USE DEF Goto, tableVars, localVars, netVars, queueVars, SocketInv, HandlesConnection,
              TearsDown, TerminatesHandlers
  <2>0. CASE HandleParameters \/ InitializeWinSock2 \/ InitializeServer \/ WaitForEventFails
    BY <2>0 DEF HandleParameters, InitializeWinSock2, InitializeServer, ExitWith,
       WaitForEventFails, WaitForEvent, Fail
  <2>1. CASE CreateSenderThread \/ InitializeListenerSocket
    BY <2>1 DEF CreateSenderThread, InitializeListenerSocket, Fail
  <2>2. ASSUME NEW h \in Handles, AcceptConnection(h) PROVE SocketInv'
    <3>1. ASSUME NEW s \in Slots, handler_pc[s] \notin Finished \cup {"none"}
          PROVE  client_socket[s] # h /\ endpoint[client_socket[s]] = owner[s]
      BY <2>2, <2>a, <3>1 DEF AcceptConnection, WaitForEvent, OwnerInv
    <3>2. main_pc = "loop" /\ ~TerminatesHandlers'
      BY <2>2, <2>a DEF AcceptConnection, WaitForEvent
    <3>3. ASSUME NEW s \in Slots, handler_pc'[s] \notin Finished \cup {"none"}
          PROVE  client_socket'[s] \in Handles /\ endpoint'[client_socket'[s]] = owner'[s]
      BY <1>t, <2>2, <3>1, <3>3 DEF AcceptConnection
    <3>4. /\ main_pc' = "login" /\ sock' = h /\ conn' = Head(backlog)
          /\ endpoint'[h] = Head(backlog) /\ UNCHANGED <<username, owner>>
      BY <1>t, <2>2 DEF AcceptConnection
    <3>5. /\ \A s \in Slots : username'[s] # NoName =>
                 owner'[s] # NoConn /\ username'[s] = UserOf[owner'[s]]
          /\ TearsDown' = FALSE
      BY <3>4
    <3> HIDE DEF TerminatesHandlers, TearsDown
    <3> QED BY <3>2, <3>3, <3>4, <3>5
  <2>3. CASE AcceptFails
    BY <2>3, <2>a DEF AcceptFails, WaitForEvent, Fail
  <2>4. CASE LoginReceiveFails
    BY <2>4, <2>c, <2>d DEF LoginReceiveFails, ConnectionFails, Fail, DropLocals
  <2>5. ASSUME NEW r \in Requests, ReceiveLogin(r) PROVE SocketInv'
    BY <2>5, <2>c, <2>d
    DEF ReceiveLogin, ConnectionFails, Fail, DropLocals, NoRefusals, IsServerName
  <2>6. CASE LookupUsername
    BY <2>6, NameIsFree DEF LookupUsername
  <2>7. ASSUME NEW s \in Slots, AllocateClientContainer(s) PROVE SocketInv'
    BY <1>t, <2>7 DEF AllocateClientContainer
  <2>8. CASE NoSlotAvailable
    BY <2>8 DEF NoSlotAvailable
  <2>9. CASE RefuseNoSlot
    BY <2>9, <2>c, <2>d DEF RefuseNoSlot, ConnectionFails, ConnectionHandled, Fail, DropLocals
  <2>10. CASE StoreSocket
    BY <1>t, <2>10 DEF StoreSocket, SlotInv, StoresClient, NameInv
  <2>11. CASE StoreNameAndStart
    <3>1. /\ owner[new_client_id] = conn /\ conn # NoConn /\ sock \in Handles
          /\ client_socket[new_client_id] = sock /\ endpoint[sock] = conn
          /\ is_username_available
      BY <2>11, ConnIsRun DEF StoreNameAndStart, OwnerInv
    <3> QED BY <1>t, <2>11, <2>c, <2>d, <3>1
        DEF StoreNameAndStart, ConnectionFails, ConnectionHandled, Fail, DropLocals
  <2>12. ASSUME NEW s \in Slots, HandleThreadFinalization(s) PROVE SocketInv'
    BY <1>t, <2>12 DEF HandleThreadFinalization, WaitForEvent, ResetClient, Fail
  <2>13. CASE SetExitSender \/ SignalSender \/ JoinSender \/ CloseListener \/ FreeQueue \/ ExitProcess
    BY <2>13 DEF SetExitSender, SignalSender, JoinSender, CloseListener, FreeQueue, ExitProcess
  <2>14. CASE FreeClients
    <3>1. /\ main_pc' \in {"exit", "hung"} /\ TerminatesHandlers'
          /\ UNCHANGED <<handler_pc, client_socket, username, owner>>
      BY <2>14 DEF FreeClients
    <3>2. ASSUME NEW s \in Slots, handler_pc[s] \notin Finished \cup {"none"}
          PROVE  client_socket[s] \in Handles /\ endpoint'[client_socket[s]] = NoConn
      <4>1. s \in ValidSlots
        BY <3>2 DEF SlotInv, ValidSlots
      <4>2. client_socket[s] \in Handles
        BY <3>2
      <4> QED BY <2>14, <4>1, <4>2 DEF FreeClients, CloseHandles
    <3> QED BY <3>1, <3>2
  <2>15. ~RefuseLogin
    BY DEF RefuseLogin
  <2> QED BY <1>3, <2>0, <2>1, <2>2, <2>3, <2>4, <2>5, <2>6, <2>7, <2>8, <2>9, <2>10, <2>11, <2>12,
             <2>13, <2>14, <2>15 DEF MainNext
<1> QED BY <1>1, <1>2, <1>3 DEF Next, Terminated

LEMMA SocketInvariant ==
    ASSUME NoRefusals
    PROVE  Spec => []SocketInv
<1>1. Init => SocketInv
  BY DEF Init, SocketInv, HandlesConnection, TerminatesHandlers
<1>2. TypeInv /\ SlotInv /\ BacklogInv /\ OwnerInv /\ (NameInv /\ UniqueNames) /\ SocketInv
          /\ [Next]_vars => SocketInv'
  BY SocketStep
<1> QED BY <1>1, <1>2, TypeInvariant, SlotInvariant, BacklogInvariant, OwnerInvariant,
           NameInvariant, PTL DEF Spec

\* A handler reads and closes the connection of its own client, whatever the
\* SOCKET values of closed connections are used for again, as long as no
\* login is refused.
THEOREM SocketsAreOwn ==
    ASSUME NoRefusals
    PROVE  Spec => []HandlersOwnTheirSockets
<1>1. OwnerInv /\ SocketInv => HandlersOwnTheirSockets
  BY DEF OwnerInv, SocketInv, HandlersOwnTheirSockets, IsOpen
<1> QED BY <1>1, SocketInvariant, OwnerInvariant, PTL
=============================================================================

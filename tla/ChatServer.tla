----------------------------- MODULE ChatServer -----------------------------
(***************************************************************************)
(* The chat server (src/server): its main thread, its sender thread and    *)
(* one handler thread per logged-in client, with the table of clients, the *)
(* send queue, the send_msgs_event and the sockets they share.  The other  *)
(* end of every connection is a run of the client program (src/client),    *)
(* reduced to what the server can observe of it.                           *)
(*                                                                         *)
(* A step is one access to shared state, so the three kinds of thread      *)
(* interleave as finely as the code lets them.  Enqueue and Dequeue are    *)
(* single steps: each runs under the queue's own mutex.                    *)
(***************************************************************************)
EXTENDS Naturals, Sequences, FiniteSets

CONSTANTS
    MaxClients,        \* second command-line parameter of the server
    Conns,             \* runs of the client program
    Names,             \* usernames
    UserOf,            \* UserOf[c]: the username client run c was given
    NameLength,        \* NameLength[u]: characters of u, without the '\0'
    ServerPrefixed,    \* the names that start with "server"
    Handles,           \* values a SOCKET may take
    InfoLogged,        \* LOG_INFO is compiled in (_LOG_DEBUG or _LOG_INFO)
    CallsMayFail,      \* parameters, malloc, CreateThread, bind, ... may fail
    TypedKinds,        \* what users may type besides /quit: subset of {"text", "invalid"}
    Killable,          \* client runs that may die at any point
    Misreading,        \* client runs that may misread their own /quit (see ChatClient)
    MaxInFlight,       \* bound: requests of one client under way
    NoName, NoSock, NoConn, NoMsg

USERNAME_MAXLENGTH == 16
LISTEN_QUEUE_SIZE == 5

ASSUME ConstantsAssumption ==
    /\ MaxClients \in 1..63                    \* MAXIMUM_WAIT_OBJECTS - 1
    /\ UserOf \in [Conns -> Names]
    /\ NameLength \in [Names -> 1..USERNAME_MAXLENGTH]   \* the client checks the upper bound
    /\ ServerPrefixed \subseteq Names
    /\ InfoLogged \in BOOLEAN
    /\ CallsMayFail \in BOOLEAN
    /\ TypedKinds \subseteq {"text", "invalid"}
    /\ Killable \subseteq Conns
    /\ Misreading \subseteq Conns
    /\ MaxInFlight \in Nat

ASSUME SentinelAssumption ==
    NoName \notin Names /\ NoSock \notin Handles /\ NoConn \notin Conns

Slots == 0 .. MaxClients - 1
Requests == {"login", "text", "invalid", "quit"}

\* A ChatMessage with the MsgToSend that carries it: "by" is the client run
\* it is about, "freed" a message whose memory has been freed.
Message ==
    [kind : {"login_failed", "welcome", "joined", "left", "freed"},
     user : Names \cup {NoName}, by : Conns \cup {NoConn}]

ASSUME NoMsgAssumption == NoMsg \notin Message

MainPCs ==
    {"start", "winsock", "initialize", "create_sender", "listen", "loop", "stuck",
     "login", "lookup", "refuse", "alloc", "no_slot", "store_socket", "store_name",
     "signal", "join", "close_listener", "free_queue", "free_clients", "exit", "hung"}
SenderPCs ==
    {"off", "dequeue", "wait", "lock", "scan", "match", "send", "stopped", "failed"}
HandlerPCs ==
    {"none", "welcome", "joined", "notify_login", "receive", "left",
     "notify_quit", "close", "done_ok", "done_fail", "killed"}
ErrorCodes ==
    {"GENERAL_FAILURE", "SUCCESS", "WRONG_PARAMETERS", "WSASTARTUP_FAILURE",
     "MALLOC_FAILED", "THREAD_CREATION_FAILED", "LISTENER_SOCKET_INIT_FAILURE",
     "WAIT_FOR_EVENT_FAILED", "ACCEPT_FAILURE", "THREAD_RUN_FAILED"}
ClientStates ==
    {"idle", "connected", "login", "chat", "quit", "closed"}

VARIABLES
    \* the process: how it ended, if it has
    process,
    \* main thread (Server.c): program counter and locals
    main_pc, error_code, sock, conn, new_client_id, is_username_available,
    is_waiting_for_first_connection,
    \* ClientsContainer: the table, written by the main thread alone
    active_clients_num, is_valid, client_socket, username,
    owner,                      \* history: the run a slot was given to
    \* ClientsContainer: the send queue and its event
    send_queue, send_msgs_event, exit_sender,
    clients_mutex,              \* who is in the critical section
    freed,                      \* what DestroyServer has freed
    \* sender thread (Sender.c): program counter, msg, i
    sender_pc, sender_msg, sender_i,
    \* handler threads (ClientHandler.c), by slot
    handler_pc,
    \* network: listener, accept queue, open sockets, both directions
    listening, backlog, endpoint, to_server,
    \* client runs (src/client); login_response: the first message sent to each
    login_response, client_state

localVars  == <<sock, conn, new_client_id, is_username_available>>
tableVars  == <<is_waiting_for_first_connection, active_clients_num, is_valid,
                client_socket, username, owner>>
queueVars  == <<send_queue, send_msgs_event, exit_sender, freed>>
senderVars == <<sender_pc, sender_msg, sender_i, clients_mutex>>
netVars    == <<listening, backlog, endpoint, to_server, login_response>>
vars == <<process, main_pc, error_code, localVars, tableVars, queueVars,
          senderVars, handler_pc, netVars, client_state>>

Init ==
    /\ process = "running"
    /\ main_pc = "start"
    /\ error_code = "GENERAL_FAILURE"
    /\ sock = NoSock
    /\ conn = NoConn
    /\ new_client_id = 0
    /\ is_username_available = FALSE
    /\ is_waiting_for_first_connection = TRUE
    /\ active_clients_num = 0
    /\ is_valid = [s \in Slots |-> FALSE]
    /\ client_socket = [s \in Slots |-> NoSock]
    /\ username = [s \in Slots |-> NoName]
    /\ owner = [s \in Slots |-> NoConn]
    /\ send_queue = <<>>
    /\ send_msgs_event = FALSE
    /\ exit_sender = FALSE
    /\ clients_mutex = "free"
    /\ freed = {}
    /\ sender_pc = "off"
    /\ sender_msg = NoMsg
    /\ sender_i = 0
    /\ handler_pc = [s \in Slots |-> "none"]
    /\ listening = FALSE
    /\ backlog = <<>>
    /\ endpoint = [h \in Handles |-> NoConn]
    /\ to_server = [c \in Conns |-> <<>>]
    /\ login_response = [c \in Conns |-> NoMsg]
    /\ client_state = [c \in Conns |-> "idle"]

-----------------------------------------------------------------------------
(* Sockets.  A handle whose endpoint is NoConn is closed, and accept may   *)
(* give the same value to the next connection.                             *)

IsOpen(h) == h \in Handles /\ endpoint[h] # NoConn

\* send() fails on a closed handle; once the peer has closed it may fail or
\* be accepted by the TCP stack and lost.  Only the first message changes what
\* a client does, the others it writes to its log.
SendSucceeds(h, m) ==
    /\ IsOpen(h)
    /\ login_response' =
           IF client_state[endpoint[h]] = "closed" \/ login_response[endpoint[h]] # NoMsg
           THEN login_response
           ELSE [login_response EXCEPT ![endpoint[h]] = m]

SendMayFail(h) == IsOpen(h) => client_state[endpoint[h]] = "closed"

\* recv() takes the next request; when the peer has closed, a reset may have
\* dropped the requests still under way.
ReceiveSucceeds(h, r) ==
    /\ IsOpen(h)
    /\ to_server[endpoint[h]] # <<>>
    /\ r = Head(to_server[endpoint[h]])
    /\ to_server' = [to_server EXCEPT ![endpoint[h]] = Tail(@)]

ReceiveMayFail(h) == IsOpen(h) => client_state[endpoint[h]] = "closed"

CloseHandles(hs) ==
    endpoint' = [h \in Handles |-> IF h \in hs THEN NoConn ELSE endpoint[h]]

\* The client's end is connected as long as the server process has not closed
\* its own, the backlog included.
Connected(c) ==
    \/ \E i \in DOMAIN backlog : backlog[i] = c
    \/ \E h \in Handles : endpoint[h] = c

LoginFailed == [kind |-> "login_failed", user |-> NoName, by |-> conn]

-----------------------------------------------------------------------------
(* Main thread: main, HandleNewConnection, WaitForEvent, DestroyServer     *)

Goto(pc) == main_pc' = pc

Fail(code) == Goto("close_listener") /\ error_code' = code

\* Before InitializeServer has succeeded there is nothing to destroy.
ExitWith(code) == Goto("exit") /\ error_code' = code

HandleParameters ==
    /\ main_pc = "start"
    /\ \/ Goto("winsock") /\ UNCHANGED error_code
       \/ CallsMayFail /\ ExitWith("WRONG_PARAMETERS")
    /\ UNCHANGED <<process, localVars, tableVars, queueVars, senderVars, handler_pc,
                   netVars, client_state>>

InitializeWinSock2 ==
    /\ main_pc = "winsock"
    /\ \/ Goto("initialize") /\ UNCHANGED error_code
       \/ CallsMayFail /\ ExitWith("WSASTARTUP_FAILURE")
    /\ UNCHANGED <<process, localVars, tableVars, queueVars, senderVars, handler_pc,
                   netVars, client_state>>

\* Its cleanup frees *send_queue, which is NULL if the queue was not made yet.
InitializeServer ==
    /\ main_pc = "initialize"
    /\ \/ Goto("create_sender") /\ UNCHANGED <<process, error_code>>
       \/ CallsMayFail /\ ExitWith("MALLOC_FAILED") /\ UNCHANGED process
       \/ CallsMayFail /\ process' = "null_queue" /\ UNCHANGED <<main_pc, error_code>>
    /\ UNCHANGED <<localVars, tableVars, queueVars, senderVars, handler_pc, netVars,
                   client_state>>

CreateSenderThread ==
    /\ main_pc = "create_sender"
    /\ \/ Goto("listen") /\ sender_pc' = "dequeue" /\ UNCHANGED error_code
       \/ CallsMayFail /\ Fail("THREAD_CREATION_FAILED") /\ UNCHANGED sender_pc
    /\ UNCHANGED <<process, localVars, tableVars, queueVars, sender_msg, sender_i,
                   clients_mutex, handler_pc, netVars, client_state>>

InitializeListenerSocket ==
    /\ main_pc = "listen"
    /\ \/ Goto("loop") /\ listening' = TRUE /\ UNCHANGED error_code
       \/ CallsMayFail /\ Fail("LISTENER_SOCKET_INIT_FAILURE") /\ UNCHANGED listening
    /\ UNCHANGED <<process, localVars, tableVars, queueVars, senderVars, handler_pc,
                   backlog, endpoint, to_server, login_response, client_state>>

\* Mutant: the loop ends after the first connection.
WaitsForFirst == is_waiting_for_first_connection

LoopCondition == is_waiting_for_first_connection \/ active_clients_num > 0

ValidSlots == {s \in Slots : is_valid[s]}

Finished == {"done_ok", "done_fail", "killed"}

\* Mutant: the listener's place in the array is not counted.
IsWaitedForButLast(s) ==
    is_valid[s] /\ Cardinality({t \in ValidSlots : t < s}) + 1 < active_clients_num

\* WaitForMultipleObjects is passed active_clients_num + 1 handles; the array
\* holds the listener's event, then a thread handle per valid slot, in order.
\* It returns the lowest signalled index.
IsWaitedFor(s) ==
    /\ is_valid[s]
    /\ Cardinality({t \in ValidSlots : t < s}) < active_clients_num

ThreadSignalled(s) ==
    /\ backlog = <<>>
    /\ IsWaitedFor(s) /\ handler_pc[s] \in Finished
    /\ \A t \in Slots : t < s => ~(IsWaitedFor(t) /\ handler_pc[t] \in Finished)

WaitForEvent == main_pc = "loop" /\ LoopCondition

\* When WSAIoctl fails, the cleanup of WaitForEvent jumps to itself for ever.
WaitForEventFails ==
    /\ WaitForEvent
    /\ CallsMayFail
    /\ \/ Fail("WAIT_FOR_EVENT_FAILED")
       \/ Goto("stuck") /\ UNCHANGED error_code
    /\ UNCHANGED <<process, localVars, tableVars, queueVars, senderVars, handler_pc,
                   netVars, client_state>>

AcceptConnection(h) ==
    /\ WaitForEvent
    /\ backlog # <<>> /\ endpoint[h] = NoConn
    /\ Goto("login")
    /\ sock' = h
    /\ conn' = Head(backlog)
    /\ backlog' = Tail(backlog)
    /\ endpoint' = [endpoint EXCEPT ![h] = Head(backlog)]
    /\ is_username_available' = FALSE
    /\ UNCHANGED <<process, error_code, new_client_id, tableVars, queueVars, senderVars,
                   handler_pc, listening, to_server, login_response, client_state>>

\* The peer may be gone before its connection is taken from the backlog.
AcceptFails ==
    /\ WaitForEvent
    /\ backlog # <<>> /\ client_state[Head(backlog)] = "closed"
    /\ Fail("ACCEPT_FAILURE")
    /\ backlog' = Tail(backlog)
    /\ UNCHANGED <<process, localVars, tableVars, queueVars, senderVars, handler_pc, listening,
                   endpoint, to_server, login_response, client_state>>

\* HandleNewConnection returns: its locals are gone.  When it fails it closes
\* the socket (again, if it was closed) and main goes to its cleanup.
DropLocals ==
    sock' = NoSock /\ conn' = NoConn /\ new_client_id' = 0 /\ is_username_available' = FALSE

ConnectionHandled ==
    Goto("loop") /\ DropLocals /\ is_waiting_for_first_connection' = FALSE

ConnectionFails == Fail("ACCEPT_FAILURE") /\ DropLocals /\ CloseHandles({sock})

LoginReceiveFails ==
    /\ main_pc = "login"
    /\ ReceiveMayFail(sock) \/ CallsMayFail
    /\ ConnectionFails
    /\ UNCHANGED <<process, tableVars, queueVars, senderVars, handler_pc, listening,
                   backlog, to_server, login_response, client_state>>

\* The '\0' is part of the name the client sends.
LoginIsLegal(r) == r = "login" /\ NameLength[UserOf[conn]] + 1 <= USERNAME_MAXLENGTH

\* Mutant: memcmp's 0 is taken for a difference.
IsAnyOtherName(u) == u \notin ServerPrefixed

IsServerName(u) == u \in ServerPrefixed

ReceiveLogin(r) ==
    /\ main_pc = "login"
    /\ ReceiveSucceeds(sock, r)
    /\ \/ ~LoginIsLegal(r) /\ ConnectionFails
       \/ /\ LoginIsLegal(r)
          /\ Goto(IF IsServerName(UserOf[conn]) THEN "refuse" ELSE "lookup")
          /\ UNCHANGED <<error_code, localVars, endpoint>>
    /\ UNCHANGED <<process, tableVars, queueVars, senderVars, handler_pc, listening,
                   backlog, login_response, client_state>>

\* Mutant: the search starts at index 1.
GetClientByUsernameFromOne(u) == {s \in Slots \ {0} : is_valid[s] /\ username[s] = u}

\* Only the main thread writes the table, so the search it does inside the
\* mutex is one step, taken when it gets the mutex.
GetClientByUsername(u) == {s \in Slots : is_valid[s] /\ username[s] = u}

LookupUsername ==
    /\ main_pc = "lookup"
    /\ clients_mutex = "free"
    /\ is_username_available' = (GetClientByUsername(UserOf[conn]) = {})
    /\ Goto(IF is_username_available' THEN "alloc" ELSE "refuse")
    /\ UNCHANGED <<process, error_code, sock, conn, new_client_id, tableVars, queueVars, senderVars,
                   handler_pc, netVars, client_state>>

\* The text of the refusal is made from a username that nobody has stored: it
\* may run out of the buffer, and sprintf_s ends the process.  The refusal does
\* not return: it goes on to AllocateClientContainer with the closed socket.
RefuseLogin ==
    /\ main_pc = "refuse"
    /\ \/ /\ SendSucceeds(sock, LoginFailed) /\ Goto("alloc") /\ CloseHandles({sock})
          /\ UNCHANGED <<process, error_code, localVars>>
       \/ /\ SendMayFail(sock) \/ CallsMayFail
          /\ ConnectionFails /\ UNCHANGED <<process, login_response>>
       \/ /\ process' = "bad_read"
          /\ UNCHANGED <<main_pc, error_code, localVars, endpoint, login_response>>
    /\ UNCHANGED <<tableVars, queueVars, senderVars, handler_pc, listening,
                   backlog, to_server, client_state>>

\* Mutant: the slot is not looked at.
FirstSlot(s) == \A t \in Slots : t < s => is_valid[t]

FirstInvalid(s) == ~is_valid[s] /\ \A t \in Slots : t < s => is_valid[t]

AllocateClientContainer(s) ==
    /\ main_pc = "alloc"
    /\ FirstInvalid(s)
    /\ active_clients_num' = active_clients_num + 1
    /\ new_client_id' = s
    /\ is_valid' = [is_valid EXCEPT ![s] = TRUE]
    /\ Goto("store_socket")
    /\ UNCHANGED <<process, error_code, sock, conn, is_username_available,
                   is_waiting_for_first_connection, client_socket, username, owner,
                   queueVars, senderVars, handler_pc, netVars, client_state>>

\* No slot: the LOG_INFO of this branch reads client->username through NULL.
NoSlotAvailable ==
    /\ main_pc = "alloc"
    /\ \A s \in Slots : is_valid[s]
    /\ \/ InfoLogged /\ process' = "null_client" /\ UNCHANGED main_pc
       \/ ~InfoLogged /\ Goto("no_slot") /\ UNCHANGED process
    /\ UNCHANGED <<error_code, localVars, tableVars, queueVars, senderVars, handler_pc,
                   netVars, client_state>>

RefuseNoSlot ==
    /\ main_pc = "no_slot"
    /\ \/ /\ SendSucceeds(sock, LoginFailed) /\ CloseHandles({sock}) /\ ConnectionHandled
          /\ UNCHANGED error_code
       \/ /\ SendMayFail(sock) \/ CallsMayFail
          /\ ConnectionFails
          /\ UNCHANGED <<login_response, is_waiting_for_first_connection>>
    /\ UNCHANGED <<process, active_clients_num, is_valid, client_socket, username, owner,
                   queueVars, senderVars, handler_pc, listening, backlog, to_server,
                   client_state>>

\* is_valid, client_socket and username are stored one after the other,
\* outside clients_mutex.
StoreSocket ==
    /\ main_pc = "store_socket"
    /\ client_socket' = [client_socket EXCEPT ![new_client_id] = sock]
    /\ owner' = [owner EXCEPT ![new_client_id] = conn]
    /\ Goto("store_name")
    /\ UNCHANGED <<process, error_code, localVars, is_waiting_for_first_connection,
                   active_clients_num, is_valid, username, queueVars, senderVars,
                   handler_pc, netVars, client_state>>

\* username_length is still 0 when the login was refused: the name stays empty.
\* handler_params is allocated with the size of a pointer to it and overrun by
\* as much again; the smallest block of the Windows heap holds both fields and
\* the block is never freed, so the thread reads what was stored.
StoreNameAndStart ==
    /\ main_pc = "store_name"
    /\ username' = [username EXCEPT ![new_client_id] =
                        IF is_username_available THEN UserOf[conn] ELSE NoName]
    /\ \/ /\ handler_pc' = [handler_pc EXCEPT ![new_client_id] = "welcome"]
          /\ ConnectionHandled /\ UNCHANGED <<error_code, endpoint>>
       \/ /\ CallsMayFail /\ ConnectionFails
          /\ UNCHANGED <<handler_pc, is_waiting_for_first_connection>>
    /\ UNCHANGED <<process, active_clients_num, is_valid, client_socket, owner, queueVars,
                   senderVars, listening, backlog, to_server, login_response, client_state>>

\* Mutant: is_valid is not reset.
ResetClientButValid(s) ==
    /\ client_socket' = [client_socket EXCEPT ![s] = NoSock]
    /\ username' = [username EXCEPT ![s] = NoName]
    /\ owner' = [owner EXCEPT ![s] = NoConn]
    /\ UNCHANGED is_valid

ResetClient(s) ==
    /\ is_valid' = [is_valid EXCEPT ![s] = FALSE]
    /\ client_socket' = [client_socket EXCEPT ![s] = NoSock]
    /\ username' = [username EXCEPT ![s] = NoName]
    /\ owner' = [owner EXCEPT ![s] = NoConn]

HandleThreadFinalization(s) ==
    /\ WaitForEvent
    /\ ThreadSignalled(s)
    /\ \/ /\ handler_pc[s] = "done_ok"
          /\ ResetClient(s)
          /\ handler_pc' = [handler_pc EXCEPT ![s] = "none"]
          /\ active_clients_num' = active_clients_num - 1
          /\ UNCHANGED <<main_pc, error_code>>
       \/ /\ handler_pc[s] # "done_ok"
          /\ Fail("THREAD_RUN_FAILED")
          /\ UNCHANGED <<tableVars, handler_pc>>
    /\ UNCHANGED <<process, localVars, is_waiting_for_first_connection, queueVars,
                   senderVars, netVars, client_state>>

SetExitSender ==
    /\ main_pc = "loop" /\ ~LoopCondition
    /\ exit_sender' = TRUE
    /\ Goto("signal")
    /\ UNCHANGED <<process, error_code, localVars, tableVars, send_queue, send_msgs_event,
                   freed, senderVars, handler_pc, netVars, client_state>>

\* Mutant: PulseEvent, lost on a sender that does not wait yet.
PulseSendEvent == send_msgs_event' \in BOOLEAN

SetSendEvent == send_msgs_event' = TRUE

SignalSender ==
    /\ main_pc = "signal"
    /\ SetSendEvent
    /\ Goto("join")
    /\ UNCHANGED <<process, error_code, localVars, tableVars, send_queue,
                   exit_sender, freed, senderVars, handler_pc, netVars, client_state>>

\* Mutant: main does not wait for the sender.
SenderNotAwaited == TRUE

SenderEnded == sender_pc \in {"stopped", "failed"}

JoinSender ==
    /\ main_pc = "join"
    /\ SenderEnded
    /\ error_code' = "SUCCESS"
    /\ Goto("close_listener")
    /\ UNCHANGED <<process, localVars, tableVars, queueVars, senderVars, handler_pc,
                   netVars, client_state>>

CloseListener ==
    /\ main_pc = "close_listener"
    /\ listening' = FALSE
    /\ backlog' = <<>>
    /\ Goto("free_queue")
    /\ UNCHANGED <<process, error_code, localVars, tableVars, queueVars, senderVars,
                   handler_pc, endpoint, to_server, login_response, client_state>>

\* DestroyServer: FreeSynchronizedQueue and CloseHandle(send_msgs_event) ...
FreeQueue ==
    /\ main_pc = "free_queue"
    /\ freed' = freed \cup {"queue"}
    /\ Goto("free_clients")
    /\ UNCHANGED <<process, error_code, localVars, tableVars, send_queue, send_msgs_event,
                   exit_sender, senderVars, handler_pc, netVars, client_state>>

\* ... then TerminateThread is called for the threads of the valid slots,
\* their sockets are closed and the table is freed.  TerminateThread does not
\* wait: a thread goes on until it is stopped (HandlerTerminated).  One stopped
\* inside malloc or free takes the heap's lock with it: free(clients_arr) hangs.
UsesHeap(s) == handler_pc[s] \in {"welcome", "joined", "receive", "left"}

FreeClients ==
    /\ main_pc = "free_clients"
    /\ CloseHandles({client_socket[s] : s \in ValidSlots})
    /\ \/ Goto("exit") /\ freed' = freed \cup {"clients"}
       \/ (\E s \in ValidSlots : UsesHeap(s)) /\ Goto("hung") /\ UNCHANGED freed
    /\ UNCHANGED <<process, error_code, localVars, tableVars, send_queue, send_msgs_event,
                   exit_sender, senderVars, handler_pc, listening, backlog, to_server,
                   login_response, client_state>>

TerminatesHandlers == main_pc = "hung" \/ "clients" \in freed

ExitProcess ==
    /\ main_pc = "exit"
    /\ process' = "exited"
    /\ UNCHANGED <<main_pc, error_code, localVars, tableVars, queueVars, senderVars,
                   handler_pc, netVars, client_state>>

MainNext ==
    /\ process = "running"
    /\ \/ HandleParameters \/ InitializeWinSock2 \/ InitializeServer
       \/ CreateSenderThread \/ InitializeListenerSocket \/ WaitForEventFails
       \/ \E h \in Handles : AcceptConnection(h)
       \/ AcceptFails \/ LoginReceiveFails
       \/ \E r \in Requests : ReceiveLogin(r)
       \/ LookupUsername
       \/ RefuseLogin
       \/ \E s \in Slots : AllocateClientContainer(s)
       \/ NoSlotAvailable \/ RefuseNoSlot
       \/ StoreSocket \/ StoreNameAndStart
       \/ \E s \in Slots : HandleThreadFinalization(s)
       \/ SetExitSender \/ SignalSender \/ JoinSender
       \/ CloseListener \/ FreeQueue \/ FreeClients \/ ExitProcess

-----------------------------------------------------------------------------
(* Sender thread: RunSender and SendMsgToDests                             *)

\* What touching freed memory or a closed mutex comes to: a crash, or a
\* failure that ends the thread.  A freed table may also still read as it was.
SenderUsesFreed ==
    /\ \/ process' = "use_after_free" /\ UNCHANGED sender_pc
       \/ sender_pc' = "failed" /\ UNCHANGED process
    /\ UNCHANGED <<sender_msg, sender_i, clients_mutex, send_queue, send_msgs_event>>

\* A message that its handler has freed may end the process, or read as anything.
TouchMessage(m, end) ==
    UNCHANGED process \/ (m.kind = "freed" /\ process' = end)

\* Mutant: the event is reset by hand, between the empty queue and the wait.
FindsQueueEmptyAndResets == sender_pc' = "wait" /\ send_msgs_event' = FALSE

FindsQueueEmpty == sender_pc' = "wait" /\ UNCHANGED send_msgs_event

SenderDequeue ==
    /\ sender_pc = "dequeue"
    /\ \/ "queue" \in freed /\ SenderUsesFreed
       \/ /\ "queue" \notin freed
          /\ send_queue = <<>>
          /\ FindsQueueEmpty
          /\ UNCHANGED <<process, send_queue, sender_msg, sender_i, clients_mutex>>
       \/ /\ "queue" \notin freed
          /\ send_queue # <<>>
          /\ send_queue' = Tail(send_queue)
          /\ sender_msg' = Head(send_queue)
          /\ sender_pc' = "lock"
          /\ TouchMessage(Head(send_queue), "use_after_free")
          /\ UNCHANGED <<send_msgs_event, sender_i, clients_mutex>>

\* The event resets itself when it lets the sender through.
SenderWait ==
    /\ sender_pc = "wait"
    /\ \/ /\ send_msgs_event
          /\ send_msgs_event' = FALSE
          /\ sender_pc' = IF exit_sender THEN "stopped" ELSE "dequeue"
       \/ /\ "queue" \in freed
          /\ sender_pc' = "failed"
          /\ UNCHANGED send_msgs_event
    /\ UNCHANGED <<process, send_queue, sender_msg, sender_i, clients_mutex>>

SenderLock ==
    /\ sender_pc = "lock"
    /\ clients_mutex = "free"
    /\ clients_mutex' = "sender"
    /\ sender_pc' = "scan"
    /\ UNCHANGED <<process, send_queue, send_msgs_event, sender_msg, sender_i>>

\* Mutant: the mutex is not released.
KeepMutex == UNCHANGED clients_mutex

ReleaseMutex == clients_mutex' = "free"

\* Reads is_valid of slot i, or leaves the loop and frees the message.
SenderScan ==
    /\ sender_pc = "scan"
    /\ \/ "clients" \in freed /\ SenderUsesFreed
       \/ /\ sender_i < MaxClients
          /\ IF is_valid[sender_i] THEN sender_pc' = "match" /\ UNCHANGED sender_i
             ELSE sender_i' = sender_i + 1 /\ UNCHANGED sender_pc
          /\ UNCHANGED <<process, send_queue, send_msgs_event, sender_msg, clients_mutex>>
       \/ /\ sender_i >= MaxClients
          /\ ReleaseMutex
          /\ TouchMessage(sender_msg, "bad_free")
          /\ sender_msg' = NoMsg /\ sender_i' = 0
          /\ sender_pc' = "dequeue"
          /\ UNCHANGED <<send_queue, send_msgs_event>>

\* memcmp over username_length bytes: an empty name equals every other.
IsDest(u, m) ==
    \/ u = NoName \/ m.kind = "freed"
    \/ IF m.kind = "welcome" THEN u = m.user ELSE u # m.user

SenderMatch ==
    /\ sender_pc = "match"
    /\ \/ "clients" \in freed /\ SenderUsesFreed
       \/ /\ \/ IsDest(username[sender_i], sender_msg) /\ sender_pc' = "send"
                /\ UNCHANGED sender_i
             \/ /\ ~IsDest(username[sender_i], sender_msg) \/ sender_msg.kind = "freed"
                /\ sender_pc' = "scan" /\ sender_i' = sender_i + 1
          /\ TouchMessage(sender_msg, "use_after_free")
          /\ UNCHANGED <<send_queue, send_msgs_event, sender_msg, clients_mutex>>

\* A failed send ends the thread, which frees the message; the _finally block
\* releases the mutex.  send() blocks while the peer, or its TCP window, takes no
\* more: the step is not taken until the client reads, and clients_mutex is held.
\* A client of this model always reads.
SenderSend ==
    /\ sender_pc = "send"
    /\ \/ /\ "clients" \in freed /\ SenderUsesFreed
          /\ UNCHANGED login_response
       \/ /\ SendSucceeds(client_socket[sender_i], sender_msg)
          /\ sender_pc' = "scan"
          /\ sender_i' = sender_i + 1
          /\ TouchMessage(sender_msg, "use_after_free")
          /\ UNCHANGED <<send_queue, send_msgs_event, sender_msg, clients_mutex>>
       \/ /\ SendMayFail(client_socket[sender_i]) \/ sender_msg.kind = "freed"
          /\ sender_pc' = "failed"
          /\ TouchMessage(sender_msg, "bad_free")
          /\ sender_msg' = NoMsg /\ sender_i' = 0
          /\ ReleaseMutex
          /\ UNCHANGED <<send_queue, send_msgs_event, login_response>>

SenderNext ==
    /\ process = "running"
    /\ \/ (SenderDequeue \/ SenderWait \/ SenderLock \/ SenderScan \/ SenderMatch)
          /\ UNCHANGED login_response
       \/ SenderSend
    /\ UNCHANGED <<main_pc, error_code, localVars, tableVars, exit_sender, freed,
                   handler_pc, listening, backlog, endpoint, to_server, client_state>>

-----------------------------------------------------------------------------
(* Handler threads: HandleClient                                           *)

HandlerGoto(s, pc) == handler_pc' = [handler_pc EXCEPT ![s] = pc]

\* The cleanup of HandleClient frees chat_msg and parsed_msg, which hold
\* garbage before the first message and freed pointers after it.
HandlerFails(s) ==
    \/ HandlerGoto(s, "done_fail") /\ UNCHANGED process
    \/ process' = "bad_free" /\ UNCHANGED handler_pc

\* Using the queue or the event once DestroyServer has freed them.
HandlerUsesFreed(s) ==
    /\ "queue" \in freed
    /\ \/ HandlerFails(s)
       \/ process' = "use_after_free" /\ UNCHANGED handler_pc
    /\ UNCHANGED send_queue

\* Mutant: the list grows at its head.
EnqueueAtHead(m) ==
    /\ "queue" \notin freed
    /\ send_queue' = <<m>> \o send_queue

Enqueue(m) ==
    /\ "queue" \notin freed
    /\ send_queue' = Append(send_queue, m)

\* Mutant: the wrong field of the client is copied.
MessageOfSocket(s, kind) ==
    [kind |-> kind, user |-> client_socket[s], by |-> owner[s]]

MessageOf(s, kind) ==
    [kind |-> kind, user |-> username[s], by |-> owner[s]]

\* HandleSuccessfulLogin, in three steps: the first Enqueue ...
EnqueueWelcome(s) ==
    /\ handler_pc[s] = "welcome"
    /\ \/ Enqueue(MessageOf(s, "welcome")) /\ HandlerGoto(s, "joined") /\ UNCHANGED process
       \/ CallsMayFail /\ HandlerFails(s) /\ UNCHANGED send_queue
       \/ HandlerUsesFreed(s)
    /\ UNCHANGED <<send_msgs_event, to_server, endpoint>>

\* ... the second ...
EnqueueJoined(s) ==
    /\ handler_pc[s] = "joined"
    /\ \/ Enqueue(MessageOf(s, "joined")) /\ HandlerGoto(s, "notify_login")
          /\ UNCHANGED process
       \/ HandlerUsesFreed(s)
    /\ UNCHANGED <<send_msgs_event, to_server, endpoint>>

\* ... whose failure frees the welcome message wherever it is: in the queue, in
\* the hands of the sender, or, sent and freed already, nowhere (and then it is
\* freed twice) ...
AsFreed(s, m) ==
    IF m # NoMsg /\ m.kind = "welcome" /\ m.by = owner[s]
    THEN [m EXCEPT !.kind = "freed"] ELSE m

JoinedFails(s) ==
    /\ handler_pc[s] = "joined"
    /\ CallsMayFail
    /\ send_queue' = [i \in DOMAIN send_queue |-> AsFreed(s, send_queue[i])]
    /\ sender_msg' = AsFreed(s, sender_msg)
    /\ HandlerFails(s)
    /\ UNCHANGED <<send_msgs_event, to_server, endpoint>>

\* ... and SetEvent; also the SetEvent of SendMessageToSenderThread.
NotifySender(s) ==
    /\ \/ handler_pc[s] = "notify_login" /\ HandlerGoto(s, "receive")
       \/ handler_pc[s] = "notify_quit" /\ HandlerGoto(s, "close")
    /\ "queue" \notin freed
    /\ SetSendEvent
    /\ UNCHANGED <<process, send_queue, to_server, endpoint>>

NotifyFails(s) ==
    /\ handler_pc[s] \in {"notify_login", "notify_quit"}
    /\ "queue" \in freed
    /\ HandlerFails(s)
    /\ UNCHANGED <<queueVars, to_server, endpoint>>

\* ReceiveChatMessage, ParseMessage and HandleMessage.  The message type is
\* not looked at: a login request read here is a text like any other.
ReceiveRequest(s, r) ==
    /\ handler_pc[s] = "receive"
    /\ ReceiveSucceeds(client_socket[s], r)
    /\ \/ r \in {"login", "text"} /\ UNCHANGED handler_pc
       \/ r = "invalid" /\ HandlerGoto(s, "done_fail")
       \/ r = "quit" /\ HandlerGoto(s, "left")
    /\ UNCHANGED <<process, queueVars, endpoint>>

ReceiveFails(s) ==
    /\ handler_pc[s] = "receive"
    /\ ReceiveMayFail(client_socket[s]) \/ CallsMayFail
    /\ HandlerFails(s)
    /\ UNCHANGED <<queueVars, to_server, endpoint>>

\* HandleQuitCommand; when the Enqueue fails, the message is freed twice.
EnqueueLeft(s) ==
    /\ handler_pc[s] = "left"
    /\ \/ Enqueue(MessageOf(s, "left")) /\ HandlerGoto(s, "notify_quit") /\ UNCHANGED process
       \/ CallsMayFail /\ HandlerFails(s) /\ UNCHANGED send_queue
       \/ HandlerUsesFreed(s)
    /\ UNCHANGED <<send_msgs_event, to_server, endpoint>>

\* The socket is closed while the slot stays valid until the main thread
\* handles the end of this thread.
CloseSocket(s) ==
    /\ handler_pc[s] = "close"
    /\ HandlerGoto(s, IF IsOpen(client_socket[s]) THEN "done_ok" ELSE "done_fail")
    /\ CloseHandles({client_socket[s]})
    /\ UNCHANGED <<process, queueVars, to_server>>

\* DestroyServer has called TerminateThread: the thread is stopped at any later
\* point, or finds its client freed before; until then it may read it as it was.
HandlerTerminated(s) ==
    /\ TerminatesHandlers /\ handler_pc[s] \notin Finished \cup {"none"}
    /\ \/ HandlerGoto(s, "killed") /\ UNCHANGED process
       \/ "clients" \in freed /\ process' = "use_after_free" /\ UNCHANGED handler_pc
    /\ UNCHANGED <<queueVars, to_server, endpoint>>

HandlerNext(s) ==
    /\ process = "running"
    /\ \/ /\ \/ EnqueueWelcome(s) \/ EnqueueJoined(s) \/ NotifySender(s) \/ NotifyFails(s)
             \/ \E r \in Requests : ReceiveRequest(s, r)
             \/ ReceiveFails(s) \/ EnqueueLeft(s) \/ CloseSocket(s) \/ HandlerTerminated(s)
          /\ UNCHANGED sender_msg
       \/ JoinedFails(s)
    /\ UNCHANGED <<main_pc, error_code, localVars, tableVars, exit_sender, freed,
                   sender_pc, sender_i, clients_mutex, listening, backlog, login_response, client_state>>

-----------------------------------------------------------------------------
(* Client runs: main and Login of client.c, RunConsoleReader                *)

ClientGoto(c, st) == client_state' = [client_state EXCEPT ![c] = st]

SendRequest(c, r) == to_server' = [to_server EXCEPT ![c] = Append(@, r)]

ConnectToServer(c) ==
    /\ client_state[c] = "idle"
    /\ listening /\ Len(backlog) < LISTEN_QUEUE_SIZE
    /\ backlog' = Append(backlog, c)
    /\ ClientGoto(c, "connected")
    /\ UNCHANGED to_server

SendLogin(c) ==
    /\ client_state[c] = "connected"
    /\ Connected(c)
    /\ SendRequest(c, "login")
    /\ ClientGoto(c, "login")
    /\ UNCHANGED backlog

\* Login: any first message but SYSTEM_MESSAGE_LOGIN_FAILED is a success; a
\* message sent after it was freed may be of any type.
ReceiveLoginResponse(c) ==
    /\ client_state[c] = "login"
    /\ login_response[c] # NoMsg
    /\ \/ login_response[c].kind \in {"login_failed", "freed"} /\ ClientGoto(c, "closed")
       \/ login_response[c].kind # "login_failed" /\ ClientGoto(c, "chat")
    /\ UNCHANGED <<to_server, backlog>>

\* A line typed by the user.  RunConsoleReader ends after /quit, if it reads
\* its own line right; else an invalid command may pass for one, too.
SendUserMessage(c, r) ==
    /\ client_state[c] = "chat"
    /\ Connected(c)
    /\ Len(to_server[c]) < MaxInFlight
    /\ SendRequest(c, r)
    /\ \/ (r = "quit" => c \in Misreading) /\ ClientGoto(c, "chat")
       \/ r = "quit" /\ ClientGoto(c, "quit")
       \/ r = "invalid" /\ c \in Misreading /\ ClientGoto(c, "quit")
    /\ UNCHANGED backlog

\* The end of the client, its socket closed: after /quit, when the server has
\* closed the connection, or killed at any point.
CloseClient(c) ==
    /\ \/ client_state[c] = "quit"
       \/ client_state[c] \in {"connected", "chat"} /\ ~Connected(c)
       \/ client_state[c] = "login" /\ ~Connected(c) /\ login_response[c] = NoMsg
       \/ client_state[c] \in {"connected", "login", "chat"} /\ c \in Killable
    /\ ClientGoto(c, "closed")
    /\ UNCHANGED <<to_server, backlog>>

serverVars == <<process, main_pc, error_code, localVars, tableVars, queueVars,
                senderVars, handler_pc, listening, endpoint, login_response>>

LoginNext(c) ==
    /\ process = "running"
    /\ SendLogin(c) \/ ReceiveLoginResponse(c)
    /\ UNCHANGED serverVars

ClientNext(c) ==
    /\ process = "running"
    /\ \/ ConnectToServer(c)
       \/ \E r \in TypedKinds \cup {"quit"} : SendUserMessage(c, r)
       \/ CloseClient(c)
    /\ UNCHANGED serverVars

\* Nothing is left to do once the process has ended; a main thread that hangs
\* may leave nothing to do either.
Over == process # "running" \/ main_pc \in {"hung", "stuck"}

Terminated ==
    /\ Over
    /\ UNCHANGED vars

Next ==
    \/ MainNext \/ SenderNext
    \/ \E s \in Slots : HandlerNext(s)
    \/ \E c \in Conns : LoginNext(c) \/ ClientNext(c)
    \/ Terminated

Spec == Init /\ [][Next]_vars

\* Every thread of the server that can run does.  Of the clients only Login is
\* sure to go on: it sends right after connecting and acts on the response.
\* Users need not type anything, and nobody has to connect.
Fairness ==
    /\ WF_vars(MainNext) /\ WF_vars(SenderNext)
    /\ \A s \in Slots : WF_vars(HandlerNext(s))
    /\ \A c \in Conns : WF_vars(LoginNext(c))

FairSpec == Spec /\ Fairness
=============================================================================

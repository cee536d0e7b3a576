------------------------ MODULE ChatServerProperties ------------------------
(* What the chat server guarantees, and what its comments say of it.        *)
EXTENDS ChatServer

-----------------------------------------------------------------------------
(* Type invariant                                                          *)

MainTypeOK ==
    /\ process \in {"running", "exited", "null_queue", "null_client", "bad_free",
                   "bad_read", "use_after_free"}
    /\ main_pc \in MainPCs
    /\ error_code \in ErrorCodes
    /\ sock \in Handles \cup {NoSock}
    /\ conn \in Conns \cup {NoConn}
    /\ new_client_id \in Slots
    /\ is_username_available \in BOOLEAN

TableTypeOK ==
    /\ is_waiting_for_first_connection \in BOOLEAN
    /\ active_clients_num \in Nat
    /\ is_valid \in [Slots -> BOOLEAN]
    /\ client_socket \in [Slots -> Handles \cup {NoSock}]
    /\ username \in [Slots -> Names \cup {NoName}]
    /\ owner \in [Slots -> Conns \cup {NoConn}]

QueueTypeOK ==
    /\ send_queue \in Seq(Message)
    /\ send_msgs_event \in BOOLEAN
    /\ exit_sender \in BOOLEAN
    /\ freed \subseteq {"queue", "clients"}

ThreadsTypeOK ==
    /\ sender_pc \in SenderPCs
    /\ sender_msg \in Message \cup {NoMsg}
    /\ sender_i \in Nat
    /\ clients_mutex \in {"free", "sender"}
    /\ handler_pc \in [Slots -> HandlerPCs]

NetTypeOK ==
    /\ listening \in BOOLEAN
    /\ backlog \in Seq(Conns)
    /\ endpoint \in [Handles -> Conns \cup {NoConn}]
    /\ to_server \in [Conns -> Seq(Requests)]
    /\ login_response \in [Conns -> Message \cup {NoMsg}]
    /\ client_state \in [Conns -> ClientStates]

\* Every variable of the model, the locals of main and RunSender included,
\* keeps the type it is declared with in src/server.
TypeOK == MainTypeOK /\ TableTypeOK /\ QueueTypeOK /\ ThreadsTypeOK /\ NetTypeOK

\* The main thread between accept and the return of HandleNewConnection.
HandlesConnection ==
    main_pc \in {"login", "lookup", "refuse", "alloc", "no_slot", "store_socket", "store_name"}

LocalsInv == HandlesConnection => conn \in Conns /\ sock \in Handles

CountInv == active_clients_num = Cardinality(ValidSlots)

\* TypeOK is inductive with the facts that make its partial operations safe.
TypeInv == TypeOK /\ LocalsInv /\ CountInv

-----------------------------------------------------------------------------
(* Safety: what holds                                                      *)

\* The auto-reset event never lets a message sleep in the queue: while the
\* sender waits (Sender.c:65) and the queue is not empty, the event is set or
\* a handler is on its way to SetEvent, unless a handler failed between its
\* two Enqueue calls and the server is about to go down.
NoLostWakeup ==
    sender_pc = "wait" /\ send_queue # <<>> /\ "queue" \notin freed =>
        \/ send_msgs_event
        \/ \E s \in Slots :
               handler_pc[s] \in {"joined", "notify_login", "notify_quit", "done_fail"}

\* Whenever main waits (WaitForEvent), the count it passes is the number of
\* thread handles it collected and each of them is a thread: no NULL handle
\* is waited for, no thread is forgotten.
WaitSetComplete ==
    main_pc = "loop" =>
        /\ active_clients_num = Cardinality(ValidSlots)
        /\ \A s \in Slots : is_valid[s] <=> handler_pc[s] # "none"

\* Two slots never hold the same username, although the name is looked up
\* inside clients_mutex and stored outside it (Server.c:643, :754).
UniqueNames ==
    \A s, t \in Slots :
        s # t /\ is_valid[s] /\ is_valid[t] /\ username[s] # NoName
            => username[s] # username[t]

\* A handler that was started for an accepted login reads and closes the
\* connection of its own client, although the SOCKET values of closed
\* connections are given out again while stale slots still hold them.  (As
\* long as no login is refused: see LoginsReadByMain.)
HandlersOwnTheirSockets ==
    \A s \in Slots :
        username[s] # NoName /\ handler_pc[s] \notin Finished \cup {"none"} =>
            /\ IsOpen(client_socket[s]) \/ TerminatesHandlers
            /\ IsOpen(client_socket[s]) => endpoint[client_socket[s]] = owner[s]

\* When main reports SUCCESS, DestroyServer frees the queue and the table with
\* nobody left to use them: the sender was joined and every slot given back.
CleanTeardown ==
    error_code = "SUCCESS" =>
        /\ sender_pc \in {"stopped", "failed"}
        /\ \A s \in Slots : ~is_valid[s] /\ handler_pc[s] = "none"
        /\ process \in {"running", "exited"}

\* While every client is connected the handlers and the sender touch nothing
\* that was freed, and free nothing twice: it takes a disconnection (or a
\* failing call) to lead main to the cleanup that frees what they use
\* (Server.c:287), or a handler to its own (ClientHandler.c:121).
SoundWhileConnected ==
    process \in {"bad_free", "use_after_free"} =>
        \E c \in Conns : client_state[c] = "closed"

\* What is on its way to the clients, oldest first.
Pipeline == (IF sender_msg = NoMsg THEN <<>> ELSE <<sender_msg>>) \o send_queue

Precedes(k, l) ==
    <<k, l>> \in {<<"welcome", "joined">>, <<"welcome", "left">>, <<"joined", "left">>,
                  <<"freed", "joined">>, <<"freed", "left">>}

Ordered(messages) ==
    \A i, j \in DOMAIN messages :
        i < j /\ messages[i].by = messages[j].by => Precedes(messages[i].kind, messages[j].kind)

\* Whatever the interleaving of handlers and sender, the messages about one
\* client run leave in the order welcome, joined, left, none of them twice.
PerRunOrder == Ordered(Pipeline)

-----------------------------------------------------------------------------
(* Inductive strengthenings                                                *)

StoresClient == main_pc \in {"store_socket", "store_name"}

TearsDown == main_pc \in {"close_listener", "free_queue", "free_clients", "exit", "hung"}

\* A handler thread exists exactly for the valid slots, except for the slot
\* that main is filling and for those whose thread could not be created.
SlotInv ==
    /\ \A s \in Slots : handler_pc[s] # "none" => is_valid[s]
    /\ StoresClient => is_valid[new_client_id] /\ handler_pc[new_client_id] = "none"
    /\ \A s \in Slots : is_valid[s] /\ handler_pc[s] = "none" =>
           TearsDown \/ (StoresClient /\ s = new_client_id)

\* The handlers are terminated only after the queue was freed.
FreedInv == main_pc \in {"free_clients", "hung"} \/ "clients" \in freed => "queue" \in freed

\* The answer of ValidateLoginRequest stays true until the name is stored.
NameInv ==
    /\ \A s \in Slots : ~is_valid[s] => username[s] = NoName
    /\ StoresClient => username[new_client_id] = NoName
    /\ (main_pc = "alloc" \/ StoresClient) /\ is_username_available =>
           GetClientByUsername(UserOf[conn]) = {}
    /\ main_pc \in {"login", "lookup", "refuse"} => ~is_username_available

\* SUCCESS is reported by JoinSender alone, once the table is empty.
ExitInv ==
    /\ ~TearsDown => error_code = "GENERAL_FAILURE"
    /\ main_pc \in {"signal", "join"} => ValidSlots = {}

\* The client runs that main has not seen yet.
InBacklog(c) == \E i \in DOMAIN backlog : backlog[i] = c
Fresh == {c \in Conns : client_state[c] = "idle" \/ InBacklog(c)}

\* A run connects once.
BacklogInv ==
    /\ \A i, j \in DOMAIN backlog : backlog[i] = backlog[j] => i = j
    /\ \A c \in Conns : InBacklog(c) => client_state[c] # "idle"

\* So it owns one slot at most, and none while main still logs it in.
OwnerInv ==
    /\ conn \notin Fresh
    /\ conn # NoConn => HandlesConnection
    /\ \A s \in Slots : owner[s] \notin Fresh
    /\ \A s, t \in Slots : owner[s] = owner[t] /\ owner[s] # NoConn => s = t
    /\ \A s \in Slots : owner[s] = conn /\ conn # NoConn =>
           main_pc = "store_name" /\ s = new_client_id
    /\ main_pc = "store_name" => owner[new_client_id] = conn
    /\ \A s \in Slots : handler_pc[s] # "none" => owner[s] # NoConn
    /\ \A s \in Slots : ~is_valid[s] => owner[s] = NoConn

\* What may be under way about a run, by how far its handler is.
Said ==
    [s \in Slots |->
        IF handler_pc[s] \in {"none", "welcome"} THEN {}
        ELSE IF handler_pc[s] = "joined" THEN {"welcome", "freed"}
        ELSE IF handler_pc[s] \in {"notify_login", "receive", "left"}
             THEN {"welcome", "freed", "joined"}
        ELSE {"welcome", "freed", "joined", "left"}]

InPlace ==
    {m \in Message :
        /\ m.by \notin Fresh \cup {conn, NoConn}
        /\ \A s \in Slots : m.by = owner[s] => m.kind \in Said[s]}

OrderInv ==
    /\ main_pc \in {"start", "winsock", "initialize", "create_sender"} => sender_pc = "off"
    /\ sender_pc \in {"off", "dequeue", "wait"} => sender_msg = NoMsg
    /\ sender_msg \in InPlace \cup {NoMsg}
    /\ send_queue \in Seq(InPlace)
    /\ PerRunOrder

\* No two runs have the same name, and none has the server's.
NoRefusals ==
    /\ \A c, d \in Conns : UserOf[c] = UserOf[d] => c = d
    /\ ServerPrefixed = {}

\* Without refused logins main holds the socket of the run it logs in, and so
\* does each handler that has not ended.
SocketInv ==
    /\ TerminatesHandlers => TearsDown
    /\ main_pc # "refuse"
    /\ main_pc \in {"alloc", "store_socket", "store_name"} => is_username_available
    /\ HandlesConnection => endpoint[sock] = conn
    /\ main_pc = "store_name" => client_socket[new_client_id] = sock
    /\ \A s \in Slots : username[s] # NoName =>
           owner[s] # NoConn /\ username[s] = UserOf[owner[s]]
    /\ \A s \in Slots : handler_pc[s] \notin Finished \cup {"none"} =>
           /\ client_socket[s] \in Handles
           /\ endpoint[client_socket[s]] = owner[s] \/
                  (TerminatesHandlers /\ endpoint[client_socket[s]] = NoConn)

\* What is under way from a run: its login request, then the others; or the
\* others alone.
OneLogin(requests) ==
    /\ requests # <<>> /\ Head(requests) = "login"
    /\ \A i \in DOMAIN requests : i # 1 => requests[i] # "login"
NoLogin(requests) == \A i \in DOMAIN requests : requests[i] # "login"

LoginAhead(c) ==
    \/ client_state[c] \in {"idle", "connected", "closed"} /\ to_server[c] = <<>>
    \/ client_state[c] \notin {"idle", "connected"} /\ OneLogin(to_server[c])
LoginBehind(c) == client_state[c] \notin {"idle", "connected"} /\ NoLogin(to_server[c])

\* Without refused logins the first request of a run waits for main, and it is
\* gone when a handler reads.
LoginInv ==
    /\ \A c \in Conns : c \in Fresh \/ (main_pc = "login" /\ c = conn) => LoginAhead(c)
    /\ \A c \in Conns : (main_pc # "login" /\ c = conn) \/ (\E s \in Slots : owner[s] = c)
                           => LoginBehind(c)

\* No call fails, no user types an unknown command, and each run has a name of
\* its own that the server accepts: all that can happen is that clients leave.
OnlyClientsLeave ==
    /\ ~CallsMayFail
    /\ "invalid" \notin TypedKinds
    /\ NoRefusals
    /\ \A c \in Conns : NameLength[UserOf[c]] + 1 <= USERNAME_MAXLENGTH

AllConnected == \A c \in Conns : client_state[c] # "closed"

\* Until a client leaves no handler fails, and main ends only after the last of
\* them, when the queue and the table are freed.
ConnectedInv ==
    /\ to_server \in [Conns -> Seq({"login", "text", "quit"})]
    /\ \A i \in DOMAIN send_queue : send_queue[i].kind # "freed"
    /\ sender_pc \in {"lock", "scan", "match", "send"} =>
           sender_msg \in Message /\ sender_msg.kind # "freed"
    /\ freed # {} => TearsDown
    /\ AllConnected =>
        /\ process \notin {"bad_free", "use_after_free"}
        /\ \A s \in Slots : handler_pc[s] \notin {"done_fail", "killed"}
        /\ TearsDown => error_code = "SUCCESS"

-----------------------------------------------------------------------------
(* The room                                                                *)

\* Who is in the room has a thread, and is as far as its thread is.
Seated(c) == \E s \in Slots : owner[s] = c /\ handler_pc[s] # "none"
SlotOf(c) == CHOOSE s \in Slots : owner[s] = c

PhaseOf ==
    [pc \in HandlerPCs |->
        CASE pc = "welcome" -> "entered"
          [] pc = "joined" -> "greeted"
          [] pc \in {"notify_login", "receive", "left"} -> "member"
          [] pc \in {"notify_quit", "close"} -> "leaving"
          [] OTHER -> "ended"]

RoomPhase ==
    [c \in Conns |->
        IF Seated(c) THEN PhaseOf[handler_pc[SlotOf(c)]]
        ELSE IF c \in Fresh \cup {conn} THEN "outside" ELSE "gone"]

RoomName == [c \in Conns |-> IF Seated(c) THEN username[SlotOf(c)] ELSE NoName]

\* Slots, flags, names stored in three steps, threads that end long before
\* their slot is given back, refused logins that take one all the same, and
\* every error path: together they are a room (Server.c, ClientHandler.c,
\* Sender.c).
Room ==
    INSTANCE ChatRoom WITH
        Runs <- Conns, NameOf <- UserOf, Capacity <- MaxClients, Nameless <- NoName,
        phase <- RoomPhase, name <- RoomName, announcements <- send_queue
ImplementsRoom == Room!Spec

-----------------------------------------------------------------------------
(* Liveness                                                                *)

\* Once every client run is over, the server stops: its process ends, with
\* whatever code and however early, or it hangs in the free(clients_arr) after
\* TerminateThread (Server.c:536) or is stuck in WaitForEvent's cleanup, which
\* Over counts as an end, too.  What is excluded is a server that waits on.
ServerStops == (\A c \in Conns : client_state[c] = "closed") ~> Over

\* Every message enqueued is taken by the sender, unless the sender is dead.
IsQueued(k, c) ==
    \E i \in DOMAIN send_queue : send_queue[i].kind = k /\ send_queue[i].by = c
QueueDrains ==
    \A c \in Conns : \A k \in {"welcome", "joined", "left"} :
        IsQueued(k, c) ~> ~IsQueued(k, c) \/ sender_pc \in {"stopped", "failed"} \/ Over

\* The main thread gets the mutex, although the sender may die holding it in
\* SendMsgToDests: the _finally block (Sender.c:157) releases it.  A send() that
\* blocks while the mutex is held (Sender.c:146) is not modelled: every client
\* reads what it is sent.
LookupEnds == main_pc = "lookup" ~> main_pc # "lookup" \/ Over

\* A handler that ended gives its slot back, or the server ends.
HandlersReaped ==
    \A s \in Slots : handler_pc[s] \in Finished ~> handler_pc[s] = "none" \/ Over

-----------------------------------------------------------------------------
(* What the comments say, and the code does not do                         *)

\* Sender.c:3, "sends all the messages to the clients": what is enqueued while
\* the server runs is taken from the queue.
AllMessagesTaken ==
    \A c \in Conns : \A k \in {"welcome", "joined", "left"} :
        IsQueued(k, c) ~> ~IsQueued(k, c) \/ Over

\* client.c:73, Login "waits for system message that verifies if the login was
\* successful": the first message a client is sent is about its own login.
LoginResponseFirst ==
    \A c \in Conns : login_response[c] # NoMsg =>
        \/ login_response[c].kind = "login_failed"
        \/ login_response[c].kind = "welcome" /\ login_response[c].by = c

\* Server.c:112, HandleNewConnection "Accepts new connection and handles the
\* login process (synchroneously)": no handler takes the login request of a
\* connection before main does.  It holds as long as no login is refused.
LoginsReadByMain ==
    [][\A c \in Conns :
           Len(to_server'[c]) < Len(to_server[c]) /\ Head(to_server[c]) = "login"
               => conn = c /\ main_pc = "login" /\ main_pc' # "login"]_vars
=============================================================================

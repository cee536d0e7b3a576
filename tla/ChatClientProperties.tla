------------------------ MODULE ChatClientProperties ------------------------
(* What a run of the client guarantees, and what its comments say of it.    *)
EXTENDS ChatClient

MainTypeOK ==
    /\ process \in {"running", "exited", "bad_free", "crashed"}
    /\ main_pc \in MainPCs
    /\ error_code \in ErrorCodes
    /\ was_login_successful \in BOOLEAN
    /\ socket \in {"none", "open", "closed"}

ThreadsTypeOK ==
    /\ reader_pc \in ReaderPCs
    /\ reader_msg \in {"unset", "held", "freed"}
    /\ console_pc \in ConsolePCs
    /\ console_msg \in UserRequests
    /\ typed \in Nat

Entries == {"sent", "received"}

LogTypeOK ==
    /\ log_open \in BOOLEAN
    /\ log_mutex \in {"free", "abandoned"} \cup Threads
    /\ log \in Seq(Entries)
    /\ disk_ok \in BOOLEAN
    /\ doomed \in SUBSET Threads
    /\ crt_locked \in BOOLEAN

Sendable == {"login"} \cup UserRequests

ServerTypeOK ==
    /\ server_end \in {"open", "closed", "reset"}
    /\ incoming \in Seq(Messages)
    /\ n_messages \in Nat
    /\ response \in {"none"} \cup Messages
    /\ requests \in Seq(Sendable)

\* Every variable of the model keeps the type it is declared with in src/client.
TypeInvariant == MainTypeOK /\ ThreadsTypeOK /\ LogTypeOK /\ ServerTypeOK

\* CloseClientLog and closesocket find nobody left to use the log and the
\* socket, on each of the ways main has to its cleanup, and nobody is left to
\* wait for a mutex that a terminated thread has abandoned: but for threads
\* that main has terminated, which it does not wait for.
ReaderIsKept == ReaderRuns /\ "reader" \notin doomed
ConsoleIsKept == ConsoleRuns /\ "console" \notin doomed
LogOutlivesThreads ==
    ReaderIsKept \/ ConsoleIsKept =>
        log_open /\ socket = "open" /\ log_mutex # "abandoned"

\* One thread at a time writes to the log file (ClientLog.c:134), although a
\* thread may be terminated while it owns the mutex.
OneWriter == ~(reader_pc = "write" /\ console_pc = "write")

\* A client that exits with SUCCESS has said /quit last, or a command that
\* passes for it, and, unless the disk refused an entry, has a log of all it said.
Logged(entry) == Cardinality({i \in DOMAIN log : log[i] = entry})
SuccessIsComplete ==
    error_code = "SUCCESS" =>
        /\ requests[Len(requests)] \in {"quit", "invalid"}
        /\ disk_ok => Logged("sent") = Len(requests) - 1

\* A client run is a session as the server (ChatServer) takes it to be.
OpenState ==
    IF requests = <<>> THEN "connected"
    ELSE IF ~was_login_successful THEN "login"
    ELSE IF console_pc = "success" THEN "quit" ELSE "chat"
Gone == socket = "closed" \/ process # "running"
SessionState ==
    IF socket = "none" THEN "idle" ELSE IF Gone THEN "closed" ELSE OpenState
Session == INSTANCE ClientSession WITH state <- SessionState
ImplementsSession == Session!Spec

-----------------------------------------------------------------------------
(* Inductive strengthenings                                                *)

\* Where main is when the log and the socket are there, and when they are not.
BeforeLog == {"start", "open_log"}
BeforeSocket == BeforeLog \cup {"winsock", "connect"}
WithSocket ==
    {"send_login", "receive_login", "create_reader", "create_console", "wait",
     "stop_reader", "kill_reader", "kill_console", "close_socket"}
BeforeReader == BeforeSocket \cup {"send_login", "receive_login", "create_reader"}
BeforeConsole == BeforeReader \cup {"create_console"}

ResourceInv ==
    /\ main_pc \in WithSocket \cup {"winsock", "connect"} => log_open
    /\ main_pc \in BeforeSocket => socket = "none"
    /\ main_pc \in WithSocket => socket = "open"
    /\ main_pc \in {"close_log", "exit"} => socket # "open"
    /\ reader_pc # "none" \/ console_pc # "none" => socket # "none"

\* Where main is when a thread runs.
RunningInv ==
    /\ ReaderIsKept => main_pc \in {"create_console", "wait", "stop_reader", "kill_reader"}
    /\ ConsoleIsKept => main_pc \in {"wait", "kill_reader", "kill_console", "hung"}
    /\ main_pc \in BeforeConsole \cup {"wait"} => doomed = {}
    /\ main_pc = "stop_reader" => ~ConsoleRuns
    /\ main_pc = "kill_reader" => ~(ReaderRuns /\ ConsoleRuns)
    /\ main_pc = "kill_console" => "reader" \in doomed
    /\ ConsoleIsKept /\ "reader" \in doomed => ~ReaderRuns
    /\ ConsoleIsKept => reader_pc # "killed"
    /\ "console" \in doomed => "reader" \in doomed
    /\ main_pc \in BeforeReader => reader_pc = "none"
    /\ main_pc \in BeforeConsole => console_pc = "none"

\* The owner of the mutex is the thread that writes.
MutexInv ==
    /\ log_mutex = "abandoned" => "killed" \in {reader_pc, console_pc}
    /\ reader_pc = "killed" => "reader" \in doomed
    /\ console_pc = "killed" => "console" \in doomed
    /\ log_mutex = "reader" <=> reader_pc = "write"
    /\ log_mutex = "console" <=> console_pc = "write"

ThreadsInv == ResourceInv /\ RunningInv /\ MutexInv /\ LogOutlivesThreads

\* What was sent and received when main is at each step.
LoginInv ==
    /\ main_pc \in BeforeSocket \cup {"send_login"} => requests = <<>>
    /\ main_pc \in BeforeSocket \cup {"send_login", "receive_login"} =>
           response = "none" /\ ~was_login_successful
    /\ main_pc = "receive_login" => requests # <<>>
    /\ was_login_successful => requests # <<>>
    /\ main_pc \in {"create_reader", "create_console", "wait"} => was_login_successful
    /\ reader_pc # "none" \/ console_pc # "none" => was_login_successful

\* What the console reader has said and logged when it is at each step.
LastRequest == requests[Len(requests)]
SaidInv ==
    /\ error_code = "SUCCESS" => console_pc = "success"
    /\ console_pc = "none" => requests \in {<<>>, <<"login">>}
    /\ console_pc \in {"lock", "write", "print", "parse"} => LastRequest = console_msg
    /\ console_pc = "success" => LastRequest \in {"quit", "invalid"}

LoggedInv ==
    disk_ok =>
        /\ console_pc = "none" => Logged("sent") = 0
        /\ console_pc \in {"lock", "write"} => Logged("sent") = Len(requests) - 2
        /\ console_pc \in {"read", "send", "print", "parse", "success"} =>
               Logged("sent") = Len(requests) - 1

-----------------------------------------------------------------------------
(* Liveness                                                                *)

\* When the connection ends main does not stay in its wait for the threads
\* (Protocol.c:139 leaves a lost connection to be dealt with): the socket reader
\* fails and main goes on to the end of the process, although the console
\* reader stays blocked in fgetc.  Or it goes on for ever: the end of the process
\* needs the locks of the C runtime, and a terminated thread, as the one in
\* fgetc, may have died with one.  Then the client hangs.
ClientEndsOrHangs ==
    main_pc = "wait" /\ server_end # "open" ~>
        process # "running" \/ (main_pc = "hung" /\ crt_locked)
=============================================================================

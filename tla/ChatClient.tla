----------------------------- MODULE ChatClient -----------------------------
(***************************************************************************)
(* One run of the client program (src/client): its main thread, which logs *)
(* in and then waits for one of two threads to end, the socket reader and  *)
(* the console reader, and the log file, the log mutex and the socket they *)
(* share.  The server is what the client sees of it: messages and the end  *)
(* of the connection.                                                      *)
(***************************************************************************)
EXTENDS Naturals, Sequences, FiniteSets

CONSTANTS
    Username,
    SharedOpen,         \* fopen_s opens a file this process has open already
    CallsMayFail,       \* parameters, malloc, CreateThread, connect may fail
    MaxTyped,           \* bound: lines typed
    MaxMessages         \* bound: messages the server sends

ASSUME ClientAssumption ==
    /\ SharedOpen \in BOOLEAN /\ CallsMayFail \in BOOLEAN
    /\ MaxTyped \in Nat /\ MaxMessages \in Nat

UserRequests == {"text", "invalid", "quit"}
Messages == {"refusal", "other"}
Threads == {"reader", "console"}

MainPCs ==
    {"start", "open_log", "winsock", "connect", "send_login", "receive_login",
     "create_reader", "create_console", "wait", "stop_reader", "kill_reader",
     "kill_console", "close_socket", "close_log", "exit", "hung"}
\* A thread ends well ("success") or not ("failure"), or is terminated.
Ended == {"success", "failure", "killed"}
ReaderPCs == {"none", "receive", "lock", "write", "print"} \cup Ended
ConsolePCs == {"none", "read", "send", "lock", "write", "print", "parse"} \cup Ended
ErrorCodes ==
    {"GENERAL_FAILURE", "SUCCESS", "WRONG_PARAMETERS", "LOG_FILE_FAILURE",
     "WSASTARTUP_FAILURE", "CONNECTION_FAILURE", "LOGIN_FAILURE",
     "THREAD_CREATION_FAILED", "WAIT_FOR_EVENT_FAILED"}

VARIABLES
    process,                    \* how the process ended, if it has
    \* main of client.c
    main_pc, error_code, was_login_successful,
    socket,                     \* none, open, closed
    \* RunSocketReader: program counter, and what chat_message points to
    reader_pc, reader_msg,
    \* RunConsoleReader: program counter, the line being handled
    console_pc, console_msg, typed,
    \* ClientLog: open files, mutex, entries written; the disk refused none
    log_open, log_mutex, log, disk_ok,
    doomed,                     \* threads TerminateThread was called for
    crt_locked,                 \* a terminated thread left a runtime lock
    \* the server's end, and the messages under way from it
    server_end, incoming, n_messages,
    \* history: the first message received, what was sent
    response, requests

mainVars    == <<main_pc, error_code, was_login_successful, socket>>
readerVars  == <<reader_pc, reader_msg>>
consoleVars == <<console_pc, console_msg, typed>>
logVars     == <<log_open, log_mutex, log, disk_ok>>
serverVars  == <<server_end, incoming, n_messages>>
vars == <<process, mainVars, readerVars, consoleVars, logVars, doomed, crt_locked,
          serverVars, response, requests>>

Init ==
    /\ process = "running"
    /\ main_pc = "start" /\ error_code = "GENERAL_FAILURE"
    /\ was_login_successful = FALSE /\ socket = "none"
    /\ reader_pc = "none" /\ reader_msg = "unset"
    /\ console_pc = "none" /\ console_msg = "text" /\ typed = 0
    /\ log_open = FALSE /\ log_mutex = "free" /\ log = <<>> /\ disk_ok = TRUE
    /\ doomed = {} /\ crt_locked = FALSE
    /\ server_end = "open" /\ incoming = <<>> /\ n_messages = 0
    /\ response = "none" /\ requests = <<>>

-----------------------------------------------------------------------------
(* Main thread: start and login                                            *)

Goto(pc) == main_pc' = pc

\* Mutant: the arguments are swapped.
FailSwapped(code, pc) == Goto(code) /\ error_code' = pc

Fail(code, pc) == Goto(pc) /\ error_code' = code

HandleParameters ==
    /\ main_pc = "start"
    /\ \/ Goto("open_log") /\ UNCHANGED error_code
       \/ CallsMayFail /\ Fail("WRONG_PARAMETERS", "exit")
    /\ UNCHANGED <<process, was_login_successful, socket, readerVars, consoleVars,
                   logVars, doomed, crt_locked, serverVars, response, requests>>

\* The file name is the username, its '\0' (which username_length counts) and
\* the extension: the path ends at the '\0'.
LogPath(extension) == Username

ErrorsLogOpens == SharedOpen \/ LogPath("_errors.txt") # LogPath(".txt")

InitializeClientLog ==
    /\ main_pc = "open_log"
    /\ \/ ErrorsLogOpens /\ Goto("winsock") /\ log_open' = TRUE /\ UNCHANGED error_code
       \/ /\ CallsMayFail \/ ~ErrorsLogOpens
          /\ Fail("LOG_FILE_FAILURE", "exit") /\ UNCHANGED log_open
    /\ UNCHANGED <<process, was_login_successful, socket, readerVars, consoleVars,
                   log_mutex, log, disk_ok, doomed, crt_locked, serverVars, response, requests>>

InitializeWinSock2 ==
    /\ main_pc = "winsock"
    /\ \/ Goto("connect") /\ UNCHANGED error_code
       \/ CallsMayFail /\ Fail("WSASTARTUP_FAILURE", "close_log")
    /\ UNCHANGED <<process, was_login_successful, socket, readerVars, consoleVars,
                   logVars, doomed, crt_locked, serverVars, response, requests>>

ConnectToServer ==
    /\ main_pc = "connect"
    /\ \/ Goto("send_login") /\ socket' = "open" /\ UNCHANGED error_code
       \/ /\ CallsMayFail \/ server_end # "open"
          /\ Fail("CONNECTION_FAILURE", "close_log") /\ UNCHANGED socket
    /\ UNCHANGED <<process, was_login_successful, readerVars, consoleVars, logVars,
                   doomed, crt_locked, serverVars, response, requests>>

\* Login: its request ...
SendLogin ==
    /\ main_pc = "send_login"
    /\ \/ Goto("receive_login") /\ requests' = <<"login">> /\ UNCHANGED error_code
       \/ /\ CallsMayFail \/ server_end # "open"
          /\ Fail("LOGIN_FAILURE", "close_socket") /\ UNCHANGED requests
    /\ UNCHANGED <<process, was_login_successful, socket, readerVars, consoleVars,
                   logVars, doomed, crt_locked, serverVars, response>>

\* Mutant: the type of the answer is not looked at.
AnyMessageAccepts(m) == TRUE

\* Any message but SYSTEM_MESSAGE_LOGIN_FAILED is taken for a welcome.
LoginAccepted(m) == m # "refusal"

\* ... and the answer, the first message there is.
ReceiveLoginResponse ==
    /\ main_pc = "receive_login"
    /\ incoming # <<>>
    /\ incoming' = Tail(incoming)
    /\ response' = Head(incoming)
    /\ IF LoginAccepted(Head(incoming))
       THEN Goto("create_reader") /\ was_login_successful' = TRUE /\ UNCHANGED error_code
       ELSE Fail("LOGIN_FAILURE", "close_socket") /\ UNCHANGED was_login_successful
    /\ UNCHANGED <<process, socket, readerVars, consoleVars, logVars, doomed, crt_locked,
                   server_end, n_messages, requests>>

\* recv() fails or returns 0.
ConnectionLost == server_end = "reset" \/ (server_end = "closed" /\ incoming = <<>>)

ReceiveLoginFails ==
    /\ main_pc = "receive_login"
    /\ ConnectionLost
    /\ Fail("LOGIN_FAILURE", "close_socket")
    /\ UNCHANGED <<process, was_login_successful, socket, readerVars, consoleVars,
                   logVars, doomed, crt_locked, serverVars, response, requests>>

-----------------------------------------------------------------------------
(* Main thread: the two threads and the end                                *)

CreateSocketReader ==
    /\ main_pc = "create_reader"
    /\ \/ Goto("create_console") /\ reader_pc' = "receive" /\ UNCHANGED error_code
       \/ CallsMayFail /\ Fail("THREAD_CREATION_FAILED", "kill_reader") /\ UNCHANGED reader_pc
    /\ UNCHANGED <<process, was_login_successful, socket, reader_msg, consoleVars,
                   logVars, doomed, crt_locked, serverVars, response, requests>>

CreateConsoleReader ==
    /\ main_pc = "create_console"
    /\ \/ Goto("wait") /\ console_pc' = "read" /\ UNCHANGED error_code
       \/ CallsMayFail /\ Fail("THREAD_CREATION_FAILED", "kill_reader") /\ UNCHANGED console_pc
    /\ UNCHANGED <<process, was_login_successful, socket, readerVars, console_msg, typed,
                   logVars, doomed, crt_locked, serverVars, response, requests>>

\* Mutant: main waits for both threads.
BothEnded(t) == reader_pc \in Ended /\ console_pc \in Ended

HasEnded(t) == IF t = "reader" THEN reader_pc \in Ended ELSE console_pc \in Ended

\* WaitForThreadsTermination.  WaitForMultipleObjects returns the lowest index
\* that is signalled, the socket reader's if both are.  The socket reader
\* only ends by failing: the handles stay and the cleanup terminates both.
SocketReaderEnds ==
    /\ main_pc = "wait"
    /\ HasEnded("reader")
    /\ Fail("WAIT_FOR_EVENT_FAILED", "kill_reader")
    /\ UNCHANGED <<process, was_login_successful, socket, readerVars, consoleVars,
                   logVars, doomed, crt_locked, serverVars, response, requests>>

ConsoleReaderEnds ==
    /\ main_pc = "wait"
    /\ HasEnded("console") /\ ~HasEnded("reader")
    /\ Goto("stop_reader")
    /\ UNCHANGED <<process, error_code, was_login_successful, socket, readerVars,
                   consoleVars, logVars, doomed, crt_locked, serverVars, response, requests>>

\* TerminateThread asks for the end of a thread and does not wait for it: the
\* thread goes on until it is stopped (ThreadStops).
Doom(t) == doomed' = doomed \cup {t}

\* Mutant: the thread is left running.
LeaveReader == UNCHANGED doomed

TerminateReader == Doom("reader")

\* The socket reader is terminated, then the console reader's exit code read.
\* If it is not a success main terminates both (again).
StopReader ==
    /\ main_pc = "stop_reader"
    /\ TerminateReader
    /\ IF console_pc = "success" THEN Fail("SUCCESS", "close_socket")
       ELSE Fail("WAIT_FOR_EVENT_FAILED", "kill_reader")
    /\ UNCHANGED <<process, was_login_successful, socket, readerVars, consoleVars,
                   logVars, crt_locked, serverVars, response, requests>>

KillReader ==
    /\ main_pc = "kill_reader"
    /\ TerminateReader
    /\ Goto("kill_console")
    /\ UNCHANGED <<process, error_code, was_login_successful, socket, readerVars,
                   consoleVars, logVars, crt_locked, serverVars, response, requests>>

KillConsole ==
    /\ main_pc = "kill_console"
    /\ Doom("console")
    /\ Goto("close_socket")
    /\ UNCHANGED <<process, error_code, was_login_successful, socket, readerVars,
                   consoleVars, logVars, crt_locked, serverVars, response, requests>>

CloseSocket ==
    /\ main_pc = "close_socket"
    /\ socket' = "closed"
    /\ Goto("close_log")
    /\ UNCHANGED <<process, error_code, was_login_successful, readerVars, consoleVars,
                   logVars, doomed, crt_locked, serverVars, response, requests>>

\* fclose takes the lock of the stream it closes, and so does the exit of the
\* process: either waits for ever if a terminated thread holds it.
MayHang ==
    /\ main_pc \in {"kill_console", "close_socket", "close_log", "exit"}
    /\ crt_locked
    /\ Goto("hung")
    /\ UNCHANGED <<process, error_code, was_login_successful, socket, readerVars,
                   consoleVars, logVars, doomed, crt_locked, serverVars, response, requests>>

CloseClientLog ==
    /\ main_pc = "close_log"
    /\ log_open' = FALSE
    /\ Goto("exit")
    /\ UNCHANGED <<process, error_code, was_login_successful, socket, readerVars,
                   consoleVars, log_mutex, log, disk_ok, doomed, crt_locked, serverVars,
                   response, requests>>

ExitProcess ==
    /\ main_pc = "exit"
    /\ process' = "exited"
    /\ UNCHANGED <<mainVars, readerVars, consoleVars, logVars, doomed, crt_locked, serverVars,
                   response, requests>>

MainNext ==
    /\ process = "running"
    /\ \/ HandleParameters \/ InitializeClientLog \/ InitializeWinSock2 \/ ConnectToServer
       \/ SendLogin \/ ReceiveLoginResponse \/ ReceiveLoginFails
       \/ CreateSocketReader \/ CreateConsoleReader
       \/ SocketReaderEnds \/ ConsoleReaderEnds \/ StopReader
       \/ KillReader \/ KillConsole \/ CloseSocket \/ MayHang \/ CloseClientLog \/ ExitProcess

-----------------------------------------------------------------------------
(* WrtieLogMessage, for either thread                                      *)

TakesMutex == log_mutex = "free"

\* Mutant: the mutex is not taken, as in a log without one.
DoesNotTakeMutex(t) == UNCHANGED log_mutex

OwnsMutex(t) == log_mutex' = t

\* Waiting for an abandoned mutex returns WAIT_ABANDONED, which the code takes
\* for a failure; the _finally block releases the mutex.  Once main has closed
\* the mutex the wait fails too (or lasts: there is no handle to wait for).
FindsAbandoned ==
    \/ log_mutex = "abandoned" /\ log_mutex' = "free"
    \/ ~log_open /\ UNCHANGED log_mutex

\* fprintf_s returns a negative number when it fails, which the code takes for
\* a success: the entry is lost and nobody is told.
WriteEntry(entry) ==
    /\ \/ log_open /\ log' = Append(log, entry) /\ UNCHANGED disk_ok
       \/ (CallsMayFail \/ ~log_open) /\ disk_ok' = FALSE /\ UNCHANGED log
    /\ log_mutex' = "free"
    /\ UNCHANGED process

\* A thread that main has terminated and closed the log of may still write.
WriteToClosedLog ==
    /\ ~log_open
    /\ process' = "crashed"
    /\ UNCHANGED <<log_mutex, log, disk_ok>>

-----------------------------------------------------------------------------
(* Socket reader: RunSocketReader                                          *)

Connected == socket = "open" /\ server_end = "open"

ReaderGoto(pc) == reader_pc' = pc

ReceiveMessage ==
    /\ reader_pc = "receive"
    /\ socket = "open" /\ server_end # "reset" /\ incoming # <<>>
    /\ incoming' = Tail(incoming)
    /\ reader_msg' = "held"
    /\ ReaderGoto("lock")
    /\ UNCHANGED <<process, logVars>>

\* The cleanup frees chat_message: before the first message it was never set,
\* after one it was freed already, and a failed receive leaves it as it was.
ReceiveFails ==
    /\ reader_pc = "receive"
    /\ ConnectionLost \/ CallsMayFail \/ socket # "open"
    /\ \/ ReaderGoto("failure") /\ UNCHANGED process
       \/ reader_msg # "held" /\ process' = "bad_free" /\ UNCHANGED reader_pc
    /\ UNCHANGED <<reader_msg, incoming, logVars>>

ReaderLock ==
    /\ reader_pc = "lock"
    /\ \/ TakesMutex /\ OwnsMutex("reader") /\ ReaderGoto("write")
       \/ FindsAbandoned /\ ReaderGoto("failure")
    /\ UNCHANGED <<process, reader_msg, incoming, log_open, log, disk_ok>>

ReaderWrite ==
    /\ reader_pc = "write"
    /\ \/ WriteEntry("received") /\ ReaderGoto("print")
       \/ WriteToClosedLog /\ UNCHANGED reader_pc
    /\ UNCHANGED <<reader_msg, incoming, log_open>>

\* printf_s to stdout, outside the mutex, and FreeChatMessage.
ReaderPrint ==
    /\ reader_pc = "print"
    /\ reader_msg' = "freed"
    /\ ReaderGoto("receive")
    /\ UNCHANGED <<process, incoming, logVars>>

ReaderNext ==
    /\ process = "running"
    /\ ReceiveMessage \/ ReceiveFails \/ ReaderLock \/ ReaderWrite \/ ReaderPrint
    /\ UNCHANGED <<mainVars, consoleVars, doomed, crt_locked, server_end, n_messages, response, requests>>

-----------------------------------------------------------------------------
(* Console reader: RunConsoleReader                                        *)

ConsoleGoto(pc) == console_pc' = pc

\* ReadLineFromStdin and BuildChatMessage.
ReadLine(r) ==
    /\ console_pc = "read" /\ typed < MaxTyped
    /\ typed' = typed + 1
    /\ \/ console_msg' = r /\ ConsoleGoto("send")
       \/ CallsMayFail /\ ConsoleGoto("failure") /\ UNCHANGED console_msg
    /\ UNCHANGED <<process, logVars, requests>>

\* A line that is too long is dropped; one longer than the array overruns it.
ReadLongLine ==
    /\ console_pc = "read" /\ typed < MaxTyped
    /\ typed' = typed + 1
    /\ process' \in {"running", "crashed"}
    /\ UNCHANGED <<console_pc, console_msg, logVars, requests>>

ReadEof ==
    /\ console_pc = "read"
    /\ ConsoleGoto("failure")
    /\ UNCHANGED <<process, console_msg, typed, logVars, requests>>

SendLine ==
    /\ console_pc = "send"
    /\ \/ socket = "open" /\ ConsoleGoto("lock") /\ requests' = Append(requests, console_msg)
       \/ ~Connected /\ ConsoleGoto("failure") /\ UNCHANGED requests
    /\ UNCHANGED <<process, console_msg, typed, logVars>>

ConsoleLock ==
    /\ console_pc = "lock"
    /\ \/ TakesMutex /\ OwnsMutex("console") /\ ConsoleGoto("write")
       \/ FindsAbandoned /\ ConsoleGoto("failure")
    /\ UNCHANGED <<process, console_msg, typed, log_open, log, disk_ok, requests>>

ConsoleWrite ==
    /\ console_pc = "write"
    /\ \/ WriteEntry("sent") /\ ConsoleGoto("print")
       \/ WriteToClosedLog /\ UNCHANGED console_pc
    /\ UNCHANGED <<console_msg, typed, log_open, requests>>

ConsolePrint ==
    /\ console_pc = "print"
    /\ ConsoleGoto("parse")
    /\ UNCHANGED <<process, console_msg, typed, logVars, requests>>

\* Mutant: the type of the request is not looked at.
AnyLineQuits(r) == TRUE

PassesForQuit(r) == r \in {"quit", "invalid"}

\* ParseMessage is given the length in network byte order (see ChatProtocol):
\* it may recognise /quit or take it for an invalid command, take an invalid
\* command for /quit, fail, or run out of the readable memory.
ParseLine ==
    /\ console_pc = "parse"
    /\ \/ PassesForQuit(console_msg) /\ ConsoleGoto("success") /\ UNCHANGED process
       \/ ConsoleGoto("read") /\ UNCHANGED process
       \/ /\ console_msg # "quit" \/ CallsMayFail
          /\ ConsoleGoto("failure") /\ UNCHANGED process
       \/ process' = "crashed" /\ UNCHANGED console_pc
    /\ UNCHANGED <<console_msg, typed, logVars, requests>>

HandleLine == SendLine \/ ConsoleLock \/ ConsoleWrite \/ ConsolePrint \/ ParseLine

ConsoleFrame == UNCHANGED <<mainVars, readerVars, doomed, crt_locked, serverVars, response>>

ConsoleNext == process = "running" /\ HandleLine /\ ConsoleFrame

UserNext ==
    /\ process = "running"
    /\ (\E r \in UserRequests : ReadLine(r)) \/ ReadLongLine \/ ReadEof
    /\ ConsoleFrame

-----------------------------------------------------------------------------
(* The end of a terminated thread, at any later time                       *)

ReaderRuns == reader_pc \notin Ended \cup {"none"}
ConsoleRuns == console_pc \notin Ended \cup {"none"}

\* A thread that is not blocked in recv may be inside the C runtime, with the
\* lock of a stream or of the heap; fgetc holds the lock of stdin.
ReaderHoldsLock == reader_pc = "receive" => incoming # <<>>

\* Windows marks the mutexes of a terminated thread as abandoned.
Abandon(t) == log_mutex' = IF log_mutex = t THEN "abandoned" ELSE log_mutex

ReaderStops ==
    /\ "reader" \in doomed /\ ReaderRuns
    /\ ReaderGoto("killed")
    /\ Abandon("reader")
    /\ crt_locked' = (crt_locked \/ ReaderHoldsLock)
    /\ UNCHANGED <<reader_msg, consoleVars>>

ConsoleStops ==
    /\ "console" \in doomed /\ ConsoleRuns
    /\ ConsoleGoto("killed")
    /\ Abandon("console")
    /\ crt_locked' = TRUE
    /\ UNCHANGED <<readerVars, console_msg, typed>>

ThreadStops ==
    /\ process = "running"
    /\ ReaderStops \/ ConsoleStops
    /\ UNCHANGED <<process, mainVars, log_open, log, disk_ok, doomed, serverVars,
                   response, requests>>

-----------------------------------------------------------------------------
(* The server, as far as this client can tell                              *)

\* Nothing comes before the login request; after it anything may come first.
ServerSends(m) ==
    /\ Connected /\ requests # <<>> /\ n_messages < MaxMessages
    /\ incoming' = Append(incoming, m)
    /\ n_messages' = n_messages + 1
    /\ UNCHANGED server_end

\* Closed, when what was sent still arrives, or reset, when it is lost.
ServerEnds ==
    /\ server_end = "open"
    /\ \/ server_end' = "closed" /\ UNCHANGED incoming
       \/ server_end' = "reset" /\ incoming' = <<>>
    /\ UNCHANGED n_messages

ServerNext ==
    /\ process = "running"
    /\ (\E m \in Messages : ServerSends(m)) \/ ServerEnds
    /\ UNCHANGED <<process, mainVars, readerVars, consoleVars, logVars, doomed, crt_locked,
                   response, requests>>

Terminated ==
    /\ process # "running" \/ main_pc = "hung"
    /\ UNCHANGED vars

Next ==
    \/ MainNext \/ ReaderNext \/ ConsoleNext \/ ThreadStops
    \/ UserNext \/ ServerNext \/ Terminated

Spec == Init /\ [][Next]_vars

\* The threads are scheduled.  Nothing is asked of the user or of the server.
Fairness == WF_vars(MainNext) /\ WF_vars(ReaderNext) /\ WF_vars(ConsoleNext)

FairSpec == Spec /\ Fairness
=============================================================================

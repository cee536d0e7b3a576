-------------------------- MODULE ChatClientProofs --------------------------
(* Theorems about a run of the client, for every number of lines typed and   *)
(* messages received, with and without failing calls.                        *)
EXTENDS ChatClientProperties, SequenceTheorems, FiniteSetTheorems, TLAPS

-----------------------------------------------------------------------------
(* Types                                                                    *)

LEMMA TypeInit == Init => TypeInvariant
<1> SUFFICES ASSUME Init PROVE TypeInvariant
  OBVIOUS
<1> USE DEF Init
<1>1. MainTypeOK
  BY DEF MainTypeOK, MainPCs, ErrorCodes
<1>2. ThreadsTypeOK
  BY DEF ThreadsTypeOK, ReaderPCs, ConsolePCs, UserRequests
<1>3. LogTypeOK
  BY EmptySeq DEF LogTypeOK
<1>4. ServerTypeOK
  BY EmptySeq DEF ServerTypeOK
<1> QED BY <1>1, <1>2, <1>3, <1>4 DEF TypeInvariant

LEMMA MainType == TypeInvariant /\ MainNext => TypeInvariant'
<1> SUFFICES ASSUME TypeInvariant, MainNext PROVE TypeInvariant'
  OBVIOUS
<1> USE DEF TypeInvariant, MainNext, HandleParameters, InitializeClientLog, InitializeWinSock2,
        ConnectToServer, SendLogin, ReceiveLoginResponse, ReceiveLoginFails, CreateSocketReader,
        CreateConsoleReader, SocketReaderEnds, ConsoleReaderEnds, StopReader, KillReader,
        KillConsole, CloseSocket, MayHang, CloseClientLog, ExitProcess, TerminateReader, Doom
<1>1. MainTypeOK'
  <2> USE DEF MainTypeOK, MainPCs, ErrorCodes, Goto, Fail
  <2>1. process' \in {"running", "exited", "bad_free", "crashed"} /\ socket' \in {"none", "open", "closed"}
    BY DEF mainVars
  <2>2. main_pc' \in MainPCs
    BY DEF mainVars
  <2>3. error_code' \in ErrorCodes
    BY DEF mainVars
  <2>4. was_login_successful' \in BOOLEAN
    <3>1. CASE ReceiveLoginResponse
      BY <3>1
    <3>2. CASE UNCHANGED was_login_successful
      BY <3>2
    <3> QED BY <3>1, <3>2 DEF mainVars
  <2> QED BY <2>1, <2>2, <2>3, <2>4
<1>2. ThreadsTypeOK'
  BY DEF ThreadsTypeOK, ReaderPCs, ConsolePCs, Ended, readerVars, consoleVars
<1>3. LogTypeOK'
  BY DEF LogTypeOK, Threads, logVars
<1>4. ServerTypeOK'
  <2>1. CASE ReceiveLoginResponse
    <3>1. Head(incoming) \in Messages /\ Tail(incoming) \in Seq(Messages)
      BY <2>1, HeadTailProperties DEF ServerTypeOK
    <3> QED BY <2>1, <3>1 DEF ServerTypeOK
  <2>2. CASE SendLogin
    <3>1. <<"login">> \in Seq(Sendable)
      BY DEF Sendable
    <3> QED BY <2>2, <3>1 DEF ServerTypeOK, serverVars
  <2>3. CASE UNCHANGED <<serverVars, response, requests>>
    BY <2>3 DEF ServerTypeOK, serverVars
  <2> QED BY <2>1, <2>2, <2>3
<1> QED BY <1>1, <1>2, <1>3, <1>4

\* The log stays a sequence of entries, the mutex one of its values.
LEMMA WriteType ==
    ASSUME LogTypeOK, NEW e \in Entries, WriteEntry(e), UNCHANGED <<log_open, doomed, crt_locked>>
    PROVE  LogTypeOK'
<1>1. Append(log, e) \in Seq(Entries)
  BY AppendProperties DEF LogTypeOK
<1> QED BY <1>1 DEF LogTypeOK, WriteEntry

LEMMA LockType ==
    ASSUME LogTypeOK, NEW t \in Threads, OwnsMutex(t) \/ FindsAbandoned,
           UNCHANGED <<log_open, log, disk_ok, doomed, crt_locked>>
    PROVE  LogTypeOK'
BY DEF LogTypeOK, OwnsMutex, FindsAbandoned

LEMMA ReaderType == TypeInvariant /\ ReaderNext => TypeInvariant'
<1> SUFFICES ASSUME TypeInvariant, ReaderNext PROVE TypeInvariant'
  OBVIOUS
<1> USE DEF TypeInvariant, ReaderNext, ReceiveMessage, ReceiveFails, ReaderLock, ReaderWrite,
        ReaderPrint, WriteToClosedLog
<1>1. MainTypeOK'
  BY DEF MainTypeOK, WriteEntry, mainVars
<1>2. ThreadsTypeOK'
  BY DEF ThreadsTypeOK, ReaderPCs, Ended, ReaderGoto, consoleVars
<1>3. LogTypeOK'
  <2>1. CASE ReaderLock
    BY <2>1, LockType DEF Threads
  <2>2. CASE ReaderWrite /\ WriteEntry("received")
    BY <2>2, WriteType DEF Entries
  <2>4. CASE ReaderWrite /\ WriteToClosedLog
    BY <2>4 DEF LogTypeOK
  <2>3. CASE UNCHANGED logVars
    BY <2>3 DEF LogTypeOK, logVars
  <2> QED BY <2>1, <2>2, <2>3, <2>4
<1>4. ServerTypeOK'
  <2>1. CASE ReceiveMessage
    BY <2>1, HeadTailProperties DEF ServerTypeOK
  <2>2. CASE UNCHANGED incoming
    BY <2>2 DEF ServerTypeOK
  <2> QED BY <2>1, <2>2
<1> QED BY <1>1, <1>2, <1>3, <1>4

LEMMA ConsoleType == TypeInvariant /\ (ConsoleNext \/ UserNext) => TypeInvariant'
<1> SUFFICES ASSUME TypeInvariant, ConsoleNext \/ UserNext PROVE TypeInvariant'
  OBVIOUS
<1> USE DEF TypeInvariant, ConsoleNext, UserNext, HandleLine, SendLine, ConsoleLock, ConsoleWrite,
        ConsolePrint, ParseLine, ReadLine, ReadLongLine, ReadEof, ConsoleFrame, WriteToClosedLog
<1>1. MainTypeOK'
  BY DEF MainTypeOK, WriteEntry, mainVars
<1>2. ThreadsTypeOK'
  BY DEF ThreadsTypeOK, ConsolePCs, Ended, ConsoleGoto, readerVars
<1>3. LogTypeOK'
  <2>1. CASE ConsoleLock
    BY <2>1, LockType DEF Threads
  <2>2. CASE ConsoleWrite /\ WriteEntry("sent")
    BY <2>2, WriteType DEF Entries
  <2>4. CASE ConsoleWrite /\ WriteToClosedLog
    BY <2>4 DEF LogTypeOK
  <2>3. CASE UNCHANGED logVars
    BY <2>3 DEF LogTypeOK, logVars
  <2> QED BY <2>1, <2>2, <2>3, <2>4
<1>4. ServerTypeOK'
  <2>1. CASE requests' = Append(requests, console_msg)
    BY <2>1, AppendProperties DEF ServerTypeOK, ThreadsTypeOK, Sendable, serverVars
  <2>2. CASE UNCHANGED requests
    BY <2>2 DEF ServerTypeOK, serverVars
  <2> QED BY <2>1, <2>2
<1> QED BY <1>1, <1>2, <1>3, <1>4

LEMMA StopType == TypeInvariant /\ ThreadStops => TypeInvariant'
<1> SUFFICES ASSUME TypeInvariant, ThreadStops PROVE TypeInvariant'
  OBVIOUS
<1> USE DEF TypeInvariant, ThreadStops, ReaderStops, ConsoleStops, ReaderGoto, ConsoleGoto
<1>1. MainTypeOK' /\ ServerTypeOK'
  BY DEF MainTypeOK, ServerTypeOK, mainVars, serverVars
<1>2. ThreadsTypeOK'
  BY DEF ThreadsTypeOK, ReaderPCs, ConsolePCs, Ended, readerVars, consoleVars
<1>3. LogTypeOK'
  <2>1. crt_locked' \in BOOLEAN
    BY DEF LogTypeOK
  <2> QED BY <2>1 DEF LogTypeOK, Abandon
<1> QED BY <1>1, <1>2, <1>3

LEMMA ServerType == TypeInvariant /\ ServerNext => TypeInvariant'
<1> SUFFICES ASSUME TypeInvariant, ServerNext PROVE TypeInvariant'
  OBVIOUS
<1> USE DEF TypeInvariant, ServerNext, ServerEnds, ServerSends
<1>1. MainTypeOK' /\ ThreadsTypeOK' /\ LogTypeOK'
  BY DEF MainTypeOK, ThreadsTypeOK, LogTypeOK, mainVars, readerVars, consoleVars, logVars
<1>2. incoming' \in Seq(Messages)
  <2>1. \A m \in Messages : Append(incoming, m) \in Seq(Messages)
    BY AppendProperties DEF ServerTypeOK
  <2>2. <<>> \in Seq(Messages)
    BY EmptySeq
  <2> QED BY <2>1, <2>2 DEF ServerTypeOK
<1>3. ServerTypeOK'
  BY <1>2 DEF ServerTypeOK
<1> QED BY <1>1, <1>3

LEMMA TypeStutter == TypeInvariant /\ UNCHANGED vars => TypeInvariant'
BY DEF TypeInvariant, MainTypeOK, ThreadsTypeOK, LogTypeOK, ServerTypeOK, vars, mainVars,
       readerVars, consoleVars, logVars, serverVars

\* Every variable of the client keeps its type.
THEOREM ClientTypeCorrect == Spec => []TypeInvariant
<1>1. TypeInvariant /\ [Next]_vars => TypeInvariant'
  BY MainType, ReaderType, ConsoleType, StopType, ServerType, TypeStutter DEF Next, Terminated
<1> QED BY TypeInit, <1>1, PTL DEF Spec

-----------------------------------------------------------------------------
(* Threads and what they share                                             *)

LEMMA ThreadsInit == Init => ThreadsInv
BY DEF Init, ThreadsInv, ResourceInv, RunningInv, MutexInv, LogOutlivesThreads, ReaderIsKept,
       ConsoleIsKept, ReaderRuns, ConsoleRuns, Ended, BeforeSocket, BeforeLog, BeforeReader,
       BeforeConsole, WithSocket

\* Main terminates the threads before it closes what they use.
LEMMA MainThreads == TypeInvariant /\ ThreadsInv /\ MainNext => ThreadsInv'
<1> SUFFICES ASSUME TypeInvariant, ThreadsInv, MainNext PROVE ThreadsInv'
  OBVIOUS
<1> USE DEF TypeInvariant, MainTypeOK, ThreadsTypeOK, LogTypeOK, Threads, ThreadsInv, MainNext,
        HandleParameters, InitializeClientLog, InitializeWinSock2, ConnectToServer, SendLogin,
        ReceiveLoginResponse, ReceiveLoginFails, CreateSocketReader, CreateConsoleReader,
        SocketReaderEnds, ConsoleReaderEnds, StopReader, KillReader, KillConsole, CloseSocket,
        MayHang, CloseClientLog, ExitProcess, TerminateReader, Doom, Goto, Fail, HasEnded,
        Ended, ReaderRuns, ConsoleRuns, ReaderIsKept, ConsoleIsKept, mainVars, readerVars,
        consoleVars, logVars, BeforeSocket, BeforeLog, BeforeReader, BeforeConsole, WithSocket
<1>1. ResourceInv'
  BY DEF ResourceInv
<1>2. RunningInv'
  <2> USE DEF RunningInv
  <2>1. CASE StopReader
    BY <2>1
  <2>5. CASE KillReader
    BY <2>5
  <2>2. CASE KillConsole
    BY <2>2
  <2>3. CASE UNCHANGED <<reader_pc, console_pc, doomed>>
    BY <2>3 DEF ResourceInv
  <2>4. CASE CreateSocketReader \/ CreateConsoleReader
    BY <2>4 DEF MutexInv
  <2> QED BY <2>1, <2>2, <2>3, <2>4, <2>5
<1>3. MutexInv'
  BY DEF RunningInv, MutexInv
<1>4. LogOutlivesThreads'
  <2>1. CASE MayHang
    BY <2>1 DEF LogOutlivesThreads
  <2>2. CASE main_pc' # "hung"
    BY <2>2, <1>1, <1>2, <1>3 DEF LogOutlivesThreads, ResourceInv, RunningInv, MutexInv
  <2> QED BY <2>1, <2>2
<1> QED BY <1>1, <1>2, <1>3, <1>4

\* A thread takes the mutex to write, gives it back, and starts none.
LEMMA OtherThreads ==
    TypeInvariant /\ ThreadsInv /\ (ReaderNext \/ ConsoleNext \/ UserNext) => ThreadsInv'
<1> SUFFICES ASSUME TypeInvariant, ThreadsInv, ReaderNext \/ ConsoleNext \/ UserNext
             PROVE  ThreadsInv'
  OBVIOUS
<1> USE DEF TypeInvariant, MainTypeOK, ThreadsTypeOK, LogTypeOK, Threads, ThreadsInv, ReaderNext,
        ReceiveMessage, ReceiveFails, ReaderLock, ReaderWrite, ReaderPrint, ConsoleNext, UserNext,
        HandleLine, SendLine, ConsoleLock, ConsoleWrite, ConsolePrint, ParseLine, ReadLine,
        ReadLongLine, ReadEof, ConsoleFrame, ReaderGoto, ConsoleGoto, TakesMutex, OwnsMutex,
        FindsAbandoned, WriteEntry, WriteToClosedLog, Ended, ReaderRuns, ConsoleRuns,
        ReaderIsKept, ConsoleIsKept, mainVars, readerVars, consoleVars, logVars
<1>1. ResourceInv'
  BY DEF ResourceInv
<1>2. RunningInv'
  BY DEF RunningInv
<1>3. MutexInv'
  BY DEF MutexInv
<1>4. LogOutlivesThreads'
  BY DEF MutexInv, LogOutlivesThreads
<1> QED BY <1>1, <1>2, <1>3, <1>4

\* A thread that is stopped leaves its mutex abandoned, to no thread that is kept.
LEMMA StopThreads == TypeInvariant /\ ThreadsInv /\ ThreadStops => ThreadsInv'
<1> SUFFICES ASSUME TypeInvariant, ThreadsInv, ThreadStops PROVE ThreadsInv'
  OBVIOUS
<1> USE DEF TypeInvariant, ThreadsTypeOK, LogTypeOK, Threads, ThreadsInv, ThreadStops,
        ReaderStops, ConsoleStops, ReaderGoto, ConsoleGoto, Abandon, Ended, ReaderRuns,
        ConsoleRuns, ReaderIsKept, ConsoleIsKept, mainVars, readerVars, consoleVars
<1>1. ResourceInv'
  BY DEF ResourceInv
<1>2. RunningInv'
  BY DEF RunningInv, BeforeConsole, BeforeReader
<1>3. MutexInv'
  BY DEF MutexInv
<1>4. LogOutlivesThreads'
  BY DEF RunningInv, MutexInv, LogOutlivesThreads
<1> QED BY <1>1, <1>2, <1>3, <1>4

LEMMA ThreadsFrame ==
    ThreadsInv /\ UNCHANGED <<mainVars, readerVars, consoleVars, logVars, doomed>> => ThreadsInv'
BY DEF ThreadsInv, ResourceInv, RunningInv, MutexInv, LogOutlivesThreads, ReaderIsKept,
       ConsoleIsKept, ReaderRuns, ConsoleRuns, mainVars, readerVars, consoleVars, logVars

LEMMA ThreadsAlways == Spec => []ThreadsInv
<1>1. TypeInvariant /\ ThreadsInv /\ [Next]_vars => ThreadsInv'
  BY MainThreads, OtherThreads, StopThreads, ThreadsFrame DEF Next, Terminated, ServerNext, vars
<1> QED BY ThreadsInit, ClientTypeCorrect, <1>1, PTL DEF Spec

\* Main closes the log and the socket only when no thread is left to use them
\* but those it has terminated, and a terminated thread leaves no mutex that
\* another would wait for.
THEOREM LogOutlivesItsThreads == Spec => []LogOutlivesThreads
BY ThreadsAlways, PTL DEF ThreadsInv

\* Two threads never write to the log file at once.
THEOREM LogHasOneWriter == Spec => []OneWriter
<1>1. ThreadsInv => OneWriter
  BY DEF ThreadsInv, MutexInv, OneWriter
<1> QED BY ThreadsAlways, <1>1, PTL

-----------------------------------------------------------------------------
(* A run of the client is a session                                        *)

LEMMA LoginInit == Init => LoginInv
BY DEF Init, LoginInv, BeforeSocket, BeforeLog

LEMMA LoginStep == TypeInvariant /\ ThreadsInv /\ LoginInv /\ [Next]_vars => LoginInv'
<1> SUFFICES ASSUME TypeInvariant, ThreadsInv, LoginInv, [Next]_vars PROVE LoginInv'
  OBVIOUS
<1>1. CASE MainNext
  <2> USE <1>1 DEF LoginInv, BeforeSocket, BeforeLog, MainNext, HandleParameters,
          InitializeClientLog, InitializeWinSock2, ConnectToServer, SendLogin,
          ReceiveLoginResponse, ReceiveLoginFails, CreateSocketReader, CreateConsoleReader,
          SocketReaderEnds, ConsoleReaderEnds, StopReader, KillReader, KillConsole, CloseSocket,
          MayHang, CloseClientLog, ExitProcess, Goto, Fail, Ended, mainVars, readerVars,
          consoleVars
  <2>1. <<"login">> # <<>>
    OBVIOUS
  <2>2. CASE SendLogin
    BY <2>1, <2>2
  <2>3. CASE ReceiveLoginResponse
    BY <2>3 DEF ThreadsInv, RunningInv
  <2>4. CASE UNCHANGED <<requests, response, was_login_successful>>
    BY <2>4
  <2> QED BY <2>2, <2>3, <2>4
<1>2. CASE ReaderNext \/ ConsoleNext \/ UserNext
  <2>1. UNCHANGED <<main_pc, was_login_successful, response>>
    BY <1>2 DEF ReaderNext, ConsoleNext, UserNext, ConsoleFrame, mainVars
  <2>2. UNCHANGED requests \/ (ConsoleRuns /\ requests' # <<>>)
    BY <1>2, AppendProperties DEF ReaderNext, ConsoleNext, UserNext, HandleLine, SendLine,
       ConsoleLock, ConsoleWrite, ConsolePrint, ParseLine, ReadLine, ReadLongLine, ReadEof,
       ConsoleRuns, Ended, TypeInvariant, ServerTypeOK, ThreadsTypeOK, Sendable
  <2>3. /\ reader_pc' # "none" => reader_pc # "none"
        /\ console_pc' # "none" => console_pc # "none"
    BY <1>2 DEF ReaderNext, ReceiveMessage, ReceiveFails, ReaderLock, ReaderWrite, ReaderPrint,
       ReaderGoto, ConsoleNext, UserNext, HandleLine, SendLine, ConsoleLock, ConsoleWrite,
       ConsolePrint, ParseLine, ReadLine, ReadLongLine, ReadEof, ConsoleGoto, ConsoleFrame,
       readerVars, consoleVars
  <2>4. main_pc \in BeforeConsole => ~ConsoleRuns
    BY DEF ThreadsInv, RunningInv, ConsoleRuns
  <2> QED BY <2>1, <2>2, <2>3, <2>4 DEF LoginInv, BeforeConsole, BeforeReader, BeforeSocket, BeforeLog
<1>3. CASE ServerNext \/ Terminated \/ UNCHANGED vars
  BY <1>3 DEF ServerNext, Terminated, LoginInv, vars, mainVars, readerVars, consoleVars
<1>4. CASE ThreadStops
  BY <1>4 DEF ThreadStops, ReaderStops, ConsoleStops, ReaderRuns, ConsoleRuns, LoginInv, mainVars,
     readerVars, consoleVars
<1> QED BY <1>1, <1>2, <1>3, <1>4 DEF Next

LEMMA LoginAlways == Spec => []LoginInv
BY LoginInit, LoginStep, ClientTypeCorrect, ThreadsAlways, PTL DEF Spec

LEMMA SessionInit == Init => Session!Init
BY DEF Init, Session!Init, SessionState

\* Of main's steps the session sees the connection, the login and its answer,
\* and the end.
LEMMA MainSession ==
    TypeInvariant /\ ThreadsInv /\ LoginInv /\ MainNext => [Session!Next]_Session!vars
<1> SUFFICES ASSUME TypeInvariant, ThreadsInv, LoginInv, MainNext
             PROVE  Session!Next \/ UNCHANGED Session!vars
  OBVIOUS
<1> USE DEF SessionState, OpenState, Gone, Session!vars, MainNext, mainVars, consoleVars
<1>1. CASE ConnectToServer /\ socket' = "open"
  <2>1. requests = <<>> /\ socket = "none"
    BY <1>1 DEF ConnectToServer, LoginInv, ThreadsInv, ResourceInv, BeforeSocket
  <2>2. Session!Connect
    BY <1>1, <2>1 DEF ConnectToServer, Session!Connect, Session!Goto
  <2> QED BY <2>2 DEF Session!Next
<1>2. CASE SendLogin /\ requests' = <<"login">>
  <2>1. requests = <<>> /\ ~was_login_successful /\ socket = "open"
    BY <1>2 DEF SendLogin, LoginInv, ThreadsInv, ResourceInv, WithSocket
  <2>2. Session!SendLogin
    BY <1>2, <2>1 DEF SendLogin, Session!SendLogin, Session!Goto
  <2> QED BY <2>2 DEF Session!Next
<1>3. CASE ReceiveLoginResponse
  <2>1. /\ requests # <<>> /\ ~was_login_successful /\ socket = "open"
        /\ response = "none" /\ console_pc = "none"
    BY <1>3 DEF ReceiveLoginResponse, LoginInv, ThreadsInv, ResourceInv, WithSocket, RunningInv,
       BeforeConsole, BeforeReader
  <2>2. response' \in {"refusal", "other"}
    <3>1. Head(incoming) \in Messages
      BY <1>3, HeadTailProperties DEF ReceiveLoginResponse, TypeInvariant, ServerTypeOK
    <3> QED BY <1>3, <3>1 DEF ReceiveLoginResponse, Messages
  <2>3. SessionState = "login"
    BY <1>3, <2>1
  <2>4. SessionState' = IF response' = "refusal" THEN "login" ELSE "chat"
    BY <1>3, <2>1, <2>2 DEF ReceiveLoginResponse, LoginAccepted, Goto, Fail
  <2>5. Session!ReceiveResponse
    BY <1>3, <2>1, <2>2, <2>3, <2>4
       DEF ReceiveLoginResponse, Session!ReceiveResponse, Session!Goto
  <2> QED BY <2>5 DEF Session!Next
<1>4. CASE CloseSocket
  <2>1. socket = "open"
    BY <1>4 DEF CloseSocket, ThreadsInv, ResourceInv, WithSocket
  <2>2. Session!Close
    BY <1>4, <2>1 DEF CloseSocket, Session!Close
  <2> QED BY <2>2 DEF Session!Next
<1>5. CASE ExitProcess
  BY <1>5 DEF ExitProcess, ThreadsInv, ResourceInv, TypeInvariant, MainTypeOK
<1>7. CASE CreateConsoleReader
  BY <1>7 DEF CreateConsoleReader, ThreadsInv, RunningInv, BeforeConsole
<1>8. CASE UNCHANGED <<process, socket, response, requests, was_login_successful, console_pc>>
  BY <1>8
<1> QED
  BY <1>1, <1>2, <1>3, <1>4, <1>5, <1>7, <1>8
     DEF HandleParameters, InitializeClientLog, InitializeWinSock2, ConnectToServer, SendLogin,
         ReceiveLoginFails, CreateSocketReader, SocketReaderEnds, ConsoleReaderEnds, StopReader,
         KillReader, KillConsole, MayHang, CloseClientLog

\* Of the threads' steps it sees the requests, /quit and the crashes.
LEMMA ThreadsSession ==
    TypeInvariant /\ ThreadsInv /\ LoginInv /\ (ReaderNext \/ ConsoleNext \/ UserNext)
        => [Session!Next]_Session!vars
<1> SUFFICES ASSUME TypeInvariant, ThreadsInv, LoginInv, ReaderNext \/ ConsoleNext \/ UserNext
             PROVE  Session!Next \/ UNCHANGED Session!vars
  OBVIOUS
<1> USE DEF SessionState, OpenState, Gone, Session!vars
<1>1. UNCHANGED <<socket, response, was_login_successful>> /\ process = "running"
  BY DEF ReaderNext, ConsoleNext, UserNext, ConsoleFrame, mainVars
<1>2. socket # "none"
  <2>1. ReaderRuns \/ ConsoleRuns
    BY DEF ReaderNext, ReceiveMessage, ReceiveFails, ReaderLock, ReaderWrite, ReaderPrint,
       ConsoleNext, UserNext, HandleLine, SendLine, ConsoleLock, ConsoleWrite, ConsolePrint,
       ParseLine, ReadLine, ReadLongLine, ReadEof, ReaderRuns, ConsoleRuns, Ended
  <2> QED BY <2>1 DEF ThreadsInv, ResourceInv, ReaderRuns, ConsoleRuns
<1>6. CASE socket # "open"
  <2>1. UNCHANGED requests
    BY <1>6 DEF ReaderNext, ConsoleNext, UserNext, HandleLine, SendLine, ConsoleLock,
       ConsoleWrite, ConsolePrint, ParseLine, ReadLine, ReadLongLine, ReadEof
  <2> QED BY <1>1, <1>2, <1>6, <2>1 DEF TypeInvariant, MainTypeOK
<1>3. CASE socket = "open" /\ process' # "running"
  <2>1. UNCHANGED requests
    BY <1>1, <1>3 DEF ReaderNext, ConsoleNext, UserNext, HandleLine, SendLine, ConsoleLock,
       ConsoleWrite, ConsolePrint, ParseLine, ReadLine, ReadLongLine, ReadEof
  <2>2. Session!Close
    BY <1>1, <1>3, <2>1 DEF Session!Close
  <2> QED BY <2>2 DEF Session!Next
<1>4. CASE socket = "open" /\ process' = "running" /\ ReaderNext
  BY <1>1, <1>4 DEF ReaderNext, consoleVars
<1>5. CASE socket = "open" /\ process' = "running" /\ (ConsoleNext \/ UserNext)
  <2>1. ConsoleRuns /\ was_login_successful /\ requests # <<>>
    BY <1>5 DEF ConsoleNext, UserNext, HandleLine, SendLine, ConsoleLock, ConsoleWrite,
       ConsolePrint, ParseLine, ReadLine, ReadLongLine, ReadEof, ConsoleRuns, Ended, LoginInv
  <2>2. SessionState = "chat"
    BY <1>1, <1>5, <2>1 DEF ConsoleRuns, Ended
  <2>3. CASE requests' = Append(requests, console_msg) /\ console_pc' = "lock"
    <3>1. requests' # <<>>
      BY <2>3, AppendProperties DEF TypeInvariant, ServerTypeOK, ThreadsTypeOK, Sendable
    <3>2. SessionState' = "chat"
      BY <1>1, <1>5, <2>1, <2>3, <3>1
    <3>3. Session!Say(console_msg)
      BY <1>1, <2>2, <2>3, <3>2 DEF Session!Say
    <3> QED BY <3>3 DEF Session!Next, TypeInvariant, ThreadsTypeOK
  <2>4. CASE UNCHANGED requests /\ console_pc' = "success"
    <3>1. Session!Leave
      BY <1>1, <1>5, <2>1, <2>2, <2>4 DEF Session!Leave, Session!Goto
    <3> QED BY <3>1 DEF Session!Next
  <2>5. CASE UNCHANGED requests /\ console_pc' # "success"
    BY <1>1, <1>5, <2>1, <2>2, <2>5
  <2> QED
    BY <1>5, <2>3, <2>4, <2>5 DEF ConsoleNext, UserNext, HandleLine, SendLine, ConsoleLock,
       ConsoleWrite, ConsolePrint, ParseLine, ReadLine, ReadLongLine, ReadEof, ConsoleGoto
<1> QED BY <1>1, <1>3, <1>4, <1>5, <1>6

LEMMA OtherSession ==
    ServerNext \/ ThreadStops \/ Terminated \/ UNCHANGED vars => UNCHANGED Session!vars
BY DEF ThreadStops, ReaderStops, ConsoleStops, ConsoleGoto, ConsoleRuns, Ended, ServerNext, Terminated, vars, mainVars, consoleVars, SessionState, OpenState, Gone,
       Session!vars

\* What ChatServer takes a client run to be, a run of the client is: a login
\* request first and once, user messages only after an answer that is not a
\* refusal, nothing after /quit or the end.
THEOREM ClientIsSession == Spec => ImplementsSession
<1>1. TypeInvariant /\ ThreadsInv /\ LoginInv /\ [Next]_vars => [Session!Next]_Session!vars
  BY MainSession, ThreadsSession, OtherSession DEF Next
<1> QED
  BY SessionInit, <1>1, ClientTypeCorrect, ThreadsAlways, LoginAlways, PTL
     DEF Spec, ImplementsSession, Session!Spec
-----------------------------------------------------------------------------
(* What a client that exits with SUCCESS has said and logged               *)

LEMMA LoggedEmpty == ASSUME log = <<>>, NEW e PROVE Logged(e) = 0
<1>1. {i \in DOMAIN log : log[i] = e} = {}
  OBVIOUS
<1> QED BY <1>1, FS_EmptySet DEF Logged

LEMMA PlacesFinite == ASSUME LogTypeOK, NEW e PROVE IsFiniteSet({i \in DOMAIN log : log[i] = e})
<1>1. DOMAIN log = 1 .. Len(log) /\ Len(log) \in Nat
  BY LenProperties DEF LogTypeOK
<1>2. IsFiniteSet(DOMAIN log)
  BY <1>1, FS_Interval
<1>3. {i \in DOMAIN log : log[i] = e} \in SUBSET DOMAIN log
  OBVIOUS
<1> QED BY <1>2, <1>3, FS_Subset

\* An entry written counts for itself.
LEMMA LoggedGrows ==
    ASSUME LogTypeOK, NEW e \in Entries, NEW f \in Entries, log' = Append(log, f)
    PROVE  Logged(e)' = IF e = f THEN Logged(e) + 1 ELSE Logged(e)
<1> DEFINE Places == {i \in DOMAIN log : log[i] = e}
           n == Len(log) + 1
<1>1. DOMAIN log = 1 .. Len(log) /\ Len(log) \in Nat
  BY LenProperties DEF LogTypeOK
<1>2. /\ DOMAIN log' = 1 .. n /\ log'[n] = f
      /\ \A i \in DOMAIN log : log'[i] = log[i]
  BY <1>1, AppendProperties, LenProperties DEF LogTypeOK
<1>3. IsFiniteSet(Places) /\ n \notin Places
  <2>1. IsFiniteSet(Places)
    BY PlacesFinite
  <2>2. n \notin DOMAIN log
    BY <1>1
  <2> QED BY <2>1, <2>2
<1>4. {i \in DOMAIN log' : log'[i] = e} = IF e = f THEN Places \cup {n} ELSE Places
  BY <1>1, <1>2
<1> HIDE DEF Places, n
<1>5. Cardinality(Places \cup {n}) = Cardinality(Places) + 1
  BY <1>3, FS_AddElement
<1>6. Logged(e)' = Cardinality(IF e = f THEN Places \cup {n} ELSE Places)
  BY <1>4 DEF Logged
<1>7. Logged(e) = Cardinality(Places)
  BY DEF Logged, Places
<1> QED BY <1>5, <1>6, <1>7

LEMMA SaidInit == Init => SaidInv /\ LoggedInv
BY LoggedEmpty DEF Init, SaidInv, LoggedInv

\* Main reports SUCCESS only for a console reader that ended well, and logs
\* nothing itself.
LEMMA MainSaid ==
    ASSUME ThreadsInv, LoginInv, SaidInv, LoggedInv, MainNext
    PROVE  SaidInv' /\ LoggedInv'
<1> USE DEF MainNext, mainVars, consoleVars, logVars, Goto, Fail
<1>1. UNCHANGED <<log, disk_ok, console_msg>>
  BY DEF HandleParameters, InitializeClientLog, InitializeWinSock2, ConnectToServer, SendLogin,
     ReceiveLoginResponse, ReceiveLoginFails, CreateSocketReader, CreateConsoleReader,
     SocketReaderEnds, ConsoleReaderEnds, StopReader, KillReader, KillConsole, CloseSocket,
     MayHang, CloseClientLog, ExitProcess
<1>2. Logged("sent")' = Logged("sent")
  BY <1>1 DEF Logged
<1>3. error_code' = "SUCCESS" => error_code = "SUCCESS" \/ (StopReader /\ console_pc = "success")
  BY DEF HandleParameters, InitializeClientLog, InitializeWinSock2, ConnectToServer, SendLogin,
     ReceiveLoginResponse, ReceiveLoginFails, CreateSocketReader, CreateConsoleReader,
     SocketReaderEnds, ConsoleReaderEnds, StopReader, KillReader, KillConsole, CloseSocket,
     MayHang, CloseClientLog, ExitProcess
<1>4. CASE SendLogin /\ requests' = <<"login">>
  <2>1. console_pc = "none" /\ console_pc' = "none"
    BY <1>4 DEF SendLogin, ThreadsInv, RunningInv, BeforeConsole, BeforeReader
  <2> QED BY <1>1, <1>2, <1>3, <1>4, <2>1 DEF SendLogin, SaidInv, LoggedInv
<1>5. CASE CreateConsoleReader /\ console_pc' = "read"
  <2>1. console_pc = "none" /\ requests = <<"login">> /\ UNCHANGED <<requests, error_code>>
    BY <1>5 DEF CreateConsoleReader, ThreadsInv, RunningInv, BeforeConsole, LoginInv, SaidInv
  <2>2. Len(requests) = 1
    BY <2>1
  <2> QED BY <1>1, <1>2, <1>5, <2>1, <2>2 DEF SaidInv, LoggedInv
<1>7. CASE UNCHANGED <<requests, console_pc>>
  BY <1>1, <1>2, <1>3, <1>7 DEF SaidInv, LoggedInv, LastRequest
<1> QED
  BY <1>4, <1>5, <1>7
     DEF HandleParameters, InitializeClientLog, InitializeWinSock2, ConnectToServer, SendLogin,
         ReceiveLoginResponse, ReceiveLoginFails, CreateSocketReader, CreateConsoleReader,
         SocketReaderEnds, ConsoleReaderEnds, StopReader, KillReader, KillConsole, CloseSocket,
         MayHang, CloseClientLog, ExitProcess

\* The socket reader logs only what it received.
LEMMA ReaderSaid ==
    ASSUME TypeInvariant, SaidInv, LoggedInv, ReaderNext
    PROVE  SaidInv' /\ LoggedInv'
<1>1. UNCHANGED <<requests, error_code, console_pc, console_msg>>
  BY DEF ReaderNext, mainVars, consoleVars
<1>2. /\ disk_ok' => disk_ok
      /\ UNCHANGED log \/ log' = Append(log, "received")
  BY DEF ReaderNext, ReceiveMessage, ReceiveFails, ReaderLock, ReaderWrite, ReaderPrint,
     WriteEntry, WriteToClosedLog, logVars, TypeInvariant, LogTypeOK
<1>3. Logged("sent")' = Logged("sent")
  <2>1. CASE UNCHANGED log
    BY <2>1 DEF Logged
  <2>2. CASE log' = Append(log, "received")
    BY <2>2, LoggedGrows DEF TypeInvariant, Entries
  <2> QED BY <1>2, <2>1, <2>2
<1> QED BY <1>1, <1>2, <1>3 DEF SaidInv, LoggedInv, LastRequest

\* The console reader logs each line it has sent before it reads the next.
LEMMA ConsoleSaid ==
    ASSUME TypeInvariant, SaidInv, LoggedInv, ConsoleNext \/ UserNext
    PROVE  SaidInv' /\ LoggedInv'
<1> USE DEF ConsoleFrame, ConsoleGoto, mainVars, logVars
<1>1. UNCHANGED error_code /\ console_pc \notin Ended \cup {"none"}
  BY DEF ConsoleNext, UserNext, HandleLine, SendLine, ConsoleLock, ConsoleWrite, ConsolePrint,
     ParseLine, ReadLine, ReadLongLine, ReadEof, Ended
<1>2. error_code' # "SUCCESS"
  BY <1>1 DEF SaidInv, Ended
<1>3. CASE SendLine /\ requests' = Append(requests, console_msg) /\ console_pc' = "lock"
  <2>1. requests \in Seq(Sendable) /\ console_msg \in Sendable
    BY DEF TypeInvariant, ServerTypeOK, ThreadsTypeOK, Sendable
  <2>2. Len(requests') = Len(requests) + 1 /\ requests'[Len(requests')] = console_msg
    BY <1>3, <2>1, AppendProperties
  <2>3. Len(requests) \in Nat
    BY <2>1, LenProperties
  <2>4. UNCHANGED <<log, disk_ok, console_msg>> /\ console_pc = "send"
    BY <1>3 DEF SendLine
  <2>5. Logged("sent")' = Logged("sent")
    BY <2>4 DEF Logged
  <2> QED BY <1>2, <1>3, <2>2, <2>3, <2>4, <2>5 DEF SaidInv, LoggedInv, LastRequest
<1>6. CASE ConsoleWrite /\ WriteToClosedLog /\ UNCHANGED console_pc
  <2>1. UNCHANGED <<requests, log, disk_ok, console_pc, console_msg>>
    BY <1>6 DEF ConsoleWrite, WriteToClosedLog
  <2>2. Logged("sent")' = Logged("sent")
    BY <2>1 DEF Logged
  <2> QED BY <1>2, <2>1, <2>2 DEF SaidInv, LoggedInv, LastRequest
<1>4. CASE ConsoleWrite /\ WriteEntry("sent") /\ console_pc' = "print"
  <2>1. /\ console_pc = "write" /\ console_pc' = "print"
        /\ UNCHANGED <<requests, console_msg>>
    BY <1>4 DEF ConsoleWrite
  <2>2. disk_ok' => disk_ok /\ log' = Append(log, "sent")
    BY <1>4 DEF ConsoleWrite, WriteEntry, TypeInvariant, LogTypeOK
  <2>3. disk_ok' => Logged("sent")' = Logged("sent") + 1
    BY <2>2, LoggedGrows DEF TypeInvariant, Entries
  <2>4. Len(requests) \in Nat
    BY LenProperties DEF TypeInvariant, ServerTypeOK
  <2> QED BY <1>2, <2>1, <2>2, <2>3, <2>4 DEF SaidInv, LoggedInv, LastRequest
<1>5. CASE UNCHANGED <<requests, log, disk_ok>> /\ console_pc' \notin {"lock", "print"}
  <2>1. Logged("sent")' = Logged("sent")
    BY <1>5 DEF Logged
  <2>2. SaidInv'
    BY <1>1, <1>2, <1>5
       DEF ConsoleNext, UserNext, HandleLine, SendLine, ConsoleLock, ConsoleWrite, ConsolePrint,
           ParseLine, ReadLine, ReadLongLine, ReadEof, PassesForQuit, SaidInv, LastRequest
  <2>3. LoggedInv'
    BY <1>1, <1>5, <2>1
       DEF ConsoleNext, UserNext, HandleLine, SendLine, ConsoleLock, ConsoleWrite, ConsolePrint,
           ParseLine, ReadLine, ReadLongLine, ReadEof, LoggedInv
  <2> QED BY <2>2, <2>3
<1> QED
  BY <1>3, <1>4, <1>5, <1>6
     DEF ConsoleNext, UserNext, HandleLine, SendLine, ConsoleLock, ConsoleWrite, ConsolePrint,
         ParseLine, ReadLine, ReadLongLine, ReadEof

\* A thread that is stopped has nothing more to say.
LEMMA StopSaid == ASSUME SaidInv, LoggedInv, ThreadStops PROVE SaidInv' /\ LoggedInv'
<1>1. UNCHANGED <<requests, error_code, console_msg, log, disk_ok>>
  BY DEF ThreadStops, ReaderStops, ConsoleStops, mainVars, consoleVars
<1>2. UNCHANGED console_pc \/ (console_pc' = "killed" /\ console_pc # "success")
  BY DEF ThreadStops, ReaderStops, ConsoleStops, ConsoleGoto, ConsoleRuns, Ended, consoleVars
<1>3. Logged("sent")' = Logged("sent")
  BY <1>1 DEF Logged
<1> QED BY <1>1, <1>2, <1>3 DEF SaidInv, LoggedInv, LastRequest

LEMMA OtherSaid ==
    SaidInv /\ LoggedInv /\ UNCHANGED <<mainVars, consoleVars, logVars, requests>>
        => SaidInv' /\ LoggedInv'
BY DEF SaidInv, LoggedInv, LastRequest, Logged, mainVars, consoleVars, logVars

\* A client that exits with SUCCESS has said /quit last, or a command that
\* passes for it, and, unless the disk refused an entry, has logged every line
\* it sent, whatever the socket reader wrote in between.
THEOREM SuccessLeavesNothingOut == Spec => []SuccessIsComplete
<1>1. TypeInvariant /\ ThreadsInv /\ LoginInv /\ SaidInv /\ LoggedInv /\ [Next]_vars
          => SaidInv' /\ LoggedInv'
  BY MainSaid, ReaderSaid, ConsoleSaid, StopSaid, OtherSaid DEF Next, Terminated, ServerNext, vars
<1>2. SaidInv /\ LoggedInv => SuccessIsComplete
  BY DEF SaidInv, LoggedInv, LastRequest, SuccessIsComplete
<1> QED
  BY SaidInit, <1>1, <1>2, ClientTypeCorrect, ThreadsAlways, LoginAlways, PTL DEF Spec
=============================================================================

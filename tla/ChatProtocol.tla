---------------------------- MODULE ChatProtocol ----------------------------
(***************************************************************************)
(* One line after the other on its way from the keyboard of a client to    *)
(* the parser of the server: ReadLineFromStdin and RunConsoleReader        *)
(* (ConsoleReader.c), BuildChatMessage, SendChatMessage and                *)
(* ReceiveChatMessage (Protocol.c) over SendBuffer and ReceiveBuffer       *)
(* (SocketSendRecvTools.c), and ParseMessage at both ends.                 *)
(*                                                                         *)
(* The connection carries bytes: send and recv move any number of them,    *)
(* so a message arrives in pieces.  A byte is a number below BYTE, an      *)
(* unsigned int WORD_BYTES of them, the lowest first (the machine's order).*)
(***************************************************************************)
EXTENDS CommandGrammar

CONSTANTS
    Newline,
    Keys,                   \* the characters the user may type
    MESSAGE_MAXLENGTH,
    BYTE, WORD_BYTES,
    AfterBlock,             \* what may lie in memory after a heap block
    Window,                 \* bytes TCP takes before the server reads them
    MaxTyped                \* bound: characters typed

\* How many numbers i bytes can tell apart.
Values[i \in 0 .. WORD_BYTES] == IF i = 0 THEN 1 ELSE BYTE * Values[i - 1]

ASSUME ProtocolAssumption ==
    /\ BYTE \in Nat \ {0} /\ WORD_BYTES \in Nat \ {0} /\ WORD = Values[WORD_BYTES]
    /\ Newline \in Keys /\ Keys \subseteq 0 .. BYTE - 1
    /\ {Nul, Slash, Space, Newline} \subseteq 0 .. BYTE - 1
    /\ MESSAGE_MAXLENGTH \in Nat \ {0}
    /\ MESSAGE_MAXLENGTH < WORD \div 2
    /\ AfterBlock \subseteq Seq(0 .. BYTE - 1)
    /\ Window \in Nat \ {0} /\ MaxTyped \in Nat

VARIABLES
    \* RunConsoleReader of the client: program counter, line, n_read
    console_pc, line, n_read,
    overrun,                \* a '\0' has been stored behind line[]
    typed,                  \* characters read from stdin so far
    unsent,                 \* bytes SendBuffer has not sent yet
    client_parsed,          \* what ParseMessage came to in the client
    \* the connection, and the bytes the server has not received yet
    connection, in_flight,
    \* HandleClient of the server: the buffer being received and its size
    handler_pc, buffer, buffer_size,
    server_parsed,          \* what ParseMessage came to in the server
    \* history: the messages sent and received whole
    sent, delivered

consoleVars == <<console_pc, line, n_read, overrun, typed, unsent, client_parsed, sent>>
handlerVars == <<handler_pc, buffer, buffer_size, server_parsed, delivered>>
vars == <<consoleVars, connection, in_flight, handlerVars>>

NoResult == [type |-> "none"]

\* The unsigned int n as it lies in memory, and what htonl and ntohl make of
\* it on this machine: the bytes the other way round.
BytesOf(n) ==
    LET Rest[i \in 0 .. WORD_BYTES] == IF i = 0 THEN n ELSE Rest[i - 1] \div BYTE
    IN  [i \in 1 .. WORD_BYTES |-> Rest[i - 1] % BYTE]
ValueOf(bytes) ==
    LET Sum[i \in 0 .. WORD_BYTES] ==
            IF i = 0 THEN 0 ELSE BYTE * Sum[i - 1] + bytes[WORD_BYTES + 1 - i]
    IN  Sum[WORD_BYTES]
SwapBytes(n) == ValueOf([i \in 1 .. WORD_BYTES |-> BytesOf(n)[WORD_BYTES + 1 - i]])
htonl(n) == SwapBytes(n)
ntohl(n) == SwapBytes(n)

USER_MESSAGE == 1
HEADER_SIZE == 1 + WORD_BYTES
Header(body_length) == <<USER_MESSAGE>> \o BytesOf(body_length)
BodyLengthField(header) == ValueOf(Tail(header))

Init ==
    /\ console_pc = "read" /\ line = <<>> /\ n_read = 0 /\ overrun = FALSE /\ typed = 0
    /\ unsent = <<>> /\ client_parsed = NoResult
    /\ connection = "open" /\ in_flight = <<>>
    /\ handler_pc = "header" /\ buffer = <<>> /\ buffer_size = HEADER_SIZE
    /\ server_parsed = NoResult
    /\ sent = <<>> /\ delivered = <<>>

-----------------------------------------------------------------------------
(* The console reader of the client                                        *)

ConsoleGoto(pc) == console_pc' = pc

\* RunConsoleReader returns.  line[] lies at the end of its frame: what was
\* stored behind it is found out then, if at all.
ConsoleReturns(pc) ==
    ConsoleGoto(pc) \/ (overrun /\ ConsoleGoto("crashed"))

\* Mutant: every character is stored.
AlwaysRoom(n) == TRUE

\* line has room for MESSAGE_MAXLENGTH + 1 characters; the others are counted
\* and dropped.
HasRoom(n) == n < MESSAGE_MAXLENGTH + 1

ReadCharacter(c) ==
    /\ console_pc = "read" /\ typed < MaxTyped /\ c # Newline
    /\ typed' = typed + 1
    /\ n_read' = n_read + 1
    /\ line' = IF HasRoom(n_read) THEN Append(line, c) ELSE line
    /\ client_parsed' = NoResult
    /\ UNCHANGED <<console_pc, overrun, unsent, sent>>

HeaderOf(body) == Header(htonl(Len(body)))

\* Mutant: the array's length is allowed, not the longest message's.
LongerThanArray(n) == n > MESSAGE_MAXLENGTH + 1

IsTooLong(n) == n > MESSAGE_MAXLENGTH

\* The newline becomes the '\0' and counts in n_read.  The '\0' goes to
\* line[n_read], which the loop never compares with the size: inside the array,
\* or, after a line that filled it, behind it, at once or later to the ruin of
\* the process.  The line that is too long is then dropped.
ReadNewline ==
    /\ console_pc = "read" /\ typed < MaxTyped
    /\ typed' = typed + 1
    /\ overrun' = (overrun \/ ~HasRoom(n_read))
    /\ \/ /\ ~IsTooLong(n_read + 1)
          /\ line' = (IF HasRoom(n_read) THEN Append(line, Nul) ELSE line)
          /\ n_read' = n_read + 1
          /\ unsent' = HeaderOf(line')
          /\ ConsoleGoto("send_header")
       \/ /\ IsTooLong(n_read + 1)
          /\ line' = <<>> /\ n_read' = 0 /\ UNCHANGED unsent
          /\ \/ ConsoleGoto("read")
             \/ ~HasRoom(n_read) /\ ConsoleGoto("crashed")
    /\ client_parsed' = NoResult
    /\ UNCHANGED sent

\* End of file, or the character that compares equal to EOF in a char.
ReadEof ==
    /\ console_pc = "read"
    /\ ConsoleReturns("failed")
    /\ UNCHANGED <<line, n_read, overrun, typed, unsent, client_parsed, sent>>

\* Mutant: one send() is taken for the whole buffer.
SentAfterOne(k) == k > 0

\* The loop of SendBuffer ends when nothing remains.
BufferIsSent(k) == k = Len(unsent)

\* One send() of k bytes, which blocks while there is no room; after the last of the header comes the body.
SendBytes(k) ==
    /\ console_pc \in {"send_header", "send_body"} /\ connection = "open"
    /\ Len(in_flight) + k <= Window
    /\ in_flight' = in_flight \o SubSeq(unsent, 1, k)
    /\ \/ ~BufferIsSent(k) /\ unsent' = SubSeq(unsent, k + 1, Len(unsent))
          /\ UNCHANGED <<console_pc, sent>>
       \/ BufferIsSent(k) /\ console_pc = "send_header"
          /\ unsent' = line /\ ConsoleGoto("send_body") /\ UNCHANGED sent
       \/ BufferIsSent(k) /\ console_pc = "send_body"
          /\ unsent' = <<>> /\ ConsoleGoto("parse") /\ sent' = Append(sent, line)
    /\ UNCHANGED <<line, n_read, overrun, typed, client_parsed>>

SendFails ==
    /\ console_pc \in {"send_header", "send_body"} /\ connection = "reset"
    /\ ConsoleReturns("failed")
    /\ UNCHANGED <<line, n_read, overrun, typed, unsent, client_parsed, sent, in_flight>>

\* BuildChatMessage left body_length in network order, and ParseMessage takes
\* it as it is: it reads on behind the block of the body, or finds the length
\* negative.  Any of its mallocs may be refused, above all one for such a
\* length.
ClientParse ==
    /\ console_pc = "parse"
    /\ LET body_length == htonl(n_read)
       IN  \/ \E memory \in AfterBlock :
                  client_parsed' = ParseMessage(line \o memory, body_length)
           \/ client_parsed' = Failed
    /\ CASE client_parsed'.type \in {"quit", "failed"} -> ConsoleReturns(client_parsed'.type)
         [] client_parsed'.type \in {"crashed", "overflowed"} -> ConsoleGoto("crashed")
         [] OTHER -> ConsoleGoto("read")
    /\ line' = <<>> /\ n_read' = 0
    /\ UNCHANGED <<overrun, typed, unsent, sent>>

ConsoleNext ==
    /\ \/ /\ (\E c \in Keys : ReadCharacter(c)) \/ ReadNewline \/ ReadEof \/ ClientParse
          /\ UNCHANGED in_flight
       \/ (\E k \in 1 .. Len(unsent) : SendBytes(k)) \/ SendFails
    /\ UNCHANGED <<connection, handlerVars>>

-----------------------------------------------------------------------------
(* The connection                                                          *)

\* main of the client closes the socket when the console reader has ended.
CloseConnection ==
    /\ connection = "open" /\ console_pc \in {"quit", "failed", "crashed"}
    /\ connection' = "closed"
    /\ UNCHANGED <<consoleVars, in_flight, handlerVars>>

\* The bytes under way are lost.
ResetConnection ==
    /\ connection = "open"
    /\ connection' = "reset"
    /\ in_flight' = <<>>
    /\ UNCHANGED <<consoleVars, handlerVars>>

-----------------------------------------------------------------------------
(* The client handler of the server                                        *)

Receives == handler_pc \in {"header", "body"}

\* The loop of ReceiveBuffer ends when the buffer is full.
BufferIsFull(bytes) == Len(bytes) = buffer_size

\* Mutant: the length is taken as it lies in the header.
BodyLengthAsSent(header) == BodyLengthField(header)

BodyLength(header) == ntohl(BodyLengthField(header))

\* REQ_QUIT_MESSAGE ends HandleClient, and so does what it cannot handle.
HandlerGoesOn(result) ==
    result.type \in {"broadcast", "private_message", "active_users"}

ReceiveBody(body) ==
    /\ delivered' = Append(delivered, body)
    /\ server_parsed' = ParseMessage(body, Len(body))
    /\ handler_pc' = IF HandlerGoesOn(server_parsed') THEN "header" ELSE "stopped"
    /\ buffer' = <<>> /\ buffer_size' = HEADER_SIZE

\* Without a body there is none to receive.
ReceiveHeader(header) ==
    IF BodyLength(header) > 0
    THEN /\ buffer' = <<>> /\ buffer_size' = BodyLength(header)
         /\ handler_pc' = "body"
         /\ UNCHANGED <<delivered, server_parsed>>
    ELSE ReceiveBody(<<>>)

\* One recv() of k bytes into what is left of the buffer.
ReceiveBytes(k) ==
    /\ Receives /\ k <= buffer_size - Len(buffer)
    /\ in_flight' = SubSeq(in_flight, k + 1, Len(in_flight))
    /\ LET bytes == buffer \o SubSeq(in_flight, 1, k)
       IN  \/ /\ ~BufferIsFull(bytes) /\ buffer' = bytes
              /\ UNCHANGED <<handler_pc, buffer_size, server_parsed, delivered>>
           \/ BufferIsFull(bytes) /\ handler_pc = "header" /\ ReceiveHeader(bytes)
           \/ BufferIsFull(bytes) /\ handler_pc = "body" /\ ReceiveBody(bytes)
    /\ UNCHANGED <<consoleVars, connection>>

\* recv() returns 0 after the last byte of a closed connection, or fails; the
\* part of a message received so far is freed.
ReceiveFails ==
    /\ Receives
    /\ connection = "reset" \/ (connection = "closed" /\ in_flight = <<>>)
    /\ handler_pc' = "stopped"
    /\ buffer' = <<>>
    /\ UNCHANGED <<consoleVars, connection, in_flight, buffer_size, server_parsed, delivered>>

HandlerNext == (\E k \in 1 .. Len(in_flight) : ReceiveBytes(k)) \/ ReceiveFails

-----------------------------------------------------------------------------

\* The handler has stopped, and the client with it.
Terminated ==
    /\ handler_pc = "stopped" /\ connection # "open"
    /\ console_pc \in {"quit", "failed", "crashed"}
    /\ UNCHANGED vars

Next == ConsoleNext \/ CloseConnection \/ ResetConnection \/ HandlerNext \/ Terminated

Spec == Init /\ [][Next]_vars

\* The handler's thread is scheduled, and TCP hands it what has arrived.
FairSpec == Spec /\ WF_vars(HandlerNext)

-----------------------------------------------------------------------------
(* Properties                                                              *)

\* The buffer being received never holds more than it was allocated for.  (line
\* is what line[] holds; that something may lie behind it is overrun.)
TypeInvariant ==
    /\ console_pc \in {"read", "send_header", "send_body", "parse", "quit", "failed", "crashed"}
    /\ line \in Seq(0 .. BYTE - 1) /\ Len(line) <= MESSAGE_MAXLENGTH + 1
    /\ n_read \in Nat /\ overrun \in BOOLEAN /\ typed \in 0 .. MaxTyped
    /\ connection \in {"open", "closed", "reset"}
    /\ in_flight \in Seq(0 .. BYTE - 1)
    /\ handler_pc \in {"header", "body", "stopped"}
    /\ buffer \in Seq(0 .. BYTE - 1) /\ Len(buffer) <= buffer_size
    /\ delivered \in Seq(Seq(0 .. BYTE - 1))

\* Whatever pieces the messages travel in, they come out of
\* ReceiveChatMessage whole and in order.
Channel == INSTANCE MessageChannel WITH sent <- sent, delivered <- delivered
ImplementsChannel == Channel!Spec

\* What is sent is a line of at most MESSAGE_MAXLENGTH characters that ends
\* with its '\0', the only one the reader stored, however long the lines typed
\* before it were: a line that had no room in line[] is not sent.
SentLinesAreTerminated ==
    \A i \in DOMAIN sent :
        LET length == Len(sent[i])
        IN  length \in 1 .. MESSAGE_MAXLENGTH /\ sent[i][length] = Nul

\* The parser of the server overflows an array exactly for the lines that have
\* a word too long for it; of every other line whose word is not an extended
\* command it makes the type, the user and the text the grammar means.
ServerUnderstands ==
    server_parsed # NoResult =>
        LET typed_line == sent[Len(delivered)]
        IN  IF Overflows(typed_line) THEN server_parsed = Overflowed
            ELSE /\ server_parsed # Overflowed
                 /\ ~ExtendsCommand(typed_line) => Means(typed_line, Request(server_parsed))

\* MessageParser.c:13, "larger than max command (so that never will take a
\* string that is not a command as a command)": what the server takes for a
\* command is one.
OnlyCommandsAreCommands ==
    server_parsed.type \in {"quit", "active_users", "private_message"} =>
        \E c \in CommandsOf(sent[Len(delivered)]) : RequestTypes[c] = server_parsed.type

\* The server catches up with what was sent, unless the connection is reset
\* or it stops listening to this client.
Arrives == sent # delivered ~> sent = delivered \/ connection = "reset" \/ handler_pc = "stopped"

\* ConsoleReader.c:86, "Parse the message to allow handling of special
\* commands as quit, broadcast or p2p": the client understands its own line.
ClientUnderstands ==
    client_parsed.type \notin {"none", "failed", "overflowed"} =>
        LET typed_line == sent[Len(sent)]
        IN  /\ client_parsed # Crashed
            /\ ~ExtendsCommand(typed_line) => Means(typed_line, Request(client_parsed))
=============================================================================

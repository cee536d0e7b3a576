# The chat server and client of ex04, in TLA+

ex04 is a chat system for Windows in C: one `server` process and any number of `client` processes
that talk over TCP. This directory holds TLA+ specifications of its threads, its queue, its protocol
and its parser, the TLC configurations that check them on small instances, and TLAPS proofs of
theorems about them for every value of the constants. `PROJECT.json` ties each definition to the
source lines it stands for.

## 1. The system

### Components, their state and their operations

| Component | Source | State | Operations | Modelled in |
|---|---|---|---|---|
| Server main thread | `server/Server.c` | `ClientsContainer`: the table of `Client` slots, `active_clients_num`; locals of `main` and `HandleNewConnection` | start, wait for a connection or the end of a handler, accept and log in, give and take back slots, shut down | `ChatServer` |
| Sender thread | `server/Sender.c` | `msg`, loop index | dequeue, wait for `send_msgs_event`, scan the table under `clients_mutex`, send | `ChatServer` |
| Client handlers (one per logged-in client) | `server/ClientHandler.c` | position in `HandleClient`, `chat_msg`, `parsed_msg` | enqueue welcome/joined/left, `SetEvent`, receive requests, close the socket | `ChatServer` |
| Synchronized queue, linked list | `server/common/SynchronizedQueue.c`, `LinkedList.c` | `head`, `tail`, nodes, `queue_mutex` | `Enqueue`, `Dequeue`, `FreeSynchronizedQueue` | `SynchronizedQueue` |
| Protocol and transfer | `server/common/Protocol.c`, `SocketSendRecvTools.c` | a partly sent and a partly received `ChatMessage` | build, send, receive | `ChatProtocol` |
| Message parser | `server/common/MessageParser.c` | none | `ParseMessage`, `FindChar` | `MessageParser` |
| Client program | `client/client.c`, `ConsoleReader.c`, `SocketReader.c` | three threads, a socket | connect, `Login`, read lines and send them, receive messages, stop the threads | `ChatClient`; the reading of lines also in `ChatProtocol` |
| Client log | `client/ClientLog.c` | two files, a mutex for each | open, write, close | `ChatClient` |
| Helpers | `server/common/SimpleWinAPI.c` | none | wrappers; `InitializeWinSock2` | `ChatServer`, `ChatClient` |
| Server log | `server/ServerLog.c` | none: the file is empty | none | not modelled |

### How they interact

The main thread alone writes the table of clients, partly inside `clients_mutex` and mostly outside
it; the sender reads the table under that mutex and the handlers read their own slot without it. The
handlers feed the sender through the queue and the auto-reset event `send_msgs_event`. A handler's
end reaches main as the signalled thread handle it waits for. Sockets are shared without any lock:
a SOCKET value is opened by main, read and closed by a handler and written by the sender, and
Windows gives the value of a closed socket to a later `accept`. A client only sees its connection.

The client has a main thread that logs in, starts a socket reader and a console reader, waits for
one of them to end and terminates the other. Both write to one log under its mutex; the socket and
the log are closed by main. Its lines travel as `ChatMessage`s: a header with type and length and a
body, each through a loop of `send` or `recv`. Both ends run the same parser on a line, the server on
what it received and the client on what it has just sent.

At this commit the handlers of private and broadcast messages are empty (`ClientHandler.c:274-279`),
so the only messages that travel to the clients are welcome, joined, left and the login refusal.

### What is hard, and what makes each component correct

The list with source lines is `hazards` in `PROJECT.json`. In short:

* queue and event: no message sleeps in the queue (`NoLostWakeup`, `QueueDrains`), and the messages
  about one client keep their order (`PerRunOrder`);
* table: the wait set of main and the flags of the table agree (`WaitSetComplete`), names are unique
  (`UniqueNames`), finished handlers give their slots back (`HandlersReaped`);
* sockets: a handler never acts on a connection that is not its client's
  (`HandlersOwnTheirSockets`), and none takes a login request that is main's (`LoginsReadByMain`),
  although values are reused;
* the server as a whole: slots, flags, names stored in three steps, threads that end long before
  their slot is given back, refused logins that take one all the same, and every error path are
  together one room that runs enter, are announced in and leave (`ImplementsRoom`);
* shutdown of the server: a clean exit leaves nobody using what is freed (`CleanTeardown`), what is
  freed is only touched after a disconnection (`SoundWhileConnected`), and main does not wait on when
  everyone has left (`ServerStops`, `LookupEnds`);
* list: its pointers are consistent whenever the mutex is free, every node allocated is in it and is
  freed once (`WellLinked`, `FreedOnce`), so threads see an atomic queue (`ImplementsFifo`);
* protocol: whatever pieces a message travels in and wherever the connection breaks, messages come
  out whole and in order (`ImplementsChannel`) and come out at all (`Arrives`); what is sent is
  a terminated line within the limit, although a longer one is stored over the end of its array
  before it is dropped (`SentLinesAreTerminated`);
* parser: it overflows an array exactly for the lines that have too long a word, and what the server
  makes of any other line is what the grammar of commands says, unless its word is a command with
  more letters behind it (`ServerUnderstands`);
* client: the log and the socket outlive the threads that use them, up to those main has terminated
  (`LogOutlivesThreads`), one thread writes at a time (`OneWriter`), nothing said is missing from the
  log of a client that reports success, unless the disk refused it (`SuccessIsComplete`), the server
  can rely on the order of its requests (`ImplementsSession`), and when the connection ends main ends
  the client or hangs in a lock that a terminated thread holds (`ClientEndsOrHangs`).

## 2. Modules

| Module | What it is |
|---|---|
| `ChatServer` | the server's main thread, sender and handlers, their shared state, the network and the clients as the server can observe them |
| `ChatServerProperties` | its type invariant, safety, action and liveness properties, the statements of comments that the code does not keep, and the inductive strengthenings |
| `MCChatServer` | instances for TLC |
| `ChatRoom` | abstract: what the server promises about who is let in, under which name, and what is announced |
| `ChatServerProofs` | types; the safety of table, event and shutdown |
| `ChatServerRunProofs` | the messages and the sockets of client runs |
| `ChatServerConnectedProofs` | who reads a login; what holds until a client leaves |
| `ChatServerRoomProofs` | the server implements `ChatRoom` |
| `MessageFifo` | abstract: a queue whose calls take effect at one instant |
| `SynchronizedQueue`, `MCSynchronizedQueue` | the queue of the code, pointer by pointer, with the refinement mapping to `MessageFifo`; symmetry for TLC |
| `SynchronizedQueueProofs` | the list keeps its shape, and the refinement |
| `MessageParser` | `ParseMessage` as functions of memory and length |
| `CommandGrammar` | abstract: what a typed line means |
| `MessageParserProofs` | the parser agrees with the grammar |
| `MessageChannel` | abstract: messages arrive whole and in order, or are lost with the connection |
| `ChatProtocol`, `MCChatProtocol` | a line on its way from the keyboard of a client to the parser of the server, byte by byte, with the refinement mapping to `MessageChannel`; alphabet and commands for TLC |
| `ChatProtocolProofs` | bytes and numbers, the connection, and the refinement |
| `ClientSession` | abstract: what the server may rely on from a client run |
| `ChatClient` | a run of the client: three threads, the log, the socket |
| `ChatClientProperties` | its properties, with the refinement mapping to `ClientSession`, and the inductive strengthenings |
| `ChatClientProofs` | types, log, and the refinement |

The parts fit together through the abstract modules. `ChatServer` takes `Enqueue` and `Dequeue` as
single steps, which `SynchronizedQueue` implementing `MessageFifo` justifies; it takes messages as
whole, which `ChatProtocol` implementing `MessageChannel` justifies; and its client runs send a login
first and requests only after an answer, which `ChatClient` implementing `ClientSession` justifies.
`ChatServer` in turn implements `ChatRoom`. All four refinements are proved.

Some definitions stand next to a variant marked `Mutant:`. It is the definition with a plausible
mistake, used by nothing in the specification; `PROJECT.json` says which property notices it.

### ChatServer

`main_pc`, `sender_pc` and `handler_pc[s]` are the program counters of the three kinds of thread. A
step is at most one access to state that another thread can see, so the interleavings are those of
the code. The variables keep the names of the C fields; `freed` records what `DestroyServer` has
freed, `owner` (a history variable) which client run a slot was given to.

| `main_pc` | position | actions |
|---|---|---|
| `start`, `winsock`, `initialize` | `main` before there are threads | `HandleParameters`, `InitializeWinSock2`, `InitializeServer` |
| `create_sender`, `listen` | `main` before its loop | `CreateSenderThread`, `InitializeListenerSocket` |
| `loop` | `WaitForEvent` | `AcceptConnection`, `AcceptFails`, `HandleThreadFinalization`, `WaitForEventFails`, `SetExitSender` |
| `stuck` | the cleanup of `WaitForEvent` that jumps to itself | none |
| `login`, `lookup`, `refuse` | `HandleNewConnection` up to line 632, `ValidateLoginRequest` | `LoginReceiveFails`, `ReceiveLogin`, `LookupUsername`, `RefuseLogin` |
| `alloc`, `store_socket`, `store_name`, `no_slot` | the rest of `HandleNewConnection` | `AllocateClientContainer`, `StoreSocket`, `StoreNameAndStart`, `NoSlotAvailable`, `RefuseNoSlot` |
| `signal`, `join` | after the loop | `SignalSender`, `JoinSender` |
| `close_listener`, `free_queue`, `free_clients`, `exit`, `hung` | label `cleanup`, `DestroyServer` | `CloseListener`, `FreeQueue`, `FreeClients`, `ExitProcess` |

| Thread | positions and actions |
|---|---|
| sender | `dequeue` `SenderDequeue`; `wait` `SenderWait`; `lock` `SenderLock`; `scan` `SenderScan`; `match` `SenderMatch`; `send` `SenderSend`; `stopped`/`failed` its two ways to end |
| handler | `welcome` `EnqueueWelcome`; `joined` `EnqueueJoined`/`JoinedFails`; `notify_login`, `notify_quit` `NotifySender`/`NotifyFails`; `receive` `ReceiveRequest`/`ReceiveFails`; `left` `EnqueueLeft`; `close` `CloseSocket`; `done_ok`/`done_fail`/`killed` ended, the last by `HandlerTerminated` |
| client run | `ConnectToServer`, `SendLogin`, `ReceiveLoginResponse`, `SendUserMessage`, `CloseClient` |

Decisions a reader should know:

* *The mutex.* Main takes `clients_mutex` only to read the table that it alone writes, so
  `LookupUsername` is one step, enabled when the mutex is free. The sender's critical section is
  several steps.
* *Sockets.* `endpoint[h]` is the run at the other end of value `h`, or `NoConn` when `h` is closed;
  `accept` may return any closed value. Sending to a closed value fails; when the peer is gone a
  send may fail or be lost, and a receive may still deliver what arrived or fail. Only the first
  message a client is sent is remembered (`login_response`), since the others do not change what a
  client does.
* *Misreading.* A client may take an unknown command for `/quit`, or `/quit` for something else
  (see `byte_order` below); the runs in `Misreading` do.
* *Logging.* `InfoLogged` says whether `LOG_INFO` is compiled in. With it a full table dereferences
  NULL (`process = "null_client"`), without it the refusal is sent.
* *Failures.* `CallsMayFail` lets the parameters, malloc, CreateThread, WSAIoctl and the listener's
  set-up fail. Calls on valid handles (SetEvent, WaitForSingleObject, ReleaseMutex,
  WSAEventSelect) do not fail.
* *Undefined behaviour.* Freeing an uninitialised or freed pointer, or using freed memory, either
  ends the process (`bad_free`, `use_after_free`) or goes on as the code would with the old contents.
  A refused login formats `username`, which nothing has stored (`Server.c:603`): the text may run out
  of its buffer and end the process (`bad_read`, in `RefuseLogin`).
* *Freed messages.* When the second Enqueue of `HandleSuccessfulLogin` fails, its cleanup frees the
  welcome message wherever it is (`JoinedFails`): in the queue or in the sender's hands it becomes a
  message of kind `freed` (`AsFreed`), which reads as anything or ends the process at each access of
  the sender (`TouchMessage`); one that was sent and freed before is freed twice.
* *Terminated threads.* `TerminateThread` does not wait. `FreeClients` calls it for every valid slot
  and frees the table; from then on (`TerminatesHandlers`) each handler goes on until
  `HandlerTerminated` stops it, at any later point. One stopped inside malloc or free leaves the heap
  locked, and main may hang in its own free (`hung`).
* *Sending.* A `send()` ends: it succeeds or fails. One that blocks because the peer does not read,
  with `clients_mutex` held (`Sender.c:146`), is not modelled; this repository's client always reads.
  `LookupEnds` holds under that assumption.
* *handler_params* is allocated with the size of a pointer (`Server.c:645`) and overrun by its second
  field. The smallest block of the Windows heap holds both and is never freed, so the handler reads
  what was stored: `StoreNameAndStart` has no other outcome.

### ChatRoom

A run is `outside` until main takes it up, `entered` when its thread starts, `greeted` and `member`
as its welcome and joined messages are queued, `leaving` with its left message, `ended` with its
thread and `gone` when main has given the slot back. `RoomPhase` and `RoomName` read this off the
program counters and the table through `owner`; `announcements` is the send queue itself. A run that
is refused for its name is in the room as well, but nameless (`Server.c:635`); the phase `ended` is
long because the slot stays taken, and the name in use, until main waits again.

### SynchronizedQueue and MessageFifo

Each pointer assignment of `AddLinkedListEntry` and `RemoveFirstEntry` that touches the shared list
is a step: `AllocateEntry`, `LinkTail`, `LinkHead`; `TakeFirst`, `AdvanceHead`, `UnlinkFirst`,
`FreeFirst`, between `LockQueue` and `UnlockQueue`. Freed nodes may be allocated again.
`FreeSynchronizedQueue` starts the walk of `FreeLinkedList` when no call is under way, and
`FreeListEntry` frees one node of it; that the server's error paths free the queue while threads
still use it is part of `ChatServer` (`use_after_free`). An Enqueue takes effect
when the node becomes reachable from `head`, a Dequeue when `head` moves on; `Contents` follows `next`
from `head` and is the abstract queue.

### MessageParser and CommandGrammar

`ParseMessage(body, body_len)` is a function of the memory that starts at the body and of the length
the caller passes, which need not agree: the search `FindChar` and the copies may run past the end of
the readable memory (`Crashed`) or of a local array (`Overflowed`). Lengths are unsigned ints passed
where ints are expected (`AsInt`, `AsUnsigned`, modulo `WORD`). Each branch of the code is one operator:
`ParseCommand`, `ParseArguments`, `ParsePrivate`, `ParseWithoutBody`, `CopyBody`. A result has the
fields the code fills in, as it leaves them: `body_length` is never set and `is_broadcast` is TRUE for
private messages (no code reads either). `CommandGrammar` says what a line means without any of these
steps: by the positions of its first two spaces and the command that its word is. The two differ in
the lines of `ExtendsCommand`, whose word is a command with more letters behind it (the code compares
over the command's length: `commands` below), and of `Overflows`, which have a word that does not fit
the array it is copied to; the properties say what happens to each kind.

### ChatProtocol and MessageChannel

| Thread | positions and actions |
|---|---|
| console reader of the client (`console_pc`) | `read` `ReadCharacter`, `ReadNewline` (with `BuildChatMessage`), `ReadEof`; `send_header`, `send_body` `SendBytes`/`SendFails`; `parse` `ClientParse`; `quit`, `failed`, `crashed` ended |
| connection | `CloseConnection` (the client's main has closed the socket), `ResetConnection` |
| handler of the server (`handler_pc`) | `header`, `body` `ReceiveBytes`/`ReceiveFails`; `stopped` ended |

`SendBytes(k)` is one `send()` that took `k` bytes, `ReceiveBytes(k)` one `recv()` that returned `k`:
every split of a message is a behaviour, in the header and in the body. An int lies in memory lowest
byte first and `htonl`, `ntohl` reverse it. `AfterBlock` is what may follow a heap block in memory, for
reads past its end. `sent` and `delivered` are history variables and the state of `MessageChannel`.

`line` is what `line[]` holds. The newline of a line that filled it becomes a `'\0'` behind the array
(`ConsoleReader.c:144`, against the comment at `:134`): `overrun` remembers it, and the process ends
there, or when `RunConsoleReader` returns (`ConsoleReturns`), or never.

### ChatClient and ClientSession

| Thread | positions and actions |
|---|---|
| `main_pc` | `start`, `open_log`, `winsock`, `connect` the start; `send_login`, `receive_login` `Login`; `create_reader`, `create_console`; `wait` `SocketReaderEnds`, `ConsoleReaderEnds`; `stop_reader` `StopReader`; `kill_reader`, `kill_console` the label `cleanup`; `close_socket`, `close_log`, `exit`; `hung` |
| `reader_pc` | `receive` `ReceiveMessage`/`ReceiveFails`; `lock`, `write`, `print` `WrtieLogMessage` |
| `console_pc` | `read` `ReadLine`, `ReadLongLine`, `ReadEof` (the user's steps); `send` `SendLine`; `lock`, `write`, `print` `WrtieLogMessage`; `parse` `ParseLine` |

A line is what the parser comes to for it: `text`, `invalid` or `quit`. `ParseLine` allows every
outcome that `byte_order` below shows possible. `TerminateThread` only asks for the end of a thread
(`Doom`): a doomed thread runs on until `ThreadStops`, also after main has closed the socket and the
log, and may then fail or crash in them (`FindsAbandoned`, `WriteToClosedLog`). A stopped thread
abandons its mutex (`log_mutex = "abandoned"`) and may leave a lock of the C runtime behind
(`crt_locked`), in which case main may wait for ever (`MayHang`).

`SharedOpen` says whether `fopen_s` opens the same file twice:
`username_length` counts the `'\0'`, so both log paths end before their extension and are one path
(`LogPath`); where it does not, the client ends with `LOG_FILE_FAILURE`.

## 3. Runs

| Run | Instance | Checks |
|---|---|---|
| `safety_pair` | 2 slots, clients `alice` and `bob`, both may die, 2 socket values; 2,913,612 states | `NoLostWakeup`, `WaitSetComplete`, `HandlersOwnTheirSockets`, `CleanTeardown`, `PerRunOrder`, `SoundWhileConnected`, `LoginsReadByMain`: queue, event, table, sockets, logins and teardown stay consistent under every interleaving of the four kinds of thread |
| `safety_twins` | 2 slots, 2 clients with one name, calls may fail; 1,438,775 states | `UniqueNames`, `ImplementsRoom`: however the end of one and the login of the other interleave, the name is never in two slots and every step is a step of the room |
| `safety_failures` | 1 slot, 3 clients, two may die; calls may fail, users type text and unknown commands, `bob` is refused as a server name, the third has a name of 16 characters, no `LOG_INFO`; 4,039,987 states | `TypeOK`, `NoLostWakeup`: every error path of the three kinds of thread is taken |
| `liveness` | 1 slot, 2 clients that may die, `FairSpec`; 107,704 states | `ServerStops`, `QueueDrains`, `LookupEnds`, `HandlersReaped` |
| `queue` | 2 producers, the sender, 2 messages, 3 nodes; 18,022 states | `WellLinked`, `FreedOnce`, `ImplementsFifo`: the list keeps its shape, frees each node once and is an atomic queue |
| `protocol` | an alphabet of newline, slash, space and a letter, three commands, lines of up to 5 characters, `FairSpec`; 393,537 states | `TypeInvariant`, `SentLinesAreTerminated`, `ServerUnderstands`, `ImplementsChannel`, `Arrives` |
| `client` | 2 lines, 3 messages, every call may fail, `FairSpec`; 382,762 states | `TypeInvariant`, `LogOutlivesThreads`, `OneWriter`, `SuccessIsComplete`, `ImplementsSession`, `ClientEndsOrHangs` |

The other runs each refute one statement of a comment and are the evidence of a finding.

| Run | Refuted statement | What happens |
|---|---|---|
| `login_response` | `client.c:73`: Login waits for the message that verifies its login | the slot is visible to the sender before its name and its welcome are there, and a message about another client comes first |
| `sender_dies` | `Sender.c:3`: the sender sends all messages | it ends on the closed socket of a client that quit, and nobody notices |
| `stolen_login` | `Server.c:112`: main handles the login | the handler of a refused login reads the login request of a later connection that was given its SOCKET value. `LoginsReadByMain` holds where no login is refused: it is checked in `safety_pair` and proved (`LoginsAreMains`) |
| `byte_order` | `ConsoleReader.c:86`: the message is parsed to recognise commands | it is parsed with its length in network byte order: /quit may be missed, text may end the client |
| `commands` | `MessageParser.c:14`: the parser "never will take a string that is not a command as a command" | it compares over the command's length: `/quitter` is taken for `/quit`. Here `command[]` is longer than every command, as the comment has it |

More things the models show without contradicting a line of the repository:

* a refused login still takes a slot (`Server.c:635`), and a slot without a name matches every
  destination (`Server.c:639`, `Sender.c:143`);
* a full table dereferences NULL when `LOG_INFO` is compiled in (`Server.c:666`);
* a name of 16 characters, which the client accepts, ends the server (`Server.c:738`), and so does a
  client that leaves without /quit (`Server.c:240`);
* the server may hang after `TerminateThread` (`Server.c:536`), and the client in the C runtime's
  locks (`client.c:446`);
* a client whose user has said /quit may exit with `WAIT_FOR_EVENT_FAILED`, when the server's end of
  the connection ends its socket reader before main looks (`client.c:425`);
* an entry that the disk refuses is missing from the log of a client that reports success
  (`ClientLog.c:143`).

### Bounds

* Two clients and two slots are enough for every interaction in the code, which is between a slot
  and one other slot, or between main and one handler; `stolen_login` takes a third client. One slot
  with two clients reaches the full table. Two socket values for two or three clients force reuse.
* `MaxInFlight = 1`: one request of a client under way besides those of its login. A handler reads
  one request at a time and looks at nothing else of the connection, so longer queues only delay it.
* Each client run connects once. A user that comes back is another run with the same name
  (`MCUserTwins`).
* The send queue has no bound: a run contributes at most three messages.
* `Nodes` has three elements, fewer than the calls of the threads, so nodes are reused and malloc
  fails.
* `protocol`: a byte counts to 8 and an unsigned int has two of them (`WORD = 64`), lines have at most
  `MESSAGE_MAXLENGTH = 5` characters, commands 2 and names 1. The arrays keep the sizes the code gives
  them relative to these, so each can be filled, exceeded by one and exceeded by more, and every
  length up to the longest line, its byte-swapped form and both signs occur. `MaxTyped = 7` allows a
  line that is two characters too long, or two short lines; not a line after one that overran its
  array, so `SentLinesAreTerminated` is checked there for the lines up to the limit and proved for
  what follows an overrun. `Window = 2` bytes fit in the connection,
  fewer than a header, so every message is split. `AfterBlock` has memory that ends at once, that has
  a space in it, and that goes on for any length.
* `client`: two lines, so that one is sent after another is logged; three messages: the answer to
  the login and two that race with the console reader's writes.
* `commands` is `protocol` with an array `command[]` longer than every command.
* Symmetry on socket values (`safety_*`, `login_response`, `stolen_login`), on the two runs with one
  name (`safety_twins`, where no constant tells them apart) and on nodes and producers
  (`queue`) is sound: no definition tells them apart, and the temporal properties of these runs are
  safety formulas (`[][A]_vars`, `Init /\ [][Next]_vars`). The runs that check liveness use none.

Deadlock is checked in every passing run: the only states without another successor are those after
the end or the hang of the process, where `Terminated` (`Freed` in the queue) stutters.

### Fairness

`ChatServer` asks for weak fairness of main, of the sender, of each handler and of the `Login` of each
client; `ChatClient` of its main and its two threads; `ChatProtocol` of the server's handler. Threads
are scheduled preemptively, so a thread that can go on does; a blocked call is a disabled action.
Main's only contended wait (`clients_mutex`) needs no strong fairness: the sender could retake it for
ever only if messages never ran out, and each run contributes finitely many. Nothing is asked of
users or, in the client, of the server: a user need not type or quit, hence `ServerStops` is
conditional on the clients being gone and `ClientEndsOrHangs` on the end of the connection. A
hang is an end for both, and their comments say so: the code can hang, and what they exclude is a main
thread that waits on although what it waits for has happened.

## 4. Proofs

Eight modules are checked by TLAPS without an unproved leaf. They hold for every value of the
constants: any number of slots up to the 63 that Windows can wait for, any sets of clients, names
and socket values (infinite ones too), any number of threads at the queue and nodes in the heap, any
number of lines and messages, any width of bytes and words, with and without failing calls. The assumptions are the named ones of
the modules: sentinels are distinct from values, and

* `ConstantsAssumption`: names are within the bound the client checks;
* `HeapAssumption`: finitely many nodes; `ThreadsAssumption`: no thread both produces and consumes;
* `ParserAssumption`: space, slash and `'\0'` differ, no command contains a space or `'\0'`, and each
  fits the array it is copied to;
* `ProtocolAssumption`: a byte has at least one value, a word is some whole number of bytes, keys and
  separators are bytes, and the longest message has a length that an int can hold.

Three theorems about the server also say in their statement what they need of users and names:
`NoRefusals` (each run has a name of its own, none the server's) for `SocketsAreOwn` and
`LoginsAreMains`, and `OnlyClientsLeave` (that, and no call fails, no user types an unknown command,
no name is too long) for `SoundUntilOneLeaves`. `safety_pair` meets both. Without the first a handler
may take the login of another run (`stolen_login`); without the second a handler or main fails while
every client is connected.

| Theorem | Statement | Argument |
|---|---|---|
| `TypeCorrect` | `Spec => []TypeOK` | `TypeOK` is not inductive alone: storing a client needs `sock` and `conn` to be set (`LocalsInv`), and counting down needs a positive count, which is the number of valid slots (`CountInv`, by the cardinality lemmas of the library). Together they are `TypeInv`. |
| `WaitSetCorrect` | `Spec => []WaitSetComplete` | `SlotInv`: handlers exist exactly for valid slots, except for the one main is filling and, once it tears down, for one whose thread could not be created. |
| `NoWakeupIsLost` | `Spec => []NoLostWakeup` | A handler is only ever killed after the queue was freed (`FreedInv`), and sets the event after its last Enqueue; the sender consumes the event before it looks at the queue again. |
| `NamesAreUnique` | `Spec => []UniqueNames` | `NameInv`: the answer of the lookup stays true until the name is stored, as main alone writes names and does nothing else between. |
| `TeardownIsClean` | `Spec => []CleanTeardown` | `ExitInv`: main leaves its loop only with no valid slot; `JoinSender` alone reports SUCCESS and needs the sender to have ended. |
| `RunsAreOrdered` | `Spec => []PerRunOrder` | A run connects once (`BacklogInv`) and so owns one slot at most (`OwnerInv`); whatever is under way about it is something its handler has already said (`Said`, `InPlace`, `OrderInv`), so what the handler adds comes later in the order. |
| `SocketsAreOwn` | `NoRefusals` implies `Spec => []HandlersOwnTheirSockets` | `SocketInv`: main holds the socket of the run it logs in, and each live handler that of its owner; a value is only given out again when it is closed, and an owner is in one slot. A handler that `FreeClients` has terminated may still be on its way, with its socket closed. `NoRefusals` (distinct names, none the server's) is needed: `stolen_login` shows what a refused login does. |
| `LoginsAreMains` | `NoRefusals` implies `Spec => LoginsReadByMain` | `LoginInv`: what is under way from a run that main has not read from is its login request and then others (`LoginAhead`, `OneLogin`), and from one that has a slot the others alone (`LoginBehind`); by `SocketInv` a handler reads from a run that has a slot. |
| `SoundUntilOneLeaves` | `OnlyClientsLeave` implies `Spec => []SoundWhileConnected` | `ConnectedInv`: until a client closes, no receive fails and so no handler does, main tears down only with SUCCESS, hence after everyone has ended (`CleanTeardown`), and no message in the queue or in the sender's hands was freed. |
| `ServerIsRoom` | `Spec => ImplementsRoom` | `Seats`: each slot with a thread seats its owner, at most once (`OwnerInv`), and those not seated are outside or gone. Main's lookup stays true until the name is stored (`NameInv`), and while main holds a slot without a thread those inside are fewer than the slots (`SpaceForOne`, by an injection into the other slots). One lemma per thread maps its steps to steps of the room; a step that moves no thread is `TurnAway` of whoever main has dropped (`Passive`). |
| `ClientTypeCorrect` | `Spec => []TypeInvariant` | inductive as it stands |
| `LogOutlivesItsThreads`, `LogHasOneWriter` | `Spec => []LogOutlivesThreads`, `Spec => []OneWriter` | `ThreadsInv`: where main is when a thread runs that it has not terminated, what is open there, that only a doomed thread is killed, and that the owner of the mutex is the thread that writes. |
| `ClientIsSession` | `Spec => ImplementsSession` | `LoginInv` says what was sent and received where; each step maps to a step of `ClientSession` or to a stutter. |
| `SuccessLeavesNothingOut` | `Spec => []SuccessIsComplete` | `SaidInv` and `LoggedInv` count the entries of the log against the requests by the position of the console reader; an entry of the socket reader in between counts for nothing (`LoggedGrows`). |
| `ListStaysLinked`, `NodesFreedOnce` | `Spec => []WellLinked`, `Spec => []FreedOnce` | `QueueInv`: there is one sequence of nodes (`OneList`) that the pointers follow, up to what the one thread in the critical section has not set yet (`Shape`); the walk is somewhere in it and has freed what lies behind; the node a thread is about to free is no longer in it but still allocated. |
| `QueueIsFifo` | `Spec => ImplementsFifo` | every step of a thread maps to a step of `MessageFifo` (`LinkHead` to `Put`, `AdvanceHead` to `Take`) or to a stutter. |
| `ParserUnderstands` | for every non-empty line: `Overflowed` exactly if `Overflows(line)`; otherwise `FillsIn`, `MeansWith(PrefixesOf(line), ...)`, and `Means(line, ...)` unless `ExtendsCommand(line)` | `FindChar` is a least-index search, so its result is the position the grammar speaks of; one case per branch of the parser. |
| `InvHolds` and `TypeTheorem`, `SentLinesTheorem`, `ChannelTheorem`, `UnderstandsTheorem` | `Spec => []TypeInvariant`, `Spec => []SentLinesAreTerminated`, `Spec => ImplementsChannel`, `Spec => []ServerUnderstands` of `ChatProtocol` | `Inv`: unless the connection is reset there is one sequence of bytes, `wire`, that the client has put on it: the messages sent, one after the other, then the beginning of the one under way, which `unsent` goes on from; what the server has received of a message and what is in flight are consecutive pieces of `wire` (`OnTheWire`). So what fills a header is a header, its length field is the length of the line (`ntohl(htonl(n)) = n`), and what fills a body is that line. Bytes and numbers are functions defined step by step over the bytes of a word; that the number is recovered from them follows by a least counterexample (`NatMin`). |

Each preservation proof has one step per action or group of actions with the same effect; frame
lemmas state once what the steps of other threads leave alone. Every inductive invariant was checked
by TLC on the instances of its module before it was proved.

Only model-checked: the liveness properties (`ServerStops`, `QueueDrains`, `LookupEnds`,
`HandlersReaped`, `ClientEndsOrHangs`, `Arrives`), since liveness under fairness is beyond this prover. Every
other property of a passing run is a theorem.

## 5. Not modelled

* `DeleteLinkedListEntry`, `SendString`, `ReceiveString`, `SendQuitMessage`, `HandleConsoleMessages`,
  `CreateProcessSimple`: called by nothing in the program.
* `server/ServerLog.c` is empty; the logging macros and the wording of messages change no state.
* A `send()` that blocks for ever, and what lies in memory behind an overflowed array: the process is
  ended there (`Overflowed`), or at any later time for `line[]`.
* A client that is not this repository's client program, and the empty username, which cannot be
  told from a slot without a name.
* The bodies of the messages the server sends: the client writes them to its log and looks only at
  their type.

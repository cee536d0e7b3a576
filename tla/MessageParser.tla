---------------------------- MODULE MessageParser ----------------------------
(***************************************************************************)
(* ParseMessage and FindChar (src/server/common/MessageParser.c), which    *)
(* both ends run on a user message, as functions of the memory that starts *)
(* at the message's body and of the length the header gives.  The client   *)
(* and the server pass different lengths for the same message.             *)
(***************************************************************************)
EXTENDS Integers, Sequences

CONSTANTS
    Nul, Slash, Space,          \* characters with a meaning
    Commands,                   \* CLIENT_COMMANDS, in the order of the table
    RequestTypes,               \* CLIENT_REQUEST_TYPES, in the same order
    MAX_COMMAND_LENGTH, USERNAME_MAXLENGTH,
    WORD                        \* 2^w, for the w bits of an int

ASSUME ParserAssumption ==
    /\ Nul # Space /\ Nul # Slash /\ Slash # Space
    /\ MAX_COMMAND_LENGTH \in Nat \ {0}
    /\ USERNAME_MAXLENGTH \in Nat \ {0}
    /\ WORD \in Nat \ {0} /\ WORD % 2 = 0
    /\ RequestTypes \in Seq({"active_users", "private_message", "quit"})
    /\ Commands \in Seq(Seq(Int)) /\ Len(Commands) = Len(RequestTypes)
    /\ \A i \in DOMAIN Commands :
           /\ Len(Commands[i]) <= MAX_COMMAND_LENGTH
           /\ \A j \in DOMAIN Commands[i] : Commands[i][j] \notin {Nul, Space}

\* An unsigned length passed where an int is expected, and back.
AsInt(n) == IF n < WORD \div 2 THEN n ELSE n - WORD
AsUnsigned(n) == n % WORD

NOT_FOUND == -1
UNSET == -1                     \* what the lengths are initialised with
OUTSIDE == -2                   \* the search left the readable memory

\* str holds the readable characters from the pointer on; str_len may say more.
FindChar(str, c, str_len) ==
    IF \E i \in 1 .. Len(str) : i <= str_len /\ str[i] = c
    THEN (CHOOSE i \in 1 .. Len(str) :
              str[i] = c /\ \A j \in 1 .. i - 1 : str[j] # c) - 1
    ELSE IF str_len <= Len(str) THEN NOT_FOUND ELSE OUTSIDE

From(str, offset) == SubSeq(str, offset + 1, Len(str))

\* What a call of ParseMessage comes to: FALSE, the end of the process, a
\* result that lies over the end of a local array, or a ParsedMessage.
Failed     == [type |-> "failed"]
Crashed    == [type |-> "crashed"]
Overflowed == [type |-> "overflowed"]
Parsed(type, is_broadcast, dest_user, dest_user_length, body) ==
    [type |-> type, is_broadcast |-> is_broadcast,
     dest_user |-> dest_user, dest_user_length |-> dest_user_length,
     body |-> body, body_length |-> UNSET]

WithoutText(type) == Parsed(type, FALSE, <<>>, UNSET, <<>>)

\* memcmp over the length of the command: a longer word that starts with it
\* matches too.  The first match of the table counts.
StartsWith(word, command) ==
    Len(command) <= Len(word) /\ SubSeq(word, 1, Len(command)) = command

\* Mutant: the search goes on after a match.
LastRequestType(word) ==
    IF \E i \in DOMAIN Commands : StartsWith(word, Commands[i])
    THEN RequestTypes[CHOOSE i \in DOMAIN Commands :
             /\ StartsWith(word, Commands[i])
             /\ \A j \in i + 1 .. Len(Commands) : ~StartsWith(word, Commands[j])]
    ELSE "invalid"

RequestType(word) ==
    IF \E i \in DOMAIN Commands : StartsWith(word, Commands[i])
    THEN RequestTypes[CHOOSE i \in DOMAIN Commands :
             /\ StartsWith(word, Commands[i])
             /\ \A j \in 1 .. i - 1 : ~StartsWith(word, Commands[j])]
    ELSE "invalid"

\* The text of a broadcast or private message: malloc and memcpy of what the
\* length says is left.  A block of half the address space is never granted.
\* The case of a private message falls through to that of a broadcast, so
\* is_broadcast is set for both; msg_length is set for neither.
CopyBody(type, dest_user, dest_user_length, body, body_len, offset) ==
    LET size == AsUnsigned(body_len - offset)
    IN  IF size >= WORD \div 2 THEN Failed
        ELSE IF size > Len(body) - offset THEN Crashed
        ELSE Parsed(type, TRUE, dest_user, dest_user_length,
                    SubSeq(body, offset + 1, offset + size))

ParsePrivate(body, body_len, offset) ==
    LET user_length == FindChar(From(body, offset), Space, AsInt(AsUnsigned(body_len - offset)))
    IN  CASE user_length = OUTSIDE -> Crashed
          [] user_length = NOT_FOUND -> WithoutText("invalid")
          [] user_length > USERNAME_MAXLENGTH + 1 -> Overflowed
          [] OTHER -> CopyBody("private_message",
                               SubSeq(body, offset + 1, offset + user_length), user_length,
                               body, body_len, offset + user_length + 1)

\* /quit and /active_users carry no message: a second space makes them invalid.
ParseWithoutBody(type, body, body_len, offset) ==
    LET space == FindChar(From(body, offset), Space, AsInt(AsUnsigned(body_len - offset)))
    IN  CASE space = OUTSIDE -> Crashed
          [] space = NOT_FOUND -> WithoutText(type)
          [] OTHER -> WithoutText("invalid")

ParseArguments(type, body, body_len, offset) ==
    CASE type = "private_message" -> ParsePrivate(body, body_len, offset)
      [] type \in {"quit", "active_users"} -> ParseWithoutBody(type, body, body_len, offset)
      [] type = "invalid" -> WithoutText("invalid")

\* The word after the slash is copied to command[MAX_COMMAND_LENGTH], up to
\* the first space; without one, as much as fits.
ParseCommand(body, body_len) ==
    LET rest == AsUnsigned(body_len - 1)
        req_command_length == FindChar(From(body, 1), Space, AsInt(rest))
        bytes_to_copy ==
            CASE req_command_length # NOT_FOUND -> req_command_length
              [] req_command_length = NOT_FOUND ->
                     IF rest < MAX_COMMAND_LENGTH THEN rest ELSE MAX_COMMAND_LENGTH
    IN  IF req_command_length = OUTSIDE \/ bytes_to_copy > Len(body) - 1 THEN Crashed
        ELSE IF bytes_to_copy > MAX_COMMAND_LENGTH THEN Overflowed
        ELSE ParseArguments(RequestType(SubSeq(body, 2, 1 + bytes_to_copy)),
                            body, body_len, 2 + req_command_length)

ParseMessage(body, body_len) ==
    IF body_len = 0 THEN Failed
    ELSE IF body[1] # Slash THEN CopyBody("broadcast", <<>>, UNSET, body, body_len, 0)
    ELSE ParseCommand(body, body_len)
=============================================================================

--------------------------- MODULE CommandGrammar ---------------------------
(***************************************************************************)
(* What a typed line means, said without the steps of ParseMessage: the    *)
(* reference the parser is compared with.  A command is a whole word; the  *)
(* lines the parser reads otherwise, by the first command their word       *)
(* begins with, are told apart by ExtendsCommand, and those it cannot hold *)
(* by Overflows.                                                           *)
(***************************************************************************)
EXTENDS MessageParser

IsCommandLine(line) == line[1] = Slash

\* Right after its slash the line has the characters of command i.
SpellsCommand(line, i) ==
    /\ Len(line) > Len(Commands[i])
    /\ \A j \in DOMAIN Commands[i] : line[j + 1] = Commands[i][j]

\* A word ends before a space or the '\0'.
EndsWord(line, i) == i \in DOMAIN line /\ line[i] \in {Space, Nul}

\* The word after the slash is command i.
IsCommand(line, i) == SpellsCommand(line, i) /\ EndsWord(line, Len(Commands[i]) + 2)

\* Command i is the first of the table that the word begins with.
BeginsWith(line, i) ==
    /\ SpellsCommand(line, i)
    /\ \A j \in 1 .. i - 1 : ~SpellsCommand(line, j)

\* The n-th space of the line is at position i.
IsFirstSpace(line, i) ==
    /\ i \in DOMAIN line /\ line[i] = Space
    /\ \A j \in 1 .. i - 1 : line[j] # Space

IsSecondSpace(line, i, k) ==
    /\ IsFirstSpace(line, i)
    /\ k \in DOMAIN line /\ k > i /\ line[k] = Space
    /\ \A j \in i + 1 .. k - 1 : line[j] # Space

HasTwoSpaces(line) == \E i, k \in DOMAIN line : IsSecondSpace(line, i, k)

\* What r asks for.
Asks(type, dest_user, text) == [type |-> type, dest_user |-> dest_user, text |-> text]
Request(r) == Asks(r.type, r.dest_user, r.body)

\* Where the commands cs are recognised: a line without a slash is for
\* everybody; /quit and /active_users stand alone (one space is let through);
\* a private message has a user between its first two spaces and its text
\* after the second; all else is invalid.
MeansWith(cs, line, m) ==
    \/ ~IsCommandLine(line) /\ m = Asks("broadcast", <<>>, line)
    \/ /\ IsCommandLine(line)
       /\ \E c \in cs :
              \/ /\ RequestTypes[c] \in {"quit", "active_users"}
                 /\ m = Asks(IF HasTwoSpaces(line) THEN "invalid" ELSE RequestTypes[c],
                              <<>>, <<>>)
              \/ /\ RequestTypes[c] = "private_message"
                 /\ ~HasTwoSpaces(line) /\ m = Asks("invalid", <<>>, <<>>)
              \/ /\ RequestTypes[c] = "private_message"
                 /\ \E i, k \in DOMAIN line :
                        /\ IsSecondSpace(line, i, k)
                        /\ m = Asks("private_message", SubSeq(line, i + 1, k - 1),
                                     SubSeq(line, k + 1, Len(line)))
    \/ IsCommandLine(line) /\ cs = {} /\ m = Asks("invalid", <<>>, <<>>)

CommandsOf(line) == {c \in DOMAIN Commands : IsCommand(line, c)}
PrefixesOf(line) == {c \in DOMAIN Commands : BeginsWith(line, c)}

Means(line, m) == MeansWith(CommandsOf(line), line, m)

\* The word is longer than the first command it begins with: no command, but
\* the parser takes it for that one.
ExtendsCommand(line) ==
    IsCommandLine(line) /\ \E c \in PrefixesOf(line) : ~IsCommand(line, c)

\* A word the parser copies does not fit its array: one before a space
\* command[], the user of a private message dest_user[].
Overflows(line) ==
    /\ IsCommandLine(line)
    /\ \/ \E i \in DOMAIN line : IsFirstSpace(line, i) /\ i - 2 > MAX_COMMAND_LENGTH
       \/ /\ \E c \in PrefixesOf(line) : RequestTypes[c] = "private_message"
          /\ \E i, k \in DOMAIN line :
                 IsSecondSpace(line, i, k) /\ k - i - 1 > USERNAME_MAXLENGTH + 1

\* The fields nothing reads: no body_length is ever set, and a private message
\* counts as a broadcast.
FillsIn(r) ==
    /\ r.body_length = UNSET
    /\ r.is_broadcast <=> r.type \in {"broadcast", "private_message"}
    /\ r.dest_user_length = IF r.type = "private_message" THEN Len(r.dest_user) ELSE UNSET
=============================================================================

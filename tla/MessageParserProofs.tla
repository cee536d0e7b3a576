------------------------- MODULE MessageParserProofs -------------------------
(* What ParseMessage makes of a line of any length, for any table of         *)
(* commands and any width of an int.                                         *)
EXTENDS CommandGrammar, SequenceTheorems, WellFoundedInduction, TLAPS

-----------------------------------------------------------------------------
(* Numbers                                                                  *)

LEMMA SmallIsItself ==
    ASSUME NEW n \in Nat, n < WORD \div 2
    PROVE  /\ AsUnsigned(n) = n /\ AsInt(AsUnsigned(n)) = n
<1>1. WORD \in Nat \ {0} /\ WORD \div 2 \in Nat /\ n < WORD
  BY ParserAssumption
<1>2. n % WORD = n
  BY <1>1
<1> QED BY <1>1, <1>2 DEF AsUnsigned, AsInt

LEMMA LeastOf ==
    ASSUME NEW S, S \subseteq Nat, S # {}
    PROVE  \E i \in S : \A j \in S : i <= j
<1>1. PICK i \in S : \A j \in S : ~(<<j, i>> \in OpToRel(<, Nat))
  BY WFMin, NatLessThanWellFounded
<1>2. \A j \in S : ~(j < i)
  BY <1>1 DEF OpToRel
<1> QED BY <1>2

-----------------------------------------------------------------------------
(* FindChar                                                                 *)

LEMMA FindCharFinds ==
    ASSUME NEW str \in Seq(Int), NEW c
    PROVE  LET r == FindChar(str, c, Len(str)) IN
           \/ r = NOT_FOUND /\ \A i \in 1 .. Len(str) : str[i] # c
           \/ /\ r \in Nat /\ r + 1 \in 1 .. Len(str)
              /\ str[r + 1] = c /\ \A j \in 1 .. r : str[j] # c
<1> DEFINE Hits == {i \in 1 .. Len(str) : str[i] = c}
           r == FindChar(str, c, Len(str))
<1>1. Len(str) \in Nat
  BY LenProperties
<1>2. CASE Hits = {}
  <2>1. \A i \in 1 .. Len(str) : str[i] # c
    BY <1>2
  <2>2. r = NOT_FOUND
    BY <1>1, <2>1 DEF FindChar
  <2> QED BY <2>1, <2>2
<1>3. CASE Hits # {}
  <2>1. PICK i \in Hits : \A j \in Hits : i <= j
    <3>1. Hits \subseteq Nat
      BY <1>1
    <3> HIDE DEF Hits
    <3> QED BY <1>3, <3>1, LeastOf
  <2> DEFINE First(k) == str[k] = c /\ \A j \in 1 .. k - 1 : str[j] # c
             l == CHOOSE k \in 1 .. Len(str) : First(k)
  <2>2. i \in 1 .. Len(str) /\ First(i)
    BY <1>1, <2>1
  <2>3. l \in 1 .. Len(str) /\ First(l)
    BY <2>2
  <2>4. r = l - 1
    BY <1>1, <2>2 DEF FindChar
  <2> HIDE DEF l, r
  <2>5. r \in Nat /\ r + 1 = l
    BY <1>1, <2>3, <2>4
  <2> QED BY <2>3, <2>5 DEF r
<1> QED BY <1>2, <1>3

\* The search of FindChar for the next space after the first offset characters.
NextSpace(line, offset) ==
    FindChar(From(line, offset), Space, AsInt(AsUnsigned(Len(line) - offset)))

LEMMA NextSpaceFinds ==
    ASSUME NEW line \in Seq(Int), Len(line) < WORD \div 2, NEW offset \in 0 .. Len(line)
    PROVE  LET r == NextSpace(line, offset) IN
           \/ r = NOT_FOUND /\ \A i \in offset + 1 .. Len(line) : line[i] # Space
           \/ /\ r \in Nat /\ offset + r + 1 \in offset + 1 .. Len(line)
              /\ line[offset + r + 1] = Space
              /\ \A j \in offset + 1 .. offset + r : line[j] # Space
<1> DEFINE rest == From(line, offset)
           r == NextSpace(line, offset)
<1>1. Len(line) \in Nat
  BY LenProperties
<1>2. /\ rest \in Seq(Int) /\ Len(rest) = Len(line) - offset
      /\ \A i \in 1 .. Len(rest) : rest[i] = line[offset + i]
  <2>1. \A i \in offset + 1 .. Len(line) : line[i] \in Int
    BY <1>1, ElementOfSeq
  <2>2. /\ SubSeq(line, offset + 1, Len(line)) \in Seq(Int)
        /\ Len(SubSeq(line, offset + 1, Len(line))) =
               IF offset + 1 <= Len(line) THEN Len(line) - (offset + 1) + 1 ELSE 0
        /\ \A i \in 1 .. Len(line) - (offset + 1) + 1 :
               SubSeq(line, offset + 1, Len(line))[i] = line[offset + 1 + i - 1]
    BY <1>1, <2>1, SubSeqProperties
  <2> QED BY <1>1, <2>2 DEF From
<1>3. AsInt(AsUnsigned(Len(line) - offset)) = Len(rest)
  <2>1. Len(line) - offset \in Nat /\ Len(line) - offset < WORD \div 2
    BY <1>1, ParserAssumption
  <2> QED BY <1>2, <2>1, SmallIsItself
<1>4. r = FindChar(rest, Space, Len(rest))
  BY <1>3 DEF NextSpace
<1> HIDE DEF rest, r
<1>5. \/ r = NOT_FOUND /\ \A i \in 1 .. Len(rest) : rest[i] # Space
      \/ /\ r \in Nat /\ r + 1 \in 1 .. Len(rest)
         /\ rest[r + 1] = Space /\ \A j \in 1 .. r : rest[j] # Space
  BY <1>2, <1>4, FindCharFinds
<1>6. CASE r = NOT_FOUND /\ \A i \in 1 .. Len(rest) : rest[i] # Space
  <2>1. ASSUME NEW i \in offset + 1 .. Len(line) PROVE line[i] # Space
    <3>1. Len(rest) = Len(line) - offset
      BY <1>2
    <3>2. i - offset \in 1 .. Len(rest) /\ offset + (i - offset) = i
      BY <1>1, <3>1
    <3>3. rest[i - offset] # Space
      BY <1>6, <3>2
    <3>4. rest[i - offset] = line[i]
      BY <1>2, <3>2
    <3> QED BY <3>3, <3>4
  <2> QED BY <1>6, <2>1 DEF r
<1>7. CASE /\ r \in Nat /\ r + 1 \in 1 .. Len(rest)
           /\ rest[r + 1] = Space /\ \A j \in 1 .. r : rest[j] # Space
  <2>1. offset + r + 1 \in offset + 1 .. Len(line) /\ offset + (r + 1) = offset + r + 1
    BY <1>1, <1>2, <1>7
  <2>2. line[offset + r + 1] = Space
    BY <1>2, <1>7, <2>1
  <2>3. ASSUME NEW j \in offset + 1 .. offset + r PROVE line[j] # Space
    <3>1. offset \in Nat /\ r \in Nat /\ r < Len(rest)
      BY <1>1, <1>2, <1>7
    <3>2. j - offset \in 1 .. r /\ offset + (j - offset) = j
      BY <3>1
    <3>3. j - offset \in 1 .. Len(rest)
      BY <1>1, <1>2, <3>1, <3>2
    <3>4. rest[j - offset] # Space
      BY <1>7, <3>2
    <3>5. rest[j - offset] = line[j]
      BY <1>2, <3>2, <3>3
    <3> QED BY <3>4, <3>5
  <2> QED BY <1>7, <2>1, <2>2, <2>3 DEF r
<1> QED BY <1>5, <1>6, <1>7

-----------------------------------------------------------------------------
(* The table of commands                                                    *)

\* The characters ParseCommand copies to the array of the command.
WordLength(line) ==
    LET r == NextSpace(line, 1)
    IN  IF r # NOT_FOUND THEN r
        ELSE IF Len(line) - 1 < MAX_COMMAND_LENGTH THEN Len(line) - 1 ELSE MAX_COMMAND_LENGTH

Word(line) == SubSeq(line, 2, 1 + WordLength(line))

\* A line the functions below are about: it begins with a slash.
CommandLine(line) ==
    line \in Seq(Int) /\ line # <<>> /\ Len(line) < WORD \div 2 /\ line[1] = Slash

LEMMA WordOfLine ==
    ASSUME NEW line, CommandLine(line)
    PROVE  /\ WordLength(line) \in 0 .. Len(line) - 1
           /\ Word(line) \in Seq(Int) /\ Len(Word(line)) = WordLength(line)
           /\ \A i \in 1 .. WordLength(line) : Word(line)[i] = line[i + 1]
<1>1. Len(line) \in Nat \ {0} /\ line \in Seq(Int) /\ 1 \in 0 .. Len(line)
  BY EmptySeq, LenProperties DEF CommandLine
<1>2. WordLength(line) \in 0 .. Len(line) - 1
  <2> DEFINE r == NextSpace(line, 1)
  <2>1. Len(line) < WORD \div 2
    BY DEF CommandLine
  <2>2. r = NOT_FOUND \/ (r \in Nat /\ 1 + r + 1 \in 2 .. Len(line))
    BY <1>1, <2>1, NextSpaceFinds
  <2>3. MAX_COMMAND_LENGTH \in Nat
    BY ParserAssumption
  <2>4. WordLength(line) = IF r # NOT_FOUND THEN r
                           ELSE IF Len(line) - 1 < MAX_COMMAND_LENGTH THEN Len(line) - 1
                           ELSE MAX_COMMAND_LENGTH
    BY DEF WordLength
  <2> HIDE DEF r
  <2> QED BY <1>1, <2>2, <2>3, <2>4
<1>3. \A i \in 2 .. 1 + WordLength(line) : line[i] \in Int
  BY <1>1, <1>2, ElementOfSeq
<1>4. /\ Word(line) \in Seq(Int)
      /\ Len(Word(line)) = IF 2 <= 1 + WordLength(line) THEN 1 + WordLength(line) - 2 + 1 ELSE 0
      /\ \A i \in 1 .. 1 + WordLength(line) - 2 + 1 : Word(line)[i] = line[2 + i - 1]
  BY <1>2, <1>3, SubSeqProperties DEF Word
<1> QED BY <1>1, <1>2, <1>4

LEMMA PrefixIsSpelling ==
    ASSUME NEW line, CommandLine(line), NEW c \in DOMAIN Commands
    PROVE  StartsWith(Word(line), Commands[c]) <=> SpellsCommand(line, c)
<1> DEFINE word == Word(line)
           n == WordLength(line)
           command == Commands[c]
<1>1. Len(line) \in Nat \ {0} /\ line \in Seq(Int) /\ 1 \in 0 .. Len(line)
  BY EmptySeq, LenProperties DEF CommandLine
<1>2. /\ n \in 0 .. Len(line) - 1 /\ word \in Seq(Int) /\ Len(word) = n
      /\ \A i \in 1 .. n : word[i] = line[i + 1]
  BY WordOfLine
<1>3. /\ command \in Seq(Int) /\ Len(command) <= MAX_COMMAND_LENGTH
      /\ Len(command) \in Nat /\ DOMAIN command = 1 .. Len(command)
      /\ \A i \in 1 .. Len(command) : command[i] # Space
  BY ParserAssumption, LenProperties
<1>4. SpellsCommand(line, c) => Len(command) <= n
  <2> SUFFICES ASSUME SpellsCommand(line, c), n < Len(command) PROVE FALSE
    BY <1>2, <1>3
  <2>1. Len(command) < Len(line)
    BY DEF SpellsCommand
  <2>2. CASE NextSpace(line, 1) = NOT_FOUND
    BY <1>1, <1>3, <2>1, <2>2, ParserAssumption DEF WordLength
  <2>3. CASE NextSpace(line, 1) # NOT_FOUND
    <3>1. n = NextSpace(line, 1) /\ line[1 + n + 1] = Space
      BY <1>1, <2>3, NextSpaceFinds DEF WordLength, CommandLine
    <3>2. n + 1 \in 1 .. Len(command) /\ (n + 1) + 1 = 1 + n + 1
      BY <1>2, <1>3
    <3>3. line[n + 1 + 1] = command[n + 1]
      BY <1>3, <3>2 DEF SpellsCommand
    <3> QED BY <1>3, <3>1, <3>2, <3>3
  <2> QED BY <2>2, <2>3
<1> HIDE DEF n, word, command
<1>5. ASSUME Len(command) <= n
      PROVE  /\ SubSeq(word, 1, Len(command)) \in Seq(Int)
             /\ Len(SubSeq(word, 1, Len(command))) = Len(command)
             /\ \A i \in 1 .. Len(command) : SubSeq(word, 1, Len(command))[i] = line[i + 1]
  <2>1. \A i \in 1 .. Len(command) : word[i] \in Int
    BY <1>2, <1>3, <1>5, ElementOfSeq
  <2>2. /\ SubSeq(word, 1, Len(command)) \in Seq(Int)
        /\ Len(SubSeq(word, 1, Len(command))) =
               IF 1 <= Len(command) THEN Len(command) - 1 + 1 ELSE 0
        /\ \A i \in 1 .. Len(command) - 1 + 1 :
               SubSeq(word, 1, Len(command))[i] = word[1 + i - 1]
    BY <1>3, <2>1, SubSeqProperties
  <2>3. \A i \in 1 .. Len(command) : 1 + i - 1 = i /\ i \in 1 .. n
    BY <1>2, <1>3, <1>5
  <2> QED BY <1>2, <1>3, <2>2, <2>3
<1>6. StartsWith(word, command) => SpellsCommand(line, c)
  <2> SUFFICES ASSUME StartsWith(word, command) PROVE SpellsCommand(line, c)
    OBVIOUS
  <2>1. Len(command) <= n /\ SubSeq(word, 1, Len(command)) = command
    BY <1>2 DEF StartsWith
  <2>2. \A i \in 1 .. Len(command) : command[i] = line[i + 1]
    BY <1>5, <2>1
  <2>3. Len(line) > Len(command)
    BY <1>1, <1>2, <1>3, <2>1
  <2> QED BY <1>3, <2>2, <2>3 DEF SpellsCommand, command
<1>7. SpellsCommand(line, c) => StartsWith(word, command)
  <2> SUFFICES ASSUME SpellsCommand(line, c) PROVE StartsWith(word, command)
    OBVIOUS
  <2>1. \A i \in 1 .. Len(command) : line[i + 1] = command[i]
    BY <1>3 DEF SpellsCommand, command
  <2>2. SubSeq(word, 1, Len(command)) = command
    BY <1>3, <1>4, <1>5, <2>1, SeqEqual
  <2> QED BY <1>2, <1>4, <2>2 DEF StartsWith
<1> QED BY <1>6, <1>7 DEF word, command

\* A line that spells a command begins with the first one it spells.
LEMMA FirstSpelled ==
    ASSUME NEW line, NEW c \in DOMAIN Commands, SpellsCommand(line, c)
    PROVE  PrefixesOf(line) # {}
<1> DEFINE Spelled == {d \in DOMAIN Commands : SpellsCommand(line, d)}
<1>1. DOMAIN Commands = 1 .. Len(Commands) /\ Len(Commands) \in Nat
  BY ParserAssumption, LenProperties
<1>2. Spelled \subseteq Nat /\ Spelled # {}
  BY <1>1
<1>3. PICK d \in Spelled : \A j \in Spelled : d <= j
  <2> HIDE DEF Spelled
  <2> QED BY <1>2, LeastOf
<1>4. \A j \in 1 .. d - 1 : j \in DOMAIN Commands /\ j \notin Spelled
  BY <1>1, <1>3
<1>5. BeginsWith(line, d)
  BY <1>3, <1>4 DEF BeginsWith
<1> QED BY <1>3, <1>5 DEF PrefixesOf

\* RequestType picks the request of the command the line begins with.
LEMMA RequestTypeIs ==
    ASSUME NEW line, CommandLine(line)
    PROVE  \/ RequestType(Word(line)) = "invalid" /\ PrefixesOf(line) = {}
           \/ \E c \in PrefixesOf(line) : RequestType(Word(line)) = RequestTypes[c]
<1> DEFINE Matches == {c \in DOMAIN Commands : StartsWith(Word(line), Commands[c])}
<1>1. \A c \in DOMAIN Commands : c \in Matches <=> SpellsCommand(line, c)
  BY PrefixIsSpelling
<1>2. CASE Matches = {}
  BY <1>1, <1>2 DEF RequestType, PrefixesOf, BeginsWith
<1>3. CASE Matches # {}
  <2>1. DOMAIN Commands = 1 .. Len(Commands) /\ Len(Commands) \in Nat
    BY ParserAssumption, LenProperties
  <2> DEFINE FirstMatch(c) ==
                 /\ StartsWith(Word(line), Commands[c])
                 /\ \A j \in 1 .. c - 1 : ~StartsWith(Word(line), Commands[j])
             l == CHOOSE c \in DOMAIN Commands : FirstMatch(c)
  <2>2. PICK d \in PrefixesOf(line) : TRUE
    BY <1>1, <1>3, FirstSpelled
  <2>3. d \in DOMAIN Commands /\ FirstMatch(d)
    <3>1. d \in DOMAIN Commands /\ BeginsWith(line, d)
      BY <2>2 DEF PrefixesOf
    <3>2. \A j \in 1 .. d - 1 : j \in DOMAIN Commands
      BY <2>1, <3>1
    <3> QED BY <1>1, <3>1, <3>2 DEF BeginsWith
  <2>4. l \in DOMAIN Commands /\ FirstMatch(l)
    BY <2>3
  <2>5. RequestType(Word(line)) = RequestTypes[l]
    BY <1>3 DEF RequestType
  <2> HIDE DEF l
  <2>6. l \in PrefixesOf(line)
    <3>1. \A j \in 1 .. l - 1 : j \in DOMAIN Commands
      BY <2>1, <2>4
    <3> QED BY <1>1, <2>4, <3>1 DEF PrefixesOf, BeginsWith
  <2> QED BY <2>5, <2>6
<1> QED BY <1>2, <1>3

-----------------------------------------------------------------------------
(* The words of a line                                                      *)

\* Where the spaces of a command line are, told by the searches of the parser.
LEMMA SpacesOfLine ==
    ASSUME NEW line, CommandLine(line)
    PROVE  LET r == NextSpace(line, 1)
               q == NextSpace(line, 2 + r)
           IN  \/ r = NOT_FOUND /\ \A i \in DOMAIN line : line[i] # Space
               \/ /\ r \in Nat /\ 2 + r \in 2 .. Len(line) /\ IsFirstSpace(line, 2 + r)
                  /\ \/ q = NOT_FOUND /\ ~HasTwoSpaces(line)
                     \/ /\ q \in Nat /\ 3 + r + q \in 3 + r .. Len(line)
                        /\ IsSecondSpace(line, 2 + r, 3 + r + q)
<1> DEFINE r == NextSpace(line, 1)
           q == NextSpace(line, 2 + r)
<1>1. Len(line) \in Nat \ {0} /\ line \in Seq(Int) /\ DOMAIN line = 1 .. Len(line)
  BY EmptySeq, LenProperties DEF CommandLine
<1>2. line[1] # Space
  BY ParserAssumption DEF CommandLine
<1>3. \/ r = NOT_FOUND /\ \A i \in 1 + 1 .. Len(line) : line[i] # Space
      \/ /\ r \in Nat /\ 1 + r + 1 \in 1 + 1 .. Len(line)
         /\ line[1 + r + 1] = Space /\ \A j \in 1 + 1 .. 1 + r : line[j] # Space
  BY <1>1, NextSpaceFinds DEF CommandLine
<1>4. CASE r = NOT_FOUND /\ \A i \in 1 + 1 .. Len(line) : line[i] # Space
  <2>1. \A i \in 1 .. Len(line) : i = 1 \/ i \in 1 + 1 .. Len(line)
    BY <1>1
  <2> QED BY <1>1, <1>2, <1>4, <2>1
<1>5. CASE /\ r \in Nat /\ 1 + r + 1 \in 1 + 1 .. Len(line)
           /\ line[1 + r + 1] = Space /\ \A j \in 1 + 1 .. 1 + r : line[j] # Space
  <2> HIDE DEF r
  <2>1. r \in Nat /\ 2 + r \in 2 .. Len(line) /\ 2 + r \in 0 .. Len(line)
            /\ 1 + r + 1 = 2 + r /\ (2 + r) + 1 = 3 + r
    BY <1>1, <1>5
  <2>2. \A j \in 1 .. (2 + r) - 1 : j = 1 \/ j \in 1 + 1 .. 1 + r
    BY <2>1
  <2>3. IsFirstSpace(line, 2 + r)
    BY <1>1, <1>2, <1>5, <2>1, <2>2 DEF IsFirstSpace
  <2>4. \/ q = NOT_FOUND /\ \A i \in 3 + r .. Len(line) : line[i] # Space
        \/ /\ q \in Nat /\ 2 + r + q + 1 \in 3 + r .. Len(line)
           /\ line[2 + r + q + 1] = Space /\ \A j \in 3 + r .. 2 + r + q : line[j] # Space
    BY <1>1, <2>1, NextSpaceFinds DEF CommandLine
  <2>5. CASE q = NOT_FOUND /\ \A i \in 3 + r .. Len(line) : line[i] # Space
    <3>1. ASSUME NEW i \in DOMAIN line, NEW k \in DOMAIN line, IsSecondSpace(line, i, k)
          PROVE  FALSE
      <4>1. i \in 1 .. Len(line) /\ k \in 1 .. Len(line) /\ k > i /\ line[k] = Space
                /\ line[i] = Space /\ \A j \in 1 .. i - 1 : line[j] # Space
        BY <1>1, <3>1 DEF IsSecondSpace, IsFirstSpace
      <4>2. i = 2 + r
        BY <1>1, <2>1, <2>3, <4>1 DEF IsFirstSpace
      <4>3. k \in 3 + r .. Len(line)
        BY <1>1, <2>1, <4>1, <4>2
      <4> QED BY <2>5, <4>1, <4>3
    <3>2. ~HasTwoSpaces(line)
      BY <3>1 DEF HasTwoSpaces
    <3> QED BY <2>1, <2>3, <2>5, <3>2 DEF r
  <2>6. CASE /\ q \in Nat /\ 2 + r + q + 1 \in 3 + r .. Len(line)
             /\ line[2 + r + q + 1] = Space /\ \A j \in 3 + r .. 2 + r + q : line[j] # Space
    <3> HIDE DEF q
    <3>1. 2 + r + q + 1 = 3 + r + q /\ 3 + r + q > 2 + r /\ 3 + r + q \in 1 .. Len(line)
      BY <1>1, <2>1, <2>6
    <3>2. \A j \in (2 + r) + 1 .. (3 + r + q) - 1 : j \in 3 + r .. 2 + r + q
      BY <2>1, <2>6
    <3>3. IsSecondSpace(line, 2 + r, 3 + r + q)
      BY <1>1, <2>3, <2>6, <3>1, <3>2 DEF IsSecondSpace
    <3> QED BY <2>1, <2>3, <2>6, <3>1, <3>3 DEF r, q
  <2> QED BY <2>4, <2>5, <2>6
<1> QED BY <1>3, <1>4, <1>5

-----------------------------------------------------------------------------
(* ParseMessage                                                             *)

\* The first word of the line is too long for command[].
LongWord(line) == \E i \in DOMAIN line : IsFirstSpace(line, i) /\ i - 2 > MAX_COMMAND_LENGTH

\* The user between the first two spaces is too long for dest_user[].
LongUser(line) ==
    \E i, k \in DOMAIN line : IsSecondSpace(line, i, k) /\ k - i - 1 > USERNAME_MAXLENGTH + 1

LEMMA WordFits ==
    ASSUME NEW line, CommandLine(line)
    PROVE  LongWord(line) <=> WordLength(line) > MAX_COMMAND_LENGTH
<1> DEFINE r == NextSpace(line, 1)
<1>1. Len(line) \in Nat \ {0} /\ DOMAIN line = 1 .. Len(line)
  BY EmptySeq, LenProperties DEF CommandLine
<1>2. \/ r = NOT_FOUND /\ \A i \in DOMAIN line : line[i] # Space
      \/ r \in Nat /\ 2 + r \in 2 .. Len(line) /\ IsFirstSpace(line, 2 + r)
  BY SpacesOfLine
<1> HIDE DEF r
<1>3. CASE r = NOT_FOUND /\ \A i \in DOMAIN line : line[i] # Space
  <2>1. ~LongWord(line)
    BY <1>3 DEF LongWord, IsFirstSpace
  <2>2. ~(WordLength(line) > MAX_COMMAND_LENGTH)
    BY <1>1, <1>3, ParserAssumption DEF WordLength, r
  <2> QED BY <2>1, <2>2
<1>4. CASE r \in Nat /\ 2 + r \in 2 .. Len(line) /\ IsFirstSpace(line, 2 + r)
  <2>1. 2 + r \in DOMAIN line
    BY <1>1, <1>4
  <2>2. r # NOT_FOUND /\ WordLength(line) = r
    BY <1>4 DEF NOT_FOUND, WordLength, r
  <2>3. \A i \in DOMAIN line : IsFirstSpace(line, i) => i = 2 + r
    BY <1>1, <1>4, <2>1 DEF IsFirstSpace
  <2>4. LongWord(line) <=> (2 + r) - 2 > MAX_COMMAND_LENGTH
    BY <1>4, <2>1, <2>3 DEF LongWord
  <2> QED BY <1>4, <2>2, <2>4, ParserAssumption
<1> QED BY <1>2, <1>3, <1>4

LEMMA ParseCommandIs ==
    ASSUME NEW line, CommandLine(line)
    PROVE  ParseMessage(line, Len(line)) =
               IF LongWord(line) THEN Overflowed
               ELSE ParseArguments(RequestType(Word(line)), line, Len(line),
                                   2 + NextSpace(line, 1))
<1> DEFINE r == NextSpace(line, 1)
<1>1. Len(line) \in Nat \ {0} /\ Len(line) - 1 \in Nat /\ Len(line) - 1 < WORD \div 2
  BY EmptySeq, LenProperties, ParserAssumption DEF CommandLine
<1>2. AsUnsigned(Len(line) - 1) = Len(line) - 1
  BY <1>1, SmallIsItself
<1>3. r # OUTSIDE
  BY SpacesOfLine DEF OUTSIDE, NOT_FOUND
<1>4. /\ WordLength(line) \in 0 .. Len(line) - 1
      /\ LongWord(line) <=> WordLength(line) > MAX_COMMAND_LENGTH
  BY WordOfLine, WordFits
<1>5. ParseMessage(line, Len(line)) = ParseCommand(line, Len(line))
  BY <1>1 DEF ParseMessage, CommandLine
<1>6. r = FindChar(From(line, 1), Space, AsInt(AsUnsigned(Len(line) - 1)))
  BY DEF NextSpace
<1> HIDE DEF r
<1>7. WordLength(line) =
          CASE r # NOT_FOUND -> r
            [] r = NOT_FOUND -> IF Len(line) - 1 < MAX_COMMAND_LENGTH
                                THEN Len(line) - 1 ELSE MAX_COMMAND_LENGTH
  BY DEF WordLength, r
<1>8. ~(WordLength(line) > Len(line) - 1)
  BY <1>1, <1>4
<1>9. ParseCommand(line, Len(line)) =
          IF LongWord(line) THEN Overflowed
          ELSE ParseArguments(RequestType(Word(line)), line, Len(line), 2 + r)
  BY <1>2, <1>3, <1>4, <1>6, <1>7, <1>8 DEF ParseCommand, Word
<1> QED BY <1>5, <1>9 DEF r

\* The text after the first offset characters is copied as it is.
LEMMA CopiesRest ==
    ASSUME NEW line \in Seq(Int), Len(line) < WORD \div 2, NEW offset \in 0 .. Len(line),
           NEW type, NEW dest_user, NEW length
    PROVE  CopyBody(type, dest_user, length, line, Len(line), offset) =
               Parsed(type, TRUE, dest_user, length, SubSeq(line, offset + 1, Len(line)))
<1>1. Len(line) \in Nat /\ WORD \div 2 \in Nat /\ offset \in Nat
  BY LenProperties, ParserAssumption
<1>2. Len(line) - offset \in Nat /\ Len(line) - offset < WORD \div 2
  BY <1>1
<1>3. AsUnsigned(Len(line) - offset) = Len(line) - offset
  BY <1>2, SmallIsItself
<1>4. ~(Len(line) - offset >= WORD \div 2) /\ ~(Len(line) - offset > Len(line) - offset)
          /\ offset + (Len(line) - offset) = Len(line)
  BY <1>1, <1>2
<1> QED BY <1>3, <1>4 DEF CopyBody

\* The result that the first command of the table the line begins with asks
\* for.
Reads(line, r) ==
    r # Overflowed /\ MeansWith(PrefixesOf(line), line, Request(r)) /\ FillsIn(r)

LEMMA WithoutTextFields ==
    ASSUME NEW type \in {"invalid", "quit", "active_users"}
    PROVE  /\ WithoutText(type) # Overflowed /\ FillsIn(WithoutText(type))
           /\ Request(WithoutText(type)) = Asks(type, <<>>, <<>>)
<1>1. /\ WithoutText(type).type = type /\ WithoutText(type).body_length = UNSET
      /\ WithoutText(type).is_broadcast = FALSE
      /\ WithoutText(type).dest_user_length = UNSET
      /\ WithoutText(type).dest_user = <<>> /\ WithoutText(type).body = <<>>
  BY DEF WithoutText, Parsed
<1>2. type \notin {"broadcast", "private_message", "overflowed"}
  OBVIOUS
<1>3. Overflowed.type = "overflowed"
  BY DEF Overflowed
<1> QED BY <1>1, <1>2, <1>3 DEF FillsIn, Request

LEMMA TextFields ==
    ASSUME NEW type \in {"broadcast", "private_message"}, NEW dest_user, NEW length, NEW text,
           length = IF type = "private_message" THEN Len(dest_user) ELSE UNSET
    PROVE  LET r == Parsed(type, TRUE, dest_user, length, text)
           IN  r # Overflowed /\ FillsIn(r) /\ Request(r) = Asks(type, dest_user, text)
<1> DEFINE r == Parsed(type, TRUE, dest_user, length, text)
<1>1. /\ r.type = type /\ r.body_length = UNSET /\ r.is_broadcast = TRUE
      /\ r.dest_user_length = length /\ r.dest_user = dest_user /\ r.body = text
  BY DEF Parsed
<1>2. Overflowed.type = "overflowed" /\ type # "overflowed"
  BY DEF Overflowed
<1> HIDE DEF r
<1>3. r # Overflowed /\ FillsIn(r) /\ Request(r) = Asks(type, dest_user, text)
  BY <1>1, <1>2 DEF FillsIn, Request
<1> QED BY <1>3 DEF r

LEMMA PrivateReads ==
    ASSUME NEW line, CommandLine(line), NEW c \in PrefixesOf(line),
           RequestTypes[c] = "private_message"
    PROVE  LET result == ParsePrivate(line, Len(line), 2 + NextSpace(line, 1))
           IN  IF LongUser(line) THEN result = Overflowed ELSE Reads(line, result)
<1> DEFINE r == NextSpace(line, 1)
           q == NextSpace(line, 2 + r)
           result == ParsePrivate(line, Len(line), 2 + r)
           Goal == IF LongUser(line) THEN result = Overflowed ELSE Reads(line, result)
<1>1. Len(line) \in Nat \ {0} /\ line \in Seq(Int) /\ DOMAIN line = 1 .. Len(line)
  BY EmptySeq, LenProperties DEF CommandLine
<1>2. IsCommandLine(line)
  BY DEF CommandLine, IsCommandLine
<1>3. q = FindChar(From(line, 2 + r), Space, AsInt(AsUnsigned(Len(line) - (2 + r))))
  BY DEF NextSpace
<1>4. ASSUME q = NOT_FOUND, ~HasTwoSpaces(line) PROVE Goal
  <2>1. result = WithoutText("invalid")
    BY <1>3, <1>4, ParserAssumption DEF ParsePrivate, NOT_FOUND, OUTSIDE
  <2>2. MeansWith(PrefixesOf(line), line, Asks("invalid", <<>>, <<>>))
    BY <1>2, <1>4 DEF MeansWith
  <2>3. ~LongUser(line)
    BY <1>4 DEF HasTwoSpaces, LongUser
  <2> QED BY <2>1, <2>2, <2>3, WithoutTextFields DEF Reads
<1>5. CASE r = NOT_FOUND /\ \A i \in DOMAIN line : line[i] # Space
  <2>1. ~HasTwoSpaces(line)
    BY <1>5 DEF HasTwoSpaces, IsSecondSpace, IsFirstSpace
  <2>2. 2 + r = 1 /\ 1 \in 0 .. Len(line)
    BY <1>1, <1>5 DEF NOT_FOUND
  <2>3. \A i \in 1 + 1 .. Len(line) : line[i] # Space
    BY <1>1, <1>5
  <2>4. q = NOT_FOUND
    BY <1>1, <2>2, <1>5 DEF NOT_FOUND
  <2> QED BY <1>4, <2>1, <2>4
<1>6. CASE r \in Nat /\ 2 + r \in 2 .. Len(line) /\ q = NOT_FOUND /\ ~HasTwoSpaces(line)
  BY <1>4, <1>6
<1>7. CASE /\ r \in Nat /\ 2 + r \in 2 .. Len(line)
           /\ q \in Nat /\ 3 + r + q \in 3 + r .. Len(line)
           /\ IsSecondSpace(line, 2 + r, 3 + r + q)
  <2> HIDE DEF r, q
  <2>1. 2 + r \in DOMAIN line /\ 3 + r + q \in DOMAIN line /\ 3 + r + q \in 0 .. Len(line)
    BY <1>1, <1>7
  <2>2. \A i, k \in DOMAIN line :
            IsSecondSpace(line, i, k) => i = 2 + r /\ k = 3 + r + q
    <3> SUFFICES ASSUME NEW i \in DOMAIN line, NEW k \in DOMAIN line, IsSecondSpace(line, i, k)
                 PROVE  i = 2 + r /\ k = 3 + r + q
      OBVIOUS
    <3>1. i \in 1 .. Len(line) /\ k \in 1 .. Len(line)
      BY <1>1
    <3>2. i = 2 + r
      BY <1>1, <1>7, <2>1, <3>1 DEF IsSecondSpace, IsFirstSpace
    <3>3. /\ k > 2 + r /\ line[k] = Space /\ \A j \in (2 + r) + 1 .. k - 1 : line[j] # Space
          /\ line[3 + r + q] = Space
          /\ \A j \in (2 + r) + 1 .. (3 + r + q) - 1 : line[j] # Space
      BY <1>7, <3>2 DEF IsSecondSpace
    <3>4. ~(k < 3 + r + q) /\ ~(3 + r + q < k)
      BY <1>1, <1>7, <2>1, <3>1, <3>3
    <3> QED BY <1>7, <3>1, <3>2, <3>4
  <2>3. LongUser(line) <=> (3 + r + q) - (2 + r) - 1 > USERNAME_MAXLENGTH + 1
    BY <1>7, <2>1, <2>2 DEF LongUser
  <2>4. /\ LongUser(line) <=> q > USERNAME_MAXLENGTH + 1
        /\ q # NOT_FOUND /\ q # OUTSIDE
        /\ 2 + r + q + 1 = 3 + r + q /\ 2 + r + q = (3 + r + q) - 1
    BY <1>7, <2>3, ParserAssumption DEF NOT_FOUND, OUTSIDE
  <2>5. CASE LongUser(line)
    <3>1. result = Overflowed
      BY <1>3, <2>4, <2>5 DEF ParsePrivate
    <3> QED BY <2>5, <3>1 DEF r
  <2>6. CASE ~LongUser(line)
    <3> DEFINE user == SubSeq(line, (2 + r) + 1, (3 + r + q) - 1)
               text == SubSeq(line, (3 + r + q) + 1, Len(line))
    <3>1. result = CopyBody("private_message", user, q, line, Len(line), 3 + r + q)
      BY <1>3, <2>4, <2>6 DEF ParsePrivate
    <3>2. result = Parsed("private_message", TRUE, user, q, text)
      BY <1>1, <2>1, <3>1, CopiesRest DEF CommandLine
    <3>3. q = Len(user)
      <4>1. \A i \in (2 + r) + 1 .. (3 + r + q) - 1 : i \in 1 .. Len(line) /\ line[i] \in Int
        BY <1>1, <1>7, ElementOfSeq
      <4>2. Len(user) = IF (2 + r) + 1 <= (3 + r + q) - 1
                        THEN (3 + r + q) - 1 - ((2 + r) + 1) + 1 ELSE 0
        BY <1>7, <4>1, SubSeqProperties
      <4> QED BY <1>7, <4>2
    <3>4. MeansWith(PrefixesOf(line), line, Asks("private_message", user, text))
      BY <1>2, <1>7, <2>1 DEF MeansWith
    <3> HIDE DEF user, text, result
    <3>5. Reads(line, result)
      BY <3>2, <3>3, <3>4, TextFields DEF Reads
    <3> QED BY <2>6, <3>5 DEF r, result
  <2> QED BY <2>5, <2>6
<1> QED BY <1>5, <1>6, <1>7, SpacesOfLine

LEMMA BodylessReads ==
    ASSUME NEW line, CommandLine(line), NEW c \in PrefixesOf(line),
           RequestTypes[c] \in {"quit", "active_users"}
    PROVE  Reads(line, ParseWithoutBody(RequestTypes[c], line, Len(line),
                                        2 + NextSpace(line, 1)))
<1> DEFINE r == NextSpace(line, 1)
           q == NextSpace(line, 2 + r)
           result == ParseWithoutBody(RequestTypes[c], line, Len(line), 2 + r)
<1>1. Len(line) \in Nat \ {0} /\ line \in Seq(Int) /\ DOMAIN line = 1 .. Len(line)
  BY EmptySeq, LenProperties DEF CommandLine
<1>2. IsCommandLine(line)
  BY DEF CommandLine, IsCommandLine
<1>3. q = FindChar(From(line, 2 + r), Space, AsInt(AsUnsigned(Len(line) - (2 + r))))
  BY DEF NextSpace
<1>4. ASSUME q = NOT_FOUND, ~HasTwoSpaces(line) PROVE Reads(line, result)
  <2>1. result = WithoutText(RequestTypes[c])
    BY <1>3, <1>4 DEF ParseWithoutBody, NOT_FOUND, OUTSIDE
  <2>2. MeansWith(PrefixesOf(line), line, Asks(RequestTypes[c], <<>>, <<>>))
    BY <1>2, <1>4 DEF MeansWith
  <2> QED BY <2>1, <2>2, WithoutTextFields DEF Reads
<1>5. CASE r = NOT_FOUND /\ \A i \in DOMAIN line : line[i] # Space
  <2>1. ~HasTwoSpaces(line)
    BY <1>5 DEF HasTwoSpaces, IsSecondSpace, IsFirstSpace
  <2>2. 2 + r = 1
    BY <1>5 DEF NOT_FOUND
  <2>3. q = NOT_FOUND
    BY <1>5, <2>2
  <2> QED BY <1>4, <2>1, <2>3
<1>6. CASE r \in Nat /\ 2 + r \in 2 .. Len(line) /\ q = NOT_FOUND /\ ~HasTwoSpaces(line)
  BY <1>4, <1>6
<1>7. CASE /\ r \in Nat /\ 2 + r \in 2 .. Len(line)
           /\ q \in Nat /\ 3 + r + q \in 3 + r .. Len(line)
           /\ IsSecondSpace(line, 2 + r, 3 + r + q)
  <2> HIDE DEF r, q
  <2>1. 2 + r \in DOMAIN line /\ 3 + r + q \in DOMAIN line
    BY <1>1, <1>7
  <2>2. HasTwoSpaces(line)
    BY <1>7, <2>1 DEF HasTwoSpaces
  <2>3. result = WithoutText("invalid")
    BY <1>3, <1>7 DEF ParseWithoutBody, NOT_FOUND, OUTSIDE
  <2>4. MeansWith(PrefixesOf(line), line, Asks("invalid", <<>>, <<>>))
    BY <1>2, <2>2 DEF MeansWith
  <2>5. Reads(line, result)
    BY <2>3, <2>4, WithoutTextFields DEF Reads
  <2> QED BY <2>5 DEF r
<1> QED BY <1>5, <1>6, <1>7, SpacesOfLine

LEMMA CommandReads ==
    ASSUME NEW line, CommandLine(line)
    PROVE  LET result == ParseMessage(line, Len(line))
           IN  IF Overflows(line) THEN result = Overflowed ELSE Reads(line, result)
<1> DEFINE result == ParseMessage(line, Len(line))
           type == RequestType(Word(line))
           arguments == ParseArguments(type, line, Len(line), 2 + NextSpace(line, 1))
<1>1. IsCommandLine(line)
  BY DEF CommandLine, IsCommandLine
<1>2. result = IF LongWord(line) THEN Overflowed ELSE arguments
  BY ParseCommandIs
<1>3. Overflows(line) <=>
          \/ LongWord(line)
          \/ LongUser(line) /\ \E c \in PrefixesOf(line) : RequestTypes[c] = "private_message"
  BY <1>1 DEF Overflows, LongWord, LongUser
<1>4. \A c, d \in PrefixesOf(line) : c = d
  <2> SUFFICES ASSUME NEW c \in PrefixesOf(line), NEW d \in PrefixesOf(line), c < d PROVE FALSE
    BY ParserAssumption, LenProperties DEF PrefixesOf
  <2>1. c \in 1 .. d - 1
    BY ParserAssumption, LenProperties DEF PrefixesOf
  <2> QED BY <2>1 DEF PrefixesOf, BeginsWith
<1> HIDE DEF result, arguments
<1>5. CASE LongWord(line)
  BY <1>2, <1>3, <1>5 DEF result
<1>6. CASE ~LongWord(line) /\ type = "invalid" /\ PrefixesOf(line) = {}
  <2>1. arguments = WithoutText("invalid")
    BY <1>6 DEF arguments, ParseArguments
  <2>2. MeansWith(PrefixesOf(line), line, Asks("invalid", <<>>, <<>>))
    BY <1>1, <1>6 DEF MeansWith
  <2>3. Reads(line, result) /\ ~Overflows(line)
    BY <1>2, <1>3, <1>6, <2>1, <2>2, WithoutTextFields DEF Reads
  <2> QED BY <2>3 DEF result
<1>7. ASSUME NEW c \in PrefixesOf(line), ~LongWord(line), type = RequestTypes[c]
      PROVE  IF Overflows(line) THEN result = Overflowed ELSE Reads(line, result)
  <2>1. RequestTypes[c] \in {"active_users", "private_message", "quit"}
    BY ParserAssumption, LenProperties, ElementOfSeq DEF PrefixesOf
  <2>2. CASE RequestTypes[c] = "private_message"
    <3>1. arguments = ParsePrivate(line, Len(line), 2 + NextSpace(line, 1))
      BY <1>7, <2>2 DEF arguments, ParseArguments
    <3>2. IF LongUser(line) THEN arguments = Overflowed ELSE Reads(line, arguments)
      BY <2>2, <3>1, PrivateReads
    <3> QED BY <1>2, <1>3, <1>7, <2>2, <3>2
  <2>3. CASE RequestTypes[c] \in {"quit", "active_users"}
    <3>1. arguments = ParseWithoutBody(RequestTypes[c], line, Len(line), 2 + NextSpace(line, 1))
      BY <1>7, <2>3 DEF arguments, ParseArguments
    <3>2. Reads(line, arguments)
      BY <2>3, <3>1, BodylessReads
    <3>3. ~Overflows(line)
      BY <1>3, <1>4, <1>7, <2>3
    <3> QED BY <1>2, <1>7, <3>2, <3>3
  <2> QED BY <2>1, <2>2, <2>3
<1> QED BY <1>5, <1>6, <1>7, RequestTypeIs DEF result

\* Where the word is no extended command, the command the parser finds is the
\* one the grammar means.
LEMMA PrefixIsCommand ==
    ASSUME NEW line, NEW m, ~ExtendsCommand(line), MeansWith(PrefixesOf(line), line, m)
    PROVE  Means(line, m)
<1>1. CASE ~IsCommandLine(line)
  BY <1>1 DEF MeansWith, Means
<1>2. CASE IsCommandLine(line)
  <2>1. PrefixesOf(line) \subseteq CommandsOf(line)
    BY <1>2 DEF ExtendsCommand, PrefixesOf, CommandsOf
  <2>2. PrefixesOf(line) = {} => CommandsOf(line) = {}
    BY FirstSpelled DEF CommandsOf, IsCommand
  <2>3. MeansWith(CommandsOf(line), line, m)
    BY <1>2, <2>1, <2>2 DEF MeansWith
  <2> QED BY <2>3 DEF Means
<1> QED BY <1>1, <1>2

\* What ParseMessage makes of a line of any length, given its true length.  It
\* writes over an array exactly where a word does not fit.  Every other line it
\* reads by the first command of the table its word begins with, and then
\* neither reads outside the line nor refuses it; that is what the grammar
\* means unless the word extends a command.  Always body_length stays unset and
\* a private message is flagged as a broadcast.
THEOREM ParserUnderstands ==
    ASSUME NEW line \in Seq(Int), line # <<>>, Len(line) < WORD \div 2
    PROVE  LET r == ParseMessage(line, Len(line))
           IN  IF Overflows(line) THEN r = Overflowed
               ELSE /\ r # Overflowed /\ FillsIn(r)
                    /\ MeansWith(PrefixesOf(line), line, Request(r))
                    /\ ~ExtendsCommand(line) => Means(line, Request(r))
<1> DEFINE r == ParseMessage(line, Len(line))
<1>1. Len(line) \in Nat \ {0}
  BY EmptySeq
<1>2. IF Overflows(line) THEN r = Overflowed ELSE Reads(line, r)
  <2>1. CASE line[1] # Slash
    <3>1. r = CopyBody("broadcast", <<>>, UNSET, line, Len(line), 0)
      BY <1>1, <2>1 DEF ParseMessage
    <3>2. r = Parsed("broadcast", TRUE, <<>>, UNSET, SubSeq(line, 1, Len(line)))
      <4>1. 0 \in 0 .. Len(line) /\ 0 + 1 = 1
        BY <1>1
      <4>2. CopyBody("broadcast", <<>>, UNSET, line, Len(line), 0) =
                Parsed("broadcast", TRUE, <<>>, UNSET, SubSeq(line, 0 + 1, Len(line)))
        BY <4>1, CopiesRest
      <4> HIDE DEF r
      <4> QED BY <3>1, <4>1, <4>2
    <3>3. SubSeq(line, 1, Len(line)) = line
      BY SubSeqFull
    <3>4. ~Overflows(line) /\ MeansWith(PrefixesOf(line), line, Asks("broadcast", <<>>, line))
      BY <2>1 DEF Overflows, IsCommandLine, MeansWith
    <3> QED BY <3>2, <3>3, <3>4, TextFields DEF Reads
  <2>2. CASE line[1] = Slash
    BY <2>2, CommandReads DEF CommandLine
  <2> QED BY <2>1, <2>2
<1> HIDE DEF r
<1>3. IF Overflows(line) THEN r = Overflowed
      ELSE /\ r # Overflowed /\ FillsIn(r)
           /\ MeansWith(PrefixesOf(line), line, Request(r))
           /\ ~ExtendsCommand(line) => Means(line, Request(r))
  BY <1>2, PrefixIsCommand DEF Reads
<1> QED BY <1>3 DEF r
=============================================================================

CONSTANTS
    Nul = 0
    Newline = 1
    Slash = 2
    Space = 3
    Keys = {1, 2, 3, 4}
    Commands <- MCCommands
    RequestTypes <- MCRequestTypes
    MAX_COMMAND_LENGTH = 2
    USERNAME_MAXLENGTH = 1
    MESSAGE_MAXLENGTH = 5
    BYTE = 8
    WORD_BYTES = 2
    WORD = 64
    AfterBlock <- MCAfterBlock
    Window = 2
    MaxTyped = 7
SPECIFICATION FairSpec
INVARIANTS TypeInvariant SentLinesAreTerminated ServerUnderstands
PROPERTIES ImplementsChannel Arrives

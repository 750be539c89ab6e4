SPECIFICATION ShellSpec
CONSTANTS
    CLI = CLI
    logger = logger
    NULL = NULL
    None = None
    Client <- MCClient
    MAX_FDS = 4
    File = {"notes"}
    Size <- MCSize
    Content <- MCContent
    Missing = {"gone"}
    Outside = {"elsewhere"}
    Offset = {2}
    Counts = {2}
    Opens <- MCOpens
    Key = {"a", "CR", "ESC", "[", "DEL", "low"}
    MaxKeys = 3
    Count = 3
    BufSize = 2
    Dumps <- MCDumps
INVARIANTS
    OwnDescriptors
    NoneLeaked
    CursorInFile
    EchoShowsLine
    LineEnds
    DumpShowsFile
PROPERTIES
    Answers

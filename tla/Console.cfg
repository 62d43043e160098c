SPECIFICATION ConsoleSpec
CONSTANTS
    Word = 2
    Width = 12
    Cells = 4
    Bytes = {0, 65, 200}
    Cores = {c1, c2}
    char_pos_limit = 2
    line_limit = 3
    cmd_buf_len = 4
    TrapSize = 6
    Newline = 100
    Keys = {1, 2}
    Texts <- MCTexts
    TrapTexts <- MCTrapTexts
    Numbers = {200}
    Banner <- MCBanner
    Unknown <- MCUnknown
    Below = 1
INVARIANTS
    RowsBelowAreBlank
    LineIsWhatWasTyped
    MemoryAgrees
    TrapShowsItsMessage
    NumbersReadBack

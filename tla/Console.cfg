SPECIFICATION Spec
CONSTANTS
    Height = 4
    FontRows = 2
    Columns = 2
    Chars <- MCChars
    Space = " "
    Word = 8
    MaxSize = 2
    PointerWord = 8
    Keys <- MCKeys
    MaxLine = 3
INVARIANTS
    LineShown
    KeyboardInside
PROPERTIES
    ImplementsTerminal

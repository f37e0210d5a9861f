SPECIFICATION Spec
CONSTANTS
    Width = 3
    Height = 3
    TabSpaces = 2
    CharacterSize = 2
    U16 = 65536
    Writers = {w1, w2}
    w1 = w1
    w2 = w2
    Strings <- MCStrings
    Keys <- MCKeys
    MaxWrites = 3
SYMMETRY WriterSymmetry
CHECK_DEADLOCK FALSE
INVARIANTS
    CursorInBounds
    StringsStayWhole
PROPERTIES
    StatusBarKept

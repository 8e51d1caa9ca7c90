CONSTANTS
    Chars = {"A", "z", "7", "-", "+", ":", "_", ".", " ", "@"}
    MaxLength = 3
    W = 4
    FormatChars = {"%", "0", "1", "$", "-", ".", "s", "d", "T"}
    FormatLength = 5
    MaxSkip = 2
SPECIFICATION Spec
INVARIANTS
    SpecifierToStringReparses

CONSTANTS
    Alphabet <- MethodAlphabet
    MaxTokens <- MethodMaxTokens
SPECIFICATION ProfileSpec
INVARIANTS
    ProfileTypeOK
    AttachedIffClean
PROPERTIES
    ParseReturnsOrHangs

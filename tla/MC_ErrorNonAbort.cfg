CONSTANTS
    Alphabet <- MethodAlphabet
    MaxTokens <- MethodMaxTokens
SPECIFICATION Spec
INVARIANTS
    WellFormedInterfaceDeclared

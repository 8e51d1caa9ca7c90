CONSTANTS
    Alphabet <- MCAlphabet
    MaxTokens <- MCMaxTokens
SPECIFICATION Spec
INVARIANTS
    ParseResultMatchesDiagnostics

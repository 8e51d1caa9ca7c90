CONSTANTS
    Alphabet <- MCAlphabet
    MaxTokens <- MCMaxTokens
SPECIFICATION Spec
PROPERTIES
    ParseTerminates

CONSTANTS
    Alphabet <- ParamAlphabet
    MaxTokens <- ParamMaxTokens
SPECIFICATION Spec
PROPERTIES
    ArrayTypeResolvesOrDiagnoses

CONSTANTS
    Alphabet <- ParamAlphabet
    MaxTokens <- ParamMaxTokens
SPECIFICATION Spec
INVARIANTS
    StarredParameterIsPointer

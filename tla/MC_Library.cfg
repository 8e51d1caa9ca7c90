CONSTANTS
    Chars = {"A", "z", "7", "-", "+", ":", "_", ".", " ", "@"}
    MaxLength = 3
    W = 4
    FormatChars = {"%", "0", "1", "$", "-", ".", "s", "d", "T"}
    FormatLength = 5
    MaxSkip = 2
SPECIFICATION LibrarySpec
INVARIANTS
    CheckNameIsLegalName
    BinarySearchFindsKey
    CheckOffsetAndCountIsBounds
    FillAndCopyOfStayInBounds
    ParseMatchesGrammar
    AcceptedSpecifiersWellFormed
    FormatPrintsReferencedArguments
    ReadFillsFromStream
    SkipReportsBytesConsumed
    RadixPrintsUnsignedValue
    ZeroPaddingReachesPrecision
    HeaderNamespacesNested
    MetaTypeOK
    SlotsMatchMaps
    CoclassSlotsCurrent
    AnswersComplete

PROPERTIES
    ClosedFormatterInert
    IoFailuresReported
    ParseErrorWritesNothing

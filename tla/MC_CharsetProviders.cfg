CONSTANTS
    Threads = {"t1", "t2"}
    Names <- MCNames
    Charsets <- MCCharsets
    NoCharset = "none"
    CanonicalName <- MCCanonicalName
    Aliases <- MCAliases
    IcuCharset <- MCIcuCharset
    ProviderCharset <- MCProviderCharset
    Apis = {"ForName", "IsSupported", "ForNameUEE"}
    MaxLookups <- MCMaxLookups
    ReentryNames <- MCReentryNames
SPECIFICATION LookupSpec
INVARIANTS
    TypeOK
    OneObjectPerCharset
    Cache1AgreesWithCache2
    LookupAnswersName
    SupportedNamesFound
    AvailableMapsFirstCharset
PROPERTIES
    CacheImplementsRegistry
    RunImplementsLookup
    RunEnds
    AvailableEnds

CONSTANTS
    Threads = {"t1", "t2"}
    Names <- MCNames
    Charsets <- MCCharsets
    NoCharset = "none"
    CanonicalName <- MCCanonicalName
    Aliases <- MCAliases
    IcuCharset <- MCIcuCharset
    ProviderCharset <- MCProviderCharset
    Apis = {"ForName", "IsSupported", "ForNameUEE"}
    MaxLookups <- MCMaxLookups
    ReentryNames <- MCReentryNames
SPECIFICATION Spec
INVARIANT
    LookupReturnsCachedObject

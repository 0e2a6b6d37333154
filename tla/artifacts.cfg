\* The timer's runs and an operator's verification share the APK files.
SPECIFICATION FairSpec
CONSTANTS
    p1 = p1
    p2 = p2
    Proc = {p1, p2}
    Applies = {p1}
    Abi = {"arm64-v8a", "armeabi-v7a", "x86"}
    Signer = {"A", "B"}
    NoSigner = "none"
    Catalog <- MCCatalog
    Offers <- MCOffers
    Targets <- MCTargets
    Entered <- MCEntered
    Chunks = 2
    MaxDisturbances = 2
INVARIANTS TypeOK MarkerStable UrlsServeTargets PublishesWhatItHashed NoPartialLeft
PROPERTIES NewVersionsNeverLower PublishedInTheEnd
CHECK_DEADLOCK FALSE

CONSTANTS
    g1 = g1
    v1 = v1
    image = image
    rogue = rogue
    newer = newer
    Key <- Keys
    PageSize = 3
    Reader <- Requests
    Request <- Requests
    Validation <- Validations
    Version <- Versions
    Pcr0 <- Measured
    ImageOf <- Images
    VersionOf <- VersionIn
    Utf8 <- AllUtf8
SPECIFICATION SignersSpec
INVARIANT OtherVersionsAreSkipped
CHECK_DEADLOCK FALSE

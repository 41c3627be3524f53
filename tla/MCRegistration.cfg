CONSTANTS
    s1 = s1
    s2 = s2
    operator = operator
    heir = heir
    initial = initial
    image = image
    otherImage = otherImage
    AnyImage = AnyImage
    Nobody = Nobody
    Key <- Keys
    PageSize = 2
    Reader <- Setups
    Setup <- Setups
    Deploys <- First
    Wanted <- Either
    ImageOf <- Images
    Account <- Accounts
    AccountOf <- OneAccount
    Initial = initial
    FirstOwner = operator
SPECIFICATION RegSpec
INVARIANTS
    RegTypeOK
    RegisteredRanImage
    SetupTellsTheTruth
CHECK_DEADLOCK FALSE

CONSTANTS
    s1 = s1
    s2 = s2
    operator = operator
    heir = heir
    initial = initial
    image = image
    otherImage = otherImage
    AnyImage = AnyImage
    Nobody = Nobody
    Key <- Three
    PageSize = 2
    Reader <- Setups
    Setup <- Setups
    Deploys <- First
    Wanted <- Same
    ImageOf <- ThreeImages
    Account <- Accounts
    AccountOf <- OneAccount
    Initial = initial
    FirstOwner = operator
SPECIFICATION RegSpec
INVARIANT FetchesAll
CHECK_DEADLOCK FALSE

CONSTANTS
    zero = zero
    a1 = a1
    a2 = a2
    a3 = a3
    a4 = a4
    stranger = stranger
    selector = selector
    other = other
    Address <- MCAddress
    Zero = zero
    Stranger = stranger
    Selector = selector
    VKey <- MCVKey
    Values <- MCValues
    Proof <- MCProof
SPECIFICATION VerifierSpec
INVARIANTS
    ListMatchesMap
    IndexIsPosition
    ZeroNeverSigner
    AcceptsExactlyWellSigned
PROPERTIES
    ImplementsSignerSet
    RenouncedIsFrozen

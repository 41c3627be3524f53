--------------------------- MODULE MCEnclaveServer ---------------------------
\* EnclaveServer with requests of every kind, at a cycle limit on either side of the
\* maximum.  Cut, the one beyond it may be read as an allowed one.
EXTENDS EnclaveServer, TLC

CONSTANTS c1, c2, p1

Limits == {2, 3}
MixedLimits == [l \in Limits |-> IF l = 2 THEN {2, 4} ELSE {1, 3, 4}]
Two == {c1, c2}
Programs == {p1}

\* GetEncryptedSigningKey is answered as SetSigningKey is.
Requests == (Request \ {Plain("GetEncryptedSigningKey")})

\* What a host that prints sends.
Printing == {Plain("Print"), Plain("GetPublicKey")}

Symmetry == Permutations(Two)
=============================================================================

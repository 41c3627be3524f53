---------------------------- MODULE MCTeeService ----------------------------
\* TeeService with executions of different programs and the other calls.
EXTENDS TeeService

CONSTANTS x1, x2, x3, attest, address, p1, p2

Programs == {p1, p2}

\* One limit that is allowed and one beyond, which a cut can make less of.
Limits == {2, 3}
MixedLimits == [l \in Limits |-> IF l = 2 THEN {2, 4} ELSE {1, 3, 4}]

WantedBy(calls) == [k \in calls |-> IF k = x1 THEN p1 ELSE p2]

\* An execution, the attestation task and a request for the address.
Various == {x1, attest, address}
VariousKind ==
    [k \in Various |-> CASE k = attest -> "attest"
                       [] k = address -> "address"
                       [] OTHER -> "execute"]
VariousWanted == WantedBy(Various)
VariousLimit == [k \in Various |-> 2]

\* Three in line, one of them asking for more than is allowed.
Three == {x1, x2, x3}
ThreeKind == [k \in Three |-> "execute"]
ThreeWanted == WantedBy(Three)
ThreeLimit == [k \in Three |-> IF k = x3 THEN 3 ELSE 2]

\* Two in line.
Two == {x1, x2}
TwoKind == [k \in Two |-> "execute"]
TwoWanted == WantedBy(Two)
TwoLimit == [k \in Two |-> 2]
=============================================================================

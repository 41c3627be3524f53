--------------------------- MODULE MCRegistration ---------------------------
\* Registration by two setups at a time: the first deploys, and the second adds or
\* only prints.
EXTENDS Registration

CONSTANTS s1, s2, operator, heir, initial, image, otherImage

Keys == 1..2
Three == 1..3
Setups == {s1, s2}
First == {s1}

\* The last key is of another image.
Images == [k \in Keys |-> IF k = 2 THEN otherImage ELSE image]
ThreeImages == [k \in Three |-> image]

Same == [s \in Setups |-> image]
Either == [s \in Setups |-> IF s = s1 THEN image ELSE AnyImage]

Accounts == {operator, heir}
OneAccount == [s \in Setups |-> operator]
=============================================================================

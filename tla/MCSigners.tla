----------------------------- MODULE MCSigners -----------------------------
\* A call of GET /signers and a validation over three enclaves: two of one
\* version, one of which runs another image than the operator's, and one of a
\* newer version.
EXTENDS Signers

CONSTANTS g1, v1, image, rogue, newer

Keys == 1..3
Requests == {g1}
Validations == {v1}
Images == [k \in Keys |-> CASE k = 1 -> image [] k = 2 -> rogue [] OTHER -> newer]
VersionIn(i) == IF i = newer THEN 2 ELSE 1
Versions == [r \in Requests \cup Validations |-> 1]
AllUtf8 == {1, 2}
Measured == [v \in Validations |-> image]
=============================================================================

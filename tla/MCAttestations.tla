--------------------------- MODULE MCAttestations ---------------------------
\* Attestations for a host that boots two enclaves in turn.
EXTENDS Attestations, TLC

CONSTANTS h1, k1, k2

MCHost == {h1}
MCKey == {k1, k2}
=============================================================================

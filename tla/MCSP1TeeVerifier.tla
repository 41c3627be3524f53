-------------------------- MODULE MCSP1TeeVerifier --------------------------
(***************************************************************************)
(* SP1TeeVerifier with four addresses beside zero.  In every contract      *)
(* state verifyProof is compared with its meaning on the proofs below:     *)
(* lengths and version lengths on both sides of every bound in the code.   *)
(***************************************************************************)
EXTENDS SP1TeeVerifier, TLC

CONSTANTS zero, a1, a2, a3, a4, stranger, selector, other

MCAddress == {zero, a1, a2, a3, a4}

MCVKey == {"vk1", "vk2"}
MCValues == {"pv"}

\* Signatures of two addresses over versions of 4, 185 and 186 bytes; one
\* that is no signature, which is written with zero as its maker.
Signature ==
    [by : {zero, a1, a2}, v : {28}, version : {4, 185, 186}, vkey : MCVKey,
     values : MCValues]

\* Header fields around the 70 bytes, the uint8 sum and the recovery ids; one
\* shape of them under another selector.
Shape(selectors, lengths) ==
    [length : lengths, selector : selectors, v : {1, 27, 28},
     version_len : {4, 185, 186}, sig : Signature,
     innerAt : {70, 74, 255}, inner : {<<"vk1", "pv">>}]

MCProof == Shape({selector}, {69, 73, 74, 255, 256}) \cup Shape({other}, {255})
=============================================================================

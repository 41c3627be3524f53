--------------------------- MODULE SP1TeeVerifier ---------------------------
(***************************************************************************)
(* contracts/src/SP1TeeVerifier.sol on top of SimpleOwnable.sol and        *)
(* SignersMap.sol.  Every transaction is one action; a call that reverts   *)
(* is an action not enabled.  verifyProof is a view and so an operator: it *)
(* returns the name of the revert, or "Accepted".                          *)
(*                                                                         *)
(* Proof bytes are kept as positions rather than contents: how many bytes  *)
(* there are, what the header says, and at which offset the inner SP1      *)
(* proof was put.  Hashes are injective and signatures symbolic: sig says  *)
(* which address's key made it (Zero: it is no signature at all), with     *)
(* which recovery id, over which version, key and public values.           *)
(***************************************************************************)
EXTENDS SignersMap

CONSTANTS
    Zero,             \* address(0)
    Stranger,         \* the address recovered from a signature over other data
    Selector,         \* bytes4(VERIFIER_HASH())
    VKey,             \* program verification keys
    Values,           \* public values
    Proof             \* the proof bytes verifyProof may be given

ASSUME ZeroAssumption == Zero \in Address /\ Stranger \notin Address

\* version_len is one byte of the proof.
ASSUME ProofAssumption ==
    \A p \in Proof : p.length \in Nat /\ p.version_len \in 0..255

VARIABLES
    owner,            \* Zero once renounced
    reply             \* what the last transaction read, <<caller, list>> or <<>>

verifierVars == <<map, signers, signerIndex, owner, reply>>

\* Nobody can send a transaction from the zero address.
Sender == Address \ {Zero}

\* The constructor's _owner is any address but zero.
VerifierInit ==
    /\ MapInit
    /\ owner \in Sender
    /\ reply = <<>>

-----------------------------------------------------------------------------
\* SimpleOwnable.sol

\* A plausible bug: the modifier is left out.
anyone(sender) == TRUE

onlyOwner(sender) == sender = owner

transferOwnership(sender, newOwner) ==
    /\ onlyOwner(sender)
    /\ newOwner # Zero
    /\ owner' = newOwner
    /\ reply' = <<>>
    /\ UNCHANGED mapVars

renounceOwnership(sender) ==
    /\ onlyOwner(sender)
    /\ owner' = Zero
    /\ reply' = <<>>
    /\ UNCHANGED mapVars

-----------------------------------------------------------------------------
\* SP1TeeVerifier.sol

\* A plausible bug: the zero address is let in.
addAnySigner(sender, signer) ==
    /\ onlyOwner(sender)
    /\ addSigner(signer)
    /\ reply' = <<>>
    /\ UNCHANGED owner

verifierAddSigner(sender, signer) ==
    /\ onlyOwner(sender)
    /\ signer # Zero
    /\ addSigner(signer)
    /\ reply' = <<>>
    /\ UNCHANGED owner

verifierRemoveSigner(sender, signer) ==
    /\ onlyOwner(sender)
    /\ removeSigner(signer)
    /\ reply' = <<>>
    /\ UNCHANGED owner

getSigners(sender) ==
    /\ reply' = <<sender, signers>>
    /\ UNCHANGED <<mapVars, owner>>

VerifierNext ==
    \E sender \in Sender :
        \/ getSigners(sender)
        \/ renounceOwnership(sender)
        \/ \E a \in Address : \/ transferOwnership(sender, a)
                              \/ verifierAddSigner(sender, a)
                              \/ verifierRemoveSigner(sender, a)

VerifierSpec == VerifierInit /\ [][VerifierNext]_verifierVars

-----------------------------------------------------------------------------
\* verifyProof

Header == 70          \* selector 4, v 1, r 32, s 32, version_len 1

\* uint8 + uint8 is checked: the transaction panics instead of wrapping.
Uint8Max == 255

\* sig is the signature of address a, with this recovery id, over this digest.
madeBy(sig, a, v, version, vkey, values) ==
    sig = [by |-> a, v |-> v, version |-> version, vkey |-> vkey,
           values |-> values]

\* The precompile: the address whose key made the signature, another address
\* when the digest or the recovery id is not the signed one, zero when there
\* is no point to recover.
ecrecover(v, sig, version, vkey, values) ==
    IF sig.by = Zero THEN Zero
    ELSE IF madeBy(sig, sig.by, v, version, vkey, values) THEN sig.by
    ELSE Stranger

registered(a) == a \in Address /\ isSigner(a)

\* The gateway routes to the SP1 verifier of the inner proof, which accepts it
\* when what it is given is that proof, for this program and these values.
gatewayAccepts(vkey, values, proof, from) ==
    from = proof.innerAt /\ proof.inner = <<vkey, values>>

\* A plausible bug: the version is handed on with the inner proof.
verifyProofNoStrip(vkey, values, proof) ==
    IF /\ proof.length >= Header + proof.version_len
       /\ proof.selector = Selector
       /\ proof.v \in {27, 28}
       /\ registered(ecrecover(proof.v, proof.sig, proof.version_len, vkey, values))
       /\ gatewayAccepts(vkey, values, proof, Header)
    THEN "Accepted" ELSE "Rejected"

verifyProof(vkey, values, proof) ==
    LET cut == Header + proof.version_len
        signer == ecrecover(proof.v, proof.sig, proof.version_len, vkey, values)
    IN  IF proof.length < Header THEN "ProofBytesTooShort"
        ELSE IF proof.selector # Selector THEN "WrongVerifierSelector"
        ELSE IF cut > Uint8Max THEN "Panic"
        ELSE IF cut > proof.length THEN "SliceOutOfBounds"
        ELSE IF proof.v \notin {27, 28} THEN "InvalidRecoveryId"
        ELSE IF signer = Zero \/ ~registered(signer) THEN "InvalidSignature"
        ELSE IF gatewayAccepts(vkey, values, proof, cut) THEN "Accepted"
        ELSE "GatewayReverts"

-----------------------------------------------------------------------------

VerifierTypeOK ==
    /\ MapTypeOK
    /\ owner \in Address
    /\ reply = <<>> \/ reply \in Sender \X Seq(Address)

\* The zero address is what ecrecover returns for rubbish: it is never a
\* signer, whoever owned the contract before.
ZeroNeverSigner == ~isSigner(Zero) /\ Zero \notin Range(signers)

\* Renouncing is final: once there is no owner the signers that are registered
\* stay so for ever, and no transaction can name a new owner.
RenouncedIsFrozen ==
    [][owner = Zero => UNCHANGED <<owner, map, signers, signerIndex>>]_verifierVars

\* What acceptance means: the bytes are header, version and inner proof, an
\* address that getSigners() lists signed this version, program and values,
\* and the inner proof is one of the same program and values.
WellSigned(vkey, values, p) ==
    \E n \in 0..(Uint8Max - Header) :
        /\ p.selector = Selector
        /\ p.version_len = n
        /\ p.length >= Header + n
        /\ p.innerAt = Header + n
        /\ p.inner = <<vkey, values>>
        /\ p.v \in {27, 28}
        /\ \E a \in Range(signers) :
              madeBy(p.sig, a, p.v, n, vkey, values)

\* verifyProof accepts what is well signed by an address now on the list, and
\* nothing else: neither a removed signer's old signatures nor another
\* program's, and no slice is off by one at a bound.
AcceptsExactlyWellSigned ==
    \A vkey \in VKey, values \in Values, p \in Proof :
        (verifyProof(vkey, values, p) = "Accepted") <=> WellSigned(vkey, values, p)
=============================================================================

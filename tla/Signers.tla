------------------------------ MODULE Signers ------------------------------
(***************************************************************************)
(* Those who ask which signers there are: GET /signers of                  *)
(* host/bin/server.rs, over get_raw_attestations, and                      *)
(* host/bin/validate_signers.rs, over verify_attestation_for_signer of     *)
(* host/src/attestations.rs.  The contract whose signers are validated is  *)
(* the set of SignerSet, which SignersMap implements; its owner adds, by   *)
(* setup, and removes signers while they are validated.                    *)
(***************************************************************************)
EXTENDS RawAttestations

CONSTANTS
    Request,          \* calls of GET /signers, among the readers
    Validation,       \* runs of validate_signers, each begun once
    Version,          \* server or run -> the SP1 version it is for
    Pcr0,             \* run -> the image its --pcr0 measures
    ImageOf,          \* key -> the image of the enclave that generated it
    VersionOf(_),     \* image -> the version compiled into it
    Utf8              \* the versions whose bytes, little-endian, are UTF-8

ASSUME RequestAssumption == Request = Reader /\ Request \cap Validation = {}

VARIABLES
    answer,           \* request -> the signers it was answered with
    registered,       \* the signers of the contract
    vpc,              \* validation: "idle", "validating" a contract, "single" for
                      \* one signer, "complete", "panicked"
    vtodo,            \* validation: the signers still to validate
    asked,            \* validation: those it began with (for the properties)
    validated,        \* validation: those it says it validated
    at                \* validation: the signer it panicked at, and why

validationVars == <<vpc, vtodo, asked, validated, at>>
signersVars == <<storeVars, readVars, answer, registered, validationVars>>

versionOf(k) == VersionOf(ImageOf[k])

SignersInit ==
    /\ StoreInit
    /\ pc = [r \in Reader |-> "idle"]
    /\ todo = [r \in Reader |-> <<>>]
    /\ copy = [r \in Reader |-> Nothing]
    /\ steady = [r \in Reader |-> {}]
    /\ answer = [g \in Request |-> {}]
    /\ registered = {}
    /\ vpc = [v \in Validation |-> "idle"]
    /\ vtodo = [v \in Validation |-> {}]
    /\ asked = [v \in Validation |-> {}]
    /\ validated = [v \in Validation |-> {}]
    /\ at = [v \in Validation |-> <<>>]

-----------------------------------------------------------------------------
\* get_signers

\* A plausible bug: what was fetched is not verified.
verifiedNot(g, k) == copy[g][k] # "none"

\* verify_attestation
verified(g, k) == copy[g][k] = "valid"

\* The attestations are verified without an await in between, and filtered by
\* the version alone: a PCR0 is not asked for.
answerSigners(g) ==
    /\ pc[g] = "fetched"
    /\ answer' = [answer EXCEPT ![g] =
                     {k \in Key : verified(g, k) /\ versionOf(k) = Version[g]}]
    /\ goto(g, "answered")
    /\ todo' = [todo EXCEPT ![g] = <<>>]
    /\ copy' = [copy EXCEPT ![g] = Nothing]
    /\ UNCHANGED <<storeVars, steady, registered, validationVars>>

\* An error is answered with a status; a panic ends the connection without.
getSigners(g) ==
    \/ /\ listObjects(g, "idle") \/ getObject(g)
       /\ UNCHANGED <<answer, registered, validationVars>>
    \/ answerSigners(g)

-----------------------------------------------------------------------------
\* validate_signers, and verify_attestation_for_signer

\* A plausible bug: the measurement is not looked at.
verifyForSignerUnmeasured(v, k) ==
    IF object[k] # "valid" THEN "VerificationError"
    ELSE IF versionOf(k) = Version[v] THEN "Ok"
    ELSE "VersionMismatch"

\* What it returns for the object of k, in the order of its checks.  The error of
\* the version quotes the one found as a string, or panics.
verifyForSigner(v, k) ==
    IF object[k] # "valid" THEN "VerificationError"
    ELSE IF ImageOf[k] # Pcr0[v] THEN "Pcr0VerificationError"
    ELSE IF versionOf(k) = Version[v] THEN "Ok"
    ELSE IF versionOf(k) \in Utf8 THEN "VersionMismatch"
    ELSE "Panic"

startValidation(v, signers, label) ==
    /\ vpc' = [vpc EXCEPT ![v] = label]
    /\ vtodo' = [vtodo EXCEPT ![v] = signers]
    /\ asked' = [asked EXCEPT ![v] = signers]
    /\ UNCHANGED <<validated, at>>

\* The subcommands: contract, whose call of getSigners may fail, and signer.
begin(v) ==
    /\ vpc[v] = "idle"
    /\ \/ startValidation(v, {}, "panicked")
       \/ startValidation(v, registered, IF registered = {} THEN "complete" ELSE "validating")
       \/ \E k \in Key : startValidation(v, {k}, "single")
    /\ UNCHANGED <<storeVars, readVars, answer, registered>>

\* A signer of another version is skipped in a contract; all other errors, and
\* this one for a single signer, are a panic.
passes(v, result) ==
    result = "Ok" \/ (result = "VersionMismatch" /\ vpc[v] = "validating")

\* The signers come in the contract's order, which removals have made any.  The
\* fetch of an attestation may fail, and does when there is none.
validate(v) ==
    /\ vpc[v] \in {"validating", "single"}
    /\ \E k \in vtodo[v] :
       \E result \in {"GetAttestationError"}
                     \cup (IF k \in Stored THEN {verifyForSigner(v, k)} ELSE {}) :
          \/ /\ passes(v, result)
             /\ vtodo' = [vtodo EXCEPT ![v] = @ \ {k}]
             /\ vpc' = [vpc EXCEPT ![v] = IF vtodo[v] = {k} THEN "complete" ELSE @]
             /\ validated' = [validated EXCEPT ![v] =
                                 IF result = "Ok" THEN @ \cup {k} ELSE @]
             /\ UNCHANGED at
          \/ /\ ~passes(v, result)
             /\ vtodo' = [vtodo EXCEPT ![v] = {}]
             /\ vpc' = [vpc EXCEPT ![v] = "panicked"]
             /\ at' = [at EXCEPT ![v] = <<k, result>>]
             /\ UNCHANGED validated
    /\ UNCHANGED <<storeVars, readVars, answer, registered, asked>>

-----------------------------------------------------------------------------

ownerStep ==
    /\ \/ \E k \in Stored \ registered : registered' = registered \cup {k}
       \/ \E k \in registered : registered' = registered \ {k}
    /\ UNCHANGED <<storeVars, readVars, answer, validationVars>>

SignersNext ==
    \/ bucketStep /\ UNCHANGED <<answer, registered, validationVars>>
    \/ ownerStep
    \/ \E g \in Request : getSigners(g)
    \/ \E v \in Validation : begin(v) \/ validate(v)

SignersSpec == SignersInit /\ [][SignersNext]_signersVars

-----------------------------------------------------------------------------

\* What GET /signers answers, at the moment it does: signers of its version whose
\* attestation is valid now, though each was read at another time and may have
\* been replaced or have expired since; and all of those that were attested when
\* it listed the bucket and have not expired under it.
SignersAreCurrent ==
    [][\A g \in Request : pc[g] # "answered" /\ pc'[g] = "answered" =>
          /\ answer'[g] \subseteq
                {k \in booted : object[k] = "valid" /\ versionOf(k) = Version[g]}
          /\ {k \in steady[g] : versionOf(k) = Version[g]} \subseteq answer'[g]
      ]_signersVars

\* A signer is called validated only if its enclave ran the image measured by
\* --pcr0; and a validation that completes has validated every signer that the
\* contract had when it asked, whoever was added or removed meanwhile, but for
\* those of another version.
ValidatedRanImage ==
    \A v \in Validation :
        /\ \A k \in validated[v] : k \in booted /\ ImageOf[k] = Pcr0[v]
        /\ vpc[v] = "complete" =>
              \A k \in asked[v] : k \in validated[v] \/ versionOf(k) # Version[v]

\* validate_signers.rs:81: "It is expected that some signers will not be for the
\* given version." and skipped, so that those after them are validated.
OtherVersionsAreSkipped ==
    \A v \in Validation :
        at[v] # <<>> /\ Cardinality(asked[v]) > 1 /\ versionOf(at[v][1]) # Version[v]
            => at[v][2] \in {"GetAttestationError", "VerificationError"}
=============================================================================

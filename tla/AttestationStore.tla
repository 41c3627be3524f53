-------------------------- MODULE AttestationStore --------------------------
(***************************************************************************)
(* What the hosts promise the readers of the S3 bucket: every enclave that *)
(* starts has a key of its own; an object is there only under the address  *)
(* of a key that was generated, it is replaced but never removed, and it   *)
(* is valid until the attestation in it expires.                           *)
(***************************************************************************)
CONSTANT Key          \* the keys enclaves generate, and their addresses

VARIABLES
    booted,           \* the keys generated so far
    object            \* address -> "none", "valid" or "expired"

storeVars == <<booted, object>>

StoreInit ==
    /\ booted = {}
    /\ object = [k \in Key |-> "none"]

boot(k) ==
    /\ k \in Key \ booted
    /\ booted' = booted \cup {k}
    /\ UNCHANGED object

\* A plausible bug: a key is attested that no enclave has generated.
saveUnbooted(k) ==
    /\ object' = [object EXCEPT ![k] = "valid"]
    /\ UNCHANGED booted

\* The enclave may have stopped since it was attested.
save(k) ==
    /\ k \in booted
    /\ object' = [object EXCEPT ![k] = "valid"]
    /\ UNCHANGED booted

\* Attestations expire with time, several at once.
expire(S) ==
    /\ S # {} /\ \A k \in S : object[k] = "valid"
    /\ object' = [k \in Key |-> IF k \in S THEN "expired" ELSE object[k]]
    /\ UNCHANGED booted

StoreNext ==
    \/ \E k \in Key : boot(k) \/ save(k)
    \/ \E S \in SUBSET Key : expire(S)

StoreSpec == StoreInit /\ [][StoreNext]_storeVars
=============================================================================

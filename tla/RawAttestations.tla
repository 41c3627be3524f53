-------------------------- MODULE RawAttestations --------------------------
(***************************************************************************)
(* get_raw_attestations of host/src/attestations.rs, over the bucket that  *)
(* AttestationStore promises and Attestations provides: a reader lists the *)
(* keys, fetches the objects one after another, and then goes through what *)
(* it fetched, while enclaves come and go and attestations expire.  Both   *)
(* setup and GET /signers read so.  Keys are numbers, and S3 lists them in *)
(* order; each parses as an address, for save_attestation wrote it.        *)
(***************************************************************************)
EXTENDS AttestationStore, Integers, Sequences, FiniteSets, SequencesExt

CONSTANTS
    Reader,           \* who reads; each reads once
    PageSize          \* objects in one answer of list_objects_v2, 1000

\* An address has 20 bytes.
ASSUME KeysAssumption == Key \subseteq Nat /\ IsFiniteSet(Key)
ASSUME PageAssumption == PageSize \in Nat \ {0}

VARIABLES
    pc,               \* reader: where it is; here "fetching", "fetched",
                      \* "failed", "panicked"
    todo,             \* reader: the addresses still to fetch or to go through
    copy,             \* reader -> address -> the attestation fetched and not yet
                      \* gone through, as object
    steady            \* reader -> addresses valid in the bucket when it listed
                      \* them and not expired while it reads (for the properties)

readVars == <<pc, todo, copy, steady>>

Nothing == [k \in Key |-> "none"]

Stored == {k \in Key : object[k] # "none"}

\* In the order of S3: before the i-th come i - 1.
InOrder(S) ==
    [i \in 1..Cardinality(S) |-> CHOOSE k \in S : Cardinality({j \in S : j < k}) = i - 1]

firstPage(list) == SubSeq(list, 1, IF Len(list) < PageSize THEN Len(list) ELSE PageSize)

goto(r, label) == pc' = [pc EXCEPT ![r] = label]

\* The reader returns an error, or panics, with all it fetched.
giveUp(r, label) ==
    /\ goto(r, label)
    /\ todo' = [todo EXCEPT ![r] = <<>>]
    /\ copy' = [copy EXCEPT ![r] = Nothing]
    /\ steady' = [steady EXCEPT ![r] = {}]

\* list_objects_v2 fails, or answers with its first page, which has no contents
\* when the bucket is empty.  There is no second request.
listObjects(r, ready) ==
    /\ pc[r] = ready
    /\ \/ giveUp(r, "failed")
       \/ Stored = {} /\ giveUp(r, "panicked")
       \/ /\ Stored # {}
          /\ goto(r, "fetching")
          /\ todo' = [todo EXCEPT ![r] = firstPage(InOrder(Stored))]
          /\ steady' = [steady EXCEPT ![r] = {k \in Key : object[k] = "valid"}]
          /\ UNCHANGED copy
    /\ UNCHANGED storeVars

\* get_object, one after the other; the first failure is the answer.
getObject(r) ==
    /\ pc[r] = "fetching"
    /\ \/ giveUp(r, "failed")
       \/ /\ copy' = [copy EXCEPT ![r][Head(todo[r])] = object[Head(todo[r])]]
          /\ IF Len(todo[r]) > 1
             THEN todo' = [todo EXCEPT ![r] = Tail(@)] /\ UNCHANGED pc
             ELSE /\ todo' = [todo EXCEPT ![r] =
                                 InOrder({a \in Key : copy'[r][a] # "none"})]
                  /\ goto(r, "fetched")
          /\ UNCHANGED steady
    /\ UNCHANGED storeVars

-----------------------------------------------------------------------------
\* The bucket behind the readers' backs.

hostStep == (\E k \in Key : boot(k) \/ save(k)) /\ UNCHANGED readVars

\* Has r still to verify its copy of k?
unverified(r, k) == pc[r] = "fetching" \/ k \in Range(todo[r])

\* The attestation of k expires, and with it every copy, for none is newer.
lapse(k) ==
    LET late == {r \in Reader : unverified(r, k)}
    IN  /\ expire({k})
        /\ copy' = [r \in Reader |-> IF r \in late /\ copy[r][k] = "valid"
                                     THEN [copy[r] EXCEPT ![k] = "expired"]
                                     ELSE copy[r]]
        /\ steady' = [r \in Reader |-> IF r \in late THEN steady[r] \ {k}
                                       ELSE steady[r]]
        /\ UNCHANGED <<pc, todo>>

\* A copy expires whose original has been replaced since it was fetched.
lapseCopy(r, k) ==
    /\ unverified(r, k) /\ copy[r][k] = "valid"
    /\ copy' = [copy EXCEPT ![r][k] = "expired"]
    /\ steady' = [steady EXCEPT ![r] = @ \ {k}]
    /\ UNCHANGED <<storeVars, pc, todo>>

bucketStep ==
    hostStep \/ \E k \in Key : lapse(k) \/ \E r \in Reader : lapseCopy(r, k)

\* attestations.rs:166 on get_raw_attestations: "Tries to fetch all attestations
\* from S3."
FetchesAll ==
    \A r \in Reader : pc[r] = "fetching" =>
        \A k \in steady[r] : k \in Range(todo[r]) \/ copy[r][k] # "none"
=============================================================================

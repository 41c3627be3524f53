---------------------------- MODULE Registration ----------------------------
(***************************************************************************)
(* host/bin/setup.rs: from the bucket to the contract.  A setup may deploy *)
(* a contract first; it takes the contract that the deployment file names, *)
(* reads the bucket, and then the chain once or twice per signer.  In the  *)
(* meantime another setup is at work and the owner of a contract, which    *)
(* is any account that holds the key, may remove signers or hand it over.  *)
(* A panic ends a setup wherever it is.                                    *)
(*                                                                         *)
(* A contract is the set of SignerSet, which SignersMap implements, with   *)
(* the owner of SP1TeeVerifier.                                            *)
(***************************************************************************)
EXTENDS RawAttestations

CONSTANTS
    Setup,            \* runs of setup, among the readers; each begun once
    Deploys,          \* those with --deploy, which implies --register-signers
    Wanted,           \* setup -> the image its --pcr0 measures, or AnyImage
    AnyImage,
    ImageOf,          \* key -> the image of the enclave that generated it
    Account,          \* holders of keys on the chain
    AccountOf,        \* setup -> its account
    Initial,          \* the contract deployed before, by FirstOwner
    FirstOwner,
    Nobody            \* no account, and no contract

ASSUME SetupAssumption == Deploys \subseteq Setup /\ Setup \subseteq Reader
ASSUME ChainAssumption ==
    /\ Initial \notin Setup /\ Nobody \notin Setup \cup Account \cup {Initial}
    /\ FirstOwner \in Account /\ AccountOf \in [Setup -> Account]

\* A contract that a setup deploys has the name of the setup.
Contract == Deploys \cup {Initial}

VARIABLES
    registers,        \* the setups with --register-signers; others only print
    deployment,       \* the contract named by deployments/<chain id>.json
    target,           \* setup -> the contract it read there
    deployed,         \* the contracts on the chain
    owner,            \* contract -> its owner, or Nobody
    registered,       \* contract -> its signers
    pending,          \* the addSigner transactions sent and not yet mined
    reported,         \* setup -> the signers it says it added
    meddled           \* the contracts whose owner has intervened (for the properties)

chainVars == <<deployed, owner, registered, pending, meddled>>
setupVars == <<registers, deployment, target, reported>>
regVars == <<storeVars, readVars, chainVars, setupVars>>

RegInit ==
    /\ StoreInit
    /\ pc = [r \in Reader |-> "idle"]
    /\ todo = [r \in Reader |-> <<>>]
    /\ copy = [r \in Reader |-> Nothing]
    /\ steady = [r \in Reader |-> {}]
    /\ registers \in SUBSET Setup /\ Deploys \subseteq registers
    /\ deployment = Initial /\ deployed = {Initial}
    /\ owner = [c \in Contract |-> IF c = Initial THEN FirstOwner ELSE Nobody]
    /\ registered = [c \in Contract |-> {}]
    /\ target = [s \in Setup |-> Nobody]
    /\ pending = {} /\ meddled = {}
    /\ reported = [s \in Setup |-> {}]

panic(s) == giveUp(s, "panicked")

-----------------------------------------------------------------------------
\* The deployment: forge runs the script, which writes the file, and then
\* broadcasts what the script did.

simulate(s) ==
    /\ pc[s] = "idle" /\ s \in Deploys
    /\ \/ panic(s) /\ UNCHANGED deployment
       \/ /\ deployment' = s
          /\ goto(s, "deploying")
          /\ UNCHANGED <<todo, copy, steady>>
    /\ UNCHANGED <<storeVars, chainVars, registers, target, reported>>

\* A failed forge may have deployed: what fails last is the verification.
broadcast(s) ==
    /\ pc[s] = "deploying"
    /\ \/ panic(s) /\ UNCHANGED <<deployed, owner>>
       \/ /\ deployed' = deployed \cup {s}
          /\ owner' = [owner EXCEPT ![s] = AccountOf[s]]
          /\ \/ panic(s)
             \/ goto(s, "deployed") /\ UNCHANGED <<todo, copy, steady>>
    /\ UNCHANGED <<storeVars, registered, pending, meddled, setupVars>>

\* Whatever the file names by now, be it what another setup deploys.
loadDeployment(s) ==
    /\ pc[s] = IF s \in Deploys THEN "deployed" ELSE "idle"
    /\ \/ panic(s) /\ UNCHANGED target
       \/ /\ target' = [target EXCEPT ![s] = deployment]
          /\ goto(s, "loaded")
          /\ UNCHANGED <<todo, copy, steady>>
    /\ UNCHANGED <<storeVars, chainVars, registers, deployment, reported>>

-----------------------------------------------------------------------------
\* The loop over the attestations.

\* On to the next attestation, or to the end.
continue(s) ==
    /\ goto(s, IF Len(todo[s]) > 1 THEN "fetched" ELSE "complete")
    /\ todo' = [todo EXCEPT ![s] = Tail(@)]
    /\ copy' = [copy EXCEPT ![s][Head(todo[s])] = "none"]
    /\ UNCHANGED steady

isSigner(s, k) == k \in registered[target[s]]

\* A plausible bug: the measurement is compared with itself.
rightImageSelf(s, k) == ImageOf[k] = ImageOf[k]

\* In debug mode there is no PCR0 to compare, and --pcr0 is left out.
rightImage(s, k) == Wanted[s] \in {AnyImage, ImageOf[k]}

\* verify_attestation, the measurement, and the call of isSigner, which may
\* fail, and does without a contract.  The address is that of the attested key:
\* its check passes.
verify(s) ==
    /\ pc[s] = "fetched"
    /\ LET k == Head(todo[s])
           asked == copy[s][k] = "valid" /\ rightImage(s, k) /\ target[s] \in deployed
       IN  \/ copy[s][k] = "expired" /\ continue(s)
           \/ copy[s][k] = "valid" /\ panic(s)
           \/ asked /\ isSigner(s, k) /\ continue(s)
           \/ /\ asked /\ ~isSigner(s, k)
              /\ goto(s, "checked")
              /\ UNCHANGED <<todo, copy, steady>>
    /\ UNCHANGED <<storeVars, chainVars, setupVars>>

\* "Found valid signer"
printFound(s) ==
    /\ pc[s] = "checked" /\ s \notin registers
    /\ continue(s)
    /\ UNCHANGED <<storeVars, chainVars, setupVars>>

\* What addSigner requires: onlyOwner, and that the signer is not there yet.
mayAdd(s, k) == owner[target[s]] = AccountOf[s] /\ ~isSigner(s, k)

\* addSigner(address).send(): the call is simulated, for its gas, against the
\* contract as it is now; a revert is an error, and the error a panic.
send(s) ==
    /\ pc[s] = "checked" /\ s \in registers
    /\ LET k == Head(todo[s])
       IN  \/ panic(s) /\ UNCHANGED pending
           \/ /\ mayAdd(s, k)
              /\ pending' = pending \cup {<<s, k>>}
              /\ goto(s, "confirming")
              /\ UNCHANGED <<todo, copy, steady>>
    /\ UNCHANGED <<storeVars, deployed, owner, registered, meddled, setupVars>>

\* A transaction is mined, and executed against the contract as it is then.
mine(s, k) ==
    /\ <<s, k>> \in pending
    /\ pending' = pending \ {<<s, k>>}
    /\ IF mayAdd(s, k)
       THEN registered' = [registered EXCEPT ![target[s]] = @ \cup {k}]
       ELSE UNCHANGED registered
    /\ UNCHANGED <<storeVars, readVars, deployed, owner, meddled, setupVars>>

\* A plausible bug: the transaction is not watched.
watchNot(s) ==
    /\ pc[s] = "confirming"
    /\ \/ panic(s) /\ UNCHANGED reported
       \/ /\ continue(s)
          /\ reported' = [reported EXCEPT ![s] = @ \cup {Head(todo[s])}]
    /\ UNCHANGED <<storeVars, chainVars, registers, deployment, target>>

\* watch() returns when the transaction is mined, whatever became of it.
watch(s) ==
    /\ pc[s] = "confirming"
    /\ \/ panic(s) /\ UNCHANGED reported
       \/ /\ <<s, Head(todo[s])>> \notin pending
          /\ continue(s)
          /\ reported' = [reported EXCEPT ![s] = @ \cup {Head(todo[s])}]
    /\ UNCHANGED <<storeVars, chainVars, registers, deployment, target>>

-----------------------------------------------------------------------------
\* The owner, beside all setups.

\* transferOwnership, or renounceOwnership.
handOver(c) ==
    /\ owner[c] # Nobody
    /\ \E a \in (Account \cup {Nobody}) \ {owner[c]} :
          owner' = [owner EXCEPT ![c] = a]
    /\ meddled' = meddled \cup {c}
    /\ UNCHANGED <<storeVars, readVars, deployed, registered, pending, setupVars>>

removeSigner(c) ==
    /\ owner[c] # Nobody
    /\ \E k \in registered[c] :
          registered' = [registered EXCEPT ![c] = @ \ {k}]
    /\ meddled' = meddled \cup {c}
    /\ UNCHANGED <<storeVars, readVars, deployed, owner, pending, setupVars>>

-----------------------------------------------------------------------------

setupStep(s) ==
    \/ simulate(s) \/ broadcast(s) \/ loadDeployment(s)
    \/ (listObjects(s, "loaded") \/ getObject(s)) /\ UNCHANGED <<chainVars, setupVars>>
    \/ verify(s) \/ printFound(s) \/ send(s) \/ watch(s)

chainStep ==
    \/ \E s \in Setup, k \in Key : mine(s, k)
    \/ \E c \in Contract : handOver(c) \/ removeSigner(c)

RegNext ==
    \/ bucketStep /\ UNCHANGED <<chainVars, setupVars>>
    \/ chainStep
    \/ \E s \in Setup : setupStep(s)

RegSpec == RegInit /\ [][RegNext]_regVars

-----------------------------------------------------------------------------

RegTypeOK ==
    /\ booted \subseteq Key
    /\ object \in [Key -> {"none", "valid", "expired"}]
    /\ \A s \in Setup :
          pc[s] \in {"idle", "deploying", "deployed", "loaded", "fetching", "fetched",
                     "checked", "confirming", "complete", "failed", "panicked"}
    /\ todo \in [Reader -> Seq(Key)]
    /\ copy \in [Reader -> [Key -> {"none", "valid", "expired"}]]
    /\ steady \in [Reader -> SUBSET Key]
    /\ registers \in SUBSET Setup
    /\ deployment \in Contract /\ deployed \subseteq Contract
    /\ target \in [Setup -> Contract \cup {Nobody}]
    /\ owner \in [Contract -> Account \cup {Nobody}]
    /\ registered \in [Contract -> SUBSET booted]
    /\ pending \subseteq registers \X Key
    /\ reported \in [Setup -> SUBSET Key]
    /\ meddled \subseteq Contract

\* Whatever runs side by side, panics or is mined late, no address gets into a
\* contract but that of an enclave that ran an image which an operator asked for
\* in a setup of this contract.
RegisteredRanImage ==
    \A c \in Contract : \A k \in registered[c] :
        \E s \in registers : target[s] = c /\ Wanted[s] \in {AnyImage, ImageOf[k]}

\* While no owner intervenes, what a setup says it added is there, though watch()
\* does not look at what became of the transaction; and when it completes, every
\* signer that was attested when it began, and did not expire under it, is
\* registered in its contract, by it or by another, in this run or in one that
\* panicked half-way.  "Setup complete, ownership is set to the sender." holds of
\* one that deployed, while no other deploys.
SetupTellsTheTruth ==
    \A s \in Setup : target[s] \in Contract \ meddled =>
        /\ reported[s] \subseteq registered[target[s]]
        /\ pc[s] = "complete" /\ s \in registers =>
              steady[s] \subseteq registered[target[s]]
        /\ pc[s] = "complete" /\ s \in Deploys => owner[target[s]] = AccountOf[s]
=============================================================================

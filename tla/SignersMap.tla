----------------------------- MODULE SignersMap -----------------------------
(***************************************************************************)
(* contracts/src/SignersMap.sol: the iterable map of signers, whose        *)
(* removal swaps the last element into the hole and pops.                  *)
(*                                                                         *)
(* Solidity arrays start at 0 and TLA+ sequences at 1: signers[i] of the   *)
(* contract is signers[i + 1] here, and signerIndex keeps the contract's   *)
(* numbers.  A call that reverts (a require, a checked subtraction, an     *)
(* index out of bounds) changes nothing and is an action not enabled.      *)
(***************************************************************************)
EXTENDS Integers, Sequences, FiniteSets, Functions

CONSTANT Address      \* the addresses that may be registered

VARIABLES
    map,              \* address -> is it a signer?
    signers,          \* the list of signers
    signerIndex       \* address -> position in the list; 0 if never set

mapVars == <<map, signers, signerIndex>>

MapInit ==
    /\ map = [a \in Address |-> FALSE]
    /\ signers = <<>>
    /\ signerIndex = [a \in Address |-> 0]

-----------------------------------------------------------------------------

\* A plausible bug: the guard against adding a signer twice is lost.
addSignerUnguarded(signer) ==
    /\ map' = [map EXCEPT ![signer] = TRUE]
    /\ signers' = Append(signers, signer)
    /\ signerIndex' = [signerIndex EXCEPT ![signer] = Len(signers)]

addSigner(signer) ==
    /\ ~map[signer]
    /\ map' = [map EXCEPT ![signer] = TRUE]
    /\ signers' = Append(signers, signer)
    /\ signerIndex' = [signerIndex EXCEPT ![signer] = Len(signers') - 1]

pop(list) == SubSeq(list, 1, Len(list) - 1)

\* The hole is the last element: nothing else moves.
removeLast(signer) ==
    /\ signerIndex[signer] = Len(signers) - 1
    /\ signers' = pop(signers)
    /\ signerIndex' = [signerIndex EXCEPT ![signer] = 0]

\* A plausible bug: the moved signer keeps its old index.
swapAndPopNoReindex(signer) ==
    LET indexToRemove == signerIndex[signer]
        lastSigner == signers[Len(signers)]
    IN  /\ indexToRemove # Len(signers) - 1
        /\ indexToRemove < Len(signers)
        /\ signers' = pop([signers EXCEPT ![indexToRemove + 1] = lastSigner])
        /\ signerIndex' = [signerIndex EXCEPT ![signer] = 0]

\* A plausible bug: the removed signer's index is cleared last, on the address
\* that was moved into its place.
swapAndPopStaleIndex(signer) ==
    LET indexToRemove == signerIndex[signer]
        lastSigner == signers[Len(signers)]
    IN  /\ indexToRemove # Len(signers) - 1
        /\ indexToRemove < Len(signers)
        /\ signers' = pop([signers EXCEPT ![indexToRemove + 1] = lastSigner])
        /\ signerIndex' = [signerIndex EXCEPT ![lastSigner] = indexToRemove]

\* The last signer takes the place of the removed one.
swapAndPop(signer) ==
    LET indexToRemove == signerIndex[signer]
        lastSigner == signers[Len(signers)]
    IN  /\ indexToRemove # Len(signers) - 1
        /\ indexToRemove < Len(signers)
        /\ signers' = pop([signers EXCEPT ![indexToRemove + 1] = lastSigner])
        /\ signerIndex' = [signerIndex EXCEPT ![signer] = 0,
                                              ![lastSigner] = indexToRemove]

removeSigner(signer) ==
    /\ map[signer]
    /\ signers # <<>>                    \* length - 1 is checked arithmetic
    /\ map' = [map EXCEPT ![signer] = FALSE]
    /\ removeLast(signer) \/ swapAndPop(signer)

isSigner(signer) == map[signer]

MapNext == \E signer \in Address : addSigner(signer) \/ removeSigner(signer)

MapSpec == MapInit /\ [][MapNext]_mapVars

-----------------------------------------------------------------------------

MapTypeOK ==
    /\ map \in [Address -> BOOLEAN]
    /\ signers \in Seq(Address)
    /\ signerIndex \in [Address -> Nat]

\* The list that getSigners() returns names every address isSigner() accepts,
\* and no other, exactly once: however many removals have swapped it around.
ListMatchesMap ==
    /\ \A i, j \in 1..Len(signers) : signers[i] = signers[j] => i = j
    /\ \A a \in Address : map[a] <=> \E i \in 1..Len(signers) : signers[i] = a

\* The index kept for a signer is its place in the list, so that the next
\* removal takes out that signer and no other; and an address that is not a
\* signer has no index left over from the time it was one (IterableMap.t.sol
\* asserts this after single removals).
IndexIsPosition ==
    \A a \in Address :
        IF map[a] THEN /\ signerIndex[a] < Len(signers)
                       /\ signers[signerIndex[a] + 1] = a
                  ELSE signerIndex[a] = 0

\* Seen through isSigner() and through the list, addSigner and removeSigner do
\* to the signers what Add and Remove do to a set: a removal takes out of the
\* list the signer that loses its flag, and never a third one.
Set == INSTANCE SignerSet WITH
          accepted <- {a \in Address : isSigner(a)},
          listed <- Range(signers)

ImplementsSignerSet == Set!Spec
=============================================================================

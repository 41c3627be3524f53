------------------------ MODULE SP1TeeVerifierProofs ------------------------
(***************************************************************************)
(* For every set of addresses: the list, the flags and the indices of      *)
(* SignersMap agree after any sequence of calls, and the list implements   *)
(* the abstract set of signers.                                            *)
(*                                                                         *)
(* IndexIsPosition goes from an address to its place in the list.  It is   *)
(* not inductive: swapAndPop also relies on the way back, from a place to  *)
(* the address there, which ListIsFlagged adds.                            *)
(*                                                                         *)
(* And for every set of proofs: the contract keeps the map consistent      *)
(* through every transaction, zero out of it, and therefore verifyProof    *)
(* accepts exactly the proofs a listed signer signed.  Its inductive       *)
(* invariant is the one of the map, with the zero address unflagged:       *)
(* without ListIsFlagged the flag isSigner() reads would say nothing of    *)
(* the list getSigners() returns.                                          *)
(***************************************************************************)
EXTENDS SP1TeeVerifier, SequenceTheorems, TLAPS

-----------------------------------------------------------------------------
\* The map.

ListIsFlagged ==
    \A i \in 1..Len(signers) :
        map[signers[i]] /\ signerIndex[signers[i]] = i - 1

MapInv == MapTypeOK /\ IndexIsPosition /\ ListIsFlagged

\* pop() of a non-empty list keeps every element but the last.
LEMMA PopProperties ==
    ASSUME NEW S, NEW list \in Seq(S), list # <<>>
    PROVE  /\ pop(list) \in Seq(S)
           /\ Len(pop(list)) = Len(list) - 1
           /\ \A i \in 1..Len(list) - 1 : pop(list)[i] = list[i]
  <1>1. Len(list) \in Nat \ {0}
    BY EmptySeq, LenProperties
  <1> DEFINE n == Len(list) - 1
  <1>2. n \in Nat /\ 1..n \subseteq 1..Len(list)
    BY <1>1
  <1>3. \A i \in 1..n : list[i] \in S
    BY <1>2, ElementOfSeq
  <1> HIDE DEF n
  <1>4. /\ SubSeq(list, 1, n) \in Seq(S)
        /\ Len(SubSeq(list, 1, n)) = IF 1 <= n THEN n - 1 + 1 ELSE 0
        /\ \A i \in 1..n - 1 + 1 : SubSeq(list, 1, n)[i] = list[1 + i - 1]
    BY <1>2, <1>3, SubSeqProperties, Z3
  <1>5. /\ Len(SubSeq(list, 1, n)) = n
        /\ \A i \in 1..n : SubSeq(list, 1, n)[i] = list[i]
    BY <1>2, <1>4
  <1> QED
    BY <1>4, <1>5 DEF pop, n

\* The three facts together say what getSigners() promises.
LEMMA MapInvImpliesListMatchesMap == MapInv => ListMatchesMap
  <1> SUFFICES ASSUME MapInv PROVE ListMatchesMap
    OBVIOUS
  <1> USE DEF MapInv, MapTypeOK
  <1>1. \A i \in 1..Len(signers) : signers[i] \in Address
    BY ElementOfSeq
  <1>2. ASSUME NEW i \in 1..Len(signers), NEW j \in 1..Len(signers),
               signers[i] = signers[j]
        PROVE  i = j
    BY <1>2 DEF ListIsFlagged
  <1>3. ASSUME NEW a \in Address, map[a]
        PROVE  \E i \in 1..Len(signers) : signers[i] = a
    <2>1. signerIndex[a] + 1 \in 1..Len(signers)
      BY <1>3, LenProperties DEF IndexIsPosition
    <2> QED
      BY <2>1, <1>3 DEF IndexIsPosition
  <1>4. ASSUME NEW a \in Address, NEW i \in 1..Len(signers), signers[i] = a
        PROVE  map[a]
    BY <1>4 DEF ListIsFlagged
  <1> QED
    BY <1>2, <1>3, <1>4 DEF ListMatchesMap

\* The empty map has an empty list.
LEMMA MapInitEstablishes == MapInit => MapInv
  BY DEF MapInit, MapInv, MapTypeOK, IndexIsPosition, ListIsFlagged

\* A signer is put behind the last, and its index is that place.
LEMMA AddPreserves ==
    ASSUME NEW signer \in Address, MapInv, addSigner(signer)
    PROVE  MapInv'
  <1> USE DEF MapInv, MapTypeOK
  <1> DEFINE n == Len(signers)
  <1>1. n \in Nat
    BY LenProperties
  <1>2. /\ signers' = Append(signers, signer)
        /\ signers' \in Seq(Address)
        /\ Len(signers') = n + 1
        /\ \A i \in 1..n : signers'[i] = signers[i]
        /\ signers'[n + 1] = signer
    BY AppendProperties DEF addSigner
  <1>3. /\ map' = [map EXCEPT ![signer] = TRUE]
        /\ signerIndex' = [signerIndex EXCEPT ![signer] = n]
        /\ ~map[signer]
    BY <1>1, <1>2 DEF addSigner
  <1>4. MapTypeOK'
    BY <1>1, <1>2, <1>3
  <1>5. IndexIsPosition'
    <2> SUFFICES ASSUME NEW a \in Address
                 PROVE  IF map'[a] THEN /\ signerIndex'[a] < Len(signers')
                                        /\ signers'[signerIndex'[a] + 1] = a
                                   ELSE signerIndex'[a] = 0
      BY DEF IndexIsPosition
    <2>1. CASE a = signer
      BY <2>1, <1>1, <1>2, <1>3
    <2>2. CASE a # signer
      BY <2>2, <1>1, <1>2, <1>3 DEF IndexIsPosition
    <2> QED
      BY <2>1, <2>2
  <1>6. ListIsFlagged'
    <2> SUFFICES ASSUME NEW i \in 1..(n + 1)
                 PROVE  map'[signers'[i]] /\ signerIndex'[signers'[i]] = i - 1
      BY <1>2 DEF ListIsFlagged
    <2>1. CASE i = n + 1
      BY <2>1, <1>1, <1>2, <1>3
    <2>2. CASE i \in 1..n
      <3>1. /\ signers[i] \in Address
            /\ signers[i] # signer
        BY <2>2, <1>3, ElementOfSeq DEF ListIsFlagged
      <3> QED
        BY <3>1, <2>2, <1>1, <1>2, <1>3 DEF ListIsFlagged
    <2> QED
      BY <2>1, <2>2, <1>1
  <1> QED
    BY <1>4, <1>5, <1>6

\* The last of the list is removed without a swap.
LEMMA RemoveLastPreserves ==
    ASSUME NEW signer \in Address, MapInv, removeSigner(signer),
           removeLast(signer)
    PROVE  MapInv'
  <1> USE DEF MapInv, MapTypeOK
  <1> DEFINE n == Len(signers)
  <1>1. /\ n \in Nat \ {0}
        /\ signers[n] = signer
    BY EmptySeq, LenProperties DEF removeSigner, removeLast, IndexIsPosition
  <1>2. /\ signers' \in Seq(Address)
        /\ Len(signers') = n - 1
        /\ \A i \in 1..n - 1 : signers'[i] = signers[i]
    BY PopProperties DEF removeSigner, removeLast
  <1>3. /\ map' = [map EXCEPT ![signer] = FALSE]
        /\ signerIndex' = [signerIndex EXCEPT ![signer] = 0]
    BY DEF removeSigner, removeLast
  <1>4. MapTypeOK'
    BY <1>2, <1>3
  <1>5. IndexIsPosition'
    <2> SUFFICES ASSUME NEW a \in Address
                 PROVE  IF map'[a] THEN /\ signerIndex'[a] < Len(signers')
                                        /\ signers'[signerIndex'[a] + 1] = a
                                   ELSE signerIndex'[a] = 0
      BY DEF IndexIsPosition
    <2>1. CASE a = signer
      BY <2>1, <1>3
    <2>2. CASE a # signer
      <3>1. /\ map'[a] = map[a]
            /\ signerIndex'[a] = signerIndex[a]
        BY <2>2, <1>3
      <3>2. CASE map[a]
        <4>1. /\ signerIndex[a] + 1 \in 1..n
              /\ signers[signerIndex[a] + 1] = a
          BY <3>2, <1>1 DEF IndexIsPosition
        <4>2. signerIndex[a] + 1 \in 1..n - 1
          BY <4>1, <2>2, <1>1
        <4>3. signers'[signerIndex[a] + 1] = signers[signerIndex[a] + 1]
          BY <4>2, <1>2
        <4>4. signerIndex[a] < n - 1
          BY <4>2, <1>1
        <4> QED
          BY <3>1, <3>2, <4>1, <4>3, <4>4, <1>2
      <3>3. CASE ~map[a]
        BY <3>1, <3>3 DEF IndexIsPosition
      <3> QED
        BY <3>2, <3>3
    <2> QED
      BY <2>1, <2>2
  <1>6. ListIsFlagged'
    <2> SUFFICES ASSUME NEW i \in 1..(n - 1)
                 PROVE  map'[signers'[i]] /\ signerIndex'[signers'[i]] = i - 1
      BY <1>2 DEF ListIsFlagged
    <2>1. /\ signers[i] \in Address
          /\ map[signers[i]]
          /\ signerIndex[signers[i]] = i - 1
      BY <1>1, ElementOfSeq DEF ListIsFlagged
    <2>2. signers[i] # signer
      <3>1. signerIndex[signer] = n - 1
        BY <1>1 DEF ListIsFlagged
      <3>2. i - 1 # n - 1
        BY <1>1
      <3> QED
        BY <2>1, <3>1, <3>2
    <2> QED
      BY <2>1, <2>2, <1>1, <1>2, <1>3
  <1> QED
    BY <1>4, <1>5, <1>6

\* Another is overwritten by the last, whose index becomes that place.
LEMMA SwapAndPopPreserves ==
    ASSUME NEW signer \in Address, MapInv, removeSigner(signer),
           swapAndPop(signer)
    PROVE  MapInv'
  <1> USE DEF MapInv, MapTypeOK
  <1> DEFINE n == Len(signers)
             index == signerIndex[signer]
             hole == index + 1
             lastSigner == signers[n]
             swapped == [signers EXCEPT ![hole] = lastSigner]
  <1>1. /\ n \in Nat \ {0}
        /\ index \in Nat
        /\ hole \in 1..n - 1
        /\ signers[hole] = signer
    BY EmptySeq, LenProperties DEF removeSigner, swapAndPop, IndexIsPosition
  <1>2. /\ lastSigner \in Address
        /\ map[lastSigner]
        /\ signerIndex[lastSigner] = n - 1
        /\ lastSigner # signer
    BY <1>1, ElementOfSeq DEF ListIsFlagged
  <1>3. /\ swapped \in Seq(Address)
        /\ Len(swapped) = n
        /\ swapped # <<>>
        /\ \A i \in 1..n : swapped[i] = IF i = hole THEN lastSigner ELSE signers[i]
    <2>1. /\ swapped \in Seq(Address)
          /\ Len(swapped) = n
          /\ \A i \in 1..n : swapped[i] = IF i = hole THEN lastSigner ELSE signers[i]
      BY <1>1, <1>2, ExceptSeq
    <2> QED
      BY <2>1, <1>1, EmptySeq
  <1>4. signers' = pop(swapped)
    BY DEF removeSigner, swapAndPop
  <1>5. /\ signers' \in Seq(Address)
        /\ Len(signers') = n - 1
        /\ \A i \in 1..n - 1 :
              signers'[i] = IF i = hole THEN lastSigner ELSE signers[i]
    <2>1. /\ pop(swapped) \in Seq(Address)
          /\ Len(pop(swapped)) = Len(swapped) - 1
          /\ \A i \in 1..Len(swapped) - 1 : pop(swapped)[i] = swapped[i]
      <3> HIDE DEF swapped
      <3> QED
        BY <1>3, PopProperties
    <2>2. 1..n - 1 \subseteq 1..n
      BY <1>1
    <2> HIDE DEF swapped, lastSigner, n
    <2> QED
      BY <1>3, <1>4, <2>1, <2>2
  <1>6. /\ map' = [map EXCEPT ![signer] = FALSE]
        /\ signerIndex' = [signerIndex EXCEPT ![signer] = 0,
                                              ![lastSigner] = index]
    BY DEF removeSigner, swapAndPop
  <1> HIDE DEF swapped
  <1>7. MapTypeOK'
    BY <1>1, <1>2, <1>5, <1>6
  <1>8. IndexIsPosition'
    <2> SUFFICES ASSUME NEW a \in Address
                 PROVE  IF map'[a] THEN /\ signerIndex'[a] < Len(signers')
                                        /\ signers'[signerIndex'[a] + 1] = a
                                   ELSE signerIndex'[a] = 0
      BY DEF IndexIsPosition
    <2>1. CASE a = signer
      BY <2>1, <1>2, <1>6
    <2>2. CASE a = lastSigner
      <3>1. map'[a] /\ signerIndex'[a] = index
        BY <2>2, <1>2, <1>6
      <3>2. index < n - 1 /\ index + 1 = hole
        BY <1>1
      <3>3. signers'[hole] = a
        BY <2>2, <1>1, <1>5
      <3> QED
        BY <3>1, <3>2, <3>3, <1>5
    <2>3. CASE a # signer /\ a # lastSigner
      <3>1. /\ map'[a] = map[a]
            /\ signerIndex'[a] = signerIndex[a]
        BY <2>3, <1>2, <1>6
      <3>2. CASE map[a]
        <4>1. /\ signerIndex[a] + 1 \in 1..n
              /\ signers[signerIndex[a] + 1] = a
          <5>1. signerIndex[a] < n /\ signers[signerIndex[a] + 1] = a
            BY <3>2 DEF IndexIsPosition
          <5>2. signerIndex[a] \in Nat
            OBVIOUS
          <5>3. n \in Nat
            BY <1>1
          <5> HIDE DEF n
          <5>4. signerIndex[a] + 1 \in 1..n
            <6>1. signerIndex[a] < n
              BY <5>1 DEF n
            <6> QED
              BY <6>1, <5>2, <5>3
          <5> QED
            BY <5>1, <5>4, Zenon
        <4>2. /\ signerIndex[a] + 1 \in 1..n - 1
              /\ signerIndex[a] + 1 # hole
          <5>1. signerIndex[a] + 1 # hole
            BY <4>1, <2>3, <1>1, Zenon
          <5>2. signerIndex[a] + 1 # n
            BY <4>1, <2>3, Zenon
          <5> HIDE DEF n, hole, lastSigner
          <5> QED
            BY <4>1, <5>1, <5>2, <1>1
        <4>3. signers'[signerIndex[a] + 1] = signers[signerIndex[a] + 1]
          BY <4>2, <1>5
        <4>4. signerIndex[a] < n - 1
          BY <4>2, <1>1
        <4> QED
          BY <3>1, <3>2, <4>1, <4>3, <4>4, <1>5
      <3>3. CASE ~map[a]
        BY <3>1, <3>3 DEF IndexIsPosition
      <3> QED
        BY <3>2, <3>3
    <2> QED
      BY <2>1, <2>2, <2>3
  <1>9. ListIsFlagged'
    <2> SUFFICES ASSUME NEW i \in 1..(n - 1)
                 PROVE  map'[signers'[i]] /\ signerIndex'[signers'[i]] = i - 1
      BY <1>5 DEF ListIsFlagged
    <2>1. CASE i = hole
      <3>1. signers'[i] = lastSigner
        BY <2>1, <1>5
      <3>2. map'[lastSigner] /\ signerIndex'[lastSigner] = index
        BY <1>2, <1>6
      <3>3. index = i - 1
        BY <2>1, <1>1
      <3> QED
        BY <3>1, <3>2, <3>3
    <2>2. CASE i # hole
      <3>1. /\ signers[i] \in Address
            /\ map[signers[i]]
            /\ signerIndex[signers[i]] = i - 1
        <4>1. i \in 1..Len(signers)
          BY <1>1
        <4>2. signers[i] \in Address
          BY <4>1, ElementOfSeq
        <4>3. map[signers[i]] /\ signerIndex[signers[i]] = i - 1
          BY <4>1, Zenon DEF ListIsFlagged
        <4> QED
          BY <4>2, <4>3
      <3>2. signers[i] # signer /\ signers[i] # lastSigner
        <4>1. signerIndex[signer] = hole - 1 /\ signerIndex[lastSigner] = n - 1
          BY <1>1, <1>2 DEF ListIsFlagged
        <4>2. i - 1 # hole - 1 /\ i - 1 # n - 1
          BY <1>1, <2>2
        <4> QED
          BY <3>1, <4>1, <4>2
      <3> QED
        BY <3>1, <3>2, <2>2, <1>1, <1>5, <1>6
    <2> QED
      BY <2>1, <2>2
  <1> QED
    BY <1>7, <1>8, <1>9

\* Every step of the map.
LEMMA MapStepPreserves == MapInv /\ [MapNext]_mapVars => MapInv'
  <1> SUFFICES ASSUME MapInv, [MapNext]_mapVars PROVE MapInv'
    OBVIOUS
  <1>1. ASSUME NEW signer \in Address, addSigner(signer) PROVE MapInv'
    BY <1>1, AddPreserves
  <1>2. ASSUME NEW signer \in Address, removeSigner(signer) PROVE MapInv'
    <2>1. CASE removeLast(signer)
      BY <2>1, <1>2, RemoveLastPreserves
    <2>2. CASE swapAndPop(signer)
      BY <2>2, <1>2, SwapAndPopPreserves
    <2> QED
      BY <2>1, <2>2, <1>2 DEF removeSigner
  <1>3. CASE UNCHANGED mapVars
    BY <1>3 DEF mapVars, MapInv, MapTypeOK, IndexIsPosition, ListIsFlagged
  <1> QED
    BY <1>1, <1>2, <1>3 DEF MapNext

-----------------------------------------------------------------------------

\* The inductive invariant holds of every behaviour of the map.
THEOREM MapInvariant == MapSpec => []MapInv
  BY MapInitEstablishes, MapStepPreserves, PTL DEF MapSpec

\* The map keeps its types: flags are Booleans, the list holds addresses and
\* no index ever goes below zero.
THEOREM MapTypeCorrect == MapSpec => []MapTypeOK
  <1>1. MapInv => MapTypeOK
    BY DEF MapInv
  <1> QED
    BY <1>1, MapInvariant, PTL

\* getSigners() lists the addresses isSigner() accepts, each exactly once.
THEOREM ListAlwaysMatchesMap == MapSpec => []ListMatchesMap
  BY MapInvImpliesListMatchesMap, MapInvariant, PTL

\* signerIndex leads removeSigner to the signer it is asked to remove, and
\* holds nothing for an address that is not one.
THEOREM IndexAlwaysPosition == MapSpec => []IndexIsPosition
  <1>1. MapInv => IndexIsPosition
    BY DEF MapInv
  <1> QED
    BY <1>1, MapInvariant, PTL

\* The members of the list are the flagged addresses.
LEMMA RangeIsFlagged ==
    MapInv => Range(signers) = {a \in Address : map[a]}
  <1> SUFFICES ASSUME MapInv PROVE Range(signers) = {a \in Address : map[a]}
    OBVIOUS
  <1>1. DOMAIN signers = 1..Len(signers)
    BY LenProperties DEF MapInv, MapTypeOK
  <1>2. \A i \in 1..Len(signers) : signers[i] \in Address
    BY ElementOfSeq DEF MapInv, MapTypeOK
  <1>3. \A a \in Address : map[a] <=> \E i \in 1..Len(signers) : signers[i] = a
    BY MapInvImpliesListMatchesMap DEF ListMatchesMap
  <1> QED
    BY <1>1, <1>2, <1>3 DEF Range

\* Every behaviour of the map is, seen through isSigner() and getSigners(), one
\* of the abstract set: swap and pop removes the signer asked for and moves no
\* other in or out.
THEOREM MapImplementsSignerSet == MapSpec => ImplementsSignerSet
  <1>1. MapInit => Set!Init
    <2> SUFFICES ASSUME MapInit
                 PROVE  {a \in Address : map[a]} = {} /\ Range(signers) = {}
      BY DEF Set!Init, isSigner
    <2> QED
      BY DEF MapInit, Range
  <1>2. MapInv' => (Range(signers) = {a \in Address : map[a]})'
    BY RangeIsFlagged, PTL
  <1>3. MapInv /\ MapInv' /\ [MapNext]_mapVars => [Set!Next]_(Set!setVars)
    <2> SUFFICES ASSUME MapInv, MapInv', [MapNext]_mapVars
                 PROVE  [Set!Next]_(Set!setVars)
      OBVIOUS
    <2>1. Range(signers) = {a \in Address : map[a]}
      BY RangeIsFlagged
    <2>2. Range(signers)' = {a \in Address : map'[a]}
      BY <1>2
    <2>3. map \in [Address -> BOOLEAN]
      BY DEF MapInv, MapTypeOK
    <2>4. ASSUME NEW a \in Address, addSigner(a) PROVE Set!Add(a)
      BY <2>1, <2>2, <2>3, <2>4 DEF addSigner, Set!Add, isSigner
    <2>5. ASSUME NEW a \in Address, removeSigner(a) PROVE Set!Remove(a)
      BY <2>1, <2>2, <2>3, <2>5 DEF removeSigner, Set!Remove, isSigner
    <2>6. CASE UNCHANGED mapVars
      BY <2>6 DEF mapVars, Set!setVars, isSigner
    <2> QED
      BY <2>4, <2>5, <2>6 DEF MapNext, Set!Next
  <1> QED
    BY <1>1, <1>3, MapInvariant, PTL DEF MapSpec, ImplementsSignerSet, Set!Spec

-----------------------------------------------------------------------------
\* The contract.

VerifierInv ==
    /\ MapInv
    /\ owner \in Address
    /\ reply = <<>> \/ reply \in Sender \X Seq(Address)
    /\ ~map[Zero]

\* The constructor has no signers, so zero is none.
LEMMA VerifierInitEstablishes == VerifierInit => VerifierInv
  <1> SUFFICES ASSUME VerifierInit PROVE VerifierInv
    OBVIOUS
  <1>1. MapInv
    BY MapInitEstablishes DEF VerifierInit
  <1>2. ~map[Zero]
    BY ZeroAssumption DEF VerifierInit, MapInit
  <1> QED
    BY <1>1, <1>2 DEF VerifierInit, VerifierInv, Sender

\* A transaction does not change the map, or does what the map library does.
LEMMA VerifierStepPreserves ==
    VerifierInv /\ [VerifierNext]_verifierVars => VerifierInv'
  <1> SUFFICES ASSUME VerifierInv, [VerifierNext]_verifierVars
               PROVE  VerifierInv'
    OBVIOUS
  <1>1. MapInv /\ map \in [Address -> BOOLEAN] /\ signers \in Seq(Address)
    BY DEF VerifierInv, MapInv, MapTypeOK
  <1>2. ASSUME UNCHANGED mapVars PROVE MapInv' /\ map' = map
    <2>1. [MapNext]_mapVars
      BY <1>2
    <2> QED
      BY <1>1, <1>2, <2>1, MapStepPreserves DEF mapVars
  <1>3. ASSUME NEW sender \in Sender, getSigners(sender) PROVE VerifierInv'
    BY <1>1, <1>2, <1>3 DEF VerifierInv, getSigners
  <1>4. ASSUME NEW sender \in Sender, renounceOwnership(sender)
        PROVE  VerifierInv'
    BY <1>2, <1>4, ZeroAssumption DEF VerifierInv, renounceOwnership
  <1>5. ASSUME NEW sender \in Sender, NEW a \in Address,
               transferOwnership(sender, a)
        PROVE  VerifierInv'
    BY <1>2, <1>5 DEF VerifierInv, transferOwnership
  <1>6. ASSUME NEW sender \in Sender, NEW a \in Address,
               verifierAddSigner(sender, a)
        PROVE  VerifierInv'
    <2>1. MapInv'
      <3>1. MapNext
        BY <1>6 DEF verifierAddSigner, MapNext
      <3> QED
        BY <1>1, <3>1, MapStepPreserves
    <2>2. ~map'[Zero]
      BY <1>1, <1>6, ZeroAssumption
      DEF verifierAddSigner, addSigner, VerifierInv
    <2> QED
      BY <1>6, <2>1, <2>2 DEF VerifierInv, verifierAddSigner
  <1>7. ASSUME NEW sender \in Sender, NEW a \in Address,
               verifierRemoveSigner(sender, a)
        PROVE  VerifierInv'
    <2>1. MapInv'
      <3>1. MapNext
        BY <1>7 DEF verifierRemoveSigner, MapNext
      <3> QED
        BY <1>1, <3>1, MapStepPreserves
    <2>2. ~map'[Zero]
      BY <1>1, <1>7, ZeroAssumption
      DEF verifierRemoveSigner, removeSigner, VerifierInv
    <2> QED
      BY <1>7, <2>1, <2>2 DEF VerifierInv, verifierRemoveSigner
  <1>8. CASE UNCHANGED verifierVars
    BY <1>2, <1>8 DEF verifierVars, mapVars, VerifierInv
  <1> QED
    BY <1>3, <1>4, <1>5, <1>6, <1>7, <1>8 DEF VerifierNext

\* In every state of the contract the map is consistent and zero no signer: the inductive
\* invariant that the theorems below take their properties from.
THEOREM VerifierInvariant == VerifierSpec => []VerifierInv
  BY VerifierInitEstablishes, VerifierStepPreserves, PTL DEF VerifierSpec

\* The contract keeps its types.
THEOREM VerifierTypeCorrect == VerifierSpec => []VerifierTypeOK
  <1>1. VerifierInv => VerifierTypeOK
    BY DEF VerifierInv, VerifierTypeOK, MapInv
  <1> QED
    BY <1>1, VerifierInvariant, PTL

\* No owner can register the zero address, by flag or by list.
THEOREM ZeroIsNeverSigner == VerifierSpec => []ZeroNeverSigner
  <1>1. VerifierInv => ZeroNeverSigner
    BY RangeIsFlagged DEF VerifierInv, ZeroNeverSigner, isSigner
  <1> QED
    BY <1>1, VerifierInvariant, PTL

\* Once renounced, no transaction changes the owner or the signers.
THEOREM RenouncedStaysFrozen == VerifierSpec => RenouncedIsFrozen
  <1>1. ASSUME owner = Zero, [VerifierNext]_verifierVars
        PROVE  UNCHANGED <<owner, map, signers, signerIndex>>
    <2>1. \A sender \in Sender : ~onlyOwner(sender)
      BY <1>1 DEF Sender, onlyOwner
    <2> QED
      BY <1>1, <2>1
      DEF VerifierNext, verifierVars, mapVars, getSigners, renounceOwnership,
          transferOwnership, verifierAddSigner, verifierRemoveSigner
  <1> QED
    BY <1>1, PTL DEF VerifierSpec, RenouncedIsFrozen

-----------------------------------------------------------------------------

\* What the seven checks of verifyProof come to, in any state.
LEMMA AcceptedMeans ==
    ASSUME NEW vkey, NEW values, NEW p \in Proof,
           NEW signer, signer = ecrecover(p.v, p.sig, p.version_len, vkey, values)
    PROVE  (verifyProof(vkey, values, p) = "Accepted")
             <=> /\ p.selector = Selector
                 /\ p.version_len \in 0..(Uint8Max - Header)
                 /\ p.length >= Header + p.version_len
                 /\ p.v \in {27, 28}
                 /\ signer # Zero
                 /\ registered(signer)
                 /\ p.innerAt = Header + p.version_len
                 /\ p.inner = <<vkey, values>>
  <1> DEFINE A == gatewayAccepts(vkey, values, p, Header + p.version_len)
  <1>1. p.length \in Nat /\ p.version_len \in 0..255
    BY ProofAssumption
  <1>2. A <=> p.innerAt = Header + p.version_len /\ p.inner = <<vkey, values>>
    BY DEF gatewayAccepts
  <1> HIDE DEF A
  <1>3. (verifyProof(vkey, values, p) = "Accepted")
          <=> /\ ~(p.length < Header)
              /\ p.selector = Selector
              /\ ~(Header + p.version_len > Uint8Max)
              /\ ~(Header + p.version_len > p.length)
              /\ p.v \in {27, 28}
              /\ ~(signer = Zero \/ ~registered(signer))
              /\ A
    BY DEF verifyProof, A
  <1> QED
    BY <1>1, <1>2, <1>3 DEF Header, Uint8Max

\* The address recovered is a listed one exactly when one of them signed.
LEMMA RecoveredIsListed ==
    ASSUME VerifierInv, NEW v, NEW sig, NEW version, NEW vkey, NEW values,
           NEW signer, signer = ecrecover(v, sig, version, vkey, values)
    PROVE  (signer # Zero /\ registered(signer))
             <=> \E a \in Range(signers) :
                    madeBy(sig, a, v, version, vkey, values)
  <1>1. Range(signers) = {a \in Address : map[a]}
    BY RangeIsFlagged DEF VerifierInv
  <1>2. Zero \notin Range(signers)
    BY <1>1 DEF VerifierInv
  <1>3. registered(signer) <=> signer \in Range(signers)
    BY <1>1 DEF registered, isSigner
  <1>4. Stranger \notin Range(signers)
    BY <1>1, ZeroAssumption
  <1>5. ASSUME NEW a \in Range(signers),
               madeBy(sig, a, v, version, vkey, values)
        PROVE  signer = a
    <2>1. sig.by = a
      BY <1>5 DEF madeBy
    <2> QED
      BY <2>1, <1>2, <1>5 DEF ecrecover
  <1>6. ASSUME signer \in Range(signers)
        PROVE  madeBy(sig, signer, v, version, vkey, values)
    BY <1>2, <1>4, <1>6 DEF ecrecover
  <1> QED
    BY <1>2, <1>3, <1>5, <1>6

\* In every reachable state verifyProof accepts exactly the proofs that an
\* address on the list signed for this version, program and public values.
THEOREM AcceptanceIsExact == VerifierSpec => []AcceptsExactlyWellSigned
  <1>1. ASSUME VerifierInv, NEW vkey \in VKey, NEW values \in Values,
               NEW p \in Proof
        PROVE  (verifyProof(vkey, values, p) = "Accepted")
                 <=> WellSigned(vkey, values, p)
    <2> DEFINE signer == ecrecover(p.v, p.sig, p.version_len, vkey, values)
    <2>1. (signer # Zero /\ registered(signer))
            <=> \E a \in Range(signers) :
                   madeBy(p.sig, a, p.v, p.version_len, vkey, values)
      BY <1>1, RecoveredIsListed
    <2>2. (verifyProof(vkey, values, p) = "Accepted")
             <=> /\ p.selector = Selector
                 /\ p.version_len \in 0..(Uint8Max - Header)
                 /\ p.length >= Header + p.version_len
                 /\ p.v \in {27, 28}
                 /\ signer # Zero
                 /\ registered(signer)
                 /\ p.innerAt = Header + p.version_len
                 /\ p.inner = <<vkey, values>>
      BY AcceptedMeans
    <2> HIDE DEF signer
    <2> QED
      BY <2>1, <2>2 DEF WellSigned
  <1>2. VerifierInv => AcceptsExactlyWellSigned
    BY <1>1 DEF AcceptsExactlyWellSigned
  <1> QED
    BY <1>2, VerifierInvariant, PTL
=============================================================================

----------------------- MODULE RawAttestationsProofs -----------------------
(***************************************************************************)
(* What the proofs about setup and about GET /signers need of the readers  *)
(* they share: that the bucket is listed whole, when it fits on a page,    *)
(* and what a reader has in hand while enclaves come and go and            *)
(* attestations expire.                                                    *)
(***************************************************************************)
EXTENDS RawAttestations, FiniteSetTheorems, SequenceTheorems, TLAPS

\* The order has every address once: the number of those before it is its place.
LEMMA InOrderListsAll ==
    ASSUME NEW S \in SUBSET Key
    PROVE  /\ InOrder(S) \in Seq(S) /\ Range(InOrder(S)) = S
           /\ Len(InOrder(S)) = Cardinality(S)
  <1> DEFINE n == Cardinality(S)
             before(k) == {j \in S : j < k}
             place == [k \in S |-> Cardinality(before(k)) + 1]
  <1>1. IsFiniteSet(S) /\ n \in Nat /\ S \subseteq Nat
    BY KeysAssumption, FS_Subset, FS_CardinalityType
  <1>2. ASSUME NEW k \in S
        PROVE  /\ IsFiniteSet(before(k)) /\ Cardinality(before(k)) \in Nat
               /\ place[k] \in 1..n
    <2>1. before(k) \in SUBSET S /\ k \notin before(k)
      BY <1>1
    <2>2. /\ IsFiniteSet(before(k)) /\ Cardinality(before(k)) \in Nat
          /\ Cardinality(before(k)) <= n /\ Cardinality(before(k)) # n
      BY <1>1, <2>1, FS_Subset, FS_CardinalityType
    <2> QED
      BY <1>1, <2>2
  <1>3. ASSUME NEW j \in S, NEW k \in S, j < k
        PROVE  place[j] < place[k]
    <2>1. j \in before(k) /\ j \notin before(j)
      BY <1>1, <1>3
    <2>2. before(j) \in SUBSET before(k)
      <3>1. ASSUME NEW i \in S, i < j PROVE i < k
        BY <1>1, <1>3, <3>1
      <3> QED
        BY <3>1
    <2>3. IsFiniteSet(before(k)) /\ before(j) # before(k)
      BY <1>2, <2>1
    <2> HIDE DEF before
    <2>4. /\ Cardinality(before(j)) <= Cardinality(before(k))
          /\ Cardinality(before(j)) # Cardinality(before(k))
      BY <2>2, <2>3, FS_Subset
    <2>5. Cardinality(before(j)) \in Nat /\ Cardinality(before(k)) \in Nat
      BY <1>2
    <2> QED
      BY <2>4, <2>5
  <1>4. ASSUME NEW i, NEW k \in S
        PROVE  Cardinality(before(k)) = i - 1 /\ i \in 1..n <=> place[k] = i
    <2>1. Cardinality(before(k)) \in Nat /\ place[k] = Cardinality(before(k)) + 1
      BY <1>2
    <2>2. place[k] \in 1..n
      BY <1>2
    <2> HIDE DEF before, place
    <2> QED
      BY <1>1, <2>1, <2>2
  <1>5. place \in [S -> 1..n]
    BY <1>2
  <1>6. InOrder(S) = [i \in 1..n |-> CHOOSE k \in S : Cardinality(before(k)) = i - 1]
    BY DEF InOrder
  <1> HIDE DEF place
  <1>7. ASSUME NEW j \in S, NEW k \in S, place[j] = place[k] PROVE j = k
    <2>1. ~(j < k) /\ ~(k < j)
      BY <1>1, <1>3, <1>5, <1>7
    <2> QED
      BY <1>1, <2>1
  <1>8. \A i \in 1..n : \E k \in S : place[k] = i
    <2>1. place \in Injection(S, 1..n)
      BY <1>5, <1>7 DEF Injection, IsInjective
    <2>2. IsFiniteSet(1..n) /\ Cardinality(1..n) = n
      BY <1>1, FS_Interval
    <2>3. place \in Surjection(S, 1..n)
      BY <2>1, <2>2, FS_Injection
    <2> QED
      BY <2>3 DEF Surjection
  <1>9. \A i \in 1..n : InOrder(S)[i] \in S /\ place[InOrder(S)[i]] = i
    <2> TAKE i \in 1..n
    <2> DEFINE at == CHOOSE k \in S : Cardinality(before(k)) = i - 1
    <2>1. at \in S /\ Cardinality(before(at)) = i - 1
      BY <1>4, <1>8
    <2>2. InOrder(S)[i] = at
      BY <1>6
    <2> QED
      BY <1>4, <2>1, <2>2
  <1>10. DOMAIN InOrder(S) = 1..n
    BY <1>6
  <1> HIDE DEF n
  <1>11. InOrder(S) \in [1..n -> S]
    BY <1>6, <1>9, <1>10
  <1>12. ASSUME NEW k \in S PROVE k \in Range(InOrder(S))
    <2>1. place[k] \in 1..n /\ InOrder(S)[place[k]] = k
      BY <1>5, <1>7, <1>9
    <2> QED
      BY <1>10, <2>1 DEF Range
  <1>13. \A k \in Range(InOrder(S)) : k \in S
    BY <1>9, <1>10 DEF Range
  <1>14. InOrder(S) \in Seq(S)
    BY <1>1, <1>11
  <1>15. Len(InOrder(S)) = n
    BY <1>1, <1>10, <1>14
  <1> QED
    BY <1>12, <1>13, <1>14, <1>15 DEF n

-----------------------------------------------------------------------------

Status == {"none", "valid", "expired"}

\* Every object fits on the one page that is asked for.
OnePage == Cardinality(Key) <= PageSize

\* The bucket has objects of keys that were generated, and of no others.
BucketInv ==
    /\ booted \subseteq Key
    /\ object \in [Key -> Status]
    /\ \A k \in Key : object[k] # "none" => k \in booted

ReadTypeOK ==
    /\ DOMAIN pc = Reader
    /\ todo \in [Reader -> Seq(Key)]
    /\ copy \in [Reader -> [Key -> Status]]
    /\ steady \in [Reader -> SUBSET Key]

\* What a reader has in hand: while it fetches there is more to fetch, and from a
\* full listing nothing steady is missed; afterwards it has copies of those it has
\* still to verify alone; a copy is of a key that was generated, and one that is
\* valid, or of a signer that is steady, has a valid object in the bucket still.
Reading(r) ==
    /\ pc[r] = "fetching" =>
          /\ todo[r] # <<>> /\ Range(todo[r]) \subseteq Stored
          /\ OnePage => \A k \in steady[r] : k \in Range(todo[r]) \/ copy[r][k] # "none"
    /\ pc[r] # "fetching" => \A k \in Key : copy[r][k] # "none" => k \in Range(todo[r])
    /\ \A k \in Key :
          /\ copy[r][k] # "none" => k \in booted
          /\ unverified(r, k) /\ copy[r][k] = "valid" => object[k] = "valid"
    /\ \A k \in steady[r] :
          copy[r][k] # "expired" /\ (unverified(r, k) => object[k] = "valid")

ReadersInv == BucketInv /\ ReadTypeOK /\ \A r \in Reader : Reading(r)

\* Of sequences of keys.
LEMMA HeadAndTail ==
    ASSUME NEW list \in Seq(Key), list # <<>>
    PROVE  /\ Head(list) \in Key /\ Tail(list) \in Seq(Key)
           /\ Range(list) = {Head(list)} \cup Range(Tail(list))
           /\ Head(list) \in Range(list)
           /\ Len(list) \in Nat \ {0}
           /\ Len(list) > 1 <=> Tail(list) # <<>>
  <1>1. Len(list) \in Nat \ {0} /\ Head(list) = list[1] /\ list[1] \in Key
    OBVIOUS
  <1>2. Tail(list) \in Seq(Key) /\ Len(Tail(list)) = Len(list) - 1
    OBVIOUS
  <1>3. \A i \in 1..(Len(list) - 1) : Tail(list)[i] = list[i + 1]
    OBVIOUS
  <1>4. Range(list) = {list[i] : i \in 1..Len(list)}
    BY DEF Range
  <1>5. Range(Tail(list)) = {Tail(list)[i] : i \in 1..(Len(list) - 1)}
    <2>1. DOMAIN Tail(list) = 1..(Len(list) - 1)
      BY <1>1, <1>2
    <2> QED
      BY <2>1 DEF Range
  <1>6. Head(list) \in Range(list)
    BY <1>1, <1>4
  <1>7. \A k \in Range(Tail(list)) : k \in Range(list)
    BY <1>1, <1>3, <1>4, <1>5
  <1>8. ASSUME NEW k \in Range(list), k # Head(list) PROVE k \in Range(Tail(list))
    <2>1. PICK i \in 1..Len(list) : k = list[i]
      BY <1>4, <1>8
    <2>2. i - 1 \in 1..(Len(list) - 1) /\ (i - 1) + 1 = i
      BY <1>1, <1>8, <2>1
    <2>3. Tail(list)[i - 1] = k
      BY <1>3, <2>1, <2>2
    <2> QED
      BY <1>5, <2>2, <2>3
  <1>9. Range(list) = {Head(list)} \cup Range(Tail(list))
    BY <1>6, <1>7, <1>8
  <1>10. Len(list) > 1 <=> Tail(list) # <<>>
    BY <1>1, <1>2
  <1> QED
    BY <1>1, <1>2, <1>6, <1>9, <1>10

\* A page holds some of the keys listed, and all if they fit.
LEMMA FirstPageOfKeys ==
    ASSUME NEW list \in Seq(Key), list # <<>>
    PROVE  /\ firstPage(list) \in Seq(Key) /\ firstPage(list) # <<>>
           /\ Range(firstPage(list)) \subseteq Range(list)
           /\ Len(list) <= PageSize => firstPage(list) = list
  <1> DEFINE n == IF Len(list) < PageSize THEN Len(list) ELSE PageSize
  <1>1. n \in 1..Len(list) /\ (Len(list) <= PageSize => n = Len(list))
    BY PageAssumption
  <1>2. firstPage(list) = SubSeq(list, 1, n)
    BY DEF firstPage
  <1> HIDE DEF n
  <1>3. SubSeq(list, 1, n) \in Seq(Key) /\ Len(SubSeq(list, 1, n)) = n
        /\ \A i \in 1..n : SubSeq(list, 1, n)[i] = list[i]
    BY <1>1
  <1>4. Range(firstPage(list)) \subseteq Range(list)
    BY <1>1, <1>2, <1>3 DEF Range
  <1>5. n = Len(list) => SubSeq(list, 1, n) = list
    BY <1>3
  <1> QED
    BY <1>1, <1>2, <1>3, <1>4, <1>5

-----------------------------------------------------------------------------

\* The steps of r alone change what r has in hand, and not the bucket.
ReaderStep(r) ==
    /\ UNCHANGED storeVars
    /\ \A q \in Reader \ {r} :
          /\ pc'[q] = pc[q] /\ todo'[q] = todo[q]
          /\ copy'[q] = copy[q] /\ steady'[q] = steady[q]

\* A reader's step is not seen by the other readers.
LEMMA OthersKeepReading ==
    ASSUME ReadersInv, NEW r \in Reader, ReaderStep(r), ReadTypeOK', Reading(r)'
    PROVE  ReadersInv'
  <1>1. BucketInv'
    BY DEF ReadersInv, BucketInv, ReaderStep, storeVars
  <1>2. ASSUME NEW q \in Reader \ {r} PROVE Reading(q)'
    BY DEF ReadersInv, Reading, ReaderStep, storeVars, Stored, unverified, OnePage
  <1> QED
    BY <1>1, <1>2 DEF ReadersInv

\* Before they start readers have nothing in hand.
LEMMA ReadersInit ==
    ASSUME StoreInit, pc = [r \in Reader |-> "idle"], todo = [r \in Reader |-> <<>>],
           copy = [r \in Reader |-> Nothing], steady = [r \in Reader |-> {}]
    PROVE  ReadersInv
  <1>1. BucketInv
    BY DEF StoreInit, BucketInv, Status
  <1>2. ReadTypeOK
    BY DEF ReadTypeOK, Nothing, Status
  <1>3. \A r \in Reader : Reading(r)
    BY DEF Reading, Nothing
  <1> QED
    BY <1>1, <1>2, <1>3 DEF ReadersInv

\* A reader with no more to fetch, and no more in hand than before.
LEMMA SettlePreserves ==
    ASSUME ReadersInv, NEW r \in Reader, ReaderStep(r), ReadTypeOK',
           pc'[r] # "fetching",
           Range(todo'[r]) \subseteq Range(todo[r]), steady'[r] \subseteq steady[r],
           \A k \in Key : copy'[r][k] # "none" =>
               copy'[r][k] = copy[r][k] /\ k \in Range(todo'[r])
    PROVE  ReadersInv'
  <1>1. Reading(r) /\ BucketInv
    BY DEF ReadersInv
  <1>2. ReadTypeOK
    BY DEF ReadersInv
  <1>3. \A k \in Key : copy'[r][k] # "none" => k \in booted' /\ k \in Range(todo'[r])
    BY <1>1 DEF Reading, ReaderStep, storeVars
  <1>4. \A k \in Key : unverified(r, k)' => unverified(r, k)
    BY DEF unverified
  <1>5. \A k \in Key :
            unverified(r, k)' /\ copy'[r][k] = "valid" => object'[k] = "valid"
    BY <1>1, <1>4 DEF Reading, ReaderStep, storeVars
  <1>6. \A k \in steady'[r] :
            copy'[r][k] # "expired" /\ (unverified(r, k)' => object'[k] = "valid")
    BY <1>1, <1>2, <1>4 DEF Reading, ReaderStep, storeVars, ReadTypeOK
  <1>7. Reading(r)'
    BY <1>3, <1>5, <1>6 DEF Reading
  <1> QED
    BY <1>7, OthersKeepReading

\* A reader that fails or panics drops what it has in hand.
LEMMA GiveUpPreserves ==
    ASSUME ReadersInv, NEW r \in Reader, NEW label, label # "fetching",
           giveUp(r, label), UNCHANGED storeVars
    PROVE  ReadersInv' /\ ReaderStep(r)
           /\ pc'[r] = label /\ todo'[r] = <<>> /\ steady'[r] = {}
  <1>1. ReadTypeOK
    BY DEF ReadersInv
  <1>2. /\ pc'[r] = label /\ todo'[r] = <<>> /\ steady'[r] = {} /\ copy'[r] = Nothing
        /\ ReaderStep(r)
    BY <1>1 DEF giveUp, goto, ReadTypeOK, ReaderStep
  <1>3. ReadTypeOK'
    <2>1. <<>> \in Seq(Key) /\ Nothing \in [Key -> Status]
      BY DEF Nothing, Status
    <2> QED
      BY <1>1, <2>1 DEF giveUp, goto, ReadTypeOK
  <1>4. Range(<<>>) = {}
    BY DEF Range
  <1>5. \A k \in Key : copy'[r][k] = "none"
    BY <1>2 DEF Nothing
  <1> QED
    BY <1>2, <1>3, <1>4, <1>5, SettlePreserves

-----------------------------------------------------------------------------
\* Fetching.

\* list_objects_v2: what is to be fetched are the keys of one page.
LEMMA ListPreserves ==
    ASSUME ReadersInv, NEW r \in Reader, NEW ready, listObjects(r, ready),
           ready # "fetching", todo[r] = <<>>
    PROVE  /\ ReadersInv' /\ ReaderStep(r)
           /\ \/ pc'[r] = "fetching"
              \/ pc'[r] \in {"failed", "panicked"} /\ todo'[r] = <<>>
  <1>1. ReadTypeOK /\ BucketInv /\ Reading(r)
    BY DEF ReadersInv
  <1>2. CASE giveUp(r, "failed") \/ giveUp(r, "panicked")
    <2>1. UNCHANGED storeVars
      BY DEF listObjects
    <2> QED
      BY <1>2, <2>1, GiveUpPreserves
  <1>3. CASE /\ Stored # {}
             /\ goto(r, "fetching")
             /\ todo' = [todo EXCEPT ![r] = firstPage(InOrder(Stored))]
             /\ steady' = [steady EXCEPT ![r] = {k \in Key : object[k] = "valid"}]
             /\ UNCHANGED copy
    <2> DEFINE list == InOrder(Stored)
               page == firstPage(list)
    <2>1. /\ list \in Seq(Key) /\ Range(list) = Stored /\ Len(list) = Cardinality(Stored)
          /\ list # <<>>
      <3>1. Stored \in SUBSET Key
        BY DEF Stored
      <3>2. Range(<<>>) = {}
        BY DEF Range
      <3> HIDE DEF Stored
      <3>3. list \in Seq(Stored) /\ Range(list) = Stored /\ Len(list) = Cardinality(Stored)
        BY <3>1, InOrderListsAll
      <3> QED
        BY <1>3, <3>1, <3>2, <3>3
    <2>2. /\ page \in Seq(Key) /\ page # <<>> /\ Range(page) \subseteq Stored
          /\ OnePage => Range(page) = Stored
      <3>1. Cardinality(Stored) \in Nat /\ Cardinality(Key) \in Nat
            /\ Cardinality(Stored) <= Cardinality(Key)
        BY KeysAssumption, FS_Subset, FS_CardinalityType DEF Stored
      <3>2. OnePage => Len(list) <= PageSize
        BY <2>1, <3>1, PageAssumption DEF OnePage
      <3> HIDE DEF list
      <3> QED
        BY <2>1, <3>2, FirstPageOfKeys
    <2> HIDE DEF page
    <2>3. /\ pc'[r] = "fetching" /\ todo'[r] = page /\ copy'[r] = copy[r]
          /\ steady'[r] = {k \in Key : object[k] = "valid"}
          /\ UNCHANGED storeVars /\ ReaderStep(r)
      BY <1>1, <1>3 DEF page, listObjects, goto, ReadTypeOK, ReaderStep
    <2>4. ReadTypeOK'
      <3>1. DOMAIN pc' = Reader /\ copy' \in [Reader -> [Key -> Status]]
        BY <1>1, <1>3 DEF goto, ReadTypeOK
      <3>2. todo' \in [Reader -> Seq(Key)]
        BY <1>1, <1>3, <2>2 DEF page, ReadTypeOK
      <3>3. steady' \in [Reader -> SUBSET Key]
        BY <1>1, <1>3 DEF ReadTypeOK
      <3> QED
        BY <3>1, <3>2, <3>3 DEF ReadTypeOK
    <2>5. \A k \in Key : copy[r][k] = "none"
      <3>1. Range(<<>>) = {}
        BY DEF Range
      <3>2. pc[r] # "fetching"
        BY DEF listObjects
      <3> QED
        BY <1>1, <3>1, <3>2 DEF Reading
    <2>6. steady'[r] \subseteq Stored
      BY <2>3 DEF Stored
    <2>7. Reading(r)'
      BY <2>2, <2>3, <2>5, <2>6 DEF Reading, storeVars, Stored, OnePage
    <2> QED
      BY <2>3, <2>4, <2>7, OthersKeepReading
  <1> QED
    BY <1>2, <1>3 DEF listObjects

\* The last object is followed by the list of all that were fetched; of a full
\* listing no steady signer is missing from it.
LEMMA GetPreserves ==
    ASSUME ReadersInv, NEW r \in Reader, getObject(r)
    PROVE  /\ ReadersInv' /\ ReaderStep(r)
           /\ \/ pc'[r] \in {"fetching", "failed"}
              \/ /\ pc'[r] = "fetched" /\ todo'[r] # <<>>
                 /\ OnePage => \A k \in steady'[r] :
                                  k \in Range(todo'[r]) /\ copy'[r][k] = "valid"
  <1> DEFINE h == Head(todo[r])
             fetched == {a \in Key : copy'[r][a] # "none"}
  <1>1. /\ ReadTypeOK /\ BucketInv /\ Reading(r)
        /\ pc[r] = "fetching" /\ UNCHANGED storeVars
    BY DEF ReadersInv, getObject
  <1>2. CASE giveUp(r, "failed")
    BY <1>1, <1>2, GiveUpPreserves
  <1>3. CASE /\ copy' = [copy EXCEPT ![r][h] = object[h]]
             /\ IF Len(todo[r]) > 1
                THEN todo' = [todo EXCEPT ![r] = Tail(@)] /\ UNCHANGED pc
                ELSE /\ todo' = [todo EXCEPT ![r] = InOrder(fetched)]
                     /\ goto(r, "fetched")
             /\ UNCHANGED steady
    <2>1. /\ todo[r] \in Seq(Key) /\ todo[r] # <<>> /\ Range(todo[r]) \subseteq Stored
          /\ copy[r] \in [Key -> Status] /\ steady[r] \in SUBSET Key
      BY <1>1 DEF Reading, ReadTypeOK
    <2>2. /\ h \in Key /\ h \in Stored /\ Tail(todo[r]) \in Seq(Key)
          /\ Range(todo[r]) = {h} \cup Range(Tail(todo[r]))
          /\ Len(todo[r]) > 1 <=> Tail(todo[r]) # <<>>
      BY <2>1, HeadAndTail
    <2>3. /\ copy'[r][h] = object[h]
          /\ \A k \in Key \ {h} : copy'[r][k] = copy[r][k]
          /\ copy' \in [Reader -> [Key -> Status]]
          /\ steady' \in [Reader -> SUBSET Key] /\ steady'[r] = steady[r]
      BY <1>1, <1>3, <2>1, <2>2 DEF ReadTypeOK, BucketInv
    <2> HIDE DEF h
    <2>4. /\ InOrder(fetched) \in Seq(Key) /\ Range(InOrder(fetched)) = fetched
      <3>1. fetched \in SUBSET Key
        OBVIOUS
      <3> HIDE DEF fetched
      <3>2. InOrder(fetched) \in Seq(fetched) /\ Range(InOrder(fetched)) = fetched
        BY <3>1, InOrderListsAll
      <3> QED
        BY <3>1, <3>2
    <2>5. ReaderStep(r)
      BY <1>1, <1>3 DEF ReaderStep, ReadTypeOK, goto
    <2>6. \A k \in Key :
             /\ copy'[r][k] # "none" => k \in booted'
             /\ copy'[r][k] = "valid" => object'[k] = "valid"
      BY <1>1, <2>2, <2>3 DEF Reading, BucketInv, storeVars, unverified
    <2>7. \A k \in steady'[r] : copy'[r][k] # "expired" /\ object'[k] = "valid"
      BY <1>1, <2>1, <2>2, <2>3 DEF Reading, storeVars, unverified
    <2>8. OnePage =>
             \A k \in steady'[r] : k \in Range(Tail(todo[r])) \/ copy'[r][k] # "none"
      BY <1>1, <2>1, <2>2, <2>3 DEF Reading, Stored
    <2>9. CASE Len(todo[r]) > 1
      <3>1. pc'[r] = "fetching" /\ todo'[r] = Tail(todo[r])
            /\ DOMAIN pc' = Reader /\ todo' \in [Reader -> Seq(Key)]
        BY <1>1, <1>3, <2>2, <2>9 DEF ReadTypeOK
      <3>2. Reading(r)'
        <4>1. Stored' = Stored
          BY <1>1 DEF Stored, storeVars
        <4> QED
          BY <2>1, <2>2, <2>6, <2>7, <2>8, <2>9, <3>1, <4>1 DEF Reading, OnePage
      <3> QED
        BY <2>3, <2>5, <3>1, <3>2, OthersKeepReading DEF ReadTypeOK
    <2>10. CASE ~(Len(todo[r]) > 1)
      <3>1. pc'[r] = "fetched" /\ todo'[r] = InOrder(fetched)
            /\ DOMAIN pc' = Reader /\ todo' \in [Reader -> Seq(Key)]
        BY <1>1, <1>3, <2>4, <2>10 DEF ReadTypeOK, goto
      <3>2. Range(Tail(todo[r])) = {}
        BY <2>2, <2>10 DEF Range
      <3>3. \A k \in Key : copy'[r][k] # "none" <=> k \in Range(todo'[r])
        BY <2>4, <3>1
      <3>4. Reading(r)'
        BY <2>6, <2>7, <3>1, <3>3 DEF Reading
      <3>5. todo'[r] # <<>>
        <4>1. h \in Range(todo'[r])
          BY <2>2, <2>3, <3>3 DEF Stored
        <4> QED
          BY <4>1 DEF Range
      <3>6. OnePage => \A k \in steady'[r] :
                          k \in Range(todo'[r]) /\ copy'[r][k] = "valid"
        BY <2>1, <2>3, <2>7, <2>8, <3>2, <3>3 DEF Status
      <3> QED
        BY <2>3, <2>5, <3>1, <3>4, <3>5, <3>6, OthersKeepReading DEF ReadTypeOK
    <2> QED
      BY <2>9, <2>10
  <1> QED
    BY <1>2, <1>3 DEF getObject

-----------------------------------------------------------------------------
\* The bucket behind the readers' backs.

\* A host's step, or one that makes attestations and copies older.
LEMMA BucketStepPreserves ==
    ASSUME ReadersInv, bucketStep
    PROVE  /\ ReadersInv' /\ UNCHANGED <<pc, todo>>
           /\ booted \subseteq booted'
           /\ \A r \in Reader : steady'[r] \subseteq steady[r]
           /\ \A r \in Reader : \A k \in steady'[r] : copy'[r][k] = copy[r][k]
           /\ \A r \in Reader, k \in Key :
                 copy'[r][k] # copy[r][k] => copy[r][k] = "valid" /\ copy'[r][k] = "expired"
  <1>1. ReadTypeOK /\ BucketInv /\ \A r \in Reader : Reading(r)
    BY DEF ReadersInv
  <1>2. CASE hostStep
    <2>1. PICK k \in Key : boot(k) \/ save(k)
      BY <1>2 DEF hostStep
    <2>2. UNCHANGED <<pc, todo, copy, steady>>
      BY <1>2 DEF hostStep, readVars
    <2>3. BucketInv' /\ booted \subseteq booted'
      BY <1>1, <2>1 DEF BucketInv, boot, save, Status
    <2>4. \A a \in Key : /\ object[a] = "valid" => object'[a] = "valid"
                         /\ object[a] # "none" => object'[a] # "none"
      BY <1>1, <2>1 DEF BucketInv, boot, save
    <2>5. Stored \subseteq Stored'
      BY <2>4 DEF Stored
    <2>6. ASSUME NEW r \in Reader PROVE Reading(r)'
      BY <1>1, <2>2, <2>3, <2>4, <2>5 DEF Reading, unverified, OnePage, ReadTypeOK
    <2> QED
      BY <1>1, <2>2, <2>3, <2>6 DEF ReadersInv, ReadTypeOK
  <1>3. ASSUME NEW k \in Key, lapse(k)
        PROVE  /\ ReadersInv' /\ UNCHANGED <<pc, todo, booted>>
               /\ \A r \in Reader : steady'[r] \subseteq steady[r]
               /\ \A r \in Reader : \A a \in steady'[r] : copy'[r][a] = copy[r][a]
               /\ \A r \in Reader, a \in Key :
                     copy'[r][a] # copy[r][a] =>
                        copy[r][a] = "valid" /\ copy'[r][a] = "expired"
    <2>1. /\ UNCHANGED <<pc, todo, booted>>
          /\ object' = [a \in Key |-> IF a \in {k} THEN "expired" ELSE object[a]]
          /\ object[k] = "valid"
      BY <1>3 DEF lapse, expire
    <2>2. BucketInv' /\ Stored' = Stored
      <3>1. BucketInv'
        BY <1>1, <2>1 DEF BucketInv, Status
      <3> QED
        BY <2>1, <3>1 DEF Stored
    <2>3. ASSUME NEW r \in Reader
          PROVE  /\ copy'[r] = IF unverified(r, k) /\ copy[r][k] = "valid"
                               THEN [copy[r] EXCEPT ![k] = "expired"] ELSE copy[r]
                 /\ steady'[r] = IF unverified(r, k) THEN steady[r] \ {k} ELSE steady[r]
      BY <1>3 DEF lapse
    <2>4. /\ DOMAIN copy' = Reader /\ DOMAIN steady' = Reader
          /\ copy' = [r \in Reader |-> copy'[r]] /\ steady' = [r \in Reader |-> steady'[r]]
      BY <1>3 DEF lapse
    <2>5. ReadTypeOK'
      <3>1. ASSUME NEW r \in Reader
            PROVE  copy'[r] \in [Key -> Status] /\ steady'[r] \in SUBSET Key
        <4>1. copy[r] \in [Key -> Status] /\ steady[r] \in SUBSET Key
          BY <1>1 DEF ReadTypeOK
        <4>2. "expired" \in Status
          BY DEF Status
        <4>3. [copy[r] EXCEPT ![k] = "expired"] \in [Key -> Status]
          BY <4>1, <4>2
        <4>4. copy'[r] \in [Key -> Status]
          BY <2>3, <4>1, <4>3
        <4>5. steady[r] \ {k} \in SUBSET Key
          BY <4>1
        <4>6. steady'[r] \in SUBSET Key
          BY <2>3, <4>1, <4>5
        <4> QED
          BY <4>4, <4>6
      <3> QED
        BY <1>1, <2>1, <2>4, <3>1 DEF ReadTypeOK
    <2>6. ASSUME NEW r \in Reader
          PROVE  /\ \A a \in Key \ {k} : copy'[r][a] = copy[r][a]
                 /\ copy'[r][k] = IF unverified(r, k) /\ copy[r][k] = "valid"
                                  THEN "expired" ELSE copy[r][k]
      BY <1>1, <2>3 DEF ReadTypeOK
    <2>7. ASSUME NEW r \in Reader PROVE Reading(r)'
      <3>1. Reading(r) /\ copy[r] \in [Key -> Status] /\ steady[r] \subseteq Key
        BY <1>1 DEF ReadTypeOK
      <3>2. \A a \in Key : unverified(r, a)' <=> unverified(r, a)
        BY <2>1 DEF unverified
      <3>3. \A a \in Key : /\ copy'[r][a] # "none" <=> copy[r][a] # "none"
                           /\ copy'[r][a] = "valid" => copy[r][a] = "valid"
        BY <2>6
      <3>4. pc[r] # "fetching" =>
               \A a \in Key : copy[r][a] # "none" => unverified(r, a)
        BY <3>1 DEF Reading, unverified
      <3>5. \A a \in Key :
               unverified(r, a)' /\ copy'[r][a] = "valid" => object'[a] = "valid"
        BY <2>1, <2>6, <3>1, <3>2, <3>3 DEF Reading
      <3>6. \A a \in steady'[r] :
               copy'[r][a] # "expired" /\ (unverified(r, a)' => object'[a] = "valid")
        BY <2>1, <2>3, <2>6, <3>1, <3>2 DEF Reading
      <3> QED
        BY <2>1, <2>2, <2>3, <3>1, <3>3, <3>5, <3>6 DEF Reading, OnePage
    <2>8. ASSUME NEW r \in Reader, NEW a \in steady'[r] PROVE copy'[r][a] = copy[r][a]
      BY <1>1, <2>3, <2>6, <2>8 DEF ReadTypeOK
    <2> QED
      BY <2>1, <2>2, <2>3, <2>5, <2>6, <2>7, <2>8 DEF ReadersInv
  <1>4. ASSUME NEW k \in Key, NEW q \in Reader, lapseCopy(q, k)
        PROVE  /\ ReadersInv' /\ UNCHANGED <<pc, todo, booted>>
               /\ \A r \in Reader : steady'[r] \subseteq steady[r]
               /\ \A r \in Reader : \A a \in steady'[r] : copy'[r][a] = copy[r][a]
               /\ \A r \in Reader, a \in Key :
                     copy'[r][a] # copy[r][a] =>
                        copy[r][a] = "valid" /\ copy'[r][a] = "expired"
    <2>1. UNCHANGED <<pc, todo, booted>> /\ UNCHANGED storeVars /\ copy[q][k] = "valid"
      BY <1>4 DEF lapseCopy, storeVars
    <2>2. ReaderStep(q)
      BY <1>1, <1>4, <2>1 DEF lapseCopy, ReadTypeOK, ReaderStep
    <2>3. ReadTypeOK'
      BY <1>1, <1>4 DEF lapseCopy, ReadTypeOK, Status
    <2>4. /\ copy'[q][k] = "expired" /\ \A a \in Key \ {k} : copy'[q][a] = copy[q][a]
          /\ steady'[q] = steady[q] \ {k}
      BY <1>1, <1>4 DEF lapseCopy, ReadTypeOK
    <2>5. Reading(q)'
      <3>1. /\ Reading(q) /\ steady[q] \subseteq Key
            /\ booted' = booted /\ object' = object /\ Stored' = Stored
        BY <1>1, <2>1 DEF ReadTypeOK, storeVars, Stored
      <3>2. \A a \in Key : unverified(q, a)' <=> unverified(q, a)
        BY <2>1 DEF unverified
      <3>3. \A a \in Key : /\ copy'[q][a] # "none" <=> copy[q][a] # "none"
                           /\ copy'[q][a] = "valid" => copy[q][a] = "valid"
        BY <2>1, <2>4
      <3>4. \A a \in steady'[q] : a # k /\ a \in steady[q] /\ copy'[q][a] = copy[q][a]
        BY <2>4, <3>1
      <3> QED
        BY <2>1, <3>1, <3>2, <3>3, <3>4 DEF Reading, OnePage
    <2>6. ReadersInv'
      BY <2>2, <2>3, <2>5, OthersKeepReading
    <2>7. \A r \in Reader, a \in Key :
             copy'[r][a] # copy[r][a] => r = q /\ a = k
      BY <2>2, <2>4 DEF ReaderStep
    <2>8. \A r \in Reader : steady'[r] \subseteq steady[r]
      BY <2>2, <2>4 DEF ReaderStep
    <2>9. \A r \in Reader : \A a \in steady'[r] : copy'[r][a] = copy[r][a]
      BY <1>1, <2>2, <2>4, <2>7, <2>8 DEF ReadTypeOK
    <2> QED
      BY <2>1, <2>4, <2>6, <2>7, <2>8, <2>9
  <1> QED
    BY <1>2, <1>3, <1>4 DEF bucketStep
=============================================================================

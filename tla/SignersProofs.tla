---------------------------- MODULE SignersProofs ----------------------------
(***************************************************************************)
(* For any keys, images, versions, validations and calls: a signer is      *)
(* validated only if its enclave ran the measured image, a validation that *)
(* completes has seen to every signer it asked for, and GET /signers       *)
(* answers with what is valid then and misses none that was throughout.    *)
(*                                                                         *)
(* For validations the invariant says where each signer asked for is       *)
(* meanwhile: still to come, validated, or of another version.  That a     *)
(* valid attestation is of an enclave that was started is what the bucket  *)
(* adds.  For GET /signers it is what RawAttestationsProofs says of copies. *)
(***************************************************************************)
EXTENDS Signers, RawAttestationsProofs

ValidationTypeOK ==
    /\ registered \in SUBSET Key
    /\ vpc \in [Validation -> {"idle", "validating", "single", "complete", "panicked"}]
    /\ vtodo \in [Validation -> SUBSET Key]
    /\ asked \in [Validation -> SUBSET Key]
    /\ validated \in [Validation -> SUBSET Key]

Measured(v) == \A k \in validated[v] : k \in booted /\ ImageOf[k] = Pcr0[v]

SeenTo(v) ==
    /\ vpc[v] # "panicked" =>
          \A k \in asked[v] :
              k \in vtodo[v] \/ k \in validated[v] \/ versionOf(k) # Version[v]
    /\ vpc[v] = "complete" => vtodo[v] = {}

SignersInv ==
    /\ BucketInv /\ ValidationTypeOK
    /\ \A v \in Validation : Measured(v) /\ SeenTo(v)

\* Before the first validation there is nothing to validate.
LEMMA SignersInitEstablishes == SignersInit => SignersInv
  BY DEF SignersInit, StoreInit, SignersInv, BucketInv, ValidationTypeOK, Measured,
         SeenTo, Status

\* Steps of the bucket and of its readers.
LEMMA StorePreserves ==
    ASSUME SignersInv, UNCHANGED <<registered, validationVars>>,
           bucketStep \/ UNCHANGED storeVars
    PROVE  SignersInv'
  <1>1. BucketInv' /\ booted \subseteq booted'
    <2>1. CASE UNCHANGED storeVars
      BY <2>1 DEF SignersInv, BucketInv, storeVars
    <2>2. ASSUME NEW k \in Key, boot(k) \/ save(k) \/ expire({k})
          PROVE  BucketInv' /\ booted \subseteq booted'
      BY <2>2 DEF SignersInv, BucketInv, Status, boot, save, expire
    <2>3. CASE bucketStep /\ ~UNCHANGED storeVars
      BY <2>2, <2>3 DEF bucketStep, hostStep, lapse, lapseCopy
    <2> QED
      BY <2>1, <2>3
  <1>2. ValidationTypeOK'
    BY DEF SignersInv, ValidationTypeOK, validationVars
  <1>3. \A v \in Validation : Measured(v)' /\ SeenTo(v)'
    BY <1>1 DEF SignersInv, Measured, SeenTo, validationVars, versionOf
  <1> QED
    BY <1>1, <1>2, <1>3 DEF SignersInv

\* The owner's steps are none of a validation's.
LEMMA OwnerPreserves ==
    ASSUME SignersInv, ownerStep
    PROVE  SignersInv'
  <1>1. BucketInv' /\ ValidationTypeOK'
    BY DEF SignersInv, BucketInv, ValidationTypeOK, ownerStep, storeVars,
           validationVars, Stored
  <1>2. \A v \in Validation : Measured(v)' /\ SeenTo(v)'
    BY DEF SignersInv, Measured, SeenTo, ownerStep, storeVars, validationVars,
           versionOf
  <1> QED
    BY <1>1, <1>2 DEF SignersInv

\* A validation begins with every signer of the contract still to come.
LEMMA BeginPreserves ==
    ASSUME SignersInv, NEW v \in Validation, begin(v)
    PROVE  SignersInv'
  <1>1. BucketInv /\ ValidationTypeOK /\ \A w \in Validation : Measured(w) /\ SeenTo(w)
    BY DEF SignersInv
  <1>2. PICK signers \in SUBSET Key,
             label \in {"panicked", "complete", "validating", "single"} :
           /\ startValidation(v, signers, label)
           /\ label = "complete" => signers = {}
    BY <1>1 DEF begin, ValidationTypeOK
  <1>3. UNCHANGED <<storeVars, registered>>
    BY DEF begin
  <1>4. BucketInv' /\ ValidationTypeOK'
    BY <1>1, <1>2, <1>3 DEF BucketInv, ValidationTypeOK, startValidation, storeVars
  <1>5. \A w \in Validation : Measured(w)'
    BY <1>1, <1>2, <1>3 DEF Measured, startValidation, storeVars
  <1>6. \A w \in Validation : SeenTo(w)'
    BY <1>1, <1>2 DEF SeenTo, startValidation, ValidationTypeOK, versionOf
  <1> QED
    BY <1>4, <1>5, <1>6 DEF SignersInv

\* verify_attestation_for_signer is Ok of measured enclaves alone, and gives a
\* mismatch of versions only when there is one.
LEMMA VerifyForSignerIsRight ==
    ASSUME BucketInv, NEW v \in Validation, NEW k \in Key
    PROVE  /\ verifyForSigner(v, k) = "Ok" => k \in booted /\ ImageOf[k] = Pcr0[v]
           /\ verifyForSigner(v, k) = "VersionMismatch" => versionOf(k) # Version[v]
  BY DEF BucketInv, verifyForSigner

\* A signer is validated, skipped for its version, or the process panics.
LEMMA ValidatePreserves ==
    ASSUME SignersInv, NEW v \in Validation, validate(v)
    PROVE  SignersInv'
  <1> DEFINE
        outcome(k, result) ==
           /\ result = "GetAttestationError" \/ result = verifyForSigner(v, k)
           /\ \/ /\ passes(v, result)
                 /\ vtodo' = [vtodo EXCEPT ![v] = @ \ {k}]
                 /\ vpc' = [vpc EXCEPT ![v] = IF vtodo[v] = {k} THEN "complete" ELSE @]
                 /\ validated' = [validated EXCEPT ![v] =
                                     IF result = "Ok" THEN @ \cup {k} ELSE @]
              \/ /\ vtodo' = [vtodo EXCEPT ![v] = {}]
                 /\ vpc' = [vpc EXCEPT ![v] = "panicked"]
                 /\ UNCHANGED validated
  <1>1. BucketInv /\ ValidationTypeOK /\ \A w \in Validation : Measured(w) /\ SeenTo(w)
    BY DEF SignersInv
  <1>2. /\ vpc[v] \in {"validating", "single"}
        /\ UNCHANGED <<storeVars, registered, asked>>
    BY DEF validate
  <1>3. BucketInv'
    BY <1>1, <1>2 DEF BucketInv, storeVars
  <1>4. PICK k \in vtodo[v] : \E result : outcome(k, result)
    BY DEF validate
  <1> PICK result : outcome(k, result)
    BY <1>4
  <1>5. k \in Key
    BY <1>1 DEF ValidationTypeOK
  <1>6. /\ result = "Ok" => k \in booted /\ ImageOf[k] = Pcr0[v]
        /\ passes(v, result) => result = "Ok" \/ versionOf(k) # Version[v]
    BY <1>1, <1>5, VerifyForSignerIsRight DEF passes
  <1>7. ValidationTypeOK'
    BY <1>1, <1>2, <1>4, <1>5 DEF ValidationTypeOK
  <1>8. \A w \in Validation : Measured(w)'
    BY <1>1, <1>2, <1>4, <1>6 DEF Measured, ValidationTypeOK, storeVars
  <1>9. \A w \in Validation : SeenTo(w)'
    BY <1>1, <1>2, <1>4, <1>6 DEF SeenTo, ValidationTypeOK, versionOf
  <1> QED
    BY <1>3, <1>7, <1>8, <1>9 DEF SignersInv

\* Every step of bucket, readers, owner and validations.
LEMMA SignersNextPreserves == SignersInv /\ [SignersNext]_signersVars => SignersInv'
  <1> SUFFICES ASSUME SignersInv, [SignersNext]_signersVars PROVE SignersInv'
    OBVIOUS
  <1>1. CASE bucketStep /\ UNCHANGED <<answer, registered, validationVars>>
    BY <1>1, StorePreserves
  <1>2. CASE ownerStep
    BY <1>2, OwnerPreserves
  <1>3. ASSUME NEW g \in Request, getSigners(g) PROVE SignersInv'
    <2>1. UNCHANGED <<storeVars, registered, validationVars>>
      BY <1>3 DEF getSigners, listObjects, getObject, answerSigners
    <2> QED
      BY <2>1, StorePreserves
  <1>4. ASSUME NEW v \in Validation, begin(v) \/ validate(v) PROVE SignersInv'
    BY <1>4, BeginPreserves, ValidatePreserves
  <1>5. CASE UNCHANGED signersVars
    BY <1>5, StorePreserves DEF signersVars
  <1> QED
    BY <1>1, <1>2, <1>3, <1>4, <1>5 DEF SignersNext

\* validate_signers.rs:79: a signer that a validation prints as validated ran the
\* image of --pcr0, and a validation that completes has validated every signer the
\* contract had when it asked but those of another version.
THEOREM ValidatedAlwaysRanImage == SignersSpec => []ValidatedRanImage
  <1>1. SignersInv => ValidatedRanImage
    BY DEF SignersInv, ValidatedRanImage, Measured, SeenTo
  <1> QED
    BY <1>1, SignersInitEstablishes, SignersNextPreserves, PTL DEF SignersSpec

-----------------------------------------------------------------------------
(***************************************************************************)
(* GET /signers.  The bucket changes between the fetches and after them,   *)
(* so what is in hand must be followed from the listing to the answer: a   *)
(* copy that is valid still has a valid original, and of a full listing    *)
(* none is missing that stayed valid throughout.                           *)
(***************************************************************************)

\* What a call has in hand before it fetches, and when it has fetched.
CallInv(g) ==
    /\ pc[g] = "idle" => todo[g] = <<>>
    /\ pc[g] = "fetched" /\ OnePage => \A k \in steady[g] : copy[g][k] = "valid"

CallsInv == ReadersInv /\ DOMAIN answer = Request /\ \A g \in Request : CallInv(g)

\* Before the first call there are no copies.
LEMMA CallsInitEstablishes == SignersInit => CallsInv
  <1> SUFFICES ASSUME SignersInit PROVE CallsInv
    OBVIOUS
  <1>1. ReadersInv
    BY ReadersInit DEF SignersInit
  <1>2. \A g \in Request : CallInv(g)
    BY RequestAssumption DEF SignersInit, CallInv
  <1>3. DOMAIN answer = Request
    BY DEF SignersInit
  <1> QED
    BY <1>1, <1>2, <1>3 DEF CallsInv

\* A step of one call is not seen by the others.
LEMMA OtherCallsKeep ==
    ASSUME CallsInv, NEW g \in Request, ReadersInv', ReaderStep(g), CallInv(g)',
           DOMAIN answer' = Request
    PROVE  CallsInv'
  BY RequestAssumption DEF CallsInv, CallInv, ReaderStep, OnePage

\* A call that answers is over.
LEMMA AnswerPreserves ==
    ASSUME CallsInv, NEW g \in Request, answerSigners(g)
    PROVE  CallsInv' /\ ReaderStep(g)
  <1>1. g \in Reader /\ ReadTypeOK /\ pc[g] = "fetched"
    BY RequestAssumption DEF CallsInv, ReadersInv, answerSigners
  <1>2. /\ pc'[g] = "answered" /\ todo'[g] = <<>> /\ copy'[g] = Nothing
        /\ steady'[g] = steady[g] /\ ReaderStep(g)
    BY <1>1 DEF answerSigners, goto, ReadTypeOK, ReaderStep
  <1>3. ReadTypeOK'
    <2>1. <<>> \in Seq(Key) /\ Nothing \in [Key -> Status]
      BY DEF Nothing, Status
    <2> QED
      BY <1>1, <2>1 DEF answerSigners, goto, ReadTypeOK
  <1>4. Range(<<>>) = {} /\ \A k \in Key : copy'[g][k] = "none"
    BY <1>2 DEF Range, Nothing
  <1>5. ReadersInv'
    BY <1>1, <1>2, <1>3, <1>4, SettlePreserves DEF CallsInv
  <1>6. CallInv(g)'
    BY <1>2 DEF CallInv
  <1>7. DOMAIN answer' = Request
    BY DEF CallsInv, answerSigners
  <1> QED
    BY <1>2, <1>5, <1>6, <1>7, OtherCallsKeep

\* A call that lists or fetches has not answered.
LEMMA FetchPreserves ==
    ASSUME CallsInv, NEW g \in Request, listObjects(g, "idle") \/ getObject(g),
           UNCHANGED answer
    PROVE  CallsInv' /\ ReaderStep(g) /\ pc'[g] # "answered"
  <1>1. g \in Reader /\ DOMAIN answer' = Request
    BY RequestAssumption DEF CallsInv
  <1>2. CASE listObjects(g, "idle")
    <2>1. pc[g] = "idle" /\ todo[g] = <<>>
      BY <1>2 DEF listObjects, CallsInv, CallInv
    <2>2. ReadersInv' /\ ReaderStep(g) /\ pc'[g] \in {"fetching", "failed", "panicked"}
      BY <1>1, <1>2, <2>1, ListPreserves DEF CallsInv
    <2>3. CallInv(g)'
      BY <2>2 DEF CallInv
    <2> QED
      BY <1>1, <2>2, <2>3, OtherCallsKeep
  <1>3. CASE getObject(g)
    <2>1. /\ ReadersInv' /\ ReaderStep(g) /\ pc'[g] \in {"fetching", "failed", "fetched"}
          /\ pc'[g] = "fetched" /\ OnePage => \A k \in steady'[g] : copy'[g][k] = "valid"
      BY <1>1, <1>3, GetPreserves DEF CallsInv
    <2>2. CallInv(g)'
      BY <2>1 DEF CallInv, OnePage
    <2> QED
      BY <1>1, <2>1, <2>2, OtherCallsKeep
  <1> QED
    BY <1>2, <1>3

\* Every step, of the calls and of all else.
LEMMA CallsNextPreserves == CallsInv /\ [SignersNext]_signersVars => CallsInv'
  <1> SUFFICES ASSUME CallsInv, [SignersNext]_signersVars PROVE CallsInv'
    OBVIOUS
  <1>1. CASE bucketStep /\ UNCHANGED answer
    <2>1. /\ ReadersInv' /\ UNCHANGED <<pc, todo>>
          /\ \A r \in Reader : steady'[r] \subseteq steady[r]
          /\ \A r \in Reader : \A k \in steady'[r] : copy'[r][k] = copy[r][k]
      BY <1>1, BucketStepPreserves DEF CallsInv
    <2>2. \A g \in Request : CallInv(g)'
      BY <2>1, RequestAssumption DEF CallsInv, CallInv, OnePage
    <2> QED
      BY <1>1, <2>1, <2>2 DEF CallsInv
  <1>2. CASE UNCHANGED <<storeVars, pc, todo, copy, steady, answer>>
    <2>1. ReadersInv'
      BY <1>2 DEF CallsInv, ReadersInv, BucketInv, ReadTypeOK, Reading, unverified,
                  Stored, storeVars, OnePage
    <2>2. \A g \in Request : CallInv(g)'
      BY <1>2 DEF CallsInv, CallInv, OnePage
    <2> QED
      BY <1>2, <2>1, <2>2 DEF CallsInv
  <1>3. ASSUME NEW g \in Request, getSigners(g) PROVE CallsInv'
    BY <1>3, AnswerPreserves, FetchPreserves DEF getSigners
  <1>4. ASSUME NEW v \in Validation, begin(v) \/ validate(v) PROVE CallsInv'
    BY <1>2, <1>4 DEF begin, validate, readVars
  <1>5. CASE ownerStep \/ UNCHANGED signersVars
    BY <1>2, <1>5 DEF ownerStep, signersVars, readVars
  <1> QED
    BY <1>1, <1>3, <1>4, <1>5 DEF SignersNext

\* The signers of a current answer, and those that must not be missing from it.
CurrentOf(g) == {k \in booted : object[k] = "valid" /\ versionOf(k) = Version[g]}
SteadyOf(g) == {k \in steady[g] : versionOf(k) = Version[g]}

\* The step that answers: what is valid in the copy is valid in the bucket.
LEMMA AnswerIsCurrent ==
    ASSUME CallsInv, NEW g \in Request, answerSigners(g)
    PROVE  /\ answer'[g] \subseteq CurrentOf(g)
           /\ OnePage => SteadyOf(g) \subseteq answer'[g]
  <1>1. /\ answer'[g] = {k \in Key : copy[g][k] = "valid" /\ versionOf(k) = Version[g]}
        /\ pc[g] = "fetched"
    BY DEF CallsInv, answerSigners, verified
  <1>2. g \in Reader /\ Reading(g) /\ steady[g] \subseteq Key
    BY RequestAssumption DEF CallsInv, ReadersInv, ReadTypeOK
  <1>3. ASSUME NEW k \in Key, copy[g][k] = "valid"
        PROVE  k \in booted /\ object[k] = "valid"
    BY <1>1, <1>2, <1>3 DEF Reading, unverified
  <1>4. OnePage => \A k \in steady[g] : copy[g][k] = "valid"
    BY <1>1 DEF CallsInv, CallInv
  <1> QED
    BY <1>1, <1>2, <1>3, <1>4 DEF CurrentOf, SteadyOf

\* Only its answer makes a call answered.
LEMMA AnsweredByAnswer ==
    ASSUME CallsInv, [SignersNext]_signersVars,
           NEW g \in Request, pc[g] # "answered", pc'[g] = "answered"
    PROVE  answerSigners(g)
  <1>1. CASE UNCHANGED pc
    BY <1>1
  <1>2. ASSUME NEW h \in Request, getSigners(h) PROVE answerSigners(g)
    <2>1. ReaderStep(h) /\ (answerSigners(h) \/ pc'[h] # "answered")
      BY <1>2, AnswerPreserves, FetchPreserves DEF getSigners
    <2>2. g = h
      BY <2>1, RequestAssumption DEF ReaderStep
    <2> QED
      BY <2>1, <2>2
  <1>3. CASE bucketStep
    BY <1>1, <1>3 DEF bucketStep, hostStep, lapse, lapseCopy, readVars
  <1>4. ASSUME NEW v \in Validation, begin(v) \/ validate(v) PROVE answerSigners(g)
    BY <1>1, <1>4 DEF begin, validate, readVars
  <1>5. CASE ownerStep \/ UNCHANGED signersVars
    BY <1>1, <1>5 DEF ownerStep, signersVars, readVars
  <1> QED
    BY <1>2, <1>3, <1>4, <1>5 DEF SignersNext

\* The inductive invariant of the calls.
THEOREM CallsInvariant == SignersSpec => []CallsInv
  BY CallsInitEstablishes, CallsNextPreserves, PTL DEF SignersSpec

\* server.rs, get_signers: what is answered has a valid attestation at the moment
\* of the answer, of an enclave that was started and of the server's version,
\* however large the bucket.
AnsweredAreValid ==
    [][\A g \in Request : pc[g] # "answered" /\ pc'[g] = "answered" =>
          answer'[g] \subseteq CurrentOf(g)]_signersVars

\* Whenever GET /signers answers, the signers are valid at that moment
\* (get_signers, host/bin/server.rs).
THEOREM AnswersAreValid == SignersSpec => AnsweredAreValid
  <1>1. CallsInv /\ [SignersNext]_signersVars =>
            [\A g \in Request : pc[g] # "answered" /\ pc'[g] = "answered" =>
                answer'[g] \subseteq CurrentOf(g)]_signersVars
    BY AnsweredByAnswer, AnswerIsCurrent
  <1> QED
    BY <1>1, CallsInvariant, PTL DEF SignersSpec, AnsweredAreValid

\* server.rs, get_signers, and attestations.rs:166: and while the objects fit on
\* the one page that is listed, no signer is missing from an answer that was
\* attested when the call began and did not expire under it.
THEOREM AnswersAreCurrent ==
    ASSUME OnePage
    PROVE  SignersSpec => SignersAreCurrent
  <1>1. CallsInv /\ [SignersNext]_signersVars =>
            [\A g \in Request : pc[g] # "answered" /\ pc'[g] = "answered" =>
                /\ answer'[g] \subseteq
                      {k \in booted : object[k] = "valid" /\ versionOf(k) = Version[g]}
                /\ {k \in steady[g] : versionOf(k) = Version[g]} \subseteq answer'[g]
            ]_signersVars
    BY AnsweredByAnswer, AnswerIsCurrent DEF CurrentOf, SteadyOf
  <1> QED
    BY <1>1, CallsInvariant, PTL DEF SignersSpec, SignersAreCurrent
=============================================================================

# sp1-tee in TLA+

sp1-tee runs SP1 programs inside an AWS Nitro enclave and has the enclave sign
what they output.  A host process serves HTTP, passes programs to its enclave
over vsock and keeps an attestation of the enclave's signing key in an S3
bucket.  An operator runs `setup`, which reads the bucket, verifies the
attestations and registers the addresses of the keys in the contract
`SP1TeeVerifier`; the contract then accepts an SP1 proof only with a signature
of a registered signer.

This directory models that chain from the enclave to the contract.  All paths
below are relative to the repository.  Sections: [inventory](#1-inventory),
[modules](#2-modules-and-how-they-correspond-to-the-code), [runs](#3-runs),
[fairness](#4-fairness), [proofs](#5-proofs), [divergences](#6-where-code-and-documentation-differ),
[limits](#7-what-is-not-modelled), [plan](#8-plan).

## 1. Inventory

| Component | State | Operations | Talks to |
|---|---|---|---|
| Signers map, `contracts/src/SignersMap.sol` | `signers` list, `isSignerMap`, `indexMap` | `addSigner`, `removeSigner` (swap and pop), `isSigner` | called by the verifier contract |
| `SP1TeeVerifier.sol`, `SimpleOwnable.sol` | owner, the map | `addSigner`, `removeSigner`, `getSigners`, `transferOwnership`, `renounceOwnership`, `verifyProof` | SP1 gateway, `ecrecover`; setup and validate_signers |
| Framed stream, `common/src/communication.rs`, `host/src/server/stream.rs` | bytes on a vsock connection; the close task of a dropped stream | `send`, `recv`, `Drop` (spawns: send `CloseSession`, close) | host and enclave |
| Enclave server, `enclave/src/server.rs` | signing key, execution guard; a task per connection; threads of the blocking pool | the seven requests, `attest_signing_key`, `execute` | host over vsock, security module |
| Host HTTP server, `host/bin/server.rs`, `host/src/server/auth.rs` | `execution_mutex`; a future per call | `POST /execute`, `GET /address`, `GET /signers` | clients through a proxy, whitelist service, enclave, S3 |
| `save_attestation`, `host/src/attestations.rs` | none | two requests at once, two answers, one put | enclave, S3 |
| Host life cycle, `host/src/server.rs`, `main` of `host/bin/server.rs`, `scripts/enclave.sh` | is there a server, an enclave, an attestation task; its timers | terminate, start, Ctrl-C, the loop of `spawn_attestation_task` | enclave, S3 |
| `get_raw_attestations`, `host/src/attestations.rs` | the keys listed, the objects fetched so far | list, fetch | S3; called by setup and `GET /signers` |
| Setup, `host/bin/setup.rs`, with `contracts/script/Deploy.s.sol` | the deployment file; where it is in the list; a pending transaction | deploy, load, list, fetch, verify, `isSigner`, `addSigner`, `watch` | forge, S3, contract |
| `validate_signers`, `host/bin/validate_signers.rs` | where it is in the list | `getSigners`, `verify_attestation_for_signer` | S3, contract |
| Enclave `main`, `enclave/src/ffi` | none | bindings to the C SDK, unused so far | - |
| Install and proxy scripts, nginx, Dockerfile | none | provisioning | - |

What makes each of them correct, and what is hard about it:

* **Signers map.** List, map and index stay three views of one set after any
  sequence of calls.  Hard: the index of the signer that fills the hole.
* **Verifier contract.** `verifyProof` accepts a proof exactly if it is well
  formed, its signature is by a registered signer over this program and these
  values, and the gateway accepts the inner proof; zero, which `ecrecover`
  returns for rubbish, is never registered; a renounced contract is frozen.
  Hard: the bounds of the slices and the `uint8` sum.
* **Stream and enclave.** One execution at a time; the n-th answer answers the
  n-th request.  Hard: an await dropped in the middle of a frame, which the
  `CloseSession` sent on drop then completes; executions that nobody waits for
  any more; panics; the pool at its limit; a length that is allocated before
  its message is there.
* **Host server.** Callers see a fair queue that serves one at a time and are
  answered once, with the outcome of their own program; every call ends.  Hard:
  clients that leave at any await, or a process that ends, while programs run
  on; a dead enclave.
* **Attestation task.** The stored attestation of a running enclave never gets
  near its end unless saves keep failing.  Hard: retries, late ticks and ticks
  made up for, puts that fail and were done, kills and restarts, a second
  server that takes the first one's enclave away.
* **Setup, `GET /signers` and validation.** Only enclaves of the operator's
  image are registered or validated; what setup says is so; the signers
  answered are valid when they are answered; all attestations are seen;
  signers of other versions do not stop a validation.  Hard: the bucket and the
  contract change between the reads, another setup works or deploys at the same
  time, an owner intervenes, a transaction reverts after it was sent, a panic
  half-way.

## 2. Modules, and how they correspond to the code

```
 SignerSet <--implements-- SignersMap <--EXTENDS-- SP1TeeVerifier

 Frames --implements--> VsockStream (the host's side)
 VsockStream <--EXTENDS-- EnclaveServer <--EXTENDS-- TeeService --implements--> ExecutionQueue

 AttestationStore <--implements-- Attestations
 AttestationStore <--EXTENDS----- RawAttestations <--EXTENDS-- Registration
                                  RawAttestations <--EXTENDS-- Signers
```

Modules `MC...` give constants their values; modules `...Proofs` hold theorems.

**SignerSet, SignersMap.** The library's three fields are `list`, `map` and
`index`; a call that reverts is an action that is not enabled.  `removeSigner`
has two branches because the code has: the hole is the last element, or the
last element is moved into it (`swapAndPop`).  SignerSet is one set, seen
through `isSigner()` and through `getSigners()`, with add and remove.

**SP1TeeVerifier.** One action per transaction, with its modifiers as guards.
`verifyProof` is a predicate of the state.  A proof is a record of the
positions that the code slices at (total length, selector, `v`, version
length, what is signed by whom, where the inner proof starts), so every
comparison and sum of the code is there and no byte string is.  `ecrecover`
inverts `madeBy`, or yields zero; the gateway is a predicate.

**VsockStream.** `up[c]` and `down[c]` hold all frames ever sent on connection
`c`; readers keep counts.  A send is two steps with `partial[c]` between them:
that is the await at which a future can be dropped.  `Cut` says what a frame
cut there becomes when the eight bytes of `CloseSession` follow it: nothing (the
reader ends with an error), or what `completed` has: the same frame, if it has no
fields and was cut in its trailing zeroes, or an Execute whose last one to eight
bytes, those of its limit, are the first of the `CloseSession`.  `Mixed` says
which limits that makes of one; EnclaveServer assumes no more of it than that of
two allowed limits one is never read as the other (`LimitAssumption`).  A limit
that is not allowed may well be read as one that is: 2^40 + 100 loses its upper
bytes to the zeroes of the `CloseSession`.  When the host's process ends there is
no `CloseSession`, and the frame is lost (`reset`); a caller dropped while it
connects leaves a connection that closes with nothing sent (`connectDropped`).

**Frames** is the same connection byte by byte.  `frame(m)` is what `send`
writes: four bytes of length, then the message in bincode, of which the number
of the variant and the limit, all 64 bits of it, are there byte for byte, and a
program is one of a set of sequences of bytes none of which begins another, as
bincode writes lengths before what they count.  `deserialize` reads as far as the
message goes and leaves what is behind it, as bincode does.  `writeByte` and `closeByte` write one byte each, and
between any two of them the sender may be dropped; `readLength` and `readBody`
are the two `read_exact` of `recv`.  What VsockStream says in one step, by
`Cut`, is checked here to be what the bytes come to: the refinement mapping
parses the wire once the host's end is closed, and takes limits as their bytes,
`Mixed` as what `overwritten` makes of them.

**EnclaveServer.** `handler[c]` is the task of a connection, `task[c]` the
blocking task of its current request, `guard` the execution guard.  Every
branch of `handle_message` is an action; AttestSigningKey and Execute become a
task in the pool and an await.  A panic of a handler closes its connection, a
panic of the executor comes back as an error.  Nothing cancels a blocking
task.  Its host (`HostStep`) is any program that uses HostStream.

**TeeService.** `pc[k]` is the await a call is at; `line` is the tokio mutex,
its holder first; `verdict[k]` is what the caller was told.  `return` drops
the locals of the call (stream, then guard) as the code does; `leave` does so
at any await, `leaveConnecting` at the one of `HostStream::new` after the enclave
has accepted.  A call of `save_attestation` is `saving`, with its stream open,
while its put is awaited.  The attestation task is a call of kind `attest` here, so that
its exchange with the enclave is interleaved with all others.  `hostGoes` is
the end of the process, which takes all calls with it.
**ExecutionQueue** is what execute callers see: first come, first served, one
at a time; any may leave, and all do when the queue closes.

**AttestationStore** is the bucket as readers see it: every enclave has a key
of its own, an object appears only under a generated key, is replaced and
expires, and is never removed.  **Attestations** is a host over its lives:
`server`, `enclave`, and the task with its sleep (`wait`), its interval
(`next`) and the document in its hands (`doc`).  `passTime` advances all
clocks by one unit when no task has something to do.  `secondServer` is a
second start of the program beside the first: `main` terminates the running
enclave and starts another before it finds the port taken.

**RawAttestations** is `get_raw_attestations`, which setup and `GET /signers`
share: one listing, then one fetch after another, into `copy`.  Attestations
expire meanwhile (`lapse`), also those replaced since they were fetched
(`lapseCopy`); `steady` remembers, for the properties, those that a reader could
have counted on from its listing to its verification.

**Registration** adds setups and the chain.  A setup's `pc` is the call it
awaits.  The first steps are the deployment: `simulate` writes the deployment
file, which all setups share, `broadcast` puts the contract on the chain, and
`loadDeployment` takes whichever contract the file names by then.  `pending`
are transactions sent and not mined: `send` is their simulation, which must
succeed, and `mine` their execution, which may revert.  The owner may hand a
contract over or remove signers at any moment; `meddled` remembers it.  A
contract is the set of signers, as SignerSet has it, and its owner.

**Signers** adds those who only ask: a call of `GET /signers`, whose answer is
computed in one step from what was fetched, and `validate_signers` with both its
subcommands, which takes the list of signers once and then fetches and verifies
them one by one.  `Utf8` are the versions that `String::from_utf8` takes; at
another it panics, like all that `validate_signers` does not expect.

Theorem modules cite these definitions directly; no module declares a
RECURSIVE operator.

## 3. Runs

| Run | Question | Instance and why it is enough |
|---|---|---|
| `verifier` | Do list, map and index agree, are they a set, and is `verifyProof` exact in every state of the contract? | four addresses besides zero: a list of four has a first, a last, a next to last and an inner hole; two of them make signatures; proofs with lengths 69 to 256, `v` 1/27/28, and version lengths 4/185/186, on both sides of 70, of the `uint8` sum at 186 and of 255, for two programs |
| `enclave` | One execution, answers in order, no thread or guard left behind, under any host? | two connections, up to `MaxRequests` = 2 requests of all kinds on each besides what a cut leaves, pool of 2, limits on both sides of `MaxAllowedCycles` = 2, one of which a cut makes an allowed one; 4.0 million states |
| `enclave_debug` | Is Print acknowledged in the debug build? | two connections; violated |
| `frames` | Are the bytes what VsockStream says, cut wherever? | two sends on a connection, of messages whose length takes one byte and two, with the limits `u32::MAX`, which a cut leaves alone or makes larger, 2^40 + 100, which a cut can make 100, and `u64::MAX`; every byte of a frame is a place to cut; 421 thousand states |
| `tee_calls` | Is what is saved an attestation? | one execute, the attestation task and one address call at once; 337 thousand states |
| `tee_queue` | Do execute calls see a fair queue of their own outcomes? | three execute calls, one of them over the limit, which a cut can bring below it; three is the least with a waiter behind a waiter; 610 thousand states |
| `tee_live` | Does every call end, and is the enclave drained? | two execute calls over a pool of one thread, so that an orphan occupies it all |
| `attestations` | Is the attestation of an enclave fresh, and the bucket as promised? | one host that boots two enclaves in turn; Interval 4, Retry 1, MaxSave 1, Expiry 7 |
| `registration` | Is only what should be registered registered, and is setup truthful? | two setups, one that deploys and one that adds or only prints, with `--pcr0` and without; two enclaves of two images, all on one page; two accounts |
| `readers` | Are the answers of `GET /signers` and of `validate_signers` true? | one call and one validation, which do not affect each other or others; three enclaves: the operator's image, another of the same version, and one of a newer version |
| `reg_pages` | Does a reader see all attestations? | three objects, pages of two; violated |
| `reg_versions` | Are signers of other versions skipped? | the instance of `readers`; violated |

Bounds, all named: `MaxRequests` (requests per connection; each is handled from
the same handler state, so a second one shows what the first leaves behind),
`PoolSize` (512 in tokio: small here so that it fills up), `MaxAllowedCycles`
(`u32::MAX`; only the comparison of a limit with it matters, and `frames`, which has
the limits byte for byte, does not compare them), `MaxSave` and
`MissedBound` (how long a save takes and how late a tick is remembered; more
lateness makes no difference, since ticks are made up for one by one at once),
`PageSize` (1000 in S3), `MaxSends` (the reader is in the same state after every
frame, so a second one shows what a first leaves behind).  The times are in the
order of the real ones (30 minutes, 5 seconds, 3 hours) and satisfy the same
inequalities (`TimeAssumption`).  One host is enough in `attestations`, since hosts share
the bucket alone and write under different keys.

`CHECK_DEADLOCK FALSE` is set where the system really comes to an end:
connections, calls, keys and runs of setup are finite in number, and when they
are used up nothing is left to do.  The contract never stops, and its run
checks deadlock.

Not every type invariant has a run of its own: `ServiceTypeOK` has
`EnclaveTypeOK` in it.  The contract's `VerifierTypeOK` is proved
only: its run would learn nothing from it beside `ListMatchesMap` and `IndexIsPosition`.

## 4. Fairness

* `FairServiceSpec`: weak fairness of every future and every handler, since
  tokio polls a task that can go on; strong fairness of pool threads, which
  compete for the guard: parking_lot's mutex is eventually fair and the pool
  starts its tasks in order.  An execution ends, because the cycle limit ends
  it.  No client has to call or to leave, and the enclave need not crash nor
  stay up.
* `AttFairSpec`: time passes and the task wakes (weak); of saves tried again
  and again one succeeds (strong fairness of `attested` and `saved`).  Without
  that, an S3 that is down for good refutes `EveryEnclaveAttested`, and rightly.

The runs that check safety only use specifications without fairness, except
`attestations`, where one run checks both.

## 5. Proofs

For every value of the constants, under the named assumptions only (sets are
non-empty where the code has a member, limits are naturals, `NoConn` is no
connection, `NoMessage` no message, no program begins another (`FrameAssumption`),
`LimitAssumption`, which `SmallLimitsKept` shows of the bytes, there are finitely many keys, `Nobody` no account and no contract, a setup that deploys is one of
the setups, and `TimeAssumption`: a save is shorter than the interval, and the
two together than the validity of an attestation):

* **SP1TeeVerifierProofs**, of the map: `MapTypeOK`, `ListMatchesMap`,
  `IndexIsPosition`, and that the map implements SignerSet.  None is inductive alone:
  swap and pop is right only if the index of every signer is its place in the list
  and the list has no repetition, which is what `MapInv` adds.  Of the contract:
  `VerifierTypeOK`, `ZeroNeverSigner`, `RenouncedIsFrozen` (an action property) and
  `AcceptsExactlyWellSigned`, over the map's invariant with zero unflagged.
* **FramesProofs**: `ReadsWhatWasSent` and `AllocationBounded`, for programs of any
  length, any limits of 64 bits, and any number of sends cut after any byte.
  The codec first: four bytes hold every length that passed `MessageTooLarge` and
  `fromBytes` inverts `toBytes`; `deserialize` inverts `serialize` (`Serialized`), since a body
  begins with one program only (`OneProgram`).  Then what a body
  is whose last one to eight bytes are a CloseSession's (`MixedBody`): garbage, or what
  `Cut` allows.  `SmallLimitsKept` looks at the limit that such a body has: of u32::MAX
  or less it is the one sent, if that was too.  `FramesInv` lays out the wire: the frames sent one behind the
  other (`Laid`), then the first `cut` bytes of one more and the first `d` of a
  CloseSession (`CutOff`), and nothing else; and the reader is at a frame that was
  sent, or behind the CloseSession, or behind one mixture of the two
  (`ReadMixture`).  Behind a mixture at most seven bytes are left, and the length that
  may be among them is at least 256, so nothing more is ever read; at most 6 * 2^24,
  so that is what `AllocationBounded` allows.
  And `ImplementsStream` (`BytesImplementStream`): the wire, read by `framesOf`, is what
  `VsockStream` says of the connection, so the whole frames and the `Cut` that the models
  of enclave and service stand on come from the bytes.  `framesOf` is a recursive
  function: that it has values is shown from the last byte down (`Descending`), and
  that it reads the frames of `Laid`, however many, by adding one in front at a time
  (`ReadAhead`); both rest on the library's least element of a well-founded
  relation (`Least`), since an induction rule cannot be instantiated.  `WireFrames` says
  what is read: the messages sent and one of `Cut` behind them; the steps that
  write are then those of `HostNext` or stutters (`HostSteps`), the reader's are stutters.
* **EnclaveServerProofs**: `EnclaveTypeOK`, `ThreadsAreAwaited`, `OneExecution`, and,
  outside debug mode, `AnswersInOrder`; the invariant has the order of answers, in debug mode,
  for connections on which no Print was sent.  `EnclaveInv` adds that whoever runs holds the guard;
  that a handler has a blocking task exactly while it awaits one, and that task
  is at work on the last request read; that a finished task's result answers
  that request; and `Connected`, that no handler works on a connection that was
  not opened.  There is one lemma for each side: handler, pool thread, host,
  crash.  Frames that the host adds meanwhile lie behind those read
  (`FramesAdded`), which is why a cut frame disturbs no answer.
* **AttestationsProofs**: `AttTypeOK`, `FreshUnlessFailing`, and that hosts and
  bucket implement AttestationStore.  `AttInv` says how old the stored
  attestation may be at each point of the loop: at most an interval less the
  time to the next tick while the task waits for one; an interval and the time
  this save has taken while it saves, unless a save failed within a retry and
  that time; and that the failure is younger than a retry while it sleeps.
  `KeyInv` says that nobody else writes under the key: keys are fresh, and no
  two hosts have the same; what a task is about to store is its enclave's own,
  or that of the enclave a second server replaced, and then the new one has
  nothing stored yet.  So the bound holds for any number of hosts, though
  the run has one.
* **TeeServiceProofs**, over EnclaveInv: `ServiceTypeOK`, `OneWaitedExecution`,
  `SignedWasAsked`, `OwnAnswer`, `SavedIsAttestation`, and that host and enclave
  implement ExecutionQueue.  `ServiceInv` follows a call through all it shares.
  The line (`LineInv`): everyone in it is a call that waits for the mutex or,
  at its head alone, one that has it, so only the head has a connection.  The stream, per
  call: `SentInv` says that its frames are the first of its requests, and the one
  half-way the next, until it ends, and that also what a cut leaves behind is of
  its own program; `CutInv`, of an Execute on the wire with another limit than the
  call's, that the call has gone, or that the enclave's end is closed and the frame
  never answered, which stays so (`StaysClosed`): a program run under a limit that
  its call did not ask for is answered to nobody; `ReadInv` how many answers the
  call has taken, and that each is the one expected there; `Own` that a signature
  it is told is of its program.  `EnclaveInv` gives the rest: the n-th answer
  belongs to the n-th request, so the calls need not know what the pool still
  runs for those that left. The queue takes a step when a call
  asks for the mutex, is refused, returns or is dropped; all else is a stutter.
* **RawAttestationsProofs** has what setup and `GET /signers` share.  `InOrder`
  lists every key once (`InOrderListsAll`: the number of keys before a key is
  its place), so a listing that fits on its page misses none.  `Reading` says
  what a reader has in hand: a copy it has still to verify, if valid, has a valid original,
  and a steady signer is to be fetched, or was.
* **RegistrationProofs**: `RegTypeOK`, `RegisteredRanImage`, `SetupTellsTheTruth`.
  Three awaits lie between the check of a
  measurement and the mining of the transaction, so `RegInv` follows the signer
  in hand (`InHand`: measured while it is checked, pending or in the contract
  while it is confirmed) and each transaction sent (`Sent`: its contract is on the
  chain and its sender the owner, unless that owner intervened).  `TargetInv`
  says that a contract is taken once, and that one still to be deployed is used
  by nobody, so that its deployment changes no owner that matters.  `TellInv` adds
  that a steady signer is still to come or in the contract (`SteadyInv`), and
  that the only deployer uses what it deployed (`DeployerInv`).
  What a setup printed as added is proved without a hypothesis
  (`ReportedAlwaysRegistered`); what it says when it completes has two, on constants.
  `OnePage`, that a page holds as many objects as there are keys: without it the run
  `reg_pages` has a counterexample.  `OneDeploys`: of two that deploy at a time one
  may complete with the other's contract.
* **SignersProofs**: `ValidatedRanImage`.  `SignersInv` says of each signer that a
  validation asked for that it is still to come, validated, or of another version.
  And `SignersAreCurrent`: that the signers answered are valid at that moment
  for a bucket of any size (`AnswersAreValid`), that none is missing under `OnePage`.

Only model-checked: `EveryCallEnds`, `EnclaveDrains` and `EveryEnclaveAttested`, which
are liveness under fairness, out of the prover's reach.

## 6. Where code and documentation differ

Three runs end in a counterexample, each against a sentence of the repository:

* In debug builds the acknowledgement of Print is a future nobody awaits, so
  it is never sent (`enclave_debug`).
* `get_raw_attestations` reads the first page of the bucket only, though it
  is to fetch all attestations (`reg_pages`).  Keys are never removed from the
  bucket, so it grows with every start of an enclave.
* `verify_attestation_for_signer` compares PCR0 before the version; the
  version is part of the measured image, so a signer of another version always
  fails as a wrong PCR0, on which `validate_signers` panics, and the arm that
  skips other versions is never reached (`reg_versions`).

Others came up in modelling and are in the models as the code has them:

* `getSigners` is open to anyone; its doc (`SP1TeeVerifier.sol:80`) restricts it
  to the owner.
* With an empty bucket `get_raw_attestations` panics, as it does for a key that
  is no address (`listObjects`); its doc has an error for the latter and no panic
  for either.
* `watch()` does not look at the status of a transaction, so setup prints "Added
  signer" for one that reverted because its contract was handed over, or adds
  and loses a signer the owner removes.  `SetupTellsTheTruth` therefore speaks of
  contracts whose owner did not intervene.
* forge writes the deployment file when it simulates, before it broadcasts.  A
  setup that finds only expired attestations never asks the contract anything,
  and prints "Setup complete" for one that never came to be; and of two setups
  that deploy at the same time one may take the other's contract.
* The host passes a client's `cycle_limit` on as it is (`host/bin/server.rs:241`).
  With its client gone in the middle of the send, an Execute with a limit beyond
  `u32::MAX` can be read with a smaller one and be run and signed, where it would have
  been refused.  No doc speaks of the limit and nobody is given the answer, so the
  models have it as it is: `SignedWasAsked` says that this is all that a cut can do.
* `GET /signers` filters by version but not by PCR0: any enclave with a valid
  attestation of that version is in the answer, of whatever image.
  `SignersAreCurrent` promises no more.

## 7. What is not modelled

* What the SP1 executor computes: an execution ends with the public values of
  its program or with an error.  Cryptography is symbolic.
* The bytes of answers, which are sent in whole frames, since the enclave never
  drops a send; a frame too large to send is a failure of `sendRequest`.
* `get_enclave_measurement` (called by nothing), the build steps of `enclave.sh`,
  and the gateway that `Deploy.s.sol` sets up on anvil.
* Enclave `main` and FFI (unused bindings), install and proxy scripts.  The
  proxy's time limit on a silent call is a client that leaves.

## 8. Plan

Done, in this order: SignerSet and SignersMap with proofs; SP1TeeVerifier with
proofs; VsockStream and EnclaveServer; ExecutionQueue and TeeService;
AttestationStore and Attestations; Registration; the proofs of EnclaveServer and
Attestations; Frames and its refinement; the end of the host's process and the
second server; RawAttestations and Signers; deployment and owner in Registration;
the proofs of Registration and Signers; the proofs of TeeService and of its
refinement; the readers' proofs, and with them the rest of those of Registration
and Signers; the codec of Frames, and what its reader reads; the proof that Frames
implements VsockStream; limits of all 64 bits, in Frames and through `Mixed` in the
modules above it, with `SmallLimitsKept`.

Next: compose, with one end-to-end property from the image that ran to the proof
accepted, over Registration and SP1TeeVerifier; and two hosts in `attestations`.

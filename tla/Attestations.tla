---------------------------- MODULE Attestations ----------------------------
(***************************************************************************)
(* The life of a host: host/bin/server.rs main, host/src/server.rs and     *)
(* scripts/enclave.sh start and stop its enclave; the task of              *)
(* spawn_attestation_task keeps an attestation of the running enclave in   *)
(* the S3 bucket.  What is saved is one attestation under the address of   *)
(* its own key: TeeService shows that (SavedIsAttestation).                *)
(*                                                                         *)
(* Time passes in units, by passTime, and not while a task has something   *)
(* to do at once.  Ages stop at Expiry and lateness at MissedBound, so     *)
(* that time itself needs no bound.                                        *)
(***************************************************************************)
EXTENDS Integers, FiniteSets

CONSTANTS
    Host,
    Key,              \* the keys enclaves generate, and their addresses
    NoKey,
    Interval,         \* ATTESTATION_INTERVAL, 30 minutes
    Retry,            \* TRY_AGAIN_INTERVAL, 5 seconds
    Expiry,           \* how long an attestation is valid, 3 hours
    MaxSave,          \* bound on the time of one save_attestation
    MissedBound       \* bound on how late a tick is remembered

ASSUME KeyAssumption == NoKey \notin Key
ASSUME TimeAssumption ==
    /\ Interval \in Nat /\ Retry \in Nat /\ MaxSave \in Nat
    /\ Expiry \in Nat /\ MissedBound \in Nat
    /\ MaxSave < Interval /\ Interval + MaxSave < Expiry

NoObject == -1
Ages == 0..Expiry

VARIABLES
    server,           \* "down", "starting" (enclaves terminated), "up"
    enclave,          \* host -> the key of its enclave, or NoKey
    generated,        \* the keys generated so far
    task,             \* the attestation task: "none", "starting" and "sleeping"
                      \* for wait, "attesting", "storing", "ticking" for next
    wait,             \* time left to sleep, or at most for this save
    next,             \* time to the interval's next tick; negative: it is late
    doc,              \* the attestation in the task's hands
    bucket,           \* address -> age of the attestation stored, or NoObject
    sinceFailure      \* time since a save last failed (for FreshUnlessFailing)

attVars == <<server, enclave, generated, task, wait, next, doc, bucket,
             sinceFailure>>

\* A save that fails is retried and decided within this time.
Recovery == Retry + MaxSave

AttInit ==
    /\ server = [h \in Host |-> "down"]
    /\ enclave = [h \in Host |-> NoKey]
    /\ generated = {}
    /\ task = [h \in Host |-> "none"]
    /\ wait = [h \in Host |-> 0]
    /\ next = [h \in Host |-> 0]
    /\ doc = [h \in Host |-> [key |-> NoKey, age |-> 0]]
    /\ bucket = [k \in Key |-> NoObject]
    /\ sinceFailure = [h \in Host |-> Recovery + 1]

taskVars == <<task, wait, next, doc, sinceFailure>>

-----------------------------------------------------------------------------
\* main, start_enclave and terminate_enclaves.

\* The server process starts: first it terminates the enclave a server that
\* was killed may have left behind.
terminateEnclaves(h) ==
    /\ server[h] = "down"
    /\ server' = [server EXCEPT ![h] = "starting"]
    /\ enclave' = [enclave EXCEPT ![h] = NoKey]
    /\ UNCHANGED <<generated, taskVars, bucket>>

\* Server::new: the enclave runs and has generated its key, and the task of
\* spawn_attestation_task begins with a sleep.
startEnclave(h) ==
    /\ server[h] = "starting"
    /\ \E k \in Key \ generated :
          /\ enclave' = [enclave EXCEPT ![h] = k]
          /\ generated' = generated \cup {k}
    /\ server' = [server EXCEPT ![h] = "up"]
    /\ task' = [task EXCEPT ![h] = "starting"]
    /\ wait' = [wait EXCEPT ![h] = Retry]
    /\ UNCHANGED <<next, doc, bucket, sinceFailure>>

\* enclave.sh fails: exit(1).
startFails(h) ==
    /\ server[h] = "starting"
    /\ server' = [server EXCEPT ![h] = "down"]
    /\ UNCHANGED <<enclave, generated, taskVars, bucket>>

store(h) == bucket' = [bucket EXCEPT ![doc[h].key] = doc[h].age]

\* The task goes with its process.  A put that was on its way may arrive.
endTask(h) ==
    /\ task' = [task EXCEPT ![h] = "none"]
    /\ wait' = [wait EXCEPT ![h] = 0]
    /\ next' = [next EXCEPT ![h] = 0]
    /\ doc' = [doc EXCEPT ![h] = [key |-> NoKey, age |-> 0]]
    /\ sinceFailure' = [sinceFailure EXCEPT ![h] = Recovery + 1]
    /\ UNCHANGED bucket \/ (task[h] = "storing" /\ store(h))

\* Ctrl-C, or the SIGINT that systemd stops the service with.
ctrlC(h) ==
    /\ server[h] = "up"
    /\ server' = [server EXCEPT ![h] = "down"]
    /\ enclave' = [enclave EXCEPT ![h] = NoKey]
    /\ endTask(h)
    /\ UNCHANGED generated

\* The server is killed uncleanly, cannot bind its port, or fails to serve: its
\* enclave runs on.
kill(h) ==
    /\ server[h] = "up"
    /\ server' = [server EXCEPT ![h] = "down"]
    /\ endTask(h)
    /\ UNCHANGED <<enclave, generated>>

\* The enclave dies alone, or a second server terminates it.  The server, while
\* it is up, does not start it again.
enclaveDies(h) ==
    /\ enclave[h] # NoKey
    /\ enclave' = [enclave EXCEPT ![h] = NoKey]
    /\ UNCHANGED <<server, generated, taskVars, bucket>>

\* A second server is started beside the first.  It has terminated the enclave and
\* starts one of its own before it finds the port taken and panics; what it leaves
\* behind is the first server's enclave from now on.
secondServer(h) ==
    /\ server[h] = "up" /\ enclave[h] = NoKey
    /\ \E k \in Key \ generated :
          /\ enclave' = [enclave EXCEPT ![h] = k]
          /\ generated' = generated \cup {k}
    /\ UNCHANGED <<server, taskVars, bucket>>

-----------------------------------------------------------------------------
\* spawn_attestation_task and save_attestation.

beginSave(h) ==
    /\ task' = [task EXCEPT ![h] = "attesting"]
    /\ wait' = [wait EXCEPT ![h] = MaxSave]
    /\ UNCHANGED <<server, enclave, generated, doc, bucket, sinceFailure>>

\* The first sleep is over: the interval starts, and its first tick is at once.
firstWake(h) ==
    /\ task[h] = "starting" /\ wait[h] = 0
    /\ next' = [next EXCEPT ![h] = 0]
    /\ beginSave(h)

\* The sleep after a failure is over.  The loop continues without a tick.
wake(h) ==
    /\ task[h] = "sleeping" /\ wait[h] = 0
    /\ beginSave(h)
    /\ UNCHANGED next

\* interval.tick(): a late tick is immediate, and those missed are made up for.
tick(h) ==
    /\ task[h] = "ticking" /\ next[h] <= 0
    /\ next' = [next EXCEPT ![h] = @ + Interval]
    /\ beginSave(h)

\* A plausible bug: it goes on when the enclave does not answer.
attestedByNone(h) ==
    /\ task[h] = "attesting"
    /\ task' = [task EXCEPT ![h] = "storing"]
    /\ doc' = [doc EXCEPT ![h] = [key |-> enclave[h], age |-> 0]]
    /\ UNCHANGED <<server, enclave, generated, wait, next, bucket, sinceFailure>>

\* Both answers of the enclave have been received.
attested(h) ==
    /\ task[h] = "attesting" /\ enclave[h] # NoKey
    /\ task' = [task EXCEPT ![h] = "storing"]
    /\ doc' = [doc EXCEPT ![h] = [key |-> enclave[h], age |-> 0]]
    /\ UNCHANGED <<server, enclave, generated, wait, next, bucket, sinceFailure>>

\* A plausible bug: the attestation is stored under the name of any enclave.
savedUnderAny(h) ==
    /\ task[h] = "storing"
    /\ \E k \in Key : bucket' = [bucket EXCEPT ![k] = doc[h].age]
    /\ task' = [task EXCEPT ![h] = "ticking"]
    /\ UNCHANGED <<server, enclave, generated, wait, next, doc, sinceFailure>>

\* put_object succeeds.
saved(h) ==
    /\ task[h] = "storing"
    /\ store(h)
    /\ task' = [task EXCEPT ![h] = "ticking"]
    /\ UNCHANGED <<server, enclave, generated, wait, next, doc, sinceFailure>>

\* A plausible bug: a failed save waits for the next tick as any other does.
saveFailedNoRetry(h) ==
    /\ task[h] \in {"attesting", "storing"}
    /\ task' = [task EXCEPT ![h] = "ticking"]
    /\ sinceFailure' = [sinceFailure EXCEPT ![h] = 0]
    /\ UNCHANGED bucket \/ (task[h] = "storing" /\ store(h))
    /\ UNCHANGED <<server, enclave, generated, wait, next, doc>>

\* A plausible bug: the loop ends when a save fails.
saveFailedEnds(h) ==
    /\ task[h] \in {"attesting", "storing"}
    /\ task' = [task EXCEPT ![h] = "none"]
    /\ sinceFailure' = [sinceFailure EXCEPT ![h] = 0]
    /\ UNCHANGED bucket \/ (task[h] = "storing" /\ store(h))
    /\ UNCHANGED <<server, enclave, generated, wait, next, doc>>

\* Any call of save_attestation fails; a put that failed may have been done.
saveFailed(h) ==
    /\ task[h] \in {"attesting", "storing"}
    /\ task' = [task EXCEPT ![h] = "sleeping"]
    /\ wait' = [wait EXCEPT ![h] = Retry]
    /\ sinceFailure' = [sinceFailure EXCEPT ![h] = 0]
    /\ UNCHANGED bucket \/ (task[h] = "storing" /\ store(h))
    /\ UNCHANGED <<server, enclave, generated, next, doc>>

-----------------------------------------------------------------------------

\* Has the task nothing to do now?
idle(h) ==
    \/ task[h] = "none"
    \/ task[h] = "ticking" /\ next[h] > 0
    \/ task[h] \in {"starting", "sleeping", "attesting", "storing"} /\ wait[h] > 0

atMost(bound, n) == IF n > bound THEN bound ELSE n

countDown(n) == IF n > 0 THEN n - 1 ELSE 0

passTime ==
    /\ \A h \in Host : idle(h)
    /\ wait' = [h \in Host |-> countDown(wait[h])]
    /\ next' = [h \in Host |->
                   IF task[h] \in {"none", "starting"} THEN next[h]
                   ELSE -atMost(MissedBound, 1 - next[h])]
    /\ doc' = [h \in Host |-> [doc[h] EXCEPT !.age = atMost(Expiry, @ + 1)]]
    /\ bucket' = [k \in Key |-> IF bucket[k] = NoObject THEN NoObject
                                ELSE atMost(Expiry, bucket[k] + 1)]
    /\ sinceFailure' = [h \in Host |-> atMost(Recovery + 1, sinceFailure[h] + 1)]
    /\ UNCHANGED <<server, enclave, generated, task>>

serverStep(h) ==
    terminateEnclaves(h) \/ startEnclave(h) \/ startFails(h) \/ ctrlC(h)
    \/ kill(h) \/ enclaveDies(h) \/ secondServer(h)

taskStep(h) ==
    firstWake(h) \/ wake(h) \/ tick(h) \/ attested(h) \/ saved(h) \/ saveFailed(h)

AttNext == passTime \/ \E h \in Host : serverStep(h) \/ taskStep(h)

AttSpec == AttInit /\ [][AttNext]_attVars

\* The runtime wakes the task when its time has come, and a save that is tried
\* for ever succeeds in the end: the enclave answers, and S3 does.
AttFairSpec ==
    /\ AttSpec
    /\ WF_attVars(passTime)
    /\ \A h \in Host :
          /\ WF_attVars(taskStep(h))
          /\ SF_attVars(attested(h)) /\ SF_attVars(saved(h))

-----------------------------------------------------------------------------

AttTypeOK ==
    /\ server \in [Host -> {"down", "starting", "up"}]
    /\ enclave \in [Host -> Key \cup {NoKey}]
    /\ generated \subseteq Key
    /\ task \in [Host -> {"none", "starting", "sleeping", "attesting",
                          "storing", "ticking"}]
    /\ wait \in [Host -> Nat]
    /\ next \in [Host -> Int]
    /\ doc \in [Host -> [key : Key \cup {NoKey}, age : Ages]]
    /\ bucket \in [Key -> Ages \cup {NoObject}]
    /\ sinceFailure \in [Host -> Nat]
    /\ \A h \in Host : task[h] = "storing" => doc[h].key \in generated

\* attestations.rs:18: "Attestations expire every 3 hours and we update every 30
\* mins."  While a server runs, the attestation stored for its enclave gets
\* older than an interval and one save only as long as saves keep failing:
\* neither a retry, a tick that was missed nor the ticks made up for leave a gap.
FreshUnlessFailing ==
    \A h \in Host :
        /\ task[h] # "none" /\ enclave[h] # NoKey
        /\ bucket[enclave[h]] > Interval + MaxSave
        => sinceFailure[h] <= Recovery

\* What a reader of the bucket makes of an object of this age.
seenAs(age) ==
    IF age = NoObject THEN "none"
    ELSE IF age = Expiry THEN "expired" ELSE "valid"

\* Seen through the bucket, hosts that restart, are killed, retry and run late
\* keep what AttestationStore promises.
Store == INSTANCE AttestationStore WITH
            booted <- generated,
            object <- [k \in Key |-> seenAs(bucket[k])]

ImplementsStore == Store!StoreSpec

\* The key of an enclave that stays up is known to the readers of the bucket in
\* the end, and stays known or becomes so again.
EveryEnclaveAttested ==
    \A h \in Host, k \in Key :
        enclave[h] = k /\ server[h] = "up"
          ~> \/ bucket[k] \in 0..(Expiry - 1)
             \/ enclave[h] # k \/ server[h] # "up"
=============================================================================

-------------------------- MODULE AttestationsProofs --------------------------
(***************************************************************************)
(* For any hosts, keys and times that satisfy TimeAssumption: the stored   *)
(* attestation of a running enclave stays fresh unless saves keep failing, *)
(* and the bucket is what AttestationStore promises.                       *)
(*                                                                         *)
(* FreshUnlessFailing bounds an age in every state.  To be inductive it    *)
(* has to say how old the attestation may be at each point of the task's   *)
(* loop, given the time left: to the next tick (it is then at most an      *)
(* interval old), for the save under way, or for the sleep after a         *)
(* failure.  And it has to say that nobody else writes under that key.     *)
(***************************************************************************)
EXTENDS Attestations, TLAPS

Saving(h) == task[h] \in {"attesting", "storing"}

\* Keys: fresh ones are nowhere, and no two hosts have the same.  What is being
\* stored is of the host's enclave, or that is a newer one, by a second server.
KeyInv ==
    /\ \A h \in Host : enclave[h] \in generated \cup {NoKey}
    /\ \A h \in Host : doc[h].key \in generated \cup {NoKey}
    /\ \A k \in Key \ generated : bucket[k] = NoObject
    /\ \A h, g \in Host : h # g /\ enclave[h] # NoKey =>
          enclave[h] # enclave[g] /\ enclave[h] # doc[g].key
    /\ \A h \in Host : enclave[h] # NoKey /\ task[h] = "storing" =>
          doc[h].key = enclave[h] \/ bucket[enclave[h]] = NoObject
    /\ \A h \in Host : server[h] # "up" => task[h] = "none"

\* The time a save has taken, and what was left of the interval when it began.
ClockInv(h) ==
    /\ Saving(h) =>
          /\ wait[h] <= MaxSave
          /\ next[h] + (MaxSave - wait[h]) <= Interval
    /\ task[h] = "storing" => doc[h].age <= MaxSave - wait[h]
    /\ task[h] = "sleeping" =>
          /\ next[h] <= Interval
          /\ sinceFailure[h] <= Retry - wait[h]
    /\ task[h] = "ticking" => next[h] <= Interval

\* The age of the attestation stored for the enclave of h.
stored(h) == bucket[enclave[h]]

AgeInv(h) ==
    enclave[h] # NoKey =>
       /\ task[h] = "starting" => stored(h) = NoObject
       /\ Saving(h) =>
             \/ stored(h) <= Interval + (MaxSave - wait[h])
             \/ sinceFailure[h] <= Retry + (MaxSave - wait[h])
       /\ task[h] = "ticking" =>
             /\ stored(h) <= Interval
             /\ stored(h) + next[h] <= Interval

AttInv ==
    /\ AttTypeOK
    /\ KeyInv
    /\ \A h \in Host : ClockInv(h) /\ AgeInv(h)

\* Before any server starts there is no enclave and no object.
LEMMA InitEstablishes == AttInit => AttInv
  <1> SUFFICES ASSUME AttInit PROVE AttInv
    OBVIOUS
  <1>1. AttTypeOK
    BY TimeAssumption DEF AttInit, AttTypeOK, Ages, NoObject, Recovery
  <1>2. KeyInv
    BY DEF AttInit, KeyInv
  <1>3. \A h \in Host : ClockInv(h) /\ AgeInv(h)
    BY DEF AttInit, ClockInv, AgeInv, Saving
  <1> QED
    BY <1>1, <1>2, <1>3 DEF AttInv

-----------------------------------------------------------------------------
\* What a step of one host leaves alone.

\* Another host, whose key a step does not touch, is as old as it was.
LEMMA OtherHost ==
    ASSUME AttInv, NEW g \in Host,
           task'[g] = task[g], wait'[g] = wait[g], next'[g] = next[g],
           doc'[g] = doc[g], sinceFailure'[g] = sinceFailure[g],
           enclave'[g] = enclave[g],
           enclave[g] # NoKey => bucket'[enclave[g]] = bucket[enclave[g]]
    PROVE  ClockInv(g)' /\ AgeInv(g)'
  BY DEF AttInv, ClockInv, AgeInv, Saving, stored

\* A put, if there is one, writes under a key that was generated and that no
\* other host's enclave has.
LEMMA PutIsOwn ==
    ASSUME AttInv, NEW h \in Host,
           UNCHANGED bucket \/ (task[h] = "storing" /\ store(h))
    PROVE  /\ bucket' \in [Key -> Ages \cup {NoObject}]
           /\ \A k \in Key \ generated : bucket'[k] = NoObject
           /\ \A g \in Host \ {h} : enclave[g] # NoKey =>
                 bucket'[enclave[g]] = bucket[enclave[g]]
  <1>1. AttTypeOK /\ KeyInv
    BY DEF AttInv
  <1>2. CASE UNCHANGED bucket
    BY <1>1, <1>2 DEF AttTypeOK, KeyInv
  <1>3. CASE task[h] = "storing" /\ store(h)
    <2>1. /\ doc[h].key \in generated /\ doc[h].age \in Ages
          /\ bucket \in [Key -> Ages \cup {NoObject}] /\ generated \subseteq Key
      BY <1>1, <1>3 DEF AttTypeOK
    <2>2. bucket' = [bucket EXCEPT ![doc[h].key] = doc[h].age]
      BY <1>3 DEF store
    <2>3. \A g \in Host \ {h} : enclave[g] # NoKey => enclave[g] # doc[h].key
      BY <1>1 DEF KeyInv
    <2> QED
      BY <1>1, <2>1, <2>2, <2>3 DEF KeyInv, AttTypeOK
  <1> QED
    BY <1>2, <1>3

\* A host's clocks and its failures run on as its task goes through its loop;
\* its enclave, and what the task has in its hands, stay.
LEMMA SameKeys ==
    ASSUME AttInv, UNCHANGED <<server, enclave, generated>>,
           \A g \in Host : doc'[g].key = doc[g].key,
           \A g \in Host : task'[g] = "storing" => task[g] = "storing",
           \A g \in Host : task[g] = "none" => task'[g] = "none",
           \A k \in Key \ generated : bucket'[k] = NoObject,
           \A g \in Host : /\ enclave[g] # NoKey /\ task'[g] = "storing"
                            /\ bucket[enclave[g]] = NoObject
                            => bucket'[enclave[g]] = NoObject
    PROVE  KeyInv'
  BY DEF AttInv, KeyInv

-----------------------------------------------------------------------------
\* main, start_enclave and terminate_enclaves.

\* A server that starts has a fresh enclave; one that ends stops its task.
LEMMA ServerPreserves ==
    ASSUME AttInv, NEW h \in Host, serverStep(h)
    PROVE  AttInv'
  <1>1. /\ AttTypeOK /\ KeyInv
        /\ \A g \in Host : ClockInv(g) /\ AgeInv(g)
    BY DEF AttInv
  <1>2. /\ server \in [Host -> {"down", "starting", "up"}]
        /\ enclave \in [Host -> Key \cup {NoKey}]
        /\ task \in [Host -> {"none", "starting", "sleeping", "attesting",
                              "storing", "ticking"}]
    BY <1>1 DEF AttTypeOK
  <1>3. CASE terminateEnclaves(h) \/ enclaveDies(h)
    <2>1. /\ enclave' = [enclave EXCEPT ![h] = NoKey]
          /\ UNCHANGED <<generated, taskVars, bucket>>
          /\ server' \in [Host -> {"down", "starting", "up"}]
          /\ \A g \in Host : server'[g] # "up" => server[g] # "up"
      BY <1>2, <1>3 DEF terminateEnclaves, enclaveDies
    <2>2. AttTypeOK'
      BY <1>1, <2>1 DEF AttTypeOK, taskVars
    <2>3. KeyInv'
      BY <1>1, <1>2, <2>1 DEF KeyInv, taskVars
    <2>4. ClockInv(h)' /\ AgeInv(h)'
      BY <1>1, <1>2, <2>1 DEF taskVars, ClockInv, AgeInv, Saving
    <2>5. \A g \in Host \ {h} : ClockInv(g)' /\ AgeInv(g)'
      BY <1>2, <2>1, OtherHost DEF taskVars
    <2> QED
      BY <2>2, <2>3, <2>4, <2>5 DEF AttInv
  <1>4. CASE startEnclave(h)
    <2>1. PICK k \in Key \ generated :
             /\ enclave' = [enclave EXCEPT ![h] = k]
             /\ generated' = generated \cup {k}
      BY <1>4 DEF startEnclave
    <2>2. /\ server' = [server EXCEPT ![h] = "up"]
          /\ task' = [task EXCEPT ![h] = "starting"]
          /\ wait' = [wait EXCEPT ![h] = Retry]
          /\ UNCHANGED <<next, doc, bucket, sinceFailure>>
      BY <1>4 DEF startEnclave
    <2>3. AttTypeOK'
      BY <1>1, <2>1, <2>2, TimeAssumption DEF AttTypeOK
    <2>4. KeyInv'
      <3>1. k # NoKey
        BY KeyAssumption
      <3>2. \A g \in Host : enclave[g] # k /\ doc[g].key # k
        BY <1>1, <2>1, <3>1 DEF KeyInv
      <3>3. task[h] = "none"
        BY <1>1, <1>4 DEF startEnclave, KeyInv
      <3> QED
        BY <1>1, <1>2, <2>1, <2>2, <3>1, <3>2, <3>3 DEF KeyInv
    <2>5. ClockInv(h)' /\ AgeInv(h)'
      <3>1. bucket[k] = NoObject
        BY <1>1 DEF KeyInv
      <3> QED
        BY <1>2, <2>1, <2>2, <3>1 DEF ClockInv, AgeInv, Saving, stored
    <2>6. \A g \in Host \ {h} : ClockInv(g)' /\ AgeInv(g)'
      BY <1>1, <1>2, <2>1, <2>2, OtherHost DEF AttTypeOK
    <2> QED
      BY <2>3, <2>4, <2>5, <2>6 DEF AttInv
  <1>5. CASE startFails(h)
    <2>1. /\ server' = [server EXCEPT ![h] = "down"] /\ server[h] # "up"
          /\ UNCHANGED <<enclave, generated, taskVars, bucket>>
      BY <1>5 DEF startFails
    <2>2. AttTypeOK'
      BY <1>1, <2>1 DEF AttTypeOK, taskVars
    <2>3. KeyInv'
      BY <1>1, <1>2, <2>1 DEF KeyInv, taskVars
    <2>4. \A g \in Host : ClockInv(g)' /\ AgeInv(g)'
      BY <2>1, OtherHost DEF taskVars
    <2> QED
      BY <2>2, <2>3, <2>4 DEF AttInv
  <1>6. CASE ctrlC(h) \/ kill(h)
    <2>1. /\ server' = [server EXCEPT ![h] = "down"]
          /\ enclave' \in {enclave, [enclave EXCEPT ![h] = NoKey]}
          /\ UNCHANGED generated
          /\ endTask(h)
      BY <1>6 DEF ctrlC, kill
    <2>2. AttTypeOK'
      BY <1>1, <1>2, <2>1, PutIsOwn, TimeAssumption
      DEF endTask, AttTypeOK, Ages, Recovery
    <2>3. KeyInv'
      <3>1. /\ \A k \in Key \ generated : bucket'[k] = NoObject
            /\ \A g \in Host \ {h} : enclave[g] # NoKey =>
                  bucket'[enclave[g]] = bucket[enclave[g]]
        BY <2>1, PutIsOwn DEF endTask
      <3>2. /\ task'[h] = "none" /\ doc'[h].key = NoKey /\ server'[h] = "down"
            /\ enclave'[h] \in {enclave[h], NoKey}
        BY <1>1, <1>2, <2>1 DEF endTask, AttTypeOK
      <3>3. \A g \in Host \ {h} :
               /\ task'[g] = task[g] /\ doc'[g] = doc[g]
               /\ server'[g] = server[g] /\ enclave'[g] = enclave[g]
        BY <1>1, <1>2, <2>1 DEF endTask, AttTypeOK
      <3>4. UNCHANGED generated
        BY <2>1
      <3> QED
        BY <1>1, <3>1, <3>2, <3>3, <3>4 DEF KeyInv
    <2>4. ClockInv(h)' /\ AgeInv(h)'
      BY <1>2, <2>1 DEF endTask, ClockInv, AgeInv, Saving
    <2>5. \A g \in Host \ {h} : ClockInv(g)' /\ AgeInv(g)'
      BY <1>1, <1>2, <2>1, OtherHost, PutIsOwn DEF endTask, AttTypeOK
    <2> QED
      BY <2>2, <2>3, <2>4, <2>5 DEF AttInv
  <1>7. CASE secondServer(h)
    <2>1. PICK k \in Key \ generated :
             /\ enclave' = [enclave EXCEPT ![h] = k]
             /\ generated' = generated \cup {k}
      BY <1>7 DEF secondServer
    <2>2. UNCHANGED <<server, task, wait, next, doc, bucket, sinceFailure>>
      BY <1>7 DEF secondServer, taskVars
    <2>3. AttTypeOK'
      BY <1>1, <2>1, <2>2 DEF AttTypeOK
    <2>4. k # NoKey /\ bucket[k] = NoObject
      BY <1>1, KeyAssumption DEF KeyInv
    <2>5. KeyInv'
      <3>1. \A g \in Host : enclave[g] # k /\ doc[g].key # k
        BY <1>1, <2>1, <2>4 DEF KeyInv
      <3> QED
        BY <1>1, <1>2, <2>1, <2>2, <2>4, <3>1 DEF KeyInv
    \* The new enclave has nothing stored yet, whatever the task is at.
    <2>6. ClockInv(h)' /\ AgeInv(h)'
      <3>1. ClockInv(h)'
        BY <1>1, <2>2 DEF ClockInv, Saving
      <3>2. next[h] \in Int /\ wait[h] \in Nat /\ Interval \in Nat /\ MaxSave \in Nat
        BY <1>1, TimeAssumption DEF AttTypeOK
      <3>3. stored(h)' = NoObject
        BY <1>2, <2>1, <2>2, <2>4 DEF stored
      <3>4. Saving(h) => wait[h] <= MaxSave
        BY <1>1 DEF ClockInv
      <3>5. task[h] = "ticking" => NoObject + next[h] <= Interval
        BY <1>1, <3>2 DEF ClockInv, NoObject
      <3> QED
        BY <2>2, <3>1, <3>2, <3>3, <3>4, <3>5 DEF AgeInv, Saving, NoObject
    <2>7. \A g \in Host \ {h} : ClockInv(g)' /\ AgeInv(g)'
      BY <1>1, <1>2, <2>1, <2>2, OtherHost DEF AttTypeOK
    <2> QED
      BY <2>3, <2>5, <2>6, <2>7 DEF AttInv
  <1> QED
    BY <1>3, <1>4, <1>5, <1>6, <1>7 DEF serverStep

-----------------------------------------------------------------------------
\* spawn_attestation_task and save_attestation.

\* A save begins with all of its time left, by the schedule or after a failure.
LEMMA BeginPreserves ==
    ASSUME AttInv, NEW h \in Host, beginSave(h), task[h] # "none",
           next' \in [Host -> Int], next'[h] <= Interval,
           \A g \in Host \ {h} : next'[g] = next[g],
           enclave[h] # NoKey =>
              stored(h) <= Interval \/ sinceFailure[h] <= Retry
    PROVE  AttInv'
  <1>1. /\ AttTypeOK /\ KeyInv
        /\ \A g \in Host : ClockInv(g) /\ AgeInv(g)
    BY DEF AttInv
  <1>2. /\ task' = [task EXCEPT ![h] = "attesting"]
        /\ wait' = [wait EXCEPT ![h] = MaxSave]
        /\ UNCHANGED <<server, enclave, generated, doc, bucket, sinceFailure>>
    BY DEF beginSave
  <1>3. task'[h] = "attesting" /\ wait'[h] = MaxSave /\ MaxSave \in Nat
    BY <1>1, <1>2, TimeAssumption DEF AttTypeOK
  <1>4. AttTypeOK'
    BY <1>1, <1>2, <1>3 DEF AttTypeOK
  <1>5. KeyInv'
    BY <1>1, <1>2, SameKeys DEF AttTypeOK, KeyInv
  <1>6. ClockInv(h)'
    BY <1>3, TimeAssumption DEF ClockInv, Saving
  <1>7. AgeInv(h)'
    BY <1>2, <1>3, TimeAssumption DEF AgeInv, Saving, stored
  <1>8. \A g \in Host \ {h} : ClockInv(g)' /\ AgeInv(g)'
    BY <1>1, <1>2, OtherHost DEF AttTypeOK
  <1> QED
    BY <1>4, <1>5, <1>6, <1>7, <1>8 DEF AttInv

\* The loop of the task: a tick, a retry, a failure, or a document stored.
LEMMA TaskPreserves ==
    ASSUME AttInv, NEW h \in Host, taskStep(h)
    PROVE  AttInv'
  <1>1. /\ AttTypeOK /\ KeyInv
        /\ \A g \in Host : ClockInv(g) /\ AgeInv(g)
    BY DEF AttInv
  <1>2. /\ next \in [Host -> Int] /\ wait \in [Host -> Nat]
        /\ sinceFailure \in [Host -> Nat]
        /\ doc \in [Host -> [key : Key \cup {NoKey}, age : Ages]]
        /\ task \in [Host -> {"none", "starting", "sleeping", "attesting",
                              "storing", "ticking"}]
        /\ bucket \in [Key -> Ages \cup {NoObject}]
        /\ enclave \in [Host -> Key \cup {NoKey}]
    BY <1>1 DEF AttTypeOK
  <1>3. /\ Interval \in Nat /\ Retry \in Nat /\ MaxSave \in Nat
        /\ MaxSave < Interval
    BY TimeAssumption
  <1>4. CASE firstWake(h)
    <2>1. next' = [next EXCEPT ![h] = 0] /\ beginSave(h) /\ task[h] = "starting"
      BY <1>4 DEF firstWake
    <2>2. enclave[h] # NoKey => stored(h) <= Interval
      BY <1>1, <1>3, <2>1 DEF AgeInv, NoObject
    <2> QED
      BY <1>2, <1>3, <2>1, <2>2, BeginPreserves
  <1>5. CASE wake(h)
    <2>1. /\ UNCHANGED next /\ beginSave(h)
          /\ task[h] = "sleeping" /\ wait[h] = 0
      BY <1>5 DEF wake
    <2>2. next[h] <= Interval /\ sinceFailure[h] <= Retry
      BY <1>1, <1>3, <2>1 DEF ClockInv
    <2> QED
      BY <1>2, <2>1, <2>2, BeginPreserves
  <1>6. CASE tick(h)
    <2>1. /\ next' = [next EXCEPT ![h] = @ + Interval] /\ beginSave(h)
          /\ task[h] = "ticking" /\ next[h] <= 0
      BY <1>6 DEF tick
    <2>2. enclave[h] # NoKey => stored(h) <= Interval
      BY <1>1, <2>1 DEF AgeInv
    <2> QED
      BY <1>2, <1>3, <2>1, <2>2, BeginPreserves
  <1>7. CASE attested(h)
    <2>1. /\ task' = [task EXCEPT ![h] = "storing"]
          /\ doc' = [doc EXCEPT ![h] = [key |-> enclave[h], age |-> 0]]
          /\ UNCHANGED <<server, enclave, generated, wait, next, bucket, sinceFailure>>
          /\ task[h] = "attesting" /\ enclave[h] # NoKey
      BY <1>7 DEF attested
    <2>2. /\ doc'[h] = [key |-> enclave[h], age |-> 0] /\ task'[h] = "storing"
          /\ enclave[h] \in generated /\ 0 \in Ages
      BY <1>1, <1>2, <2>1, TimeAssumption DEF KeyInv, Ages
    <2>3. AttTypeOK'
      BY <1>1, <2>1, <2>2 DEF AttTypeOK
    <2>4. KeyInv'
      BY <1>1, <1>2, <2>1, <2>2 DEF KeyInv
    <2>5. ClockInv(h)' /\ AgeInv(h)'
      BY <1>1, <1>2, <1>3, <2>1, <2>2 DEF ClockInv, AgeInv, Saving, stored
    <2>6. \A g \in Host \ {h} : ClockInv(g)' /\ AgeInv(g)'
      BY <1>2, <2>1, OtherHost
    <2> QED
      BY <2>3, <2>4, <2>5, <2>6 DEF AttInv
  <1>8. CASE saved(h)
    <2>1. /\ task' = [task EXCEPT ![h] = "ticking"] /\ store(h)
          /\ UNCHANGED <<server, enclave, generated, wait, next, doc, sinceFailure>>
          /\ task[h] = "storing"
      BY <1>8 DEF saved
    <2>2. AttTypeOK'
      BY <1>1, <2>1, PutIsOwn DEF AttTypeOK
    <2>3. KeyInv'
      BY <1>1, <1>2, <2>1, SameKeys, PutIsOwn
    <2>4. task'[h] = "ticking" /\ ClockInv(h)'
      <3>1. next[h] <= Interval
        BY <1>1, <1>2, <1>3, <2>1 DEF ClockInv, Saving
      <3> QED
        BY <1>2, <2>1, <3>1 DEF ClockInv, Saving
    \* What is stored is as old as the save at most, and so is the tick before it.
    <2>5. AgeInv(h)'
      <3> SUFFICES ASSUME enclave[h] # NoKey
                   PROVE  /\ bucket'[enclave[h]] <= Interval
                          /\ bucket'[enclave[h]] + next[h] <= Interval
        BY <2>1, <2>4 DEF AgeInv, Saving, stored
      <3>1. bucket'[enclave[h]] \in {doc[h].age, NoObject}
        BY <1>1, <1>2, <2>1 DEF store, KeyInv, AttTypeOK
      <3>2. /\ doc[h].age <= MaxSave - wait[h] /\ doc[h].age \in Int
            /\ wait[h] <= MaxSave
            /\ next[h] + (MaxSave - wait[h]) <= Interval
        BY <1>1, <1>2, <2>1 DEF ClockInv, Saving, Ages
      <3> QED
        BY <1>2, <1>3, <3>1, <3>2 DEF NoObject
    <2>6. \A g \in Host \ {h} : ClockInv(g)' /\ AgeInv(g)'
      BY <1>2, <2>1, OtherHost, PutIsOwn
    <2> QED
      BY <2>2, <2>3, <2>4, <2>5, <2>6 DEF AttInv
  <1>9. CASE saveFailed(h)
    <2>1. /\ task' = [task EXCEPT ![h] = "sleeping"]
          /\ wait' = [wait EXCEPT ![h] = Retry]
          /\ sinceFailure' = [sinceFailure EXCEPT ![h] = 0]
          /\ UNCHANGED bucket \/ (task[h] = "storing" /\ store(h))
          /\ UNCHANGED <<server, enclave, generated, next, doc>>
          /\ Saving(h)
      BY <1>9 DEF saveFailed, Saving
    <2>2. AttTypeOK'
      BY <1>1, <1>3, <2>1, PutIsOwn DEF AttTypeOK
    <2>3. KeyInv'
      BY <1>1, <1>2, <2>1, SameKeys, PutIsOwn DEF Saving
    <2>4. /\ task'[h] = "sleeping" /\ wait'[h] = Retry /\ sinceFailure'[h] = 0
          /\ next'[h] <= Interval
      BY <1>1, <1>2, <1>3, <2>1 DEF ClockInv
    <2>5. ClockInv(h)' /\ AgeInv(h)'
      BY <1>3, <2>4 DEF ClockInv, AgeInv, Saving
    <2>6. \A g \in Host \ {h} : ClockInv(g)' /\ AgeInv(g)'
      BY <1>2, <2>1, OtherHost, PutIsOwn
    <2> QED
      BY <2>2, <2>3, <2>5, <2>6 DEF AttInv
  <1> QED
    BY <1>4, <1>5, <1>6, <1>7, <1>8, <1>9 DEF taskStep

-----------------------------------------------------------------------------
\* Time passes for all at once.

\* A clock counts no further than its bound.
LEMMA AtMostBounds ==
    ASSUME NEW bound \in Nat, NEW n \in Int
    PROVE  /\ atMost(bound, n) \in Int
           /\ atMost(bound, n) <= bound /\ atMost(bound, n) <= n
           /\ n >= 0 => atMost(bound, n) \in 0..bound
  BY DEF atMost

\* Nothing gets older than its deadline allows before the task has to move.
LEMMA TimePreserves ==
    ASSUME AttInv, passTime
    PROVE  AttInv'
  <1>1. /\ AttTypeOK /\ KeyInv
        /\ \A h \in Host : ClockInv(h) /\ AgeInv(h)
    BY DEF AttInv
  <1>2. /\ next \in [Host -> Int] /\ wait \in [Host -> Nat]
        /\ sinceFailure \in [Host -> Nat]
        /\ doc \in [Host -> [key : Key \cup {NoKey}, age : Ages]]
        /\ bucket \in [Key -> Ages \cup {NoObject}]
        /\ enclave \in [Host -> Key \cup {NoKey}]
    BY <1>1 DEF AttTypeOK
  <1>3. /\ Interval \in Nat /\ Retry \in Nat /\ MaxSave \in Nat
        /\ Expiry \in Nat /\ MissedBound \in Nat /\ MaxSave < Interval
        /\ Recovery + 1 \in Nat
    BY TimeAssumption DEF Recovery
  <1>4. UNCHANGED <<server, enclave, generated, task>>
    BY DEF passTime
  <1>5. ASSUME NEW h \in Host
        PROVE  /\ wait[h] > 0 => wait'[h] = wait[h] - 1
               /\ wait'[h] \in Nat
               /\ next'[h] \in Int
               /\ task[h] \notin {"none", "starting"} =>
                     next'[h] = next[h] - 1 \/ next'[h] = -MissedBound
               /\ task[h] \notin {"none", "starting"} /\ next[h] > 0 =>
                     next'[h] = next[h] - 1
               /\ sinceFailure'[h] \in Nat
               /\ sinceFailure'[h] <= sinceFailure[h] + 1
               /\ doc'[h] \in [key : Key \cup {NoKey}, age : Ages]
               /\ doc'[h].key = doc[h].key
               /\ doc'[h].age <= doc[h].age + 1
    <2>1. /\ wait'[h] = countDown(wait[h])
          /\ next'[h] = IF task[h] \in {"none", "starting"} THEN next[h]
                        ELSE -atMost(MissedBound, 1 - next[h])
          /\ doc'[h] = [doc[h] EXCEPT !.age = atMost(Expiry, @ + 1)]
          /\ sinceFailure'[h] = atMost(Recovery + 1, sinceFailure[h] + 1)
      BY DEF passTime
    <2>2. doc[h] \in [key : Key \cup {NoKey}, age : Ages] /\ doc[h].age \in Nat
      BY <1>2 DEF Ages
    <2>3. atMost(Expiry, doc[h].age + 1) \in Ages
      BY <1>3, <2>2 DEF atMost, Ages
    <2>4. /\ doc'[h] \in [key : Key \cup {NoKey}, age : Ages]
          /\ doc'[h].key = doc[h].key
          /\ doc'[h].age <= doc[h].age + 1
      BY <1>3, <2>1, <2>2, <2>3, AtMostBounds
    <2>5. /\ sinceFailure'[h] \in Nat
          /\ sinceFailure'[h] <= sinceFailure[h] + 1
      BY <1>2, <1>3, <2>1, AtMostBounds
    <2>6. wait'[h] \in Nat /\ (wait[h] > 0 => wait'[h] = wait[h] - 1)
      BY <1>2, <2>1 DEF countDown
    <2>7. next'[h] \in Int
      BY <1>2, <1>3, <2>1 DEF atMost
    <2>8. task[h] \notin {"none", "starting"} =>
             /\ next'[h] = next[h] - 1 \/ next'[h] = -MissedBound
             /\ next[h] > 0 => next'[h] = next[h] - 1
      BY <1>2, <1>3, <2>1 DEF atMost
    <2> QED
      BY <1>3, <2>1, <2>4, <2>5, <2>6, <2>7, <2>8
  <1>6. ASSUME NEW k \in Key
        PROVE  /\ bucket'[k] \in Ages \cup {NoObject}
               /\ bucket[k] = NoObject => bucket'[k] = NoObject
               /\ bucket'[k] <= bucket[k] + 1
    <2>1. bucket'[k] = IF bucket[k] = NoObject THEN NoObject
                       ELSE atMost(Expiry, bucket[k] + 1)
      BY DEF passTime
    <2>2. bucket[k] \in 0..Expiry \/ bucket[k] = -1
      BY <1>2 DEF Ages, NoObject
    <2> QED
      BY <1>3, <2>1, <2>2, AtMostBounds DEF Ages, NoObject
  <1>7. AttTypeOK'
    <2>1. /\ wait' \in [Host -> Nat] /\ next' \in [Host -> Int]
          /\ sinceFailure' \in [Host -> Nat]
          /\ doc' \in [Host -> [key : Key \cup {NoKey}, age : Ages]]
      BY <1>5 DEF passTime
    <2>2. bucket' \in [Key -> Ages \cup {NoObject}]
      BY <1>6 DEF passTime
    <2> QED
      BY <1>1, <1>4, <1>5, <2>1, <2>2 DEF AttTypeOK
  <1>8. KeyInv'
    <2>1. \A g \in Host : enclave[g] # NoKey /\ bucket[enclave[g]] = NoObject
                           => bucket'[enclave[g]] = NoObject
      BY <1>2, <1>6
    <2>2. \A k \in Key \ generated : bucket'[k] = NoObject
      BY <1>1, <1>6 DEF KeyInv
    <2>3. \A g \in Host : doc'[g].key = doc[g].key
      BY <1>5
    <2> QED
      BY <1>4, <2>1, <2>2, <2>3, SameKeys
  <1>9. ASSUME NEW h \in Host PROVE ClockInv(h)' /\ AgeInv(h)'
    \* A task that has something to do at once would have stopped time.
    <2>1. /\ task[h] \in {"starting", "sleeping", "attesting", "storing"} =>
                wait[h] > 0
          /\ task[h] = "ticking" => next[h] > 0
      BY DEF passTime, idle
    <2>2. ClockInv(h)'
      <3>1. CASE Saving(h)
        <4>1. /\ wait'[h] = wait[h] - 1 /\ wait[h] <= MaxSave
              /\ next[h] + (MaxSave - wait[h]) <= Interval
              /\ next'[h] = next[h] - 1 \/ next'[h] = -MissedBound
          BY <1>1, <1>5, <2>1, <3>1 DEF Saving, ClockInv
        <4>2. task[h] = "storing" => doc'[h].age <= MaxSave - wait'[h]
          BY <1>1, <1>2, <1>3, <1>5, <4>1 DEF ClockInv, Ages
        <4> QED
          BY <1>2, <1>3, <1>4, <1>5, <3>1, <4>1, <4>2 DEF ClockInv, Saving
      <3>2. CASE task[h] = "sleeping"
        BY <1>1, <1>2, <1>3, <1>4, <1>5, <2>1, <3>2 DEF ClockInv, Saving
      <3>3. CASE ~Saving(h) /\ task[h] # "sleeping"
        BY <1>1, <1>2, <1>3, <1>4, <1>5, <2>1, <3>3 DEF ClockInv, Saving
      <3> QED
        BY <3>1, <3>2, <3>3
    <2>3. AgeInv(h)'
      <3> SUFFICES ASSUME enclave[h] # NoKey PROVE AgeInv(h)'
        BY <1>4 DEF AgeInv
      <3>1. /\ enclave[h] \in Key
            /\ stored(h)' <= stored(h) + 1
            /\ stored(h) \in Int /\ stored(h)' \in Int
            /\ stored(h) = NoObject => stored(h)' = NoObject
        BY <1>2, <1>4, <1>6 DEF stored, Ages, NoObject
      <3>2. CASE Saving(h)
        BY <1>1, <1>2, <1>3, <1>4, <1>5, <2>1, <3>1, <3>2 DEF AgeInv, Saving, ClockInv
      <3>3. CASE ~Saving(h)
        BY <1>1, <1>2, <1>3, <1>4, <1>5, <2>1, <3>1, <3>3 DEF AgeInv, Saving
      <3> QED
        BY <3>2, <3>3
    <2> QED
      BY <2>2, <2>3
  <1> QED
    BY <1>7, <1>8, <1>9 DEF AttInv

-----------------------------------------------------------------------------

\* Every step of the hosts and of time.
LEMMA StepPreserves == AttInv /\ [AttNext]_attVars => AttInv'
  <1> SUFFICES ASSUME AttInv, [AttNext]_attVars PROVE AttInv'
    OBVIOUS
  <1>1. CASE UNCHANGED attVars
    <2>1. /\ UNCHANGED <<server, enclave, generated, task, wait, next, doc, bucket,
                         sinceFailure>>
          /\ AttTypeOK /\ KeyInv
      BY <1>1 DEF attVars, AttInv
    <2>2. AttTypeOK' /\ KeyInv'
      BY <2>1 DEF AttTypeOK, KeyInv
    <2>3. \A g \in Host : ClockInv(g)' /\ AgeInv(g)'
      BY <2>1, OtherHost
    <2> QED
      BY <2>2, <2>3 DEF AttInv
  <1> QED
    BY <1>1, ServerPreserves, TaskPreserves, TimePreserves DEF AttNext

\* How old the attestation of a running enclave is at each point of the task's
\* loop, and that no other host writes under its key.
THEOREM AttestationInvariant == AttSpec => []AttInv
  BY InitEstablishes, StepPreserves, PTL DEF AttSpec

\* Types of hosts, attestation tasks and bucket.
THEOREM AttTypeCorrect == AttSpec => []AttTypeOK
  <1>1. AttInv => AttTypeOK
    BY DEF AttInv
  <1> QED
    BY <1>1, AttestationInvariant, PTL

\* spawn_attestation_task keeps the attestation of the running enclave fresh,
\* unless saves keep failing.
THEOREM AttestationsStayFresh == AttSpec => []FreshUnlessFailing
  <1>1. AttInv => FreshUnlessFailing
    <2> SUFFICES ASSUME AttInv, NEW h \in Host, task[h] # "none", enclave[h] # NoKey,
                        bucket[enclave[h]] > Interval + MaxSave
                 PROVE  sinceFailure[h] <= Recovery
      BY DEF FreshUnlessFailing
    <2>1. /\ AttTypeOK /\ ClockInv(h) /\ AgeInv(h)
          /\ wait[h] \in Nat /\ sinceFailure[h] \in Nat
          /\ enclave[h] \in Key /\ bucket[enclave[h]] \in Int
      BY DEF AttInv, AttTypeOK, Ages, NoObject
    <2>2. /\ Interval \in Nat /\ MaxSave \in Nat /\ Retry \in Nat
      BY TimeAssumption
    <2>3. CASE Saving(h)
      BY <2>1, <2>2, <2>3 DEF AgeInv, ClockInv, stored, Recovery
    <2>4. CASE task[h] = "sleeping"
      BY <2>1, <2>2, <2>4 DEF ClockInv, Recovery
    <2>5. CASE task[h] \in {"starting", "ticking"}
      BY <2>1, <2>2, <2>5 DEF AgeInv, stored, NoObject
    <2> QED
      BY <2>1, <2>3, <2>4, <2>5 DEF AttTypeOK, Saving
  <1> QED
    BY <1>1, AttestationInvariant, PTL

-----------------------------------------------------------------------------
\* The refinement of AttestationStore.

\* A put_object is the Save of its host's key, and nothing else writes the bucket.
LEMMA PutIsSave ==
    ASSUME AttInv, NEW h \in Host, UNCHANGED generated,
           UNCHANGED bucket \/ (task[h] = "storing" /\ store(h))
    PROVE  [Store!StoreNext]_(Store!storeVars)
  <1>1. CASE UNCHANGED bucket
    BY <1>1 DEF Store!storeVars
  <1>2. CASE task[h] = "storing" /\ store(h)
    <2>1. /\ doc[h].key \in generated /\ generated \subseteq Key
          /\ doc[h].age \in 0..Expiry /\ wait[h] \in Nat
          /\ doc[h].age <= MaxSave - wait[h]
      BY <1>2 DEF AttInv, AttTypeOK, ClockInv, Ages
    <2>2. bucket' = [bucket EXCEPT ![doc[h].key] = doc[h].age]
      BY <1>2 DEF store
    <2>3. seenAs(doc[h].age) = "valid"
      BY <2>1, TimeAssumption DEF seenAs, NoObject
    <2>4. \A k \in Key : bucket'[k] = IF k = doc[h].key THEN doc[h].age
                                      ELSE bucket[k]
      BY <2>1, <2>2 DEF AttInv, AttTypeOK
    <2>5. [k \in Key |-> seenAs(bucket'[k])]
             = [[k \in Key |-> seenAs(bucket[k])] EXCEPT ![doc[h].key] = "valid"]
      BY <2>1, <2>3, <2>4
    <2>6. Store!save(doc[h].key)
      BY <2>1, <2>5 DEF Store!save
    <2> QED
      BY <2>1, <2>6 DEF Store!StoreNext
  <1> QED
    BY <1>1, <1>2

\* Those expire that are one unit from it.
LEMMA TimeExpires ==
    ASSUME AttInv, passTime
    PROVE  [Store!StoreNext]_(Store!storeVars)
  <1> DEFINE S == {k \in Key : bucket[k] = Expiry - 1}
  <1>1. bucket \in [Key -> Ages \cup {NoObject}] /\ UNCHANGED generated
    BY DEF AttInv, AttTypeOK, passTime
  <1>2. Expiry \in Nat \ {0}
    BY TimeAssumption
  <1>3. ASSUME NEW k \in Key
        PROVE  /\ k \in S => seenAs(bucket[k]) = "valid"
               /\ seenAs(bucket'[k]) =
                     IF k \in S THEN "expired" ELSE seenAs(bucket[k])
    <2>1. bucket'[k] = IF bucket[k] = NoObject THEN NoObject
                       ELSE atMost(Expiry, bucket[k] + 1)
      BY DEF passTime
    <2>2. bucket[k] = -1 \/ bucket[k] \in 0..Expiry
      BY <1>1 DEF Ages, NoObject
    <2> QED
      BY <1>2, <2>1, <2>2 DEF seenAs, atMost, NoObject
  <1> HIDE DEF S
  <1>4. CASE S = {}
    <2>1. [k \in Key |-> seenAs(bucket'[k])] = [k \in Key |-> seenAs(bucket[k])]
      BY <1>3, <1>4
    <2> QED
      BY <1>1, <2>1 DEF Store!storeVars
  <1>5. CASE S # {}
    <2>1. S \in SUBSET Key
      BY DEF S
    <2>2. Store!expire(S)
      BY <1>1, <1>3, <1>5, <2>1 DEF Store!expire
    <2> QED
      BY <2>1, <2>2 DEF Store!StoreNext
  <1> QED
    BY <1>4, <1>5

\* Every behaviour of the hosts is one of the bucket AttestationStore promises:
\* what save_attestation stores is not expired and under a generated key.
THEOREM AttestationsImplementStore == AttSpec => ImplementsStore
  <1>1. AttInit => Store!StoreInit
    BY DEF AttInit, Store!StoreInit, seenAs
  <1>2. AttInv /\ [AttNext]_attVars => [Store!StoreNext]_(Store!storeVars)
    <2> SUFFICES ASSUME AttInv, [AttNext]_attVars
                 PROVE  [Store!StoreNext]_(Store!storeVars)
      OBVIOUS
    <2>1. CASE passTime
      BY <2>1, TimeExpires
    <2>2. ASSUME NEW h \in Host, startEnclave(h) \/ secondServer(h)
          PROVE  Store!StoreNext
      <3>1. PICK k \in Key \ generated : generated' = generated \cup {k}
        BY <2>2 DEF startEnclave, secondServer
      <3>2. Store!boot(k)
        BY <2>2, <3>1 DEF startEnclave, secondServer, Store!boot
      <3> QED
        BY <3>1, <3>2 DEF Store!StoreNext
    <2>3. ASSUME NEW h \in Host,
                 \/ terminateEnclaves(h) \/ startFails(h) \/ enclaveDies(h)
                 \/ ctrlC(h) \/ kill(h)
          PROVE  [Store!StoreNext]_(Store!storeVars)
      <3>1. /\ UNCHANGED generated
            /\ UNCHANGED bucket \/ (task[h] = "storing" /\ store(h))
        BY <2>3
        DEF terminateEnclaves, startFails, enclaveDies, ctrlC, kill, endTask
      <3> QED
        BY <3>1, PutIsSave
    <2>4. ASSUME NEW h \in Host, taskStep(h)
          PROVE  [Store!StoreNext]_(Store!storeVars)
      <3>1. /\ UNCHANGED generated
            /\ UNCHANGED bucket \/ (task[h] = "storing" /\ store(h))
        BY <2>4
        DEF taskStep, firstWake, wake, tick, beginSave, attested, saved, saveFailed
      <3> QED
        BY <3>1, PutIsSave
    <2>5. CASE UNCHANGED attVars
      BY <2>5 DEF attVars, Store!storeVars
    <2> QED
      BY <2>1, <2>2, <2>3, <2>4, <2>5 DEF AttNext, serverStep
  <1> QED
    BY <1>1, <1>2, AttestationInvariant, PTL
    DEF AttSpec, ImplementsStore, Store!StoreSpec
=============================================================================

----------------------------- MODULE TeeService -----------------------------
(***************************************************************************)
(* The host's HTTP server (host/bin/server.rs) and its attestation task    *)
(* (save_attestation of host/src/attestations.rs) over the enclave of      *)
(* EnclaveServer.  A call is named by the connection it may open: every    *)
(* call opens at most one, and no call uses another's.                     *)
(*                                                                         *)
(*   execute  POST /execute: whitelist, the execution mutex, one Execute   *)
(*   address  GET /address: one GetPublicKey, no mutex                     *)
(*   attest   AttestSigningKey and GetPublicKey sent together, then the    *)
(*            two answers                                                  *)
(*                                                                         *)
(* A client that disconnects has its future dropped at whatever await it   *)
(* is at.  Nothing times out: no step here is taken because time passed.   *)
(***************************************************************************)
EXTENDS EnclaveServer, SequencesExt

CONSTANTS
    Kind,             \* call -> "execute", "address" or "attest"
    Wanted,           \* execute call -> its program
    Limit             \* execute call -> its cycle limit

ASSUME CallAssumption ==
    /\ Kind \in [Conn -> {"execute", "address", "attest"}]
    /\ Wanted \in [Conn -> Program]
    /\ Limit \in [Conn -> CycleLimit]

VARIABLES
    pc,               \* "idle", "auth", "waiting" for the mutex, "connecting",
                      \* "calling", "saving" what it read, "done", "gone"
    line,             \* execution_mutex: its holder, then those who wait
    got,              \* how many answers the call has read
    verdict           \* what the caller was told, as a sequence

hostVars == <<pc, line, got, verdict>>

serviceVars == <<vars, hostVars>>

ServiceInit ==
    /\ Init
    /\ pc = [k \in Conn |-> "idle"]
    /\ line = <<>>
    /\ got = [k \in Conn |-> 0]
    /\ verdict = [k \in Conn |-> <<>>]

Requests(k) ==
    CASE Kind[k] = "execute" -> <<Execute(Wanted[k], Limit[k])>>
      [] Kind[k] = "address" -> <<Plain("GetPublicKey")>>
      [] OTHER -> <<Plain("AttestSigningKey"), Plain("GetPublicKey")>>

Failed == Plain("Failed")

-----------------------------------------------------------------------------

\* A plausible bug: the permit is released whoever is dropped.
unlockHead(k) ==
    \/ k \notin Range(line) /\ UNCHANGED line
    \/ k \in Range(line) /\ line' = Tail(line)

\* tokio's Mutex is fair: its semaphore hands the permit to the first in line.
\* Dropping the guard, or the future that waits for it, leaves the line.
unlock(k) ==
    \/ k \notin Range(line) /\ UNCHANGED line
    \/ \E i \in 1..Len(line) : line[i] = k /\ line' = RemoveAt(line, i)

\* The call returns.  Its locals are dropped: the stream, then the guard.
return(k, outcome) ==
    /\ pc' = [pc EXCEPT ![k] = "done"]
    /\ verdict' = [verdict EXCEPT ![k] = Append(@, outcome)]
    /\ unlock(k)
    /\ IF hostEnd[k] = "open" THEN dropStream(k) ELSE UNCHANGED hostEnd
    /\ UNCHANGED got

goto(k, label) ==
    /\ pc' = [pc EXCEPT ![k] = label]
    /\ UNCHANGED <<line, got, verdict>>

\* A request comes in, or the attestation task wakes up.
begin(k) ==
    /\ pc[k] = "idle"
    /\ goto(k, IF Kind[k] = "execute" THEN "auth" ELSE "connecting")
    /\ UNCHANGED vars

\* is_whitelisted(..).await said no, or failed; or the body does not parse.
refuse(k) ==
    /\ pc[k] = "auth"
    /\ return(k, Plain("Refused"))
    /\ UNCHANGED <<up, down, partial, enclaveVars>>

\* It said yes: the response starts, and its stream asks for the mutex.
enterLine(k) ==
    /\ pc[k] = "auth"
    /\ pc' = [pc EXCEPT ![k] = "waiting"]
    /\ line' = Append(line, k)
    /\ UNCHANGED <<vars, got, verdict>>

\* A plausible bug: the mutex goes to any of those who wait.
mayConnectUnfair(k) == pc[k] = "connecting" \/ pc[k] = "waiting"

mayConnect(k) ==
    \/ pc[k] = "connecting"
    \/ pc[k] = "waiting" /\ line # <<>> /\ Head(line) = k

connectEnclave(k) ==
    /\ mayConnect(k)
    /\ \/ hostConnect(k) /\ goto(k, "calling")
       \/ return(k, Failed) /\ UNCHANGED <<up, down, partial, enclaveVars>>

\* A call in flight with nothing left to send.
allSent(k) == Len(up[k]) = Len(Requests(k)) /\ partial[k] = NoRequest

\* A program with its input may be more than a frame holds.
sendRequest(k) ==
    /\ pc[k] = "calling"
    /\ Len(up[k]) < Len(Requests(k)) /\ partial[k] = NoRequest
    /\ \/ /\ beginSend(k, Requests(k)[Len(up[k]) + 1])
          /\ UNCHANGED <<enclaveVars, hostVars>>
       \/ /\ Kind[k] = "execute"
          /\ return(k, Failed)
          /\ UNCHANGED <<up, down, partial, enclaveVars>>

enclaveEndClosed(k) == handler[k] \in {"closed", "panicked"}

\* The send completes; it may fail once the enclave's end is closed.
sent(k) ==
    /\ pc[k] = "calling" /\ partial[k] # NoRequest
    /\ \/ hostEndSend(k) /\ UNCHANGED hostVars
       \/ /\ enclaveEndClosed(k)
          /\ return(k, Failed)
          /\ UNCHANGED <<up, down, partial, enclaveVars>>

\* A plausible bug: the two answers of an attestation are taken in any order.
expectedAnyOrder(k, i, response) ==
    IF Kind[k] = "execute" THEN response.type = "SignedPublicValues"
    ELSE response.type \in {"SigningKeyAttestation", "PublicKey", "Error"}

\* The answer the call's i-th request should have.
expected(k, i, response) ==
    CASE Kind[k] = "execute" -> response.type = "SignedPublicValues"
      [] Kind[k] = "attest" /\ i = 1 -> response.type = "SigningKeyAttestation"
      [] OTHER -> response.type = "PublicKey"

\* What a call returns that has read all its answers and has nothing to store.
\* The address is written from the key.
returned(k, response) == IF Kind[k] = "execute" THEN response ELSE Plain("Address")

\* recv returns a response.
received(k) ==
    /\ pc[k] = "calling" /\ allSent(k)
    /\ got[k] < Len(down[k])
    /\ LET n == got[k] + 1
           response == down[k][n]
       IN  \/ /\ expected(k, n, response) /\ n < Len(Requests(k))
              /\ got' = [got EXCEPT ![k] = n]
              /\ UNCHANGED <<pc, line, verdict, hostEnd>>
           \/ /\ expected(k, n, response) /\ n = Len(Requests(k))
              /\ IF Kind[k] = "attest"
                 THEN /\ got' = [got EXCEPT ![k] = n]
                      /\ pc' = [pc EXCEPT ![k] = "saving"]
                      /\ UNCHANGED <<line, verdict, hostEnd>>
                 ELSE return(k, returned(k, response))
           \/ /\ ~expected(k, n, response)
              /\ return(k, Failed)
    /\ UNCHANGED <<up, down, partial, enclaveVars>>

\* put_object, awaited with the stream still open, is done or fails.
save(k) ==
    /\ pc[k] = "saving"
    /\ return(k, Plain("Saved")) \/ return(k, Failed)
    /\ UNCHANGED <<up, down, partial, enclaveVars>>

\* recv fails: the enclave's end is closed and every answer has been read.
receiveFailed(k) ==
    /\ pc[k] = "calling" /\ allSent(k)
    /\ got[k] = Len(down[k]) /\ enclaveEndClosed(k)
    /\ return(k, Failed)
    /\ UNCHANGED <<up, down, partial, enclaveVars>>

\* A plausible bug: the place in the line of a client that left is kept.
leaveKeepsPlace(k) ==
    /\ Kind[k] # "attest"
    /\ pc[k] \in {"auth", "waiting", "connecting", "calling"}
    /\ pc' = [pc EXCEPT ![k] = "gone"]
    /\ IF hostEnd[k] = "open" THEN dropStream(k) ELSE UNCHANGED hostEnd
    /\ UNCHANGED <<up, down, partial, enclaveVars, line, got, verdict>>

\* A plausible bug: a call that has returned can still be given up.
leaveAnswered(k) ==
    /\ Kind[k] # "attest"
    /\ pc[k] # "idle"
    /\ pc' = [pc EXCEPT ![k] = "gone"]
    /\ unlock(k)
    /\ IF hostEnd[k] = "open" THEN dropStream(k) ELSE UNCHANGED hostEnd
    /\ UNCHANGED <<up, down, partial, enclaveVars, got, verdict>>

\* The client, or the proxy in front of it, closes its connection.
leave(k) ==
    /\ Kind[k] # "attest"
    /\ pc[k] \in {"auth", "waiting", "connecting", "calling"}
    /\ pc' = [pc EXCEPT ![k] = "gone"]
    /\ unlock(k)
    /\ IF hostEnd[k] = "open" THEN dropStream(k) ELSE UNCHANGED hostEnd
    /\ UNCHANGED <<up, down, partial, enclaveVars, got, verdict>>

\* It does so while the call connects, which leaves the enclave a connection that
\* closes without a CloseSession.
leaveConnecting(k) ==
    /\ Kind[k] # "attest" /\ mayConnect(k)
    /\ hostConnectDropped(k)
    /\ pc' = [pc EXCEPT ![k] = "gone"]
    /\ unlock(k)
    /\ UNCHANGED <<got, verdict>>

\* The host's process ends: every call ends with it unanswered, no task is left
\* to close a stream, and who calls later finds no server.  The enclave runs on;
\* the next start of a server terminates it (Attestations).
hostGoes ==
    /\ \E k \in Conn : pc[k] \notin {"done", "gone"} \/ hostEnd[k] = "dropped"
    /\ pc' = [k \in Conn |-> IF pc[k] = "done" THEN "done" ELSE "gone"]
    /\ hostEnd' = [k \in Conn |-> IF hostEnd[k] = "none" THEN "none" ELSE "closed"]
    /\ partial' = [k \in Conn |-> NoRequest]
    /\ line' = <<>>
    /\ UNCHANGED <<up, down, enclaveVars, got, verdict>>

\* The future of the call, at its next await.
callStep(k) ==
    \/ refuse(k) \/ enterLine(k)
    \/ connectEnclave(k)
    \/ sendRequest(k) \/ sent(k)
    \/ received(k) \/ receiveFailed(k)
    \/ save(k)

closeSessionTask(k) == hostCloseTask(k) /\ UNCHANGED hostVars

enclaveTask(k) == EnclaveStep(k) /\ UNCHANGED hostVars

enclaveCrash == crash /\ UNCHANGED hostVars

ServiceNext ==
    \/ enclaveCrash \/ hostGoes
    \/ \E k \in Conn : \/ begin(k) \/ callStep(k)
                       \/ leave(k) \/ leaveConnecting(k)
                       \/ closeSessionTask(k) \/ enclaveTask(k)

ServiceSpec == ServiceInit /\ [][ServiceNext]_serviceVars

\* Both runtimes poll every task that can proceed.  Threads contend, so theirs
\* is strong fairness: the pool starts its queue in order, parking_lot's mutex
\* is eventually fair to each thread that waits, and an execution ends, at its
\* cycle limit if not before.  Nobody has to call, to leave or to crash.
ServiceFairness ==
    \A k \in Conn :
        /\ WF_serviceVars(callStep(k))
        /\ WF_serviceVars(closeSessionTask(k))
        /\ WF_serviceVars(handlerStep(k) /\ UNCHANGED hostVars)
        /\ SF_serviceVars(threadStep(k) /\ UNCHANGED hostVars)

FairServiceSpec == ServiceSpec /\ ServiceFairness

-----------------------------------------------------------------------------

ServiceTypeOK ==
    /\ EnclaveTypeOK
    /\ pc \in [Conn -> {"idle", "auth", "waiting", "connecting", "calling",
                        "saving", "done", "gone"}]
    /\ line \in Seq(Conn)
    /\ got \in [Conn -> Nat]
    /\ verdict \in [Conn -> Seq(Response \cup
            {Failed, Plain("Refused"), Plain("Address"), Plain("Saved")})]
    \* A call is answered once, as it returns.
    /\ \A k \in Conn : Len(verdict[k]) = IF pc[k] = "done" THEN 1 ELSE 0

\* bin/server.rs:160: "In order to avoid OOM in the enclave, we run only one
\* program at a time."  Whatever an abandoned call left running in there, no
\* more than one request that a client still waits for is inside the enclave,
\* and it is the mutex holder's: the guard is contended by orphans alone.
OneWaitedExecution ==
    \A k \in Conn :
        Kind[k] = "execute" /\ hostEnd[k] = "open"
          => line # <<>> /\ Head(line) = k

\* A client is told the public values of the program it sent and of no other,
\* within the limit, whatever was cut, abandoned or queued before it.
OwnAnswer ==
    \A k \in Conn : \A i \in 1..Len(verdict[k]) :
        verdict[k][i].type = "SignedPublicValues"
          => /\ Kind[k] = "execute"
             /\ verdict[k][i] = SignedPublicValues(Wanted[k])
             /\ Limit[k] <= MaxAllowedCycles

\* The enclave signs no program but the one asked for on the connection, and runs
\* it within the limit asked for and allowed: a frame cut by a client that left,
\* and completed by the CloseSession behind it, has it do so with no other.  But
\* one limit beyond the allowed can lose the bytes that put it there; then what is
\* signed goes to nobody.
SignedWasAsked ==
    \A k \in Conn : \A i \in 1..Len(down[k]) :
        down[k][i].type = "SignedPublicValues"
          => /\ Kind[k] = "execute"
             /\ down[k][i] = SignedPublicValues(Wanted[k])
             /\ up[k][i].cycle_limit <= MaxAllowedCycles
             /\ \/ up[k][i].cycle_limit = Limit[k]
                \/ /\ Limit[k] > MaxAllowedCycles
                   /\ up[k][i].cycle_limit \in Mixed[Limit[k]]
                   /\ pc[k] = "gone" /\ verdict[k] = <<>>

\* The two requests of save_attestation are in flight together, and their
\* answers told apart by order alone: what is stored as the attestation is one,
\* under the address of the key that the same enclave sent after it.
SavedIsAttestation ==
    \A k \in Conn : \A i \in 1..Len(verdict[k]) :
        verdict[k][i] = Plain("Saved")
          => /\ Kind[k] = "attest"
             /\ down[k] = <<Plain("SigningKeyAttestation"), Plain("PublicKey")>>

ExecuteCall == {k \in Conn : Kind[k] = "execute"}

ExecuteOutcomes(k) ==
    {Failed} \cup (IF Limit[k] <= MaxAllowedCycles
                   THEN {SignedPublicValues(Wanted[k])} ELSE {})

\* Over a crashing enclave, orphaned executions and cut frames, the execute
\* calls see a queue that serves one at a time in order of arrival.
Queue == INSTANCE ExecutionQueue WITH
            Caller <- ExecuteCall,
            Outcomes <- ExecuteOutcomes,
            answered <- [k \in ExecuteCall |-> verdict[k]],
            left <- {k \in ExecuteCall : pc[k] = "gone"}

ImplementsQueue == Queue!Spec

\* Every call that was begun returns or is given up by its client: no waiter
\* stays behind one that left, none behind an orphan in the enclave, and none
\* behind an enclave that has gone.
EveryCallEnds ==
    \A k \in Conn : pc[k] # "idle" ~> pc[k] \in {"done", "gone"}

\* Every connection a call leaves behind is closed on both sides in the end,
\* its thread in the enclave free.
EnclaveDrains ==
    \A k \in Conn :
        hostEnd[k] # "none" ~> /\ hostEnd[k] = "closed"
                               /\ handler[k] \in {"closed", "panicked"}
                               /\ task[k] = "none"
=============================================================================

--------------------------- MODULE EnclaveServer ---------------------------
(***************************************************************************)
(* enclave/src/server.rs: one task per connection reads requests and       *)
(* answers them in turn; AttestSigningKey and Execute run on a thread of   *)
(* tokio's blocking pool, and an execution there takes the execution       *)
(* guard.  The host is any program that uses HostStream: HostStep lets it  *)
(* send any request at any time, drop a stream at any await, and end.      *)
(*                                                                         *)
(* A handler that panics (every send and recv is unwrapped) ends its own   *)
(* task and closes its end of the connection; a panic of the executor is   *)
(* caught as a JoinError.  What the host wants no more is not cancelled.   *)
(***************************************************************************)
EXTENDS VsockStream

CONSTANTS
    MaxAllowedCycles,  \* u32::MAX
    PoolSize,          \* threads of the blocking pool
    DebugMode,         \* built with the debug-mode feature?
    NoConn,
    Asked,             \* the requests the host sends
    MaxRequests        \* bound on the requests of a connection, for TLC

\* Five of the bytes of a CloseSession are zero and stand for nothing that a limit
\* of u32::MAX or less has; the 4 or the 6 puts any limit beyond.  Only one that is
\* beyond by itself can be read as another that is allowed.  FramesProofs shows
\* this of the bytes.
ASSUME LimitAssumption ==
    /\ CycleLimit \subseteq Nat /\ MaxAllowedCycles \in Nat
    /\ Mixed \in [CycleLimit -> SUBSET Nat]
    /\ \A l \in CycleLimit : \A m \in Mixed[l] :
          l <= MaxAllowedCycles /\ m <= MaxAllowedCycles => m = l

ASSUME AskedAssumption == Asked \subseteq Request
ASSUME PoolAssumption == PoolSize \in Nat \ {0}
ASSUME DebugAssumption == DebugMode \in BOOLEAN
ASSUME NoneAssumption ==
    /\ NoConn \notin Conn
    /\ NoRequest \notin Request \cup {CloseSession}

VARIABLES
    alive,             \* is the enclave running?
    handler,           \* "none", "backlog", "receiving", "awaiting", "closed",
                       \* "panicked": the task of the connection
    taken,             \* how many frames of up[c] the handler has read
    task,              \* "none", "pooled", "guard", "running", "attesting",
                       \* "done": the blocking task of the current request
    result,            \* what that task returned
    guard              \* the connection whose execution holds execution_guard

enclaveVars == <<alive, handler, taken, task, result, guard>>

vars == <<streamVars, enclaveVars>>

Busy == {c \in Conn : task[c] \in {"guard", "running", "attesting"}}

\* The request the handler works on.
current(c) == up[c][taken[c]]

EnclaveInit ==
    /\ alive = TRUE
    /\ handler = [c \in Conn |-> "none"]
    /\ taken = [c \in Conn |-> 0]
    /\ task = [c \in Conn |-> "none"]
    /\ result = [c \in Conn |-> Plain("Error")]
    /\ guard = NoConn

-----------------------------------------------------------------------------
\* The connection's task: handle_connection and handle_message.

\* run: the listener hands a connection to a new task.
accept(c) ==
    /\ alive
    /\ handler[c] = "backlog"
    /\ handler' = [handler EXCEPT ![c] = "receiving"]
    /\ UNCHANGED <<streamVars, alive, taken, task, result, guard>>

\* stream.recv().await.unwrap() returns a request of one of these types.
recv(c, types) ==
    /\ alive
    /\ handler[c] = "receiving"
    /\ taken[c] < Len(up[c])
    /\ up[c][taken[c] + 1].type \in types
    /\ taken' = [taken EXCEPT ![c] = @ + 1]

\* stream.send(response).await.unwrap(): once the host has closed its end the
\* write may still go through, unread, or fail.
send(c, response) ==
    \/ /\ down' = [down EXCEPT ![c] = Append(@, response)]
       /\ handler' = [handler EXCEPT ![c] = "receiving"]
    \/ /\ hostEnd[c] = "closed"
       /\ handler' = [handler EXCEPT ![c] = "panicked"]
       /\ UNCHANGED down

\* Requests answered at once.  Outside debug mode Print is acknowledged.
answer(c, types, response) ==
    /\ recv(c, types)
    /\ send(c, response)
    /\ UNCHANGED <<hostEnd, up, partial, alive, task, result, guard>>

handleGetPublicKey(c) ==
    answer(c, {"GetPublicKey"}, Plain("PublicKey"))

handleNotImplemented(c) ==
    answer(c, {"GetEncryptedSigningKey", "SetSigningKey"}, Plain("Error"))

\* In debug mode the future that sends the Ack is made and never awaited.
handlePrint(c) ==
    /\ recv(c, {"Print"})
    /\ IF DebugMode THEN UNCHANGED <<down, handler>> ELSE send(c, Plain("Ack"))
    /\ UNCHANGED <<hostEnd, up, partial, alive, task, result, guard>>

\* A plausible bug: the handler does not await its blocking task.
spawnBlockingNoAwait(c) ==
    /\ recv(c, {"AttestSigningKey", "Execute"})
    /\ task[c] = "none"
    /\ task' = [task EXCEPT ![c] = "pooled"]
    /\ UNCHANGED <<streamVars, alive, handler, result, guard>>

\* AttestSigningKey and Execute: spawn_blocking(..).await
spawnBlocking(c) ==
    /\ recv(c, {"AttestSigningKey", "Execute"})
    /\ handler' = [handler EXCEPT ![c] = "awaiting"]
    /\ task' = [task EXCEPT ![c] = "pooled"]
    /\ UNCHANGED <<streamVars, alive, result, guard>>

\* CloseSession ends the loop, and with it the connection.
handleCloseSession(c) ==
    /\ recv(c, {"CloseSession"})
    /\ handler' = [handler EXCEPT ![c] = "closed"]
    /\ UNCHANGED <<streamVars, alive, task, result, guard>>

\* A plausible bug: the handler stops waiting for its task when the host has gone.
handleEofWhileAwaiting(c) ==
    /\ alive
    /\ handler[c] \in {"receiving", "awaiting"}
    /\ hostEnd[c] = "closed" /\ taken[c] = Len(up[c])
    /\ handler' = [handler EXCEPT ![c] = "panicked"]
    /\ UNCHANGED <<streamVars, alive, taken, task, result, guard>>

\* recv fails: the host is gone and there is no whole frame left.
handleEof(c) ==
    /\ alive
    /\ handler[c] = "receiving"
    /\ hostEnd[c] = "closed" /\ taken[c] = Len(up[c])
    /\ handler' = [handler EXCEPT ![c] = "panicked"]
    /\ UNCHANGED <<streamVars, alive, taken, task, result, guard>>

-----------------------------------------------------------------------------
\* The blocking task: attest_signing_key and execute.

finish(c, response) ==
    /\ task' = [task EXCEPT ![c] = "done"]
    /\ result' = [result EXCEPT ![c] = response]

\* A thread of the pool starts on an attestation.
startAttest(c) ==
    /\ task[c] = "pooled" /\ Cardinality(Busy) < PoolSize
    /\ current(c).type = "AttestSigningKey"
    /\ task' = [task EXCEPT ![c] = "attesting"]
    /\ UNCHANGED <<streamVars, alive, handler, taken, result, guard>>

\* The security module is there or not.
finishAttest(c) ==
    /\ task[c] = "attesting"
    /\ \E r \in {Plain("SigningKeyAttestation"), Plain("Error")} : finish(c, r)
    /\ UNCHANGED <<streamVars, alive, handler, taken, guard>>

\* A plausible bug: the limit itself is refused and one beyond it is not.
limitCheckInverted(c) ==
    /\ task[c] = "pooled" /\ Cardinality(Busy) < PoolSize
    /\ current(c).type = "Execute"
    /\ \/ current(c).cycle_limit = MaxAllowedCycles /\ finish(c, Plain("Error"))
       \/ /\ current(c).cycle_limit # MaxAllowedCycles
          /\ task' = [task EXCEPT ![c] = "guard"]
          /\ UNCHANGED result
    /\ UNCHANGED <<streamVars, alive, handler, taken, guard>>

\* A thread starts on an execution: the limit is checked before the guard.
startExecute(c) ==
    /\ task[c] = "pooled" /\ Cardinality(Busy) < PoolSize
    /\ current(c).type = "Execute"
    /\ \/ /\ current(c).cycle_limit > MaxAllowedCycles
          /\ finish(c, Plain("Error"))
       \/ /\ current(c).cycle_limit <= MaxAllowedCycles
          /\ task' = [task EXCEPT ![c] = "guard"]
          /\ UNCHANGED result
    /\ UNCHANGED <<streamVars, alive, handler, taken, guard>>

\* A plausible bug: the guard is not taken.
runUnguarded(c) ==
    /\ task[c] = "guard"
    /\ task' = [task EXCEPT ![c] = "running"]
    /\ UNCHANGED <<streamVars, alive, handler, taken, result, guard>>

\* execution_guard.lock()
takeGuard(c) ==
    /\ task[c] = "guard"
    /\ guard = NoConn
    /\ guard' = c
    /\ task' = [task EXCEPT ![c] = "running"]
    /\ UNCHANGED <<streamVars, alive, handler, taken, result>>

\* A plausible bug: a failed execution keeps the guard.
finishExecuteLeak(c) ==
    /\ task[c] = "running"
    /\ \/ finish(c, SignedPublicValues(current(c).program)) /\ guard' = NoConn
       \/ finish(c, Plain("Error")) /\ UNCHANGED guard
    /\ UNCHANGED <<streamVars, alive, handler, taken>>

\* Setup, run and sign, or an error, or a panic that the handler sees as a
\* JoinError: all of them drop the guard.
finishExecute(c) ==
    /\ task[c] = "running"
    /\ \E r \in {SignedPublicValues(current(c).program), Plain("Error")} :
          finish(c, r)
    /\ guard' = NoConn
    /\ UNCHANGED <<streamVars, alive, handler, taken>>

\* The handler resumes with the result of its task.
reply(c) ==
    /\ handler[c] = "awaiting" /\ task[c] = "done"
    /\ send(c, result[c])
    /\ task' = [task EXCEPT ![c] = "none"]
    /\ result' = [result EXCEPT ![c] = Plain("Error")]
    /\ UNCHANGED <<hostEnd, up, partial, alive, taken, guard>>

-----------------------------------------------------------------------------
\* The enclave goes: terminate-enclave, out of memory, a failed accept.  The
\* sockets of all connections close.
crash ==
    /\ alive
    /\ alive' = FALSE
    /\ handler' = [c \in Conn |-> "closed"]
    /\ task' = [c \in Conn |-> "none"]
    /\ guard' = NoConn
    /\ UNCHANGED <<streamVars, taken, result>>

handleMessage(c) ==
    \/ handleGetPublicKey(c)
    \/ handleNotImplemented(c)
    \/ handlePrint(c)
    \/ spawnBlocking(c)
    \/ handleCloseSession(c)
    \/ handleEof(c)

\* The task of a connection: at most one of these is possible at a time.
handlerStep(c) == accept(c) \/ handleMessage(c) \/ reply(c)

\* Its thread of the blocking pool, likewise.
threadStep(c) ==
    \/ startAttest(c) \/ finishAttest(c)
    \/ startExecute(c) \/ takeGuard(c) \/ finishExecute(c)

EnclaveStep(c) == handlerStep(c) \/ threadStep(c)

\* Connecting succeeds while the enclave listens.
hostConnect(c) ==
    /\ alive
    /\ connect(c)
    /\ handler' = [handler EXCEPT ![c] = "backlog"]
    /\ UNCHANGED <<alive, taken, task, result, guard>>

\* The caller is dropped while it connects, the enclave's end accepted.
hostConnectDropped(c) ==
    /\ alive
    /\ connectDropped(c)
    /\ handler' = [handler EXCEPT ![c] = "backlog"]
    /\ UNCHANGED <<alive, taken, task, result, guard>>

hostBeginSend(c) ==
    /\ Len(up[c]) < MaxRequests
    /\ \E request \in Asked : beginSend(c, request)
    /\ UNCHANGED enclaveVars

hostEndSend(c) == endSend(c) /\ UNCHANGED enclaveVars

\* The owner of the stream returns, fails or is cancelled.
hostDrop(c) ==
    /\ hostEnd[c] = "open"
    /\ dropStream(c)
    /\ UNCHANGED <<up, down, partial, enclaveVars>>

hostCloseTask(c) == closeTask(c) /\ UNCHANGED enclaveVars

\* The process of the host ends.
hostReset(c) == reset(c) /\ UNCHANGED enclaveVars

HostStep(c) ==
    hostConnect(c) \/ hostConnectDropped(c) \/ hostBeginSend(c) \/ hostEndSend(c) \/ hostDrop(c)
    \/ hostCloseTask(c) \/ hostReset(c)

Init == StreamInit /\ EnclaveInit

Next == crash \/ \E c \in Conn : EnclaveStep(c) \/ HostStep(c)

Spec == Init /\ [][Next]_vars

-----------------------------------------------------------------------------

EnclaveTypeOK ==
    /\ StreamTypeOK
    /\ alive \in BOOLEAN
    /\ handler \in [Conn -> {"none", "backlog", "receiving", "awaiting",
                             "closed", "panicked"}]
    /\ taken \in [Conn -> Nat]
    /\ task \in [Conn -> {"none", "pooled", "guard", "running", "attesting",
                          "done"}]
    /\ result \in [Conn -> Response]
    /\ guard \in Conn \cup {NoConn}

\* server.rs:40: only one execution can be running at a time.
OneExecution ==
    \A c, d \in Conn : task[c] = "running" /\ task[d] = "running" => c = d

\* A thread of the pool works for a handler that waits for it, whatever became of
\* the host meanwhile, and the guard is held by the execution that runs: however a
\* handler ends, by a CloseSession, an end of file or an answer that cannot be
\* sent, it leaves no thread and no guard behind.
ThreadsAreAwaited ==
    \A c \in Conn :
        /\ task[c] # "none" <=> handler[c] = "awaiting"
        /\ guard = c <=> task[c] = "running"

\* What a request may be answered with.  A program is answered for only within
\* the limit, and with its own public values; CloseSession is never answered.
Answers(request, response) ==
    CASE request.type = "GetPublicKey" -> response = Plain("PublicKey")
      [] request.type = "AttestSigningKey" ->
            response \in {Plain("SigningKeyAttestation"), Plain("Error")}
      [] request.type = "Execute" ->
            \/ response = Plain("Error")
            \/ /\ response = SignedPublicValues(request.program)
               /\ request.cycle_limit <= MaxAllowedCycles
      [] request.type = "Print" -> response = Plain("Ack")
      [] request.type \in {"GetEncryptedSigningKey", "SetSigningKey"} ->
            response = Plain("Error")
      [] OTHER -> FALSE

\* The host pairs answers with requests by position alone: whatever is
\* interleaved on other connections, abandoned or over the limit, the n-th
\* frame down a connection answers the n-th frame up it, and when the handler
\* comes back for another request it has answered the ones before.
AnswersInOrder ==
    \A c \in Conn :
        /\ Len(down[c]) <= taken[c] /\ taken[c] <= Len(up[c])
        /\ \A i \in 1..Len(down[c]) : Answers(up[c][i], down[c][i])
        /\ handler[c] = "receiving" => Len(down[c]) = taken[c]

\* common/src/lib.rs:54 on Ack: "Indicate to the host that the enclave has
\* received the message."
PrintAcknowledged ==
    \A c \in Conn, i \in 1..MaxRequests :
        /\ handler[c] = "receiving"
        /\ i <= taken[c] /\ up[c][i] = Plain("Print")
        => i <= Len(down[c]) /\ down[c][i] = Plain("Ack")
=============================================================================

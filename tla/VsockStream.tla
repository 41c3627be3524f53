---------------------------- MODULE VsockStream ----------------------------
(***************************************************************************)
(* The connections between host and enclave, seen from the host: frames of *)
(* common/src/communication.rs on a stream socket, wrapped in the          *)
(* HostStream of host/src/server/stream.rs.                                *)
(*                                                                         *)
(* up[c] and down[c] are everything ever sent on connection c, whole       *)
(* frames in order; a reader keeps the number of those it has read.  A     *)
(* send is two steps, because a caller dropped at its await leaves part of *)
(* the frame on the socket: partial[c] is the frame being written.         *)
(***************************************************************************)
EXTENDS Integers, Sequences, FiniteSets

CONSTANTS
    Conn,              \* connections; each is opened once
    Program,           \* a program with its input
    CycleLimit,        \* the cycle limits clients ask for
    Mixed,             \* limit -> what it is read as when the first bytes of a
                       \* CloseSession stand for its last one to eight
    NoRequest

Execute(program, limit) ==
    [type |-> "Execute", program |-> program, cycle_limit |-> limit]

Plain(type) == [type |-> type]

CloseSession == Plain("CloseSession")

\* EnclaveRequest, without what a CloseSession says by itself.
Request ==
    {Plain(t) : t \in {"Print", "GetPublicKey", "AttestSigningKey",
                       "GetEncryptedSigningKey", "SetSigningKey"}}
    \cup {Execute(p, l) : p \in Program, l \in CycleLimit}

\* The requests that this one can be read as, when it was cut short and has the
\* eight bytes of a CloseSession behind it.  Cut in its last three bytes, zeroes
\* both in what is missing and in what follows, a plain one is whole.  An Execute
\* ends in the eight bytes of its limit, and is whole with another limit.
completed(request) ==
    IF request.type # "Execute" THEN {request}
    ELSE {Execute(request.program, l) : l \in Mixed[request.cycle_limit]}

\* What a reader may find.
Frame == Request \cup {CloseSession} \cup UNION {completed(r) : r \in Request}

SignedPublicValues(program) ==
    [type |-> "SignedPublicValues", program |-> program]

\* EnclaveResponse; EncryptedSigningKey is never constructed.
Response ==
    {Plain(t) : t \in {"PublicKey", "SigningKeyAttestation", "Error", "Ack"}}
    \cup {SignedPublicValues(p) : p \in Program}

VARIABLES
    hostEnd,   \* "none", "open", "dropped" (its close task is pending), "closed"
    up,        \* the frames sent by the host
    down,      \* the frames sent by the enclave
    partial    \* the frame the host is writing, or NoRequest

streamVars == <<hostEnd, up, down, partial>>

StreamInit ==
    /\ hostEnd = [c \in Conn |-> "none"]
    /\ up = [c \in Conn |-> <<>>]
    /\ down = [c \in Conn |-> <<>>]
    /\ partial = [c \in Conn |-> NoRequest]

-----------------------------------------------------------------------------

\* HostStream::new
connect(c) ==
    /\ hostEnd[c] = "none"
    /\ hostEnd' = [hostEnd EXCEPT ![c] = "open"]
    /\ UNCHANGED <<up, down, partial>>

\* HostStream::new, dropped at its await: the socket may have been connected by
\* then, and closes with nothing sent.
connectDropped(c) ==
    /\ hostEnd[c] = "none"
    /\ hostEnd' = [hostEnd EXCEPT ![c] = "closed"]
    /\ UNCHANGED <<up, down, partial>>

\* HostStream::send, up to the await of write_all ...
beginSend(c, request) ==
    /\ hostEnd[c] = "open" /\ partial[c] = NoRequest
    /\ partial' = [partial EXCEPT ![c] = request]
    /\ UNCHANGED <<hostEnd, up, down>>

\* ... and from there.
endSend(c) ==
    /\ hostEnd[c] = "open" /\ partial[c] # NoRequest
    /\ up' = [up EXCEPT ![c] = Append(@, partial[c])]
    /\ partial' = [partial EXCEPT ![c] = NoRequest]
    /\ UNCHANGED <<hostEnd, down>>

\* Drop for HostStream takes the socket and spawns the task that closes it.
dropStream(c) == hostEnd' = [hostEnd EXCEPT ![c] = "dropped"]

\* A plausible bug: CloseSession is encoded in zeroes, and what is missing of a
\* limit reads as zero.
CutZeroed(request) ==
    {<<CloseSession>>, <<>>}
    \cup (IF request.type = "Execute" THEN {<<Execute(request.program, 0)>>}
          ELSE {<<request>>})

\* What becomes of a frame that was cut short.  If nothing of it was written the
\* CloseSession is read as such; cut in its last bytes it is completed; cut
\* earlier it never ends, or is read as garbage.  Frames shows this of the bytes.
Cut(request) ==
    {<<CloseSession>>, <<>>} \cup {<<m>> : m \in completed(request)}

\* The spawned task: send CloseSession, whatever is on the wire before it, then
\* close the socket.
closeTask(c) ==
    /\ hostEnd[c] = "dropped"
    /\ hostEnd' = [hostEnd EXCEPT ![c] = "closed"]
    /\ \E tail \in IF partial[c] = NoRequest THEN {<<CloseSession>>}
                   ELSE Cut(partial[c]) :
          up' = [up EXCEPT ![c] = @ \o tail]
    /\ partial' = [partial EXCEPT ![c] = NoRequest]
    /\ UNCHANGED down

\* The host's process ends: the socket closes behind what was written.
reset(c) ==
    /\ hostEnd[c] \in {"open", "dropped"}
    /\ hostEnd' = [hostEnd EXCEPT ![c] = "closed"]
    /\ partial' = [partial EXCEPT ![c] = NoRequest]
    /\ UNCHANGED <<up, down>>

\* The host's side alone, which Frames implements.
HostNext ==
    \E c \in Conn :
        \/ connect(c) \/ connectDropped(c)
        \/ (\E request \in Request : beginSend(c, request)) \/ endSend(c)
        \/ hostEnd[c] = "open" /\ dropStream(c) /\ UNCHANGED <<up, down, partial>>
        \/ closeTask(c) \/ reset(c)

HostSpec == StreamInit /\ [][HostNext]_streamVars

StreamTypeOK ==
    /\ hostEnd \in [Conn -> {"none", "open", "dropped", "closed"}]
    /\ up \in [Conn -> Seq(Frame)]
    /\ down \in [Conn -> Seq(Response)]
    /\ partial \in [Conn -> Request \cup {NoRequest}]
=============================================================================

------------------------- MODULE EnclaveServerProofs -------------------------
(***************************************************************************)
(* For any number of connections, threads and requests: the enclave runs   *)
(* one program at a time and, outside debug mode, answers the requests of  *)
(* a connection in their order.                                            *)
(*                                                                         *)
(* Neither OneExecution nor AnswersInOrder is inductive.  The first needs  *)
(* that whoever runs holds the guard; the second, that a handler has a     *)
(* blocking task exactly while it awaits one, that the task is still at    *)
(* work on the last request read, and that its result, once it is there,   *)
(* answers that request: frames the host adds meanwhile come after it.     *)
(***************************************************************************)
EXTENDS EnclaveServer, SequenceTheorems, TLAPS

\* The blocking task of c and the request it is at work on.
TaskInv(c) ==
    /\ task[c] # "none" <=> handler[c] = "awaiting"
    /\ task[c] # "none" =>
          /\ 0 < taken[c]
          /\ current(c).type \in {"AttestSigningKey", "Execute"}
    /\ task[c] = "attesting" => current(c).type = "AttestSigningKey"
    /\ task[c] \in {"guard", "running"} =>
          /\ current(c).type = "Execute"
          /\ current(c).cycle_limit <= MaxAllowedCycles
    /\ task[c] = "done" => Answers(current(c), result[c])

\* What has been answered on c.
OrderInv(c) ==
    /\ \A i \in 1..Len(down[c]) : Answers(up[c][i], down[c][i])
    /\ Len(down[c]) <= taken[c]
    /\ handler[c] \in {"none", "backlog", "receiving"}
          => Len(down[c]) = taken[c]
    /\ handler[c] = "awaiting" => Len(down[c]) = taken[c] - 1

\* A connection with an answer to each request: all but those whose Print the
\* enclave in debug mode does not acknowledge.
Answered(c) == DebugMode => \A i \in 1..Len(up[c]) : up[c][i].type # "Print"

ConnInv(c) ==
    /\ taken[c] <= Len(up[c])
    /\ TaskInv(c)
    /\ Answered(c) => OrderInv(c)

GuardInv(c) == task[c] = "running" <=> guard = c

EnclaveInv ==
    /\ EnclaveTypeOK
    /\ \A c \in Conn : ConnInv(c) /\ GuardInv(c)

-----------------------------------------------------------------------------
\* The frames.

\* What an Execute carries.
LEMMA RequestFields ==
    ASSUME NEW r \in Request
    PROVE  \/ r.type # "Execute"
           \/ \E p \in Program, l \in CycleLimit : r = Execute(p, l)
  BY DEF Request, Plain

\* The same, whole or cut.
LEMMA CompletedFields ==
    ASSUME NEW r \in Request, NEW f \in completed(r), f.type = "Execute"
    PROVE  f.program \in Program /\ f.cycle_limit \in Nat
  <1>1. CASE r.type # "Execute"
    BY <1>1 DEF completed
  <1>2. CASE r.type = "Execute"
    <2>1. PICK p \in Program, l \in CycleLimit : r = Execute(p, l)
      BY <1>2, RequestFields
    <2>2. r.program = p /\ r.cycle_limit = l
      BY <2>1 DEF Execute
    <2>3. PICK m \in Mixed[l] : f = Execute(p, m)
      BY <1>2, <2>2 DEF completed
    <2>4. m \in Nat
      BY <2>1, <2>3, LimitAssumption
    <2> QED
      BY <2>3, <2>4 DEF Execute
  <1> QED
    BY <1>1, <1>2

\* What a frame that is an Execute carries.
LEMMA FrameFields ==
    ASSUME NEW r \in Frame, r.type = "Execute"
    PROVE  r.program \in Program /\ r.cycle_limit \in Nat
  <1>1. CASE r \in Request
    <2>1. PICK p \in Program, l \in CycleLimit : r = Execute(p, l)
      BY <1>1, RequestFields
    <2>2. l \in Nat
      BY LimitAssumption
    <2> QED
      BY <2>1, <2>2 DEF Execute
  <1>2. r # CloseSession
    BY DEF CloseSession, Plain
  <1>3. ASSUME NEW q \in Request, r \in completed(q)
        PROVE  r.program \in Program /\ r.cycle_limit \in Nat
    BY <1>3, CompletedFields
  <1> QED
    BY <1>1, <1>2, <1>3 DEF Frame

\* The frames and responses that the code names are frames and responses.
LEMMA PlainFrames ==
    /\ CloseSession \in Frame
    /\ \A r \in Request : r \in Frame /\ \A f \in completed(r) : f \in Frame
    /\ \A t \in {"PublicKey", "SigningKeyAttestation", "Error", "Ack"} :
          Plain(t) \in Response
    /\ \A p \in Program : SignedPublicValues(p) \in Response
  <1>1. /\ CloseSession \in Frame
        /\ \A r \in Request : r \in Frame /\ \A f \in completed(r) : f \in Frame
    BY DEF Frame
  <1>2. /\ \A t \in {"PublicKey", "SigningKeyAttestation", "Error", "Ack"} :
              Plain(t) \in Response
        /\ \A p \in Program : SignedPublicValues(p) \in Response
    BY DEF Response
  <1> QED
    BY <1>1, <1>2

\* What becomes of a frame that is cut is at most one frame.
LEMMA CutFrames ==
    ASSUME NEW r \in Request, NEW tail \in Cut(r)
    PROVE  tail \in Seq(Frame)
  <1>1. \A f \in Frame : <<f>> \in Seq(Frame)
    OBVIOUS
  <1>2. <<>> \in Seq(Frame)
    OBVIOUS
  <1>3. \A f \in completed(r) : f \in Frame
    BY PlainFrames
  <1>4. tail = <<CloseSession>> \/ tail = <<>> \/ \E f \in completed(r) : tail = <<f>>
    BY DEF Cut
  <1> QED
    BY <1>1, <1>2, <1>3, <1>4, PlainFrames

\* The request a blocking task is at work on is a frame.
LEMMA CurrentIsFrame ==
    ASSUME EnclaveTypeOK, NEW c \in Conn, ConnInv(c), task[c] # "none"
    PROVE  current(c) \in Frame
  BY ElementOfSeq DEF EnclaveTypeOK, StreamTypeOK, ConnInv, TaskInv, current

-----------------------------------------------------------------------------
\* What a step does not touch.

\* A connection of which a step changes nothing keeps its invariant.
LEMMA Untouched ==
    ASSUME NEW d, ConnInv(d),
           up'[d] = up[d], down'[d] = down[d], handler'[d] = handler[d],
           taken'[d] = taken[d], task'[d] = task[d], result'[d] = result[d]
    PROVE  ConnInv(d)'
  BY DEF ConnInv, Answered, TaskInv, OrderInv, current

\* Frames added behind those that were sent.
LEMMA FramesAdded ==
    ASSUME EnclaveTypeOK, NEW d \in Conn, ConnInv(d), NEW tail \in Seq(Frame),
           up'[d] = up[d] \o tail, down'[d] = down[d], handler'[d] = handler[d],
           taken'[d] = taken[d], task'[d] = task[d], result'[d] = result[d]
    PROVE  ConnInv(d)'
  <1>1. /\ up[d] \in Seq(Frame) /\ down[d] \in Seq(Response)
        /\ taken[d] \in Nat
    BY DEF EnclaveTypeOK, StreamTypeOK
  <1>2. /\ Len(up'[d]) >= Len(up[d])
        /\ \A i \in 1..Len(up[d]) : up'[d][i] = up[d][i]
    BY <1>1, ConcatProperties, LenProperties
  <1>3. TaskInv(d)'
    <2>1. task[d] # "none" => current(d)' = current(d)
      BY <1>1, <1>2 DEF ConnInv, TaskInv, current
    <2> QED
      BY <2>1 DEF ConnInv, TaskInv
  <1>4. Answered(d)' => OrderInv(d)'
    <2>a. Answered(d)' => Answered(d)
      BY <1>1, <1>2 DEF Answered
    <2> SUFFICES ASSUME OrderInv(d) PROVE OrderInv(d)'
      BY <2>a DEF ConnInv
    <2>1. \A i \in 1..Len(down[d]) : i \in 1..Len(up[d])
      BY <1>1 DEF ConnInv, OrderInv
    <2> QED
      BY <1>2, <2>1 DEF OrderInv
  <1> QED
    BY <1>1, <1>2, <1>3, <1>4 DEF ConnInv

\* Before the first connection nothing was sent and the guard is free.
LEMMA InitEstablishes == Init => EnclaveInv
  <1> SUFFICES ASSUME Init PROVE EnclaveInv
    OBVIOUS
  <1>1. EnclaveTypeOK
    BY PlainFrames, EmptySeq
    DEF Init, StreamInit, EnclaveInit, EnclaveTypeOK, StreamTypeOK
  <1>2. ASSUME NEW c \in Conn PROVE ConnInv(c) /\ GuardInv(c)
    <2>1. ConnInv(c)
      BY DEF Init, StreamInit, EnclaveInit, ConnInv, TaskInv, OrderInv
    <2>2. GuardInv(c)
      BY NoneAssumption DEF Init, EnclaveInit, GuardInv
    <2> QED
      BY <2>1, <2>2
  <1> QED
    BY <1>1, <1>2 DEF EnclaveInv

-----------------------------------------------------------------------------
\* The task of a connection.

\* send puts one response behind those of its connection.
LEMMA ResponseSent ==
    ASSUME EnclaveTypeOK, NEW c \in Conn, NEW response \in Response,
           down' = [down EXCEPT ![c] = Append(@, response)]
    PROVE  /\ down' \in [Conn -> Seq(Response)]
           /\ Len(down'[c]) = Len(down[c]) + 1
           /\ \A i \in 1..Len(down[c]) : down'[c][i] = down[c][i]
           /\ down'[c][Len(down[c]) + 1] = response
           /\ \A d \in Conn \ {c} : down'[d] = down[d]
  <1>1. down \in [Conn -> Seq(Response)] /\ down[c] \in Seq(Response)
    BY DEF EnclaveTypeOK, StreamTypeOK
  <1> QED
    BY <1>1, AppendProperties

\* The two ways send can go, for a request that has been read.
LEMMA SendPreserves ==
    ASSUME EnclaveInv, NEW c \in Conn, NEW response \in Response,
           UNCHANGED <<hostEnd, up, partial, alive, guard>>,
           send(c, response),
           taken' \in [Conn -> Nat], task' \in [Conn -> {"none", "pooled", "guard",
               "running", "attesting", "done"}], result' \in [Conn -> Response],
           \A d \in Conn \ {c} :
               taken'[d] = taken[d] /\ task'[d] = task[d] /\ result'[d] = result[d],
           taken'[c] \in 1..Len(up[c]), task[c] # "running", task'[c] = "none",
           Answered(c) => taken'[c] = Len(down[c]) + 1,
           Answers(up[c][taken'[c]], response)
    PROVE  EnclaveInv'
  <1>1. /\ up \in [Conn -> Seq(Frame)] /\ down \in [Conn -> Seq(Response)]
        /\ \A d \in Conn : Len(down[d]) \in Nat
        /\ down[c] \in Seq(Response)
    BY LenProperties DEF EnclaveInv, EnclaveTypeOK, StreamTypeOK
  <1>2. /\ EnclaveTypeOK
        /\ \A d \in Conn : ConnInv(d) /\ GuardInv(d)
    BY DEF EnclaveInv
  <1>3. CASE /\ down' = [down EXCEPT ![c] = Append(@, response)]
             /\ handler' = [handler EXCEPT ![c] = "receiving"]
    <2>1. EnclaveTypeOK'
      BY <1>2, <1>3, ResponseSent DEF EnclaveTypeOK, StreamTypeOK
    <2>2. handler'[c] = "receiving"
      BY <1>2, <1>3 DEF EnclaveTypeOK
    <2>3. /\ Len(down'[c]) = Len(down[c]) + 1
          /\ \A i \in 1..Len(down[c]) : down'[c][i] = down[c][i]
          /\ down'[c][Len(down[c]) + 1] = response
      BY <1>2, <1>3, ResponseSent
    <2>4. TaskInv(c)'
      BY <2>2 DEF TaskInv
    <2>5. ASSUME Answered(c) PROVE OrderInv(c)'
      <3> OrderInv(c) /\ Len(down[c]) \in Nat
        BY <1>1, <1>2, <2>5 DEF ConnInv
      <3>1. /\ \A i \in 1..Len(down[c]) : Answers(up[c][i], down[c][i])
            /\ Len(down[c]) = taken'[c] - 1
        <4>1. Len(down[c]) = taken'[c] - 1
          BY <2>5
        <4> QED
          BY <4>1 DEF OrderInv
      <3>2. \A i \in 1..Len(down'[c]) : Answers(up'[c][i], down'[c][i])
        <4> SUFFICES ASSUME NEW i \in 1..Len(down'[c])
                     PROVE  Answers(up'[c][i], down'[c][i])
          OBVIOUS
        <4>1. CASE i \in 1..Len(down[c])
          BY <2>3, <3>1, <4>1
        <4>2. CASE i = Len(down[c]) + 1
          BY <1>1, <2>3, <3>1, <4>2
        <4> QED
          BY <1>1, <2>3, <4>1, <4>2
      <3>3. taken'[c] \in Nat /\ Len(down'[c]) = taken'[c]
        BY <1>1, <2>3, <3>1
      <3> QED
        BY <2>2, <3>2, <3>3 DEF OrderInv
    <2>6. ConnInv(c)'
      <3>1. Answered(c)' => Answered(c)
        BY DEF Answered
      <3> QED
        BY <1>1, <2>4, <2>5, <3>1 DEF ConnInv
    <2>7. \A d \in Conn \ {c} : ConnInv(d)'
      BY <1>2, <1>3, ResponseSent, Untouched
      DEF EnclaveTypeOK
    <2>8. \A d \in Conn : GuardInv(d)'
      BY <1>2 DEF GuardInv
    <2> QED
      BY <2>1, <2>6, <2>7, <2>8 DEF EnclaveInv
  <1>4. CASE /\ handler' = [handler EXCEPT ![c] = "panicked"]
             /\ UNCHANGED down
    <2>1. EnclaveTypeOK'
      BY <1>2, <1>4 DEF EnclaveTypeOK, StreamTypeOK
    <2>2. handler'[c] = "panicked"
      BY <1>2, <1>4 DEF EnclaveTypeOK
    <2>3. TaskInv(c)'
      BY <2>2 DEF TaskInv
    <2>4. ASSUME Answered(c) PROVE OrderInv(c)'
      <3> OrderInv(c) /\ Len(down[c]) \in Nat
        BY <1>1, <1>2, <2>4 DEF ConnInv
      <3>1. /\ \A i \in 1..Len(down[c]) : Answers(up[c][i], down[c][i])
            /\ Len(down[c]) = taken'[c] - 1
        <4>1. Len(down[c]) = taken'[c] - 1
          BY <2>4
        <4> QED
          BY <4>1 DEF OrderInv
      <3> QED
        BY <1>1, <1>4, <2>2, <3>1 DEF OrderInv
    <2>5. ConnInv(c)'
      BY <1>1, <2>3, <2>4 DEF ConnInv, Answered
    <2>6. \A d \in Conn \ {c} : ConnInv(d)'
      BY <1>2, <1>4, Untouched DEF EnclaveTypeOK
    <2>7. \A d \in Conn : GuardInv(d)'
      BY <1>2 DEF GuardInv
    <2> QED
      BY <2>1, <2>5, <2>6, <2>7 DEF EnclaveInv
  <1> QED
    BY <1>3, <1>4 DEF send

\* What recv says of the request it has read.
LEMMA Received ==
    ASSUME EnclaveInv, NEW c \in Conn, NEW types, recv(c, types)
    PROVE  /\ taken' \in [Conn -> Nat]
           /\ taken'[c] = taken[c] + 1 /\ taken'[c] \in 1..Len(up[c])
           /\ \A d \in Conn \ {c} : taken'[d] = taken[d]
           /\ up[c][taken'[c]].type \in types
           /\ handler[c] = "receiving" /\ task[c] = "none"
           /\ Answered(c) => taken[c] = Len(down[c])
  <1>1. taken \in [Conn -> Nat] /\ up[c] \in Seq(Frame)
    BY DEF EnclaveInv, EnclaveTypeOK, StreamTypeOK
  <1>2. ConnInv(c)
    BY DEF EnclaveInv
  <1> QED
    BY <1>1, <1>2, LenProperties DEF recv, ConnInv, TaskInv, OrderInv

\* A request answered at once with what answers it.
LEMMA AnswerPreserves ==
    ASSUME EnclaveInv, NEW c \in Conn, NEW types, NEW response \in Response,
           answer(c, types, response),
           \A request : request.type \in types => Answers(request, response)
    PROVE  EnclaveInv'
  <1>1. recv(c, types) /\ send(c, response)
    BY DEF answer
  <1>2. /\ task \in [Conn -> {"none", "pooled", "guard", "running", "attesting",
                             "done"}]
        /\ result \in [Conn -> Response]
    BY DEF EnclaveInv, EnclaveTypeOK
  <1> QED
    BY <1>1, <1>2, Received, SendPreserves DEF answer

\* The steps of handle_connection.
LEMMA HandlerPreserves ==
    ASSUME EnclaveInv, NEW c \in Conn, handlerStep(c)
    PROVE  EnclaveInv'
  <1>1. /\ EnclaveTypeOK
        /\ \A d \in Conn : ConnInv(d) /\ GuardInv(d)
        /\ up[c] \in Seq(Frame) /\ down[c] \in Seq(Response)
    BY DEF EnclaveInv, EnclaveTypeOK, StreamTypeOK
  <1>2. CASE accept(c)
    <2>1. EnclaveTypeOK'
      BY <1>1, <1>2 DEF accept, EnclaveTypeOK, StreamTypeOK, streamVars
    <2>2. ConnInv(c)'
      BY <1>1, <1>2
      DEF accept, EnclaveTypeOK, streamVars, ConnInv, Answered, TaskInv, OrderInv
    <2>3. \A d \in Conn \ {c} : ConnInv(d)'
      BY <1>1, <1>2, Untouched DEF accept, EnclaveTypeOK, streamVars
    <2> QED
      BY <1>1, <1>2, <2>1, <2>2, <2>3 DEF accept, GuardInv, EnclaveInv
  <1>3. CASE handleGetPublicKey(c)
    <2>1. \A r : r.type \in {"GetPublicKey"} => Answers(r, Plain("PublicKey"))
      BY DEF Answers
    <2> QED
      BY <1>3, <2>1, PlainFrames, AnswerPreserves DEF handleGetPublicKey
  <1>4. CASE handleNotImplemented(c)
    <2>1. \A r : r.type \in {"GetEncryptedSigningKey", "SetSigningKey"}
                    => Answers(r, Plain("Error"))
      BY DEF Answers
    <2> QED
      BY <1>4, <2>1, PlainFrames, AnswerPreserves DEF handleNotImplemented
  <1>5. CASE ~DebugMode /\ handlePrint(c)
    <2>1. \A r : r.type \in {"Print"} => Answers(r, Plain("Ack"))
      BY DEF Answers
    <2>2. answer(c, {"Print"}, Plain("Ack"))
      BY <1>5 DEF handlePrint, answer
    <2> QED
      BY <2>1, <2>2, PlainFrames, AnswerPreserves
  <1>6. CASE DebugMode /\ handlePrint(c)
    <2> recv(c, {"Print"}) /\ UNCHANGED <<streamVars, alive, handler, task, result, guard>>
      BY <1>6 DEF handlePrint, streamVars
    <2>1. EnclaveTypeOK'
      BY <1>1, <1>6, Received DEF EnclaveTypeOK, StreamTypeOK, streamVars
    <2>2. ConnInv(c)'
      BY <1>1, <1>6, Received DEF streamVars, ConnInv, Answered, TaskInv
    <2>3. \A d \in Conn \ {c} : ConnInv(d)'
      BY <1>1, <1>6, Received, Untouched DEF streamVars
    <2> QED
      BY <1>1, <1>6, <2>1, <2>2, <2>3 DEF GuardInv, EnclaveInv
  <1>7. CASE spawnBlocking(c)
    <2>1. recv(c, {"AttestSigningKey", "Execute"})
      BY <1>7 DEF spawnBlocking
    <2>2. EnclaveTypeOK'
      BY <1>1, <1>7, <2>1, Received
      DEF spawnBlocking, EnclaveTypeOK, StreamTypeOK, streamVars
    <2>3. handler'[c] = "awaiting" /\ task'[c] = "pooled"
      BY <1>1, <1>7 DEF spawnBlocking, EnclaveTypeOK
    <2>4. TaskInv(c)'
      BY <1>1, <1>7, <2>1, <2>3, Received
      DEF spawnBlocking, streamVars, TaskInv, current
    <2>5. Answered(c)' => OrderInv(c)'
      <3>1. Answered(c)' => Answered(c)
        BY <1>7 DEF spawnBlocking, streamVars, Answered
      <3> QED
        BY <1>1, <1>7, <2>1, <2>3, <3>1, Received
        DEF spawnBlocking, streamVars, EnclaveTypeOK, ConnInv, OrderInv
    <2>6. ConnInv(c)'
      BY <1>1, <1>7, <2>1, <2>4, <2>5, Received
      DEF spawnBlocking, streamVars, ConnInv
    <2>7. \A d \in Conn \ {c} : ConnInv(d)'
      BY <1>1, <1>7, <2>1, Received, Untouched
      DEF spawnBlocking, EnclaveTypeOK, streamVars
    <2>8. \A d \in Conn : GuardInv(d)'
      <3>1. task[c] = "none"
        BY <2>1, Received
      <3>2. guard' = guard /\ \A d \in Conn \ {c} : task'[d] = task[d]
        BY <1>1, <1>7 DEF spawnBlocking, EnclaveTypeOK
      <3> QED
        BY <1>1, <2>3, <3>1, <3>2 DEF GuardInv
    <2> QED
      BY <2>2, <2>6, <2>7, <2>8 DEF EnclaveInv
  <1>8. CASE handleCloseSession(c)
    <2>1. recv(c, {"CloseSession"})
      BY <1>8 DEF handleCloseSession
    <2>2. EnclaveTypeOK'
      BY <1>1, <1>8, <2>1, Received
      DEF handleCloseSession, EnclaveTypeOK, StreamTypeOK, streamVars
    <2>3. ConnInv(c)'
      <3>1. /\ handler'[c] = "closed" /\ task'[c] = "none"
            /\ up'[c] = up[c] /\ down'[c] = down[c]
        BY <1>1, <1>8, <2>1, Received DEF handleCloseSession, EnclaveTypeOK, streamVars
      <3>2. /\ taken[c] \in Nat /\ taken'[c] = taken[c] + 1
            /\ taken'[c] \in 1..Len(up[c])
            /\ Len(up[c]) \in Nat /\ Len(down[c]) \in Nat
        BY <1>1, <2>1, Received, LenProperties DEF EnclaveTypeOK
      <3>3. TaskInv(c)'
        BY <3>1 DEF TaskInv
      <3>4. ASSUME Answered(c)' PROVE OrderInv(c)'
        <4>1. OrderInv(c)
          BY <1>1, <3>1, <3>4 DEF Answered, ConnInv
        <4> QED
          BY <3>1, <3>2, <4>1 DEF OrderInv
      <3> QED
        BY <3>1, <3>2, <3>3, <3>4 DEF ConnInv
    <2>4. \A d \in Conn \ {c} : ConnInv(d)'
      BY <1>1, <1>8, <2>1, Received, Untouched
      DEF handleCloseSession, EnclaveTypeOK, streamVars
    <2> QED
      BY <1>1, <1>8, <2>2, <2>3, <2>4 DEF handleCloseSession, GuardInv, EnclaveInv
  <1>9. CASE handleEof(c)
    <2>1. EnclaveTypeOK'
      BY <1>1, <1>9 DEF handleEof, EnclaveTypeOK, StreamTypeOK, streamVars
    <2>2. ConnInv(c)'
      BY <1>1, <1>9
      DEF handleEof, EnclaveTypeOK, streamVars, ConnInv, Answered, TaskInv, OrderInv
    <2>3. \A d \in Conn \ {c} : ConnInv(d)'
      BY <1>1, <1>9, Untouched DEF handleEof, EnclaveTypeOK, streamVars
    <2> QED
      BY <1>1, <1>9, <2>1, <2>2, <2>3 DEF handleEof, GuardInv, EnclaveInv
  <1>10. CASE reply(c)
    <2>1. /\ result[c] \in Response /\ taken[c] \in 1..Len(up[c])
          /\ Answers(up[c][taken[c]], result[c])
          /\ Answered(c) => taken[c] = Len(down[c]) + 1
      BY <1>1, <1>10
      DEF reply, EnclaveTypeOK, ConnInv, TaskInv, OrderInv, current
    <2>2. /\ task' \in [Conn -> {"none", "pooled", "guard", "running",
                                 "attesting", "done"}]
          /\ result' \in [Conn -> Response]
          /\ task'[c] = "none"
          /\ \A d \in Conn \ {c} : task'[d] = task[d] /\ result'[d] = result[d]
      BY <1>1, <1>10, PlainFrames DEF reply, EnclaveTypeOK
    <2>3. taken' = taken /\ taken \in [Conn -> Nat]
      BY <1>1, <1>10 DEF reply, EnclaveTypeOK
    <2> QED
      BY <1>10, <2>1, <2>2, <2>3, SendPreserves DEF reply
  <1> QED
    BY <1>2, <1>3, <1>4, <1>5, <1>6, <1>7, <1>8, <1>9, <1>10
    DEF handlerStep, handleMessage

-----------------------------------------------------------------------------
\* The threads of the blocking pool.

\* The task of c moves on, its connection and the others' do not.
LEMMA TaskMoves ==
    ASSUME EnclaveInv, NEW c \in Conn,
           task[c] # "none", UNCHANGED <<streamVars, alive, handler, taken>>,
           \E label \in {"guard", "running", "attesting", "done"} :
               task' = [task EXCEPT ![c] = label],
           result' \in [Conn -> Response],
           \A d \in Conn \ {c} : result'[d] = result[d],
           task'[c] = "attesting" => current(c).type = "AttestSigningKey",
           task'[c] \in {"guard", "running"} =>
               /\ current(c).type = "Execute"
               /\ current(c).cycle_limit <= MaxAllowedCycles,
           task'[c] = "done" => Answers(current(c), result'[c]),
           guard' \in Conn \cup {NoConn},
           \A d \in Conn : GuardInv(d)'
    PROVE  EnclaveInv'
  <1>1. EnclaveTypeOK /\ \A d \in Conn : ConnInv(d)
    BY DEF EnclaveInv
  <1>2. /\ task' \in [Conn -> {"none", "pooled", "guard", "running",
                               "attesting", "done"}]
        /\ task'[c] \in {"guard", "running", "attesting", "done"}
        /\ \A d \in Conn \ {c} : task'[d] = task[d]
    BY <1>1 DEF EnclaveTypeOK
  <1>3. EnclaveTypeOK'
    BY <1>1, <1>2 DEF EnclaveTypeOK, StreamTypeOK, streamVars
  <1>4. ConnInv(c)'
    <2>1. TaskInv(c)'
      BY <1>1, <1>2 DEF ConnInv, TaskInv, current, streamVars
    <2> QED
      BY <1>1, <2>1 DEF ConnInv, Answered, OrderInv, streamVars
  <1>5. \A d \in Conn \ {c} : ConnInv(d)'
    BY <1>1, <1>2, Untouched DEF streamVars
  <1> QED
    BY <1>3, <1>4, <1>5 DEF EnclaveInv

\* Whoever runs holds the guard, when the guard and those who run stay.
LEMMA GuardKept ==
    ASSUME EnclaveInv, NEW c \in Conn, UNCHANGED guard, task[c] # "running",
           \E label \in {"guard", "attesting", "done"} :
               task' = [task EXCEPT ![c] = label]
    PROVE  /\ guard' \in Conn \cup {NoConn}
           /\ \A d \in Conn : GuardInv(d)'
  <1>1. /\ task'[c] # "running"
        /\ \A d \in Conn \ {c} : task'[d] = task[d]
    BY DEF EnclaveInv, EnclaveTypeOK
  <1>2. guard \in Conn \cup {NoConn} /\ \A d \in Conn : GuardInv(d)
    BY DEF EnclaveInv, EnclaveTypeOK
  <1> QED
    BY <1>1, <1>2 DEF GuardInv

\* A result that was there before, or that is now that of c.
LEMMA FinishTypes ==
    ASSUME EnclaveTypeOK, NEW c \in Conn, NEW response \in Response,
           finish(c, response)
    PROVE  /\ result' \in [Conn -> Response] /\ result'[c] = response
           /\ \A d \in Conn \ {c} : result'[d] = result[d]
           /\ task' = [task EXCEPT ![c] = "done"] /\ task'[c] = "done"
  BY DEF finish, EnclaveTypeOK

\* The steps of a blocking task: it takes the guard, executes, and gives it back.
LEMMA ThreadPreserves ==
    ASSUME EnclaveInv, NEW c \in Conn, threadStep(c)
    PROVE  EnclaveInv'
  <1>1. EnclaveTypeOK /\ \A d \in Conn : ConnInv(d) /\ GuardInv(d)
    BY DEF EnclaveInv
  <1>2. /\ result \in [Conn -> Response]
        /\ task \in [Conn -> {"none", "pooled", "guard", "running",
                              "attesting", "done"}]
    BY <1>1 DEF EnclaveTypeOK
  <1>3. \A r : r.type = "Execute" => Answers(r, Plain("Error"))
    BY DEF Answers
  <1>4. CASE startAttest(c)
    <2>1. /\ task' = [task EXCEPT ![c] = "attesting"]
          /\ task'[c] = "attesting"
          /\ guard' \in Conn \cup {NoConn}
          /\ \A d \in Conn : GuardInv(d)'
      BY <1>2, <1>4, GuardKept DEF startAttest
    <2> QED
      BY <1>2, <1>4, <2>1, TaskMoves DEF startAttest
  <1>5. CASE finishAttest(c)
    <2>1. PICK r \in {Plain("SigningKeyAttestation"), Plain("Error")} :
             finish(c, r)
      BY <1>5 DEF finishAttest
    <2>2. r \in Response
      BY <2>1, PlainFrames
    <2>3. Answers(current(c), r)
      BY <1>1, <1>5, <2>1 DEF finishAttest, ConnInv, TaskInv, Answers
    <2>4. guard' \in Conn \cup {NoConn} /\ \A d \in Conn : GuardInv(d)'
      BY <1>1, <1>5, <2>1, <2>2, FinishTypes, GuardKept DEF finishAttest
    <2> QED
      BY <1>1, <1>5, <2>1, <2>2, <2>3, <2>4, FinishTypes, TaskMoves
      DEF finishAttest
  <1>6. CASE startExecute(c)
    <2>1. CASE finish(c, Plain("Error"))
      <3>1. Plain("Error") \in Response
        BY PlainFrames
      <3>2. guard' \in Conn \cup {NoConn} /\ \A d \in Conn : GuardInv(d)'
        BY <1>1, <1>6, <2>1, <3>1, FinishTypes, GuardKept DEF startExecute
      <3>3. Answers(current(c), Plain("Error")) /\ task[c] # "none"
        BY <1>3, <1>6 DEF startExecute
      <3> QED
        BY <1>1, <1>6, <2>1, <3>1, <3>2, <3>3, FinishTypes, TaskMoves
        DEF startExecute
    <2>2. CASE /\ current(c).cycle_limit <= MaxAllowedCycles
               /\ task' = [task EXCEPT ![c] = "guard"]
               /\ UNCHANGED result
      <3>1. /\ task'[c] = "guard"
            /\ guard' \in Conn \cup {NoConn}
            /\ \A d \in Conn : GuardInv(d)'
        BY <1>2, <1>6, <2>2, GuardKept DEF startExecute
      <3> QED
        BY <1>2, <1>6, <2>2, <3>1, TaskMoves DEF startExecute
    <2> QED
      BY <1>6, <2>1, <2>2 DEF startExecute
  <1>7. CASE takeGuard(c)
    <2>1. guard' = c /\ task'[c] = "running"
      BY <1>2, <1>7 DEF takeGuard
    \* The guard was free, so nobody runs.
    <2>2. \A d \in Conn \ {c} : task[d] # "running" /\ task'[d] = task[d]
      <3>1. guard = NoConn /\ \A d \in Conn \ {c} : task'[d] = task[d]
        BY <1>2, <1>7 DEF takeGuard
      <3> QED
        BY <1>1, <3>1, NoneAssumption DEF GuardInv
    <2>3. \A d \in Conn : GuardInv(d)'
      BY <2>1, <2>2 DEF GuardInv
    <2>4. current(c).type = "Execute" /\ current(c).cycle_limit <= MaxAllowedCycles
      BY <1>1, <1>7 DEF takeGuard, ConnInv, TaskInv
    <2> QED
      BY <1>2, <1>7, <2>1, <2>3, <2>4, TaskMoves DEF takeGuard
  <1>8. CASE finishExecute(c)
    <2>1. PICK r \in {SignedPublicValues(current(c).program), Plain("Error")} :
             finish(c, r)
      BY <1>8 DEF finishExecute
    <2>2. /\ current(c).type = "Execute" /\ task[c] # "none"
          /\ current(c).cycle_limit <= MaxAllowedCycles
      BY <1>1, <1>8 DEF finishExecute, ConnInv, TaskInv
    <2>3. current(c).program \in Program
      BY <1>1, <2>2, CurrentIsFrame, FrameFields
    <2>4. r \in Response
      BY <2>1, <2>3, PlainFrames
    <2>5. Answers(current(c), r)
      BY <2>1, <2>2 DEF Answers
    \* The one that ran held the guard, so nobody else runs.
    <2>6. \A d \in Conn \ {c} : task[d] # "running" /\ task'[d] = task[d]
      <3>1. task[c] = "running" /\ \A d \in Conn \ {c} : task'[d] = task[d]
        BY <1>2, <1>8, <2>1 DEF finishExecute, finish
      <3> QED
        BY <1>1, <3>1 DEF GuardInv
    <2>7. \A d \in Conn : GuardInv(d)'
      <3>1. task'[c] = "done" /\ guard' = NoConn
        BY <1>1, <1>8, <2>1, <2>4, FinishTypes DEF finishExecute
      <3> QED
        BY <2>6, <3>1, NoneAssumption DEF GuardInv
    <2> QED
      BY <1>1, <1>8, <2>1, <2>2, <2>4, <2>5, <2>7, FinishTypes, TaskMoves
      DEF finishExecute
  <1> QED
    BY <1>4, <1>5, <1>6, <1>7, <1>8 DEF threadStep

-----------------------------------------------------------------------------
\* The host, and the end of the enclave.

\* A handler has begun only on a connection that was opened.
Connected ==
    \A c \in Conn : alive /\ hostEnd[c] = "none" => handler[c] = "none"

\* The host is busy with itself: nothing goes up.
HostQuiet ==
    /\ UNCHANGED <<up, down, enclaveVars>>
    /\ hostEnd' \in [Conn -> {"none", "open", "dropped", "closed"}]
    /\ partial' \in [Conn -> Request \cup {NoRequest}]
    /\ \A c \in Conn : hostEnd'[c] = "none" => hostEnd[c] = "none"

\* What the host does without a frame, the enclave does not see.
LEMMA QuietPreserves ==
    ASSUME EnclaveInv, Connected, HostQuiet
    PROVE  EnclaveInv' /\ Connected'
  <1>1. EnclaveTypeOK /\ \A d \in Conn : ConnInv(d) /\ GuardInv(d)
    BY DEF EnclaveInv
  <1>2. EnclaveTypeOK'
    BY <1>1 DEF HostQuiet, enclaveVars, EnclaveTypeOK, StreamTypeOK
  <1>3. \A d \in Conn : ConnInv(d)'
    BY <1>1, Untouched DEF HostQuiet, enclaveVars
  <1>4. Connected'
    BY DEF HostQuiet, enclaveVars, Connected
  <1> QED
    BY <1>1, <1>2, <1>3, <1>4 DEF HostQuiet, enclaveVars, GuardInv, EnclaveInv

\* The host opens, sends and closes: frames lie behind those that were read.
LEMMA HostPreserves ==
    ASSUME EnclaveInv, Connected, NEW c \in Conn, HostStep(c)
    PROVE  EnclaveInv'
  <1>1. EnclaveTypeOK /\ \A d \in Conn : ConnInv(d) /\ GuardInv(d)
    BY DEF EnclaveInv
  <1>2. /\ up \in [Conn -> Seq(Frame)]
        /\ partial \in [Conn -> Request \cup {NoRequest}]
    BY <1>1 DEF EnclaveTypeOK, StreamTypeOK
  <1>3. CASE hostConnect(c)
    <2>1. EnclaveTypeOK'
      BY <1>1, <1>3 DEF hostConnect, connect, EnclaveTypeOK, StreamTypeOK
    <2>2. handler[c] = "none" /\ handler'[c] = "backlog"
      BY <1>1, <1>3 DEF Connected, hostConnect, connect, EnclaveTypeOK
    <2>3. ConnInv(c)'
      BY <1>1, <1>3, <2>2 DEF hostConnect, connect, ConnInv, Answered, TaskInv, OrderInv
    <2>4. \A d \in Conn \ {c} : ConnInv(d)'
      BY <1>1, <1>3, Untouched DEF hostConnect, connect, EnclaveTypeOK
    <2> QED
      BY <1>1, <1>3, <2>1, <2>3, <2>4 DEF hostConnect, GuardInv, EnclaveInv
  <1>3d. CASE hostConnectDropped(c)
    <2>1. EnclaveTypeOK'
      BY <1>1, <1>3d DEF hostConnectDropped, connectDropped, EnclaveTypeOK, StreamTypeOK
    <2>2. handler[c] = "none" /\ handler'[c] = "backlog"
      BY <1>1, <1>3d DEF Connected, hostConnectDropped, connectDropped, EnclaveTypeOK
    <2>3. ConnInv(c)'
      BY <1>1, <1>3d, <2>2
      DEF hostConnectDropped, connectDropped, ConnInv, Answered, TaskInv, OrderInv
    <2>4. \A d \in Conn \ {c} : ConnInv(d)'
      BY <1>1, <1>3d, Untouched DEF hostConnectDropped, connectDropped, EnclaveTypeOK
    <2> QED
      BY <1>1, <1>3d, <2>1, <2>3, <2>4 DEF hostConnectDropped, GuardInv, EnclaveInv
  <1>4. CASE hostBeginSend(c) \/ hostDrop(c) \/ hostReset(c)
    <2>1. HostQuiet
      BY <1>1, <1>4, AskedAssumption
      DEF hostBeginSend, beginSend, hostDrop, dropStream, hostReset, reset,
          HostQuiet, EnclaveTypeOK, StreamTypeOK
    <2> QED
      BY <2>1, QuietPreserves
  <1>5. ASSUME NEW tail \in Seq(Frame), up' = [up EXCEPT ![c] = @ \o tail],
               partial' = [partial EXCEPT ![c] = NoRequest],
               hostEnd' \in [Conn -> {"none", "open", "dropped", "closed"}],
               UNCHANGED <<down, enclaveVars>>
        PROVE  EnclaveInv'
    <2>1. up'[c] = up[c] \o tail /\ up' \in [Conn -> Seq(Frame)]
      BY <1>2, <1>5, ConcatProperties
    <2>2. EnclaveTypeOK'
      BY <1>1, <1>2, <1>5, <2>1
      DEF enclaveVars, EnclaveTypeOK, StreamTypeOK
    <2>3. ConnInv(c)'
      BY <1>1, <1>5, <2>1, FramesAdded DEF enclaveVars
    <2>4. \A d \in Conn \ {c} : ConnInv(d)'
      BY <1>1, <1>2, <1>5, Untouched DEF enclaveVars
    <2> QED
      BY <1>1, <1>5, <2>2, <2>3, <2>4 DEF enclaveVars, GuardInv, EnclaveInv
  <1>6. CASE hostEndSend(c)
    <2>1. partial[c] \in Frame /\ <<partial[c]>> \in Seq(Frame)
      BY <1>2, <1>6, PlainFrames DEF hostEndSend, endSend
    <2>2. up' = [up EXCEPT ![c] = @ \o <<partial[c]>>]
      BY <1>2, <1>6, <2>1, AppendIsConcat DEF hostEndSend, endSend
    <2> QED
      BY <1>1, <1>5, <1>6, <2>1, <2>2
      DEF hostEndSend, endSend, EnclaveTypeOK, StreamTypeOK
  <1>7. CASE hostCloseTask(c)
    <2>1. PICK tail \in IF partial[c] = NoRequest THEN {<<CloseSession>>}
                        ELSE Cut(partial[c]) :
             up' = [up EXCEPT ![c] = @ \o tail]
      BY <1>7 DEF hostCloseTask, closeTask
    <2>2. tail \in Seq(Frame)
      <3>1. <<CloseSession>> \in Seq(Frame)
        BY PlainFrames
      <3> QED
        BY <1>2, <2>1, <3>1, CutFrames
    <2>3. hostEnd' \in [Conn -> {"none", "open", "dropped", "closed"}]
      BY <1>1, <1>7 DEF hostCloseTask, closeTask, EnclaveTypeOK, StreamTypeOK
    <2> QED
      BY <1>5, <1>7, <2>1, <2>2, <2>3 DEF hostCloseTask, closeTask
  <1> QED
    BY <1>3, <1>3d, <1>4, <1>6, <1>7 DEF HostStep

\* The enclave's end leaves no task and no guard.
LEMMA CrashPreserves ==
    ASSUME EnclaveInv, crash
    PROVE  EnclaveInv'
  <1>1. EnclaveTypeOK /\ \A d \in Conn : ConnInv(d)
    BY DEF EnclaveInv
  <1>2. EnclaveTypeOK'
    BY <1>1 DEF crash, EnclaveTypeOK, StreamTypeOK, streamVars
  <1>3. \A d \in Conn : handler'[d] = "closed" /\ task'[d] = "none"
    BY DEF crash
  <1>4. \A d \in Conn : ConnInv(d)'
    BY <1>1, <1>3 DEF crash, streamVars, ConnInv, Answered, TaskInv, OrderInv
  <1>5. \A d \in Conn : GuardInv(d)'
    BY <1>3, NoneAssumption DEF crash, GuardInv
  <1> QED
    BY <1>2, <1>4, <1>5 DEF EnclaveInv

\* No handler works where no connection was opened.
LEMMA ConnectedPreserved ==
    ASSUME EnclaveTypeOK, Connected, Next
    PROVE  Connected'
  <1>1. CASE crash
    BY <1>1 DEF crash, Connected
  <1>2. ASSUME NEW c \in Conn, handlerStep(c) PROVE Connected'
    <2>1. /\ handler[c] # "none" /\ UNCHANGED <<alive, hostEnd>>
          /\ \A d \in Conn \ {c} : handler'[d] = handler[d]
      BY <1>2
      DEF handlerStep, handleMessage, accept, handleGetPublicKey,
          handleNotImplemented, handlePrint, answer, recv, send, spawnBlocking,
          handleCloseSession, handleEof, reply, streamVars, EnclaveTypeOK
    <2> QED
      BY <2>1 DEF Connected
  <1>3. ASSUME NEW c \in Conn, threadStep(c) PROVE Connected'
    <2>1. UNCHANGED <<alive, hostEnd, handler>>
      BY <1>3
      DEF threadStep, startAttest, finishAttest, startExecute, takeGuard,
          finishExecute, streamVars
    <2> QED
      BY <2>1 DEF Connected
  <1>4. ASSUME NEW c \in Conn, HostStep(c) PROVE Connected'
    <2>1. CASE hostConnect(c) \/ hostConnectDropped(c)
      <3>1. /\ hostEnd'[c] # "none" /\ UNCHANGED alive
            /\ \A d \in Conn \ {c} : hostEnd'[d] = hostEnd[d] /\ handler'[d] = handler[d]
        BY <2>1
        DEF hostConnect, connect, hostConnectDropped, connectDropped,
            EnclaveTypeOK, StreamTypeOK
      <3> QED
        BY <3>1 DEF Connected
    <2>2. CASE \/ hostBeginSend(c) \/ hostEndSend(c) \/ hostDrop(c)
               \/ hostCloseTask(c) \/ hostReset(c)
      <3>1. /\ UNCHANGED <<alive, handler>>
            /\ \A d \in Conn : hostEnd'[d] = "none" => hostEnd[d] = "none"
        BY <2>2
        DEF hostBeginSend, beginSend, hostEndSend, endSend, hostDrop, dropStream,
            hostCloseTask, closeTask, hostReset, reset, enclaveVars,
            EnclaveTypeOK, StreamTypeOK
      <3> QED
        BY <3>1 DEF Connected
    <2> QED
      BY <1>4, <2>1, <2>2 DEF HostStep
  <1> QED
    BY <1>1, <1>2, <1>3, <1>4 DEF Next, EnclaveStep

\* Every step of host and enclave.
LEMMA NextPreserves ==
    ASSUME EnclaveInv, Connected, Next
    PROVE  EnclaveInv' /\ Connected'
  <1>1. Connected'
    BY ConnectedPreserved DEF EnclaveInv
  <1>2. EnclaveInv'
    BY HandlerPreserves, ThreadPreserves, HostPreserves, CrashPreserves
    DEF Next, EnclaveStep
  <1> QED
    BY <1>1, <1>2

-----------------------------------------------------------------------------

\* Every state of the enclave under any host keeps its blocking tasks, its guard
\* and its answers in step (server.rs: handle_message, execute).
THEOREM EnclaveInvariant == Spec => [](EnclaveInv /\ Connected)
  <1>1. Init => EnclaveInv /\ Connected
    BY InitEstablishes DEF Init, EnclaveInit, Connected
  <1>2. EnclaveInv /\ Connected /\ [Next]_vars => EnclaveInv' /\ Connected'
    <2> SUFFICES ASSUME EnclaveInv, Connected, [Next]_vars
                 PROVE  EnclaveInv' /\ Connected'
      OBVIOUS
    <2>1. CASE Next
      BY <2>1, NextPreserves
    <2>2. CASE UNCHANGED vars
      <3>1. UNCHANGED <<hostEnd, up, down, partial, alive, handler, taken, task,
                        result, guard>>
        BY <2>2 DEF vars, streamVars, enclaveVars
      <3>2. EnclaveTypeOK' /\ Connected'
        BY <3>1 DEF EnclaveInv, EnclaveTypeOK, StreamTypeOK, Connected
      <3>3. \A d \in Conn : ConnInv(d)' /\ GuardInv(d)'
        BY <3>1, Untouched DEF EnclaveInv, GuardInv
      <3> QED
        BY <3>2, <3>3 DEF EnclaveInv
    <2> QED
      BY <2>1, <2>2
  <1> QED
    BY <1>1, <1>2, PTL DEF Spec

\* Types of the enclave and its connections, whatever hosts cut or abandon.
THEOREM EnclaveTypeCorrect == Spec => []EnclaveTypeOK
  <1>1. EnclaveInv => EnclaveTypeOK
    BY DEF EnclaveInv
  <1> QED
    BY <1>1, EnclaveInvariant, PTL

\* server.rs:40: at most one execution runs, for the one that runs holds the
\* execution guard.
THEOREM OneExecutionAtATime == Spec => []OneExecution
  <1>1. EnclaveInv => OneExecution
    BY DEF EnclaveInv, GuardInv, OneExecution
  <1> QED
    BY <1>1, EnclaveInvariant, PTL

\* execute, handle_connection: no handler ends, and no execution, that leaves a
\* thread or the guard behind.
THEOREM ThreadsAlwaysAwaited == Spec => []ThreadsAreAwaited
  <1>1. EnclaveInv => ThreadsAreAwaited
    BY DEF EnclaveInv, ConnInv, TaskInv, GuardInv, ThreadsAreAwaited
  <1> QED
    BY <1>1, EnclaveInvariant, PTL

\* handle_connection: outside debug mode the n-th answer on a connection
\* answers its n-th request, in every state.
THEOREM AnswersAlwaysInOrder ==
    ASSUME ~DebugMode
    PROVE  Spec => []AnswersInOrder
  <1>1. EnclaveInv => AnswersInOrder
    BY DEF EnclaveInv, ConnInv, Answered, OrderInv, AnswersInOrder
  <1> QED
    BY <1>1, EnclaveInvariant, PTL
=============================================================================
